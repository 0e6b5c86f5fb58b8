------------------------------ MODULE LlmClient ------------------------------
(***************************************************************************)
(* One question to the AI: what is sent of the conversation, the attempts  *)
(* of the client, and what is made of the answer                           *)
(* (services/ai/llm_client.py; prompts.py and the four callers of          *)
(* services/conversation/conversation_service.py).                         *)
(*                                                                         *)
(* An answer is one of a few kinds; a line is its speaker and its number.  *)
(* When a conversation may be asked about, and what its rows become, is    *)
(* Conversation's.                                                         *)
(***************************************************************************)
EXTENDS Integers, SequencesExt

CONSTANTS MaxHistory,        \* bound: the lines said so far
          HISTORY_MESSAGES,  \* those that are sent: 20 in the code
          HINT_COUNT,
          Scores,            \* what the model may give for a score
          None

LlmAssumption == /\ MaxHistory \in Nat /\ HISTORY_MESSAGES \in Nat \ {0} /\ HINT_COUNT \in Nat \ {0}
                 /\ Scores \subseteq Int /\ None \notin Int

VARIABLES said,      \* the conversation's lines, by role
          purpose,   \* what the AI is asked for
          attempt,   \* of the call under way, 0 between two
          asked,     \* calls begun
          posts,     \* history: requests sent
          response,  \* the last response
          outcome    \* what the caller gets

vars == <<said, purpose, attempt, asked, posts, response, outcome>>

Roles       == {"user", "model"}
Purposes    == {"reply", "translate", "hint", "feedback"}
InJson      == {"hint", "feedback"}
Statuses    == {401, 402, 429, 500, 502, 503, 504}
RETRYABLE_STATUS_CODES == {429, 500, 502, 503, 504}

\* A body may be no JSON at all; a content may be blank, nothing but the marker of a goal
\* that is reached, or, asked for as JSON, of another shape.
Contents  == {"blank", "marker", "text", "text and marker", "other shape", "fits"}
Response(kind, status, content, score, hints) ==
  [kind |-> kind, status |-> status, content |-> content, score |-> score, hints |-> hints]
Responses ==
  {Response("no answer", 0, "blank", 0, 0), Response("garbled", 200, "blank", 0, 0)} \cup
  {Response("refused", status, "blank", 0, 0) : status \in Statuses} \cup
  {Response("answer", 200, content, 0, 0) : content \in Contents \ {"fits"}} \cup
  {Response("answer", 200, "fits", score, hints) : score \in Scores, hints \in 0..(HINT_COUNT + 1)}

Outcome == [ends : {"answered", "unavailable", "raises"}, score : Int, hints : Nat, goal_done : BOOLEAN]

TypeOK == /\ said \in Seq(Roles) /\ purpose \in Purposes
          /\ attempt \in 0..2 /\ asked \in 0..2 /\ posts \in Nat
          /\ response \in Responses \cup {None} /\ outcome \in Outcome \cup {None}

-----------------------------------------------------------------------------
(* What is sent of a conversation.                                          *)

ChatTurn(role, lines) == [role |-> role, lines |-> lines]
CONVERSATION_START    == 0

\* The last lines, each with its number.
to_chat_turns(roles) ==
  LET skipped == IF Len(roles) > HISTORY_MESSAGES THEN Len(roles) - HISTORY_MESSAGES ELSE 0 IN
  [i \in 1..(Len(roles) - skipped) |-> ChatTurn(roles[i + skipped], <<i + skipped>>)]

\* Neighbours of one speaker become one turn.
joined(so_far, turn) ==
  IF so_far # <<>> /\ Last(so_far).role = turn.role
  THEN [so_far EXCEPT ![Len(so_far)] = ChatTurn(turn.role, Last(so_far).lines \o turn.lines)]
  ELSE Append(so_far, turn)

merged(turns) ==
  LET upto[n \in 0..Len(turns)] == IF n = 0 THEN <<>> ELSE joined(upto[n - 1], turns[n])
  IN upto[Len(turns)]

normalize_turns(turns) ==
  LET own == merged(turns) IN
  IF own = <<>> THEN <<ChatTurn("user", <<CONVERSATION_START>>)>>
  ELSE IF Head(own).role # "user" THEN <<ChatTurn("user", <<CONVERSATION_START>>)>> \o own
  ELSE own

-----------------------------------------------------------------------------
Init == /\ purpose \in Purposes
        /\ said \in UNION {[1..n -> Roles] : n \in 1..MaxHistory}
        \* A reply is asked for after the learner's line; the others say one thing.
        /\ IF purpose = "reply" THEN Last(said) = "user" ELSE said = <<"user">>
        /\ attempt = 0 /\ asked = 0 /\ posts = 0 /\ response = None /\ outcome = None

Gives(ends)  == outcome' = [ends |-> ends, score |-> 0, hints |-> 0, goal_done |-> FALSE]
Asks         == attempt' = 1 /\ asked' = asked + 1 /\ outcome' = None
Unavailable  == attempt' = 0 /\ Gives("unavailable") /\ UNCHANGED asked

Ask == /\ outcome = None /\ asked = 0
       /\ Asks
       /\ UNCHANGED <<said, purpose, posts, response>>

Answered == response # None /\ response.kind = "answer"

\* Worth one more try.
Retryable(r) == r.kind = "no answer" \/ (r.kind = "refused" /\ r.status \in RETRYABLE_STATUS_CODES)

\* One attempt; what comes back is looked at before anything else is sent.
Post(r) ==
  /\ attempt > 0 /\ outcome = None
  /\ posts' = posts + 1 /\ response' = r
  /\ \/ r.kind = "answer" /\ attempt' = 0 /\ UNCHANGED <<asked, outcome>>
     \/ r.kind = "garbled" /\ attempt' = 0 /\ Gives("raises") /\ UNCHANGED asked
     \/ Retryable(r) /\ attempt = 1 /\ attempt' = 2 /\ UNCHANGED <<asked, outcome>>
     \/ r.kind = "refused" /\ ~Retryable(r) /\ Unavailable
     \/ Retryable(r) /\ attempt = 2 /\ Unavailable
  /\ UNCHANGED <<said, purpose>>

Blank == response.content = "blank"

Returned == attempt = 0 /\ asked > 0 /\ outcome = None /\ Answered

generate_text ==
  /\ Returned /\ purpose \notin InJson
  /\ IF Blank \/ (purpose = "reply" /\ response.content = "marker") THEN Unavailable
     ELSE /\ outcome' = [ends |-> "answered", score |-> 0, hints |-> 0,
                         goal_done |-> purpose = "reply" /\ response.content = "text and marker"]
          /\ UNCHANGED <<attempt, asked>>
  /\ UNCHANGED <<said, purpose, posts, response>>

\* The limits the prompt asks for.
Tidied(score) == IF score < 0 THEN 0 ELSE IF score > 100 THEN 100 ELSE score
Hints(number) == IF number > HINT_COUNT THEN HINT_COUNT ELSE number

\* A blank one is asked for once more, one of another shape is not.
generate_json ==
  /\ Returned /\ purpose \in InJson
  /\ IF Blank /\ asked = 1 THEN Asks
     ELSE IF response.content # "fits" \/ (purpose = "hint" /\ response.hints = 0) THEN Unavailable
     ELSE /\ outcome' = [ends |-> "answered", score |-> Tidied(response.score),
                         hints |-> Hints(response.hints), goal_done |-> FALSE]
          /\ UNCHANGED <<attempt, asked>>
  /\ UNCHANGED <<said, purpose, posts, response>>

Next == Ask \/ (\E r \in Responses : Post(r)) \/ generate_text \/ generate_json

Spec == Init /\ [][Next]_vars

-----------------------------------------------------------------------------
Sent == normalize_turns(to_chat_turns(said))

(* However a history is cut and whatever replies it misses, what is sent    *)
(* opens with the learner and alternates, and says all of it, in order,     *)
(* each line in a turn of the one who said it.                              *)
SentAlternates ==
  LET own == IF Head(Sent).lines = <<CONVERSATION_START>> THEN Tail(Sent) ELSE Sent
      cut == IF Len(said) > HISTORY_MESSAGES THEN Len(said) - HISTORY_MESSAGES ELSE 0
  IN /\ Head(Sent).role = "user"
     /\ \A i \in 1..(Len(Sent) - 1) : Sent[i].role # Sent[i + 1].role
     /\ own # <<>> /\ Head(Head(own).lines) = cut + 1 /\ Last(Last(own).lines) = Len(said)
     /\ \A i \in 1..(Len(own) - 1) : Head(own[i + 1].lines) = Last(own[i].lines) + 1
     /\ \A i \in DOMAIN own :
          /\ \A j \in 1..(Len(own[i].lines) - 1) : own[i].lines[j + 1] = own[i].lines[j] + 1
          /\ \A j \in DOMAIN own[i].lines : said[own[i].lines[j]] = own[i].role
     /\ purpose = "reply" => Last(Sent).role = "user"

(* A learner waits for two requests, for four only if the AI answered with  *)
(* nothing; is told it is unavailable only when it gave nothing to use; and *)
(* what is passed on is within its limits.                                  *)
AskedInReason ==
  /\ posts <= 2 * asked /\ (asked = 2 => purpose \in InJson)
  /\ outcome # None /\ outcome.ends = "unavailable" /\ Answered =>
       IF purpose \in InJson THEN response.content # "fits" \/ response.hints = 0
       ELSE response.content \in {"blank", "marker"}
  /\ outcome # None /\ outcome.ends = "answered" =>
       /\ outcome.score \in 0..100 /\ outcome.hints <= HINT_COUNT
       /\ purpose = "hint" => outcome.hints > 0
       /\ purpose \in InJson => response.content = "fits"

=============================================================================
