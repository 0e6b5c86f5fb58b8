---------------------------- MODULE Conversation ----------------------------
(***************************************************************************)
(* One learner's practice conversations with the AI                        *)
(* (services/conversation/conversation_service.py, its repository, the     *)
(* unique (session_id, seq) of its messages and the client of              *)
(* services/ai/llm_client.py): the first conversation line by line, those  *)
(* after it only as far as the daily limit counts them.                    *)
(*                                                                         *)
(* One step is one statement or commit of a request, or its wait for the   *)
(* AI.  The conversation a request has loaded is the one it goes on with;  *)
(* a commit writes the columns it changed.                                 *)
(***************************************************************************)
EXTENDS Integers, Sequences, FiniteSets

CONSTANTS Requests, MaxTurns, SessionsPerDay, MaxLines,  \* MaxLines: bound on what is said
          None

ConversationStatus == {"ACTIVE", "FINISHED"}
MessageRole == {"USER", "ASSISTANT"}

ConversationSession == [status : ConversationStatus, user_turns : Nat, goal_reached : BOOLEAN,
                        feedback : BOOLEAN]

ConversationAssumption == /\ {MaxTurns, SessionsPerDay, MaxLines} \subseteq Nat
                          /\ None \notin ConversationSession

VARIABLES session,  \* conversation_sessions: the first row of the day
          lines,    \* conversation_messages of it, by seq
          started,  \* how many conversations were started today
          request,  \* what every request does and holds
          tracked   \* history: finishes counted toward the daily quests

vars == <<session, lines, started, request, tracked>>

Request == [at : {"idle", "creating", "loaded", "asking", "replying", "saving", "tracking"},
            for : {"start", "send", "retry", "finish", "delete"},
            session : ConversationSession \cup {None}, seq : Nat]

TypeOK == /\ session \in ConversationSession \cup {None}
          /\ lines \in Seq(MessageRole)
          /\ started \in Nat /\ tracked \in Nat
          /\ request \in [Requests -> Request]

Idle == [at |-> "idle", for |-> "start", session |-> None, seq |-> 0]

Init == /\ session = None /\ lines = <<>> /\ started = 0 /\ tracked = 0
        /\ request = [r \in Requests |-> Idle]

Becomes(r, state) == request' = [request EXCEPT ![r] = state]
Waits == UNCHANGED <<session, lines, started, tracked>>

-----------------------------------------------------------------------------
(* start: count the day's conversations, then open one more.                *)

\* Rows that still exist are counted: a deleted conversation gives its place back.
Counted == IF session = None /\ started > 0 THEN started - 1 ELSE started

count_started_since(r) ==
  /\ request[r].at = "idle" /\ Counted < SessionsPerDay
  /\ Becomes(r, [Idle EXCEPT !.at = "creating"])
  /\ Waits

create_session(r) ==
  /\ request[r].at = "creating"
  /\ started' = started + 1
  /\ IF started = 0
     THEN /\ session' = [status |-> "ACTIVE", user_turns |-> 0, goal_reached |-> FALSE,
                         feedback |-> FALSE]
          /\ lines' = <<"ASSISTANT">>
     ELSE UNCHANGED <<session, lines>>
  /\ Becomes(r, Idle)
  /\ UNCHANGED tracked

-----------------------------------------------------------------------------
(* send, retry, finish and delete all load the conversation first.          *)

Load(r, what) ==
  /\ request[r].at = "idle" /\ session # None
  /\ Becomes(r, [Idle EXCEPT !.at = "loaded", !.for = what, !.session = session])
  /\ Waits

is_closed(held) == held.status = "FINISHED" \/ held.user_turns >= MaxTurns
Awaiting        == lines # <<>> /\ lines[Len(lines)] = "USER"

\* Mutant: a conversation waiting for its reply takes another line.
MayAnswerAnything(r) ==
  LET me == request[r] IN
  CASE me.for = "send"   -> ~is_closed(me.session)
    [] me.for = "retry"  -> me.session.status # "FINISHED" /\ Awaiting
    [] me.for = "finish" -> ~me.session.feedback /\ \E i \in DOMAIN lines : lines[i] = "USER"
    [] OTHER             -> FALSE

\* What the lines allow, now that they are read; anything else is refused.
MayGoOn(r) ==
  LET me == request[r] IN
  CASE me.for = "send"   -> ~is_closed(me.session) /\ ~Awaiting
    [] me.for = "retry"  -> me.session.status # "FINISHED" /\ Awaiting
    [] me.for = "finish" -> ~me.session.feedback /\ \E i \in DOMAIN lines : lines[i] = "USER"
    [] OTHER             -> FALSE

Following == [send |-> "asking", retry |-> "replying", finish |-> "saving"]

messages(r) ==
  /\ request[r].at = "loaded" /\ request[r].for # "delete"
  /\ Becomes(r, IF ~MayGoOn(r) THEN Idle
                ELSE [request[r] EXCEPT !.at = Following[request[r].for], !.seq = Len(lines) + 1])
  /\ Waits

\* A line at the position the request counted: taken positions are refused, and so is
\* one in a conversation that is gone.
AddMessage(r, role) ==
  /\ session # None /\ Len(lines) + 1 = request[r].seq
  /\ lines' = Append(lines, role)

\* The learner's line is committed before the AI is asked.
send(r) ==
  LET me == request[r] IN
  /\ me.at = "asking" /\ Len(lines) < MaxLines
  /\ AddMessage(r, "USER")
  /\ session' = [session EXCEPT !.user_turns = me.session.user_turns + 1]
  /\ Becomes(r, [me EXCEPT !.at = "replying", !.seq = @ + 1])
  /\ UNCHANGED <<started, tracked>>

\* The AI has answered; it may say the goal is reached.
Reply(r, goal_done) ==
  LET me == request[r] IN
  /\ me.at = "replying" /\ Len(lines) < MaxLines
  /\ AddMessage(r, "ASSISTANT")
  /\ session' = [session EXCEPT !.goal_reached = @ \/ goal_done]
  /\ Becomes(r, Idle)
  /\ UNCHANGED <<started, tracked>>

\* The feedback has come.
finish(r) ==
  /\ request[r].at = "saving" /\ session # None
  /\ session' = [session EXCEPT !.status = "FINISHED", !.feedback = TRUE]
  /\ Becomes(r, [request[r] EXCEPT !.at = "tracking"])
  /\ UNCHANGED <<lines, started, tracked>>

track_quietly(r) ==
  /\ request[r].at = "tracking"
  /\ tracked' = tracked + 1
  /\ Becomes(r, Idle)
  /\ UNCHANGED <<session, lines, started>>

delete_session(r) ==
  /\ request[r].at = "loaded" /\ request[r].for = "delete"
  /\ session' = None /\ lines' = <<>>
  /\ Becomes(r, Idle)
  /\ UNCHANGED <<started, tracked>>

\* The AI does not answer, a statement is refused, or the process dies.
Raises(r) == request[r].at # "idle" /\ Becomes(r, Idle) /\ Waits

Next == \E r \in Requests :
          \/ count_started_since(r) \/ create_session(r)
          \/ \E what \in {"send", "retry", "finish", "delete"} : Load(r, what)
          \/ messages(r) \/ send(r)
          \/ \E goal_done \in BOOLEAN : Reply(r, goal_done)
          \/ finish(r) \/ track_quietly(r) \/ delete_session(r) \/ Raises(r)

Spec == Init /\ [][Next]_vars

-----------------------------------------------------------------------------
(* Learner and AI take turns: no line is said twice or answered twice, with *)
(* sends, retries and late replies racing for a position, and never are     *)
(* more turns counted than lines were said.                                 *)
LinesAlternate ==
  /\ \A i \in DOMAIN lines : lines[i] = (IF i % 2 = 1 THEN "ASSISTANT" ELSE "USER")
  /\ session # None => session.user_turns <= Len(lines) \div 2

(* A reply, a retry or a send still on its way does not reopen a            *)
(* conversation that has been finished, nor forget its feedback or goal.    *)
FinishedStays ==
  [][session # None /\ session' # None
       => /\ session.status = "FINISHED" => session'.status = "FINISHED" /\ session'.feedback
          /\ session.goal_reached => session'.goal_reached]_vars

=============================================================================
