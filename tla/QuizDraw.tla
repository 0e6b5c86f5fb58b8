------------------------------ MODULE QuizDraw ------------------------------
(***************************************************************************)
(* Drawing questions from the bank and grading what is answered            *)
(* (services/content/quiz_service.py, challenge_presenter.py, grading.py,  *)
(* the filters of the challenge repository, and the grading of             *)
(* services/pve/battle_runtime.py and services/duo/match_runtime.py).      *)
(*                                                                         *)
(* A challenge's options are the sequence its relationship loads, in the   *)
(* order of order_index.  The order questions are served in is left out;   *)
(* topic and difficulty are one filter.  An exam and a study answer load   *)
(* the challenge again, and an edit in between is not looked at here.      *)
(***************************************************************************)
EXTENDS Naturals, FiniteSetsExt, SequencesExt

CONSTANTS Lessons, Filters,
          Banks,         \* what the bank may hold: functions to Challenge
          MaxCount,      \* bound: how many questions are asked for
          OverFetch,     \* candidates read for each question: 5 in the code
          QUESTIONS_PER_LESSON,
          None

ChallengeOption == [id : Nat, text : STRING, correct : BOOLEAN]

Ids(options) == [i \in DOMAIN options |-> options[i].id]

\* No two options have one id.
Challenge == {challenge \in [lesson : Lessons, filter : Filters, type : {"SELECT", "ASSIST", "ORDER"},
                             options : Seq(ChallengeOption)] : IsInjective(Ids(challenge.options))}

IsBank(questions) == /\ IsFiniteSet(DOMAIN questions)
                     /\ \A c \in DOMAIN questions : questions[c] \in Challenge

QuizAssumption == /\ MaxCount \in Nat /\ OverFetch \in Nat \ {0}
                  /\ QUESTIONS_PER_LESSON \in Nat
                  /\ IsFiniteSet(Lessons) /\ None \notin Nat /\ None \notin Seq(Nat)
                  /\ \A questions \in Banks : IsBank(questions)

VARIABLES bank,   \* challenges
          drawn   \* the last set that was drawn, and for what

vars == <<bank, drawn>>

NoSet == [for |-> "nobody", lesson |-> None, filters |-> Filters, exclude |-> {}, count |-> 0,
          questions |-> {}]

TypeOK == /\ IsBank(bank)
          /\ drawn.for \in {"nobody", "lesson", "unit", "duo", "battle", "benchmark"}
          /\ drawn.questions \subseteq DOMAIN bank

Init == bank \in Banks /\ drawn = NoSet

OfId(challenge, id) == CHOOSE o \in ToSet(challenge.options) : o.id = id
Words(challenge, ids) == [i \in DOMAIN ids |-> OfId(challenge, ids[i]).text]

-----------------------------------------------------------------------------
(* Grading.                                                                 *)

\* Words are compared, tiles with the same one are interchangeable.
grade_ordered(challenge, ids) ==
  LET solution == challenge.options IN
  IF \E i \in DOMAIN ids : ids[i] \notin ToSet(Ids(solution)) THEN "NOT_FOUND"
  ELSE IF ~IsInjective(ids) THEN "INVALID"
  ELSE IF Words(challenge, ids) = Words(challenge, Ids(solution)) THEN "CORRECT" ELSE "WRONG"

grade_single_choice(challenge, id) ==
  IF id = None THEN "INVALID"
  ELSE IF id \notin ToSet(Ids(challenge.options)) THEN "NOT_FOUND"
  ELSE IF OfId(challenge, id).correct THEN "CORRECT" ELSE "WRONG"

\* The type decides which of the two is looked at.
grade(challenge, selected_option_id, selected_option_ids) ==
  IF challenge.type # "ORDER" THEN grade_single_choice(challenge, selected_option_id)
  ELSE IF selected_option_ids = None THEN "INVALID"
  ELSE grade_ordered(challenge, selected_option_ids)

\* The tiles in their order; or what is right to tap, in whose list only membership counts.
answer_key(challenge) ==
  IF challenge.type = "ORDER" THEN Ids(challenge.options)
  ELSE {o.id : o \in {option \in ToSet(challenge.options) : option.correct}}

HasKey(challenge) == answer_key(challenge) # (IF challenge.type = "ORDER" THEN <<>> ELSE {})

\* What a lesson battle's engine takes as an answer, and how it grades it by the key.
answer_fits(challenge, ids) ==
  LET available == ToSet(Ids(challenge.options)) IN
  /\ ids # <<>> /\ ToSet(ids) \subseteq available
  /\ IF challenge.type = "ORDER" THEN Len(ids) = Cardinality(available) /\ IsInjective(ids)
     ELSE Len(ids) = 1

is_correct(challenge, key, ids) ==
  IF challenge.type # "ORDER" THEN ids[1] \in key
  ELSE Words(challenge, ids) = Words(challenge, key)

\* What a learner sees of the options: `shuffled' in the order they are shown.
to_public_challenge(challenge, shuffled) ==
  [i \in DOMAIN shuffled |->
     [id |-> shuffled[i].id, text |-> shuffled[i].text,
      order_index |-> IF challenge.type = "ORDER" THEN i
                      ELSE CHOOSE j \in DOMAIN challenge.options : challenge.options[j] = shuffled[i]]]

-----------------------------------------------------------------------------
(* Drawing.                                                                 *)

Lesser(m, n) == IF m < n THEN m ELSE n

\* `limit' rows, whichever the database's order makes the first.
Limited(rows, limit) == kSubset(Lesser(limit, Cardinality(rows)), rows)

list_by_lesson_filtered(lesson, filters, limit) ==
  Limited({c \in DOMAIN bank : bank[c].lesson = lesson /\ bank[c].filter \in filters}, limit)

list_random_filtered(limit, filters) ==
  Limited({c \in DOMAIN bank : bank[c].filter \in filters}, limit)

pool_limit(count, exclude) == count * OverFetch + Cardinality(exclude)

Serves(request, questions) == drawn' = [request EXCEPT !.questions = questions] /\ UNCHANGED bank

draw_questions(lesson, count, filters, exclude) ==
  UNION {Limited(pool \ exclude, count) :
           pool \in list_by_lesson_filtered(lesson, filters, pool_limit(count, exclude))}

generate_for_lesson(lesson, count, filters, exclude) ==
  \E questions \in draw_questions(lesson, count, filters, exclude) :
    Serves([NoSet EXCEPT !.for = "lesson", !.lesson = lesson, !.filters = filters, !.count = count,
                         !.exclude = exclude], questions)

\* One set for every lesson of the unit; which set is whose, the questions tell.
generate_for_unit(count, filters, exclude) ==
  \E part \in [Lessons -> SUBSET DOMAIN bank] :
    /\ \A lesson \in Lessons : part[lesson] \in draw_questions(lesson, count, filters, exclude)
    /\ Serves([NoSet EXCEPT !.for = "unit", !.filters = filters, !.count = count, !.exclude = exclude],
              UNION Range(part))

\* A duo round is one tap.
duo_takes(c) == bank[c].type # "ORDER" /\ \E o \in ToSet(bank[c].options) : o.correct

generate_for_duo(count, filters) ==
  \E pool \in list_random_filtered(count * 3, filters) :
    \E questions \in Limited({c \in pool : duo_takes(c)}, count) :
      Serves([NoSet EXCEPT !.for = "duo", !.filters = filters, !.count = count], questions)

Answerable(c) == HasKey(bank[c])

generate_for_battle(lesson, count) ==
  \E pool \in list_by_lesson_filtered(lesson, Filters, count * 2) :
    \E questions \in Limited({c \in pool : Answerable(c)}, count) :
      Serves([NoSet EXCEPT !.for = "battle", !.lesson = lesson, !.count = count], questions)

\* What one lesson has in the paper's pool.
lesson_paper(lesson) ==
  UNION {Limited({c \in candidates : Answerable(c)}, QUESTIONS_PER_LESSON) :
           candidates \in list_by_lesson_filtered(lesson, Filters, QUESTIONS_PER_LESSON * 2)}

draw_for_benchmark(count) ==
  \E part \in [Lessons -> SUBSET DOMAIN bank] :
    /\ \A lesson \in Lessons : part[lesson] \in lesson_paper(lesson)
    /\ \E questions \in Limited(UNION Range(part), count) :
         Serves([NoSet EXCEPT !.for = "benchmark", !.count = count], questions)

\* No draw depends on another: a behaviour makes one.
Next == /\ drawn = NoSet
        /\ \E count \in 1..MaxCount :
             \/ \E filters \in SUBSET Filters \ {{}} :
                  \/ generate_for_duo(count, filters)
                  \/ \E exclude \in SUBSET DOMAIN bank :
                       \/ generate_for_unit(count, filters, exclude)
                       \/ \E lesson \in Lessons : generate_for_lesson(lesson, count, filters, exclude)
             \/ \E lesson \in Lessons : generate_for_battle(lesson, count)
             \/ draw_for_benchmark(count)

Spec == Init /\ [][Next]_vars

-----------------------------------------------------------------------------
Of(lesson)  == {c \in DOMAIN bank : bank[c].lesson = lesson}
Number(set) == Cardinality(set)

\* Enough of `takes' were drawn from `rows', of which at most `spare' are no use.
Filled(questions, rows, takes(_), count, spare) ==
  LET useful == {c \in rows : takes(c)} IN
  Number(rows \ useful) <= spare => Number(questions) >= Lesser(count, Number(useful))

(* Though only a part of the bank is read, a quiz holds as many questions   *)
(* as were asked for, or all there are: a lesson's, of those not seen; a    *)
(* fight's and an exam's, as long as no more are of no use than the         *)
(* over-fetch allows for.                                                   *)
DrawIsFull ==
  LET questions == drawn.questions
      count     == drawn.count
      unseen(lesson) == {c \in Of(lesson) \ drawn.exclude : bank[c].filter \in drawn.filters}
  IN /\ drawn.for \in {"lesson", "unit"} =>
          /\ questions \subseteq UNION {unseen(lesson) : lesson \in Lessons}
          /\ \A lesson \in IF drawn.for = "unit" THEN Lessons ELSE {drawn.lesson} :
               Number(questions \cap Of(lesson)) = Lesser(count, Number(unseen(lesson)))
     /\ drawn.for = "duo" =>
          Filled(questions, {c \in DOMAIN bank : bank[c].filter \in drawn.filters}, duo_takes, count, 2 * count)
     /\ drawn.for = "battle" => Filled(questions, Of(drawn.lesson), Answerable, count, count)
     /\ drawn.for = "benchmark" /\ count >= QUESTIONS_PER_LESSON * Number(Lessons) =>
          \A lesson \in Lessons :
            Filled(questions \cap Of(lesson), Of(lesson), Answerable, QUESTIONS_PER_LESSON, QUESTIONS_PER_LESSON)

\* The answers a round can express: one tap, or tiles in some order.
Orderings(c) == {ids \in SeqOf(ToSet(Ids(bank[c].options)), Len(bank[c].options)) : IsInjective(ids)}

(* Whatever a fight or an exam serves can be answered right by what it is   *)
(* graded with, and in a duo also wrong where there is something wrong:     *)
(* no round is lost, or won, before it is shown.                            *)
RoundsCanBeWon ==
  \A c \in drawn.questions :
    LET ids == ToSet(Ids(bank[c].options)) IN
    /\ drawn.for = "duo" =>
         /\ \E id \in ids : grade(bank[c], id, None) = "CORRECT"
         /\ \A id \in ids : id \in answer_key(bank[c]) <=> grade(bank[c], id, None) = "CORRECT"
    /\ drawn.for \in {"battle", "benchmark"} =>
         \E id \in ids, tiles \in Orderings(c) : grade(bank[c], id, tiles) = "CORRECT"

(* What the engine of a lesson battle tells the learner is what the study   *)
(* path records, on every answer it takes; and the key it reveals is right. *)
OneVerdict ==
  drawn.for = "battle" =>
    \A c \in drawn.questions :
      LET key == answer_key(bank[c]) IN
      /\ \A ids \in IF bank[c].type = "ORDER" THEN {key} ELSE {<<id>> : id \in key} :
           answer_fits(bank[c], ids)
      /\ \A ids \in Orderings(c) :
           answer_fits(bank[c], ids) =>
             (is_correct(bank[c], key, ids) <=> grade(bank[c], ids[1], ids) = "CORRECT")

Views(challenge) ==
  {to_public_challenge(challenge, shuffled) :
     shuffled \in {s \in SeqOf(ToSet(challenge.options), Len(challenge.options)) : IsInjective(s)
                                                 /\ Len(s) = Len(challenge.options)}}

(* What is shown of tiles to be ordered is the same whatever their order:   *)
(* the view does not carry the answer.                                      *)
ViewKeepsSecret ==
  \A c \in drawn.questions : bank[c].type = "ORDER" =>
    Views(bank[c]) = Views([bank[c] EXCEPT !.options = Reverse(@)])

=============================================================================
