--------------------------- MODULE BenchmarkExam ---------------------------
(***************************************************************************)
(* One player's sittings of the Benchmark Exam                             *)
(* (services/game/benchmark_exam_service.py, its repository, the partial   *)
(* unique index of benchmark_exam_attempts, and clear_benchmark_cap).      *)
(*                                                                         *)
(* Requests run in sessions of their own and read their clock first.  One  *)
(* step is what a request does between two waits: for a row lock or for    *)
(* the answer to a statement.  A sitting read before its lock was awaited  *)
(* keeps the values of that read, for the session holds the object.        *)
(***************************************************************************)
EXTENDS Integers, FiniteSets

CONSTANTS Requests, Sittings, Questions,  \* every paper asks the same questions
          Caps,                           \* LEVEL_CAPS
          RawLevel,                       \* level_for_exp(total_exp)
          PassPercent,
          TimeLimit,                      \* with EXPIRY_GRACE
          MaxClock,                       \* bound: how far the clock runs
          None

ExamAssumption ==
  /\ IsFiniteSet(Questions) /\ IsFiniteSet(Sittings) /\ Caps \subseteq Nat \ {0}
  /\ {RawLevel, TimeLimit, MaxClock} \subseteq Nat /\ PassPercent \in 1..100
  /\ None \notin Requests \cup Sittings \cup Questions \cup Nat

VARIABLES clock,
          sitting,  \* benchmark_exam_attempts
          cleared,  \* the profile's benchmark_cleared_level
          holder,   \* which session holds a sitting's row lock past a statement
          request   \* what every session does and what it holds

vars == <<clock, sitting, cleared, holder, request>>

BenchmarkAttemptStatus == {"IN_PROGRESS", "PASSED", "FAILED", "ABANDONED"}

\* "NEW": no row.  answers: whether each was right, None while unanswered.
BenchmarkExamAttempt == [cap : Caps \cup {0}, status : BenchmarkAttemptStatus \cup {"NEW"},
                         answers : [Questions -> BOOLEAN \cup {None}], expires : Nat]

Request == [at : {"idle", "locking", "checking", "abandoning", "closing", "creating", "answering",
                  "submitting", "reading", "saving"},
            now : Nat, cap : Caps \cup {0}, sitting : Sittings \cup {None},
            seen : [Questions -> BOOLEAN \cup {None}], question : Questions \cup {None},
            right : BOOLEAN, profile : Nat \cup {None}, then : {"idle", "checking"}]

TypeOK == /\ clock \in 0..MaxClock
          /\ sitting \in [Sittings -> BenchmarkExamAttempt]
          /\ cleared \in Caps \cup {0}
          /\ holder \in [Sittings -> Requests \cup {None}]
          /\ request \in [Requests -> Request]

Unanswered == [q \in Questions |-> None]
Unopened   == [cap |-> 0, status |-> "NEW", answers |-> Unanswered, expires |-> 0]
Idle == [at |-> "idle", now |-> 0, cap |-> 0, sitting |-> None, seen |-> Unanswered,
         question |-> None, right |-> FALSE, profile |-> None, then |-> "idle"]

Init == /\ clock = 0
        /\ sitting = [s \in Sittings |-> Unopened]
        /\ cleared = 0
        /\ holder = [s \in Sittings |-> None]
        /\ request = [r \in Requests |-> Idle]

Becomes(r, state) == request' = [request EXCEPT ![r] = state]
Freed(r)          == [s \in Sittings |-> IF holder[s] = r THEN None ELSE holder[s]]
\* The session closes: what it locked is free.
Ends(r)           == Becomes(r, Idle) /\ holder' = Freed(r)
Open              == {s \in Sittings : sitting[s].status = "IN_PROGRESS"}
Unlocked(r, s)    == holder[s] \in {None, r}

accepts_answers_at(s, now) == now <= sitting[s].expires

correct_count(answers) == Cardinality({q \in Questions : answers[q] = TRUE})

\* Mutant: an unanswered question is left out of the paper's length.
is_passing_of_answered(answers) ==
  correct_count(answers) * 100 >= Cardinality({q \in Questions : answers[q] # None}) * PassPercent

is_passing(answers) == correct_count(answers) * 100 >= Cardinality(Questions) * PassPercent

Verdict(answers) == IF is_passing(answers) THEN "PASSED" ELSE "FAILED"

-----------------------------------------------------------------------------
(* start: grade an open sitting whose time is up, check, draw, close, open. *)

StartSitting(r, cap) ==
  /\ request[r].at = "idle"
  /\ IF Open = {} THEN Becomes(r, [Idle EXCEPT !.at = "checking", !.now = clock, !.cap = cap])
     ELSE \E s \in Open : Becomes(r, [Idle EXCEPT !.at = "locking", !.now = clock, !.cap = cap,
                                                  !.sitting = s, !.seen = sitting[s].answers])
  /\ UNCHANGED <<clock, sitting, cleared, holder>>

\* `_lock_open_sitting' at last: the object still says IN_PROGRESS, whatever the row says.
GradeIfExpired(r) ==
  LET me == request[r]
      s  == me.sitting
  IN /\ me.at = "locking" /\ Unlocked(r, s)
     /\ IF accepts_answers_at(s, me.now)
        THEN /\ holder' = [holder EXCEPT ![s] = r]
             /\ Becomes(r, [me EXCEPT !.at = "checking"])
             /\ UNCHANGED sitting
        ELSE /\ sitting' = [sitting EXCEPT ![s].status = Verdict(me.seen)]
             /\ Becomes(r, IF is_passing(me.seen)
                           THEN [me EXCEPT !.at = "reading", !.then = "checking"]
                           ELSE [me EXCEPT !.at = "checking"])
             /\ UNCHANGED holder
     /\ UNCHANGED <<clock, cleared>>

\* The profile as the session holds it.
Held(r) == IF request[r].profile = None THEN cleared ELSE request[r].profile

Eligible(r) == request[r].cap > Held(r) /\ RawLevel >= request[r].cap

\* A paper is drawn, or the request is refused: not eligible, or too few questions.
DrawPaper(r) ==
  /\ request[r].at = "checking" /\ Eligible(r)
  /\ Becomes(r, [request[r] EXCEPT !.at = "abandoning", !.sitting = None, !.seen = Unanswered])
  /\ UNCHANGED <<clock, sitting, cleared, holder>>

Refuse(r) == /\ request[r].at = "checking"
             /\ Ends(r)
             /\ UNCHANGED <<clock, sitting, cleared>>

FindOpen(r) ==
  /\ request[r].at = "abandoning"
  /\ IF Open = {} THEN Becomes(r, [request[r] EXCEPT !.at = "creating"])
     ELSE \E s \in Open : Becomes(r, [request[r] EXCEPT !.at = "closing", !.sitting = s])
  /\ UNCHANGED <<clock, sitting, cleared, holder>>

Abandon(r) ==
  LET s == request[r].sitting IN
  /\ request[r].at = "closing" /\ Unlocked(r, s)
  /\ sitting' = [sitting EXCEPT ![s].status = "ABANDONED"]
  /\ holder' = Freed(r)
  /\ Becomes(r, [request[r] EXCEPT !.at = "creating", !.sitting = None])
  /\ UNCHANGED <<clock, cleared>>

Fresh == LET unused == {s \in Sittings : sitting[s].status = "NEW"}
         IN {s \in unused : s = CHOOSE t \in unused : TRUE}

Opened(r) == [cap |-> request[r].cap, status |-> "IN_PROGRESS", answers |-> Unanswered,
              expires |-> request[r].now + TimeLimit]

\* The partial unique index lets one sitting be open: a second insert is a 409.
CreateSitting(r) ==
  /\ request[r].at = "creating"
  /\ \/ Open # {} /\ UNCHANGED sitting
     \/ Open = {} /\ \E s \in Fresh : sitting' = [sitting EXCEPT ![s] = Opened(r)]
  /\ Ends(r)
  /\ UNCHANGED <<clock, cleared>>

-----------------------------------------------------------------------------
(* answer, from its clock to the commit under the row's lock.               *)

\* To a sitting already closed the lock only brings a refusal: left out.
SendAnswer(r, s, q, right) ==
  /\ request[r].at = "idle" /\ sitting[s].status = "IN_PROGRESS"
  /\ Becomes(r, [Idle EXCEPT !.at = "answering", !.now = clock, !.sitting = s, !.question = q,
                             !.right = right, !.seen = sitting[s].answers])
  /\ UNCHANGED <<clock, sitting, cleared, holder>>

\* Each question once, in time; an answer that comes late closes the sitting instead,
\* and leaves its cap to a later submit.
TakeAnswer(r) ==
  LET me == request[r]
      s  == me.sitting
  IN /\ me.at = "answering" /\ Unlocked(r, s)
     /\ \/ /\ sitting[s].status = "IN_PROGRESS" /\ accepts_answers_at(s, me.now)
           /\ sitting[s].answers[me.question] = None
           /\ sitting' = [sitting EXCEPT ![s].answers[me.question] = me.right]
        \/ /\ sitting[s].status = "IN_PROGRESS" /\ ~accepts_answers_at(s, me.now)
           /\ sitting' = [sitting EXCEPT ![s].status = Verdict(sitting[s].answers)]
        \/ /\ \/ sitting[s].status # "IN_PROGRESS"
              \/ accepts_answers_at(s, me.now) /\ sitting[s].answers[me.question] # None
           /\ UNCHANGED sitting
     /\ Ends(r)
     /\ UNCHANGED <<clock, cleared>>

-----------------------------------------------------------------------------
(* submit: grade once, and lift the cap of a pass, again if asked again.    *)

SendSubmit(r, s) ==
  /\ request[r].at = "idle" /\ sitting[s].status # "NEW"
  /\ Becomes(r, [Idle EXCEPT !.at = "submitting", !.sitting = s])
  /\ UNCHANGED <<clock, sitting, cleared, holder>>

Submit(r) ==
  LET s == request[r].sitting IN
  /\ request[r].at = "submitting" /\ Unlocked(r, s)
  /\ sitting' = IF sitting[s].status = "IN_PROGRESS"
                THEN [sitting EXCEPT ![s].status = Verdict(sitting[s].answers)] ELSE sitting
  /\ IF sitting'[s].status = "PASSED"
     THEN Becomes(r, [request[r] EXCEPT !.at = "reading", !.cap = sitting[s].cap]) /\ UNCHANGED holder
     ELSE Ends(r)
  /\ UNCHANGED <<clock, cleared>>

-----------------------------------------------------------------------------
(* clear_benchmark_cap: the profile is read, and written if the cap is new. *)

PassedCap(r) == IF request[r].then = "checking" THEN sitting[request[r].sitting].cap
                ELSE request[r].cap

ReadProfile(r) ==
  /\ request[r].at = "reading"
  /\ IF PassedCap(r) > cleared
     THEN Becomes(r, [request[r] EXCEPT !.at = "saving"]) /\ UNCHANGED holder
     ELSE IF request[r].then = "idle" THEN Ends(r)
     ELSE Becomes(r, [request[r] EXCEPT !.at = "checking", !.profile = cleared]) /\ UNCHANGED holder
  /\ UNCHANGED <<clock, sitting, cleared>>

ClearCap(r) ==
  /\ request[r].at = "saving"
  /\ cleared' = PassedCap(r)
  /\ IF request[r].then = "idle" THEN Ends(r)
     ELSE Becomes(r, [request[r] EXCEPT !.at = "checking", !.profile = PassedCap(r)])
          /\ UNCHANGED holder
  /\ UNCHANGED <<clock, sitting>>

\* A statement raises or the process dies: what was not committed is undone.
Raises(r) == /\ request[r].at # "idle"
             /\ Ends(r)
             /\ UNCHANGED <<clock, sitting, cleared>>

Tick == /\ clock < MaxClock /\ clock' = clock + 1
        /\ UNCHANGED <<sitting, cleared, holder, request>>

Next == \/ Tick
        \/ \E r \in Requests :
             \/ \E cap \in Caps : StartSitting(r, cap)
             \/ GradeIfExpired(r) \/ DrawPaper(r) \/ Refuse(r) \/ FindOpen(r) \/ Abandon(r)
             \/ CreateSitting(r)
             \/ \E s \in Sittings, q \in Questions, right \in BOOLEAN : SendAnswer(r, s, q, right)
             \/ TakeAnswer(r)
             \/ \E s \in Sittings : SendSubmit(r, s)
             \/ Submit(r) \/ ReadProfile(r) \/ ClearCap(r) \/ Raises(r)

Spec == Init /\ [][Next]_vars

-----------------------------------------------------------------------------
(* Nobody passes on a paper that does not: a verdict of PASSED, and a cap   *)
(* lifted, rest on a sitting whose stored answers are enough, even where a  *)
(* sitting is graded from answers read before its lock was awaited.         *)
CapsAreEarned ==
  /\ \A s \in Sittings : sitting[s].status = "PASSED" => is_passing(sitting[s].answers)
  /\ cleared # 0 => \E s \in Sittings : /\ sitting[s].cap = cleared
                                        /\ correct_count(sitting[s].answers) * 100
                                             >= Cardinality(Questions) * PassPercent

(* An answer taken is kept as it was given, however many arrive together,   *)
(* and through closing, grading and retries.                                *)
AnswersAreKept ==
  [][\A s \in Sittings, q \in Questions :
       sitting[s].answers[q] # None => sitting'[s].answers[q] = sitting[s].answers[q]]_vars

=============================================================================
