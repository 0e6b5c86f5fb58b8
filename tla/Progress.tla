------------------------------ MODULE Progress ------------------------------
(***************************************************************************)
(* One player's progress through one lesson                                *)
(* (services/progress/progress_service.py, its repository and              *)
(* services/game/lesson_rewards.py): grading tasks, study answers and won  *)
(* battles store attempts, recount the lesson and pay its completion.      *)
(*                                                                         *)
(* One step is one statement or commit of a request, each in a session of  *)
(* its own (READ COMMITTED).  A row read is held: an update writes the     *)
(* columns that differ from it and leaves the others as they are now.      *)
(* Grading tells right from wrong; QuizDraw has the rules.                 *)
(***************************************************************************)
EXTENDS Integers, FiniteSets

CONSTANTS Requests,    \* sessions that may be open at once
          Challenges,  \* of the lesson
          None

LessonProgressStatus == {"IN_PROGRESS", "COMPLETED"}
UserChallengeProgress == BOOLEAN
UserLessonProgress == [status : LessonProgressStatus, correct : Nat, completed : BOOLEAN]

ASSUME ProgressAssumption ==
  /\ IsFiniteSet(Challenges) /\ Challenges # {}
  /\ None \notin Requests \cup Challenges \cup UserChallengeProgress
  /\ None \notin UserLessonProgress

VARIABLES attempt,  \* user_challenge_progress: mastered, None without a row
          lesson,   \* user_lesson_progress, None without a row
          request,  \* what every session does, where it rests and what it has read
          rewards,  \* how often each part of a completion was paid
          overlap,  \* history: how often a payer found another request storing
          refused   \* history: a request raised before it was done

vars == <<attempt, lesson, request, rewards, overlap, refused>>

Parts == {"energy", "activity", "streak", "extras"}
Places == {"idle", "attempt", "record", "count", "lesson", "store"} \cup Parts

Request == [at : Places, kind : {"answer", "complete"}, challenge : Challenges \cup {None},
            right : BOOLEAN, seen : BOOLEAN \cup {None}, mastered : Nat,
            row : UserLessonProgress \cup {None}]

TypeOK == /\ attempt \in [Challenges -> UserChallengeProgress \cup {None}]
          /\ lesson \in UserLessonProgress \cup {None}
          /\ request \in [Requests -> Request]
          /\ rewards \in [Parts -> Nat]
          /\ overlap \in Nat /\ refused \in BOOLEAN

Done == [at |-> "idle", kind |-> "answer", challenge |-> None, right |-> FALSE,
         seen |-> None, mastered |-> 0, row |-> None]

Init == /\ attempt = [c \in Challenges |-> None]
        /\ lesson = None
        /\ request = [r \in Requests |-> Done]
        /\ rewards = [p \in Parts |-> 0]
        /\ overlap = 0 /\ refused = FALSE

Ends(r)     == request' = [request EXCEPT ![r] = Done]
Goes(r, to) == request' = [request EXCEPT ![r] = [Done EXCEPT !.at = to]]
history     == <<overlap, refused>>

count_mastered_challenges == Cardinality({c \in Challenges : attempt[c] = TRUE})
count_by_lesson           == Cardinality(Challenges)

-----------------------------------------------------------------------------
\* POST /check, or a lesson battle's grading task, once the answer is graded.
check_answer(r, c, right) ==
  /\ request[r].at = "idle"
  /\ request' = [request EXCEPT ![r] = [Done EXCEPT !.at = "attempt", !.challenge = c,
                                                    !.right = right]]
  /\ UNCHANGED <<attempt, lesson, rewards, history>>

\* A lesson battle was won.
mark_lesson_completed(r) ==
  /\ request[r].at = "idle"
  /\ request' = [request EXCEPT ![r] = [Done EXCEPT !.at = "count", !.kind = "complete"]]
  /\ UNCHANGED <<attempt, lesson, rewards, history>>

get_challenge_progress(r) ==
  /\ request[r].at = "attempt"
  /\ request' = [request EXCEPT ![r].at = "record",
                                ![r].seen = attempt[request[r].challenge]]
  /\ UNCHANGED <<attempt, lesson, rewards, history>>

\* Mutant: the row is written anew, so a later miss takes the mastery back.
RecordAnew(r) ==
  LET me == request[r] IN
  /\ me.at = "record"
  /\ attempt' = [attempt EXCEPT ![me.challenge] = me.right]
  /\ Goes(r, "count")
  /\ UNCHANGED <<lesson, rewards, history>>

\* `_record_attempt': an insert that must not find a row, or an update that only
\* ever sets mastered.
RecordAttempt(r) ==
  LET me == request[r] IN
  /\ me.at = "record"
  /\ me.seen = None => attempt[me.challenge] = None
  /\ attempt' = [attempt EXCEPT ![me.challenge] =
                   IF me.seen = None THEN me.right ELSE @ \/ me.right]
  /\ Goes(r, "count")
  /\ UNCHANGED <<lesson, rewards, history>>

\* `_recompute_lesson_progress', and the count of mark_lesson_completed.
Recompute(r) ==
  /\ request[r].at = "count"
  /\ request' = [request EXCEPT ![r].at = "lesson", ![r].mastered = count_mastered_challenges]
  /\ UNCHANGED <<attempt, lesson, rewards, history>>

get_lesson_progress(r) ==
  /\ request[r].at = "lesson"
  /\ request' = [request EXCEPT ![r].at = "store", ![r].row = lesson]
  /\ UNCHANGED <<attempt, lesson, rewards, history>>

-----------------------------------------------------------------------------
(* `_store_lesson_progress'.                                                *)

Completes(me) == me.kind = "complete" \/ me.mastered >= count_by_lesson

\* Completion is a ratchet.
StatusOf(me) == IF Completes(me) \/ (me.row # None /\ me.row.completed) THEN "COMPLETED"
                ELSE "IN_PROGRESS"

\* Mutant: any answer in a complete lesson completes it.
newly_completed_again(me) == Completes(me)

newly_completed(me) == Completes(me) /\ (me.row = None \/ ~me.row.completed)

\* The columns whose value differs from the row that was read.
Updated(me) == [status    |-> IF StatusOf(me) # me.row.status THEN StatusOf(me) ELSE lesson.status,
                correct   |-> IF me.mastered # me.row.correct THEN me.mastered ELSE lesson.correct,
                completed |-> lesson.completed \/ newly_completed(me)]

Storing == {r \in Requests : request[r].at \in {"store"} \cup Parts}

StoreLesson(r) ==
  LET me == request[r] IN
  /\ me.at = "store"
  /\ me.row = None => lesson = None
  /\ lesson' = IF me.row = None
               THEN [status |-> StatusOf(me), correct |-> me.mastered, completed |-> Completes(me)]
               ELSE Updated(me)
  /\ IF newly_completed(me) THEN Goes(r, "energy") ELSE Ends(r)
  /\ overlap' = IF newly_completed(me) /\ Storing # {r} THEN overlap + 1 ELSE overlap
  /\ UNCHANGED <<attempt, rewards, refused>>

-----------------------------------------------------------------------------
(* `on_lesson_completed', commit by commit; the extras never raise.         *)

After == [energy |-> "activity", activity |-> "streak", streak |-> "extras", extras |-> "idle"]

Pay(r, part) ==
  /\ request[r].at = part
  /\ rewards' = [rewards EXCEPT ![part] = @ + 1]
  /\ IF After[part] = "idle" THEN Ends(r) ELSE Goes(r, After[part])
  /\ UNCHANGED <<attempt, lesson, history>>

grant_for_lesson(r) == Pay(r, "energy")
RecordActivity(r)   == Pay(r, "activity")
SaveStreak(r)       == Pay(r, "streak")
SyncExtras(r)       == Pay(r, "extras")

\* An insert that finds a row, a statement that raises, or the process dying.
Raises(r) ==
  /\ request[r].at # "idle"
  /\ Ends(r)
  /\ refused' = TRUE
  /\ UNCHANGED <<attempt, lesson, rewards, overlap>>

Next == \E r \in Requests :
          \/ \E c \in Challenges, right \in BOOLEAN : check_answer(r, c, right)
          \/ mark_lesson_completed(r)
          \/ get_challenge_progress(r) \/ RecordAttempt(r)
          \/ Recompute(r) \/ get_lesson_progress(r) \/ StoreLesson(r)
          \/ grant_for_lesson(r) \/ RecordActivity(r) \/ SaveStreak(r) \/ SyncExtras(r)
          \/ Raises(r)

Spec == Init /\ [][Next]_vars

-----------------------------------------------------------------------------
(* Nothing learnt is lost: a mastered challenge stays mastered and a        *)
(* completed lesson completed, whatever a slower request holds of the rows  *)
(* it read before.                                                          *)
NothingIsUnlearnt ==
  [][/\ \A c \in Challenges : attempt[c] = TRUE => attempt'[c] = TRUE
     /\ lesson # None /\ lesson.completed
          => lesson'.completed /\ lesson'.status = "COMPLETED"]_vars

(* A player who has mastered every challenge is never left short of a       *)
(* completed lesson: the last attempt to commit is counted by its own       *)
(* request, unless some request was cut short.  And no part of a completion *)
(* is paid again but where two requests were storing the lesson at once.    *)
CompletionIsHonoured ==
  /\ ~refused /\ (\A r \in Requests : request[r].at = "idle") /\ (\A c \in Challenges : attempt[c] = TRUE)
       => lesson # None /\ lesson.completed
  /\ \A p \in Parts : rewards[p] <= 1 + overlap
=============================================================================
