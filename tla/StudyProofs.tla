------------------------------ MODULE StudyProofs ------------------------------
(***************************************************************************)
(* Proofs about the services of MCStudy: the lesson, the Benchmark exam,   *)
(* the conversation, the daily quests and their draw, the arithmetic of    *)
(* experience and levels, the AI's client, and what a player owns and      *)
(* carries.                                                                *)
(*                                                                         *)
(* Each has an inductive invariant of its own; the last section puts them  *)
(* side by side and states the theorems of the composed specification.     *)
(***************************************************************************)
EXTENDS MCStudy, Sequences, FiniteSetTheorems, WellFoundedInduction, TLAPS

\* Counting is the same in the instances.
LEMMA Counting ==
  /\ \A S : Exam!Cardinality(S) = Cardinality(S) /\ Daily!Cardinality(S) = Cardinality(S)
  /\ \A S : Tree!Cardinality(S) = Cardinality(S)
  /\ \A S : (Exam!IsFiniteSet(S) <=> IsFiniteSet(S)) /\ (Daily!IsFiniteSet(S) <=> IsFiniteSet(S))
<1>1. \A S : Exam!Cardinality(S) = Cardinality(S)
  BY DEF Exam!Cardinality, Cardinality
<1>2. \A S : Daily!Cardinality(S) = Cardinality(S)
  BY DEF Daily!Cardinality, Cardinality
<1>3. \A S : Exam!IsFiniteSet(S) <=> IsFiniteSet(S)
  BY DEF Exam!IsFiniteSet, IsFiniteSet
<1>4. \A S : Daily!IsFiniteSet(S) <=> IsFiniteSet(S)
  BY DEF Daily!IsFiniteSet, IsFiniteSet
<1>5. \A S : Tree!Cardinality(S) = Cardinality(S)
  BY DEF Tree!Cardinality, Cardinality
<1> QED BY <1>1, <1>2, <1>3, <1>4, <1>5

-----------------------------------------------------------------------------
(* Lesson progress.                                                         *)

\* What a request still owes a part of a completion, by where it rests.
Before   == [energy   |-> {"energy"}, activity |-> {"energy", "activity"},
             streak   |-> {"energy", "activity", "streak"}, extras |-> Parts]
Owing(p) == {r \in Requests : request[r].at \in Before[p]}

IsComplete == lesson # None /\ lesson.completed

\* Those about to store a lesson they read before it was complete.
Behind == {r \in Requests : /\ request[r].at = "store"
                            /\ request[r].row = None \/ ~request[r].row.completed}

\* One completion is everybody's; every other was stored under another's eyes.
Room == IF IsComplete /\ Behind = {} THEN 1 ELSE 0

PartIsPaid(p) == IsFiniteSet(Owing(p)) /\ rewards[p] + Cardinality(Owing(p)) <= overlap + Room

\* A request that has counted, or will count, every challenge.
Counts(job) == \/ job.at = "count"
               \/ job.at \in {"lesson", "store"} /\ Completes(job)

AllMastered == \A c \in Challenges : attempt[c] = TRUE

ProgressInv ==
  /\ TypeOK
  /\ \A r \in Requests :
       /\ request[r].at \in {"attempt", "record"} => request[r].challenge \in Challenges
       /\ request[r].at = "record" /\ request[r].seen # None
            => attempt[request[r].challenge] # None
       /\ request[r].at = "store" /\ request[r].row # None
            => /\ lesson # None /\ (request[r].row.completed => lesson.completed)
               /\ request[r].row.completed <=> request[r].row.status = "COMPLETED"
  /\ lesson # None => (lesson.completed <=> lesson.status = "COMPLETED")
  /\ AllMastered /\ ~refused => IsComplete \/ \E r \in Requests : Counts(request[r])
  /\ \A p \in Parts : PartIsPaid(p)

Owes(at, p) == IF at \in Before[p] THEN 1 ELSE 0

LEMMA IdleOwesNothing ==
  ASSUME NEW at \in Places, at \notin Parts, NEW p \in Parts
  PROVE  Owes(at, p) = 0
BY DEF Owes, Before, Parts, Places

LEMMA NoneIsNoRow == None \notin UserLessonProgress /\ None \notin BOOLEAN /\ None \notin Challenges
BY ProgressAssumption DEF UserChallengeProgress

LEMMA ChallengesCounted ==
  /\ IsFiniteSet(Challenges) /\ Challenges # {}
  /\ count_by_lesson \in Nat /\ count_mastered_challenges \in Nat
  /\ AllMastered => count_mastered_challenges = count_by_lesson
<1>1. IsFiniteSet(Challenges) /\ Challenges # {}
  BY ProgressAssumption
<1>2. {c \in Challenges : attempt[c] = TRUE} \subseteq Challenges
  OBVIOUS
<1>3. AllMastered => {c \in Challenges : attempt[c] = TRUE} = Challenges
  BY DEF AllMastered
<1> QED
  BY <1>1, <1>2, <1>3, FS_CardinalityType, FS_Subset DEF count_by_lesson, count_mastered_challenges

LEMMA DoneIsTyped == Done \in Request /\ Done.at = "idle" /\ Done.row = None
BY DEF Done, Request, Places

(* A request that moves takes what it owes with it.                         *)
LEMMA OwingMoves ==
  ASSUME NEW r \in Requests, NEW job \in Request, request \in [Requests -> Request],
         request' = [request EXCEPT ![r] = job],
         NEW p \in Parts, IsFiniteSet(Owing(p))
  PROVE  /\ IsFiniteSet(Owing(p)') /\ Cardinality(Owing(p)) \in Nat
         /\ Cardinality(Owing(p)') = Cardinality(Owing(p)) + Owes(job.at, p) - Owes(request[r].at, p)
<1> DEFINE S == Owing(p) \ {r}
<1>1. \A q \in Requests : request'[q] = IF q = r THEN job ELSE request[q]
  OBVIOUS
<1>2. IsFiniteSet(S) /\ r \notin S
  BY FS_RemoveElement
<1>3. /\ Owing(p) = IF request[r].at \in Before[p] THEN S \cup {r} ELSE S
      /\ Owing(p)' = IF job.at \in Before[p] THEN S \cup {r} ELSE S
  BY <1>1 DEF Owing
<1>4. /\ IsFiniteSet(S \cup {r}) /\ Cardinality(S \cup {r}) = Cardinality(S) + 1
      /\ Cardinality(S) \in Nat
  BY <1>2, FS_AddElement, FS_CardinalityType
<1> HIDE DEF S
<1> QED BY <1>2, <1>3, <1>4 DEF Owes

(* The first state is one, and every step leads to another.                 *)
LEMMA ProgressStart == Init => ProgressInv
<1> SUFFICES ASSUME Init PROVE ProgressInv
  OBVIOUS
<1>1. TypeOK
  BY DoneIsTyped DEF Init, TypeOK, UserChallengeProgress
<1>2. \A r \in Requests : request[r] = Done
  BY DEF Init
<1>3. ~AllMastered
  BY ChallengesCounted, NoneIsNoRow DEF Init, AllMastered
<1>4. ASSUME NEW p \in Parts PROVE PartIsPaid(p)
  <2>1. Owing(p) = {}
    BY <1>2, DoneIsTyped DEF Owing, Before, Parts
  <2>2. rewards[p] = 0 /\ overlap = 0 /\ Room \in 0..1
    BY DEF Init, Room
  <2> QED BY <2>1, <2>2, FS_EmptySet DEF PartIsPaid
<1> QED BY <1>1, <1>2, <1>3, <1>4, DoneIsTyped DEF ProgressInv, Init

(* What every step but the storing of the lesson shares.                    *)
LEMMA LessonUntouched ==
  ASSUME ProgressInv, NEW r \in Requests, NEW job \in Request,
         request' = [request EXCEPT ![r] = job],
         lesson' = lesson, overlap' = overlap,
         attempt' \in [Challenges -> UserChallengeProgress \cup {None}],
         rewards' \in [Parts -> Nat], refused' \in BOOLEAN,
         \A p \in Parts : rewards'[p] + Owes(job.at, p) <= rewards[p] + Owes(request[r].at, p),
         \A c \in Challenges : attempt[c] # None => attempt'[c] # None,
         job.at \in {"attempt", "record"} => job.challenge \in Challenges,
         job.at = "record" /\ job.seen # None => attempt'[job.challenge] # None,
         job.at = "store" => job.row = lesson,
         AllMastered' /\ ~refused' =>
           IsComplete \/ Counts(job) \/ (AllMastered /\ ~refused /\ ~Counts(request[r]))
  PROVE  ProgressInv'
<1>1. /\ request \in [Requests -> Request] /\ lesson \in UserLessonProgress \cup {None}
      /\ overlap \in Nat /\ rewards \in [Parts -> Nat]
  BY DEF ProgressInv, TypeOK
<1>2. TypeOK'
  BY <1>1 DEF TypeOK
<1>3. \A q \in Requests : request'[q] = IF q = r THEN job ELSE request[q]
  BY <1>1
<1>4. \A q \in Requests :
       /\ request'[q].at \in {"attempt", "record"} => request'[q].challenge \in Challenges
       /\ request'[q].at = "record" /\ request'[q].seen # None
            => attempt'[request'[q].challenge] # None
       /\ request'[q].at = "store" /\ request'[q].row # None
            => /\ lesson # None /\ (request'[q].row.completed => lesson.completed)
               /\ request'[q].row.completed <=> request'[q].row.status = "COMPLETED"
  BY <1>3 DEF ProgressInv
<1>5. IsComplete' = IsComplete
  BY DEF IsComplete
<1>6. AllMastered' /\ ~refused' => IsComplete \/ \E q \in Requests : Counts(request'[q])
  <2> SUFFICES ASSUME AllMastered', ~refused', ~IsComplete, ~Counts(job)
               PROVE  \E q \in Requests : Counts(request'[q])
    BY <1>3
  <2>1. PICK q \in Requests : Counts(request[q])
    BY DEF ProgressInv
  <2>2. q # r
    BY <2>1
  <2> QED BY <1>3, <2>1, <2>2
<1>7. ASSUME NEW p \in Parts PROVE PartIsPaid(p)'
  <2>1. IsComplete => Behind' \subseteq Behind
    BY <1>3, NoneIsNoRow DEF Behind, IsComplete
  <2>2. Room \in Nat /\ Room' \in Nat /\ Room <= Room'
    BY <1>5, <2>1 DEF Room
  <2>3. IsFiniteSet(Owing(p)) /\ rewards[p] + Cardinality(Owing(p)) <= overlap + Room
    BY DEF ProgressInv, PartIsPaid
  <2>4. /\ IsFiniteSet(Owing(p)') /\ Cardinality(Owing(p)) \in Nat
        /\ Cardinality(Owing(p)') = Cardinality(Owing(p)) + Owes(job.at, p) - Owes(request[r].at, p)
    BY <1>1, <2>3, OwingMoves
  <2>5. rewards'[p] + Owes(job.at, p) <= rewards[p] + Owes(request[r].at, p)
    OBVIOUS
  <2>6. rewards[p] \in Nat /\ rewards'[p] \in Nat /\ Owes(job.at, p) \in Nat /\ Owes(request[r].at, p) \in Nat
    BY <1>1 DEF Owes
  <2>7. rewards'[p] + Cardinality(Owing(p)') <= overlap + Room'
    BY <1>1, <2>2, <2>3, <2>4, <2>5, <2>6
  <2> QED BY <2>4, <2>7 DEF PartIsPaid
<1>8. lesson' # None => (lesson'.completed <=> lesson'.status = "COMPLETED")
  BY DEF ProgressInv
<1> QED BY <1>2, <1>4, <1>5, <1>6, <1>7, <1>8 DEF ProgressInv

LEMMA ProgressNotStore ==
  ASSUME ProgressInv, NEW r \in Requests,
         \/ \E c \in Challenges, right \in BOOLEAN : check_answer(r, c, right)
         \/ mark_lesson_completed(r)
         \/ get_challenge_progress(r) \/ RecordAttempt(r)
         \/ Recompute(r) \/ get_lesson_progress(r)
         \/ grant_for_lesson(r) \/ RecordActivity(r) \/ SaveStreak(r) \/ SyncExtras(r)
         \/ Raises(r)
  PROVE  ProgressInv'
<1>1. /\ request \in [Requests -> Request] /\ lesson \in UserLessonProgress \cup {None}
      /\ attempt \in [Challenges -> UserChallengeProgress \cup {None}]
      /\ rewards \in [Parts -> Nat] /\ overlap \in Nat /\ refused \in BOOLEAN
  BY DEF ProgressInv, TypeOK
<1>2. request[r] \in Request /\ request[r].at \in Places
  BY <1>1 DEF Request
<1>3. /\ \A p \in Parts : Owes("idle", p) = 0 /\ Owes("attempt", p) = 0 /\ Owes("record", p) = 0
      /\ \A p \in Parts : Owes("count", p) = 0 /\ Owes("lesson", p) = 0 /\ Owes("store", p) = 0
      /\ \A p \in Parts : Owes(request[r].at, p) \in 0..1
  BY IdleOwesNothing DEF Places, Parts, Owes
<1>4. AllMastered /\ ~refused => IsComplete \/ \E q \in Requests : Counts(request[q])
  BY DEF ProgressInv
\* The rows stay as they are.
<1>5. ASSUME NEW job \in Request, request' = [request EXCEPT ![r] = job],
             UNCHANGED <<attempt, lesson, rewards, overlap>>, refused' \in BOOLEAN, refused => refused',
             job.at \notin Parts,
             job.at \in {"attempt", "record"} => job.challenge \in Challenges,
             job.at = "record" /\ job.seen # None => attempt[job.challenge] # None,
             job.at = "store" => job.row = lesson,
             Counts(request[r]) /\ ~refused' /\ AllMastered => Counts(job)
      PROVE  ProgressInv'
  <2>1. job.at \in Places /\ \A p \in Parts : Owes(job.at, p) = 0
    BY IdleOwesNothing, <1>5 DEF Request
  <2>2. AllMastered' = AllMastered
    BY <1>5 DEF AllMastered
  <2>3. \A p \in Parts : rewards'[p] + Owes(job.at, p) <= rewards[p] + Owes(request[r].at, p)
    BY <1>1, <1>3, <1>5, <2>1
  <2>4. AllMastered' /\ ~refused' =>
          IsComplete \/ Counts(job) \/ (AllMastered /\ ~refused /\ ~Counts(request[r]))
    BY <1>1, <1>5, <2>2
  <2> QED BY <1>1, <1>5, <2>3, <2>4, LessonUntouched
<1>6. ASSUME NEW c \in Challenges, NEW right \in BOOLEAN, check_answer(r, c, right)
      PROVE  ProgressInv'
  <2> DEFINE job == [Done EXCEPT !.at = "attempt", !.challenge = c, !.right = right]
  <2>1. /\ job \in Request /\ job.at = "attempt" /\ job.challenge = c
        /\ request' = [request EXCEPT ![r] = job] /\ request[r].at = "idle"
        /\ UNCHANGED <<attempt, lesson, rewards, overlap, refused>>
    BY <1>6 DEF check_answer, Request, Done, Places, history
  <2>2. ~Counts(request[r])
    BY <2>1 DEF Counts
  <2> HIDE DEF job
  <2> QED BY <1>1, <1>5, <2>1, <2>2 DEF Parts
<1>7. CASE mark_lesson_completed(r)
  <2> DEFINE job == [Done EXCEPT !.at = "count", !.kind = "complete"]
  <2>1. /\ job \in Request /\ job.at = "count"
        /\ request' = [request EXCEPT ![r] = job]
        /\ UNCHANGED <<attempt, lesson, rewards, overlap, refused>>
    BY <1>7 DEF mark_lesson_completed, Request, Done, Places, history
  <2>2. Counts(job)
    BY <2>1 DEF Counts
  <2> HIDE DEF job
  <2> QED BY <1>1, <1>5, <2>1, <2>2 DEF Parts
<1>8. CASE get_challenge_progress(r)
  <2> DEFINE job == [request[r] EXCEPT !.at = "record", !.seen = attempt[request[r].challenge]]
  <2>1. request[r].at = "attempt" /\ request[r].challenge \in Challenges
    BY <1>8 DEF get_challenge_progress, ProgressInv
  <2>2. attempt[request[r].challenge] \in BOOLEAN \cup {None}
    BY <1>1, <2>1 DEF UserChallengeProgress
  <2>3. /\ job \in Request /\ job.at = "record" /\ job.challenge = request[r].challenge
        /\ job.seen = attempt[request[r].challenge]
        /\ request' = [request EXCEPT ![r] = job]
        /\ UNCHANGED <<attempt, lesson, rewards, overlap, refused>>
    BY <1>1, <1>2, <1>8, <2>2 DEF get_challenge_progress, Request, Places, history
  <2>4. ~Counts(request[r])
    BY <2>1 DEF Counts
  <2> HIDE DEF job
  <2> QED BY <1>1, <1>5, <2>1, <2>3, <2>4 DEF Parts
<1>9. CASE RecordAttempt(r)
  <2> DEFINE job == [Done EXCEPT !.at = "count"]
             c   == request[r].challenge
  <2>1. /\ job \in Request /\ job.at = "count" /\ request' = [request EXCEPT ![r] = job]
        /\ request[r].at = "record" /\ c \in Challenges
        /\ UNCHANGED <<lesson, rewards, overlap, refused>>
    BY <1>9 DEF RecordAttempt, Goes, Request, Done, Places, history, ProgressInv
  <2>2. request[r].right \in BOOLEAN
    BY <1>2 DEF Request
  <2>3. request[r].seen = None \/ attempt[c] \in BOOLEAN
    BY <1>1, <2>1 DEF ProgressInv, UserChallengeProgress
  <2>4. attempt' = [attempt EXCEPT ![c] = IF request[r].seen = None THEN request[r].right
                                          ELSE attempt[c] \/ request[r].right]
    BY <1>9 DEF RecordAttempt
  <2>5. attempt' \in [Challenges -> UserChallengeProgress \cup {None}]
    BY <1>1, <2>2, <2>3, <2>4 DEF UserChallengeProgress
  <2>6. \A d \in Challenges : attempt[d] # None => attempt'[d] # None
    BY <1>1, <2>1, <2>2, <2>3, <2>4, NoneIsNoRow
  <2>7. Counts(job)
    BY <2>1 DEF Counts
  <2>8. \A p \in Parts : rewards'[p] + Owes(job.at, p) <= rewards[p] + Owes(request[r].at, p)
    BY <1>1, <1>3, <2>1
  <2> HIDE DEF job, c
  <2> QED BY <1>1, <2>1, <2>5, <2>6, <2>7, <2>8, LessonUntouched
<1>10. CASE Recompute(r)
  <2> DEFINE job == [request[r] EXCEPT !.at = "lesson", !.mastered = count_mastered_challenges]
  <2>1. /\ job \in Request /\ job.at = "lesson" /\ request' = [request EXCEPT ![r] = job]
        /\ job.mastered = count_mastered_challenges
        /\ UNCHANGED <<attempt, lesson, rewards, overlap, refused>>
    BY <1>1, <1>2, <1>10, ChallengesCounted DEF Recompute, Request, Places, history
  <2>2. AllMastered => Counts(job)
    BY <2>1, ChallengesCounted DEF Counts, Completes
  <2> HIDE DEF job
  <2> QED BY <1>1, <1>5, <2>1, <2>2 DEF Parts
<1>11. CASE get_lesson_progress(r)
  <2> DEFINE job == [request[r] EXCEPT !.at = "store", !.row = lesson]
  <2>1. /\ job \in Request /\ job.at = "store" /\ request' = [request EXCEPT ![r] = job]
        /\ job.row = lesson /\ job.mastered = request[r].mastered /\ job.kind = request[r].kind
        /\ request[r].at = "lesson"
        /\ UNCHANGED <<attempt, lesson, rewards, overlap, refused>>
    BY <1>1, <1>2, <1>11 DEF get_lesson_progress, Request, Places, history
  <2>2. Counts(request[r]) => Counts(job)
    BY <2>1 DEF Counts, Completes
  <2> HIDE DEF job
  <2> QED BY <1>1, <1>5, <2>1, <2>2 DEF Parts
<1>12. ASSUME NEW q \in Parts, Pay(r, q) PROVE ProgressInv'
  <2> DEFINE job == IF After[q] = "idle" THEN Done ELSE [Done EXCEPT !.at = After[q]]
  <2>1. /\ job \in Request /\ job.at = After[q] /\ request' = [request EXCEPT ![r] = job]
        /\ request[r].at = q /\ After[q] \in {"activity", "streak", "extras", "idle"}
        /\ rewards' = [rewards EXCEPT ![q] = rewards[q] + 1]
        /\ UNCHANGED <<attempt, lesson, overlap, refused>>
    <3>1. After[q] \in {"activity", "streak", "extras", "idle"}
      BY DEF After, Parts
    <3>2. /\ request[r].at = q /\ rewards' = [rewards EXCEPT ![q] = rewards[q] + 1]
          /\ UNCHANGED <<attempt, lesson, overlap, refused>>
          /\ request' = [request EXCEPT ![r] = job]
      BY <1>12 DEF Pay, Ends, Goes, history
    <3>3. /\ [Done EXCEPT !.at = After[q]] \in Request
          /\ [Done EXCEPT !.at = After[q]].at = After[q]
      BY <3>1 DEF Done, Request, Places, Parts
    <3>4. job \in Request /\ job.at = After[q]
      BY <3>3, DoneIsTyped
    <3> HIDE DEF job
    <3> QED BY <3>1, <3>2, <3>4
  <2>2. ~Counts(request[r])
    BY <2>1 DEF Counts, Parts
  <2>3. rewards' \in [Parts -> Nat]
    BY <1>1, <2>1
  <2>4. ASSUME NEW p \in Parts
        PROVE  rewards'[p] + Owes(job.at, p) <= rewards[p] + Owes(request[r].at, p)
    <3>1. rewards[p] \in Nat /\ rewards'[p] = IF p = q THEN rewards[p] + 1 ELSE rewards[p]
      BY <1>1, <2>1
    <3>2. Owes(After[q], p) + (IF p = q THEN 1 ELSE 0) <= Owes(q, p)
          /\ Owes(After[q], p) \in Nat /\ Owes(q, p) \in Nat
      BY DEF Owes, After, Parts, Before
    <3> QED BY <2>1, <3>1, <3>2
  <2>5. AllMastered' = AllMastered
    BY <2>1 DEF AllMastered
  <2> HIDE DEF job
  <2> QED BY <1>1, <2>1, <2>2, <2>3, <2>4, <2>5, LessonUntouched
<1>13. CASE Raises(r)
  <2>1. /\ request' = [request EXCEPT ![r] = Done] /\ refused' = TRUE
        /\ UNCHANGED <<attempt, lesson, rewards, overlap>>
    BY <1>13 DEF Raises, Ends
  <2> QED BY <1>1, <1>5, <2>1, DoneIsTyped DEF Parts
<1>14. {"energy", "activity", "streak", "extras"} \subseteq Parts
  BY DEF Parts
<1> QED
  BY <1>6, <1>7, <1>8, <1>9, <1>10, <1>11, <1>12, <1>13, <1>14
  DEF grant_for_lesson, RecordActivity, SaveStreak, SyncExtras

(* Storing: what was held of the row is no newer than the row.              *)
LEMMA StoringKeeps ==
  ASSUME ProgressInv, NEW r \in Requests, StoreLesson(r)
  PROVE  /\ lesson' \in UserLessonProgress
         /\ IsComplete => lesson'.completed
         /\ lesson'.completed <=> lesson'.status = "COMPLETED"
         /\ Completes(request[r]) => lesson'.completed
         /\ newly_completed(request[r]) => lesson'.completed /\ r \in Behind
<1> DEFINE me == request[r]
<1>1. /\ me \in Request /\ lesson \in UserLessonProgress \cup {None} /\ None \notin UserLessonProgress
      /\ me.row \in UserLessonProgress \cup {None} /\ me.mastered \in Nat
  BY NoneIsNoRow DEF ProgressInv, TypeOK, Request
<1>2. /\ me.at = "store" /\ (me.row = None => lesson = None)
      /\ me.row # None => /\ lesson # None /\ (me.row.completed => lesson.completed)
                          /\ me.row.completed <=> me.row.status = "COMPLETED"
      /\ lesson # None => (lesson.completed <=> lesson.status = "COMPLETED")
  BY DEF StoreLesson, ProgressInv
<1>3. lesson' = IF me.row = None
                THEN [status |-> StatusOf(me), correct |-> me.mastered, completed |-> Completes(me)]
                ELSE Updated(me)
  BY DEF StoreLesson
<1>4. StatusOf(me) \in LessonProgressStatus /\ Completes(me) \in BOOLEAN
  BY DEF StatusOf, LessonProgressStatus, Completes
<1>5. newly_completed(me) <=> Completes(me) /\ (me.row = None \/ ~me.row.completed)
  BY DEF newly_completed
<1>6. StatusOf(me) = "COMPLETED" <=> Completes(me) \/ (me.row # None /\ me.row.completed)
  BY DEF StatusOf
<1>7. newly_completed(me) => r \in Behind
  BY <1>2, <1>5 DEF Behind
<1>8. CASE me.row = None
  <2>1. lesson' = [status |-> StatusOf(me), correct |-> me.mastered, completed |-> Completes(me)]
    BY <1>3, <1>8
  <2> HIDE DEF me
  <2>2. /\ lesson' \in UserLessonProgress /\ lesson'.completed = Completes(me)
        /\ lesson'.status = StatusOf(me)
    BY <1>1, <1>4, <2>1 DEF UserLessonProgress
  <2> QED BY <1>2, <1>5, <1>6, <1>7, <1>8, <2>2 DEF IsComplete, me
<1>9. CASE me.row # None
  <2>1. lesson' = [status    |-> IF StatusOf(me) # me.row.status THEN StatusOf(me) ELSE lesson.status,
                   correct   |-> IF me.mastered # me.row.correct THEN me.mastered ELSE lesson.correct,
                   completed |-> lesson.completed \/ newly_completed(me)]
    BY <1>3, <1>9 DEF Updated
  <2> HIDE DEF me
  <2>2. lesson \in UserLessonProgress /\ me.row \in UserLessonProgress
    BY <1>1, <1>2, <1>9
  <2>3. lesson.completed \in BOOLEAN /\ me.row.completed \in BOOLEAN /\ newly_completed(me) \in BOOLEAN
    BY <2>2 DEF UserLessonProgress, newly_completed, Completes
  <2>4. /\ lesson' \in UserLessonProgress
        /\ lesson'.completed = (lesson.completed \/ newly_completed(me))
        /\ lesson'.status = IF StatusOf(me) # me.row.status THEN StatusOf(me) ELSE lesson.status
    BY <1>1, <1>4, <2>1, <2>2, <2>3 DEF UserLessonProgress
  <2>5. lesson'.completed <=> lesson'.status = "COMPLETED"
    <3>1. StatusOf(me) \in {"IN_PROGRESS", "COMPLETED"} /\ me.row.status \in {"IN_PROGRESS", "COMPLETED"}
      BY <1>4, <2>2 DEF UserLessonProgress, LessonProgressStatus
    <3> QED BY <1>2, <1>5, <1>6, <1>9, <2>3, <2>4, <3>1
  <2> QED BY <1>2, <1>5, <1>7, <1>9, <2>3, <2>4, <2>5 DEF IsComplete, me
<1> QED BY <1>8, <1>9

LEMMA ProgressStore ==
  ASSUME ProgressInv, NEW r \in Requests, StoreLesson(r)
  PROVE  ProgressInv'
<1> DEFINE new == newly_completed(request[r])
           job == IF new THEN [Done EXCEPT !.at = "energy"] ELSE Done
<1>1. /\ request \in [Requests -> Request] /\ overlap \in Nat /\ rewards \in [Parts -> Nat]
      /\ request[r].at = "store" /\ UNCHANGED <<attempt, rewards, refused>>
  BY DEF StoreLesson, ProgressInv, TypeOK
<1>2. /\ job \in Request /\ request' = [request EXCEPT ![r] = job]
      /\ job.at = IF new THEN "energy" ELSE "idle"
  <2>1. /\ [Done EXCEPT !.at = "energy"] \in Request /\ [Done EXCEPT !.at = "energy"].at = "energy"
    BY DEF Done, Request, Places, Parts
  <2>2. request' = [request EXCEPT ![r] = job]
    BY DEF StoreLesson, Goes, Ends
  <2> QED BY <2>1, <2>2, DoneIsTyped
<1>3. \A q \in Requests : request'[q] = IF q = r THEN job ELSE request[q]
  BY <1>1, <1>2
<1>4. overlap' = IF new /\ Storing # {r} THEN overlap + 1 ELSE overlap
  BY DEF StoreLesson
<1> HIDE DEF job
<1>5. /\ lesson' \in UserLessonProgress /\ None \notin UserLessonProgress
      /\ IsComplete => IsComplete'
      /\ lesson'.completed <=> lesson'.status = "COMPLETED"
      /\ Completes(request[r]) => IsComplete'
      /\ new => IsComplete' /\ r \in Behind
  BY StoringKeeps, NoneIsNoRow DEF IsComplete
<1>6. TypeOK'
  BY <1>1, <1>2, <1>4, <1>5 DEF ProgressInv, TypeOK
<1>7. \A q \in Requests :
       /\ request'[q].at \in {"attempt", "record"} => request'[q].challenge \in Challenges
       /\ request'[q].at = "record" /\ request'[q].seen # None
            => attempt'[request'[q].challenge] # None
       /\ request'[q].at = "store" /\ request'[q].row # None
            => /\ lesson' # None /\ (request'[q].row.completed => lesson'.completed)
               /\ request'[q].row.completed <=> request'[q].row.status = "COMPLETED"
  BY <1>1, <1>2, <1>3, <1>5 DEF ProgressInv, IsComplete
<1>8. AllMastered' /\ ~refused' => IsComplete' \/ \E q \in Requests : Counts(request'[q])
  <2> SUFFICES ASSUME AllMastered, ~refused, ~IsComplete'
               PROVE  \E q \in Requests : Counts(request'[q])
    BY <1>1 DEF AllMastered
  <2>1. PICK q \in Requests : Counts(request[q])
    BY <1>5 DEF ProgressInv
  <2>2. q # r
    BY <1>1, <1>5, <2>1 DEF Counts
  <2> QED BY <1>3, <2>1, <2>2
<1>9. ASSUME NEW p \in Parts PROVE PartIsPaid(p)'
  <2>1. IsFiniteSet(Owing(p)) /\ rewards[p] + Cardinality(Owing(p)) <= overlap + Room
    BY DEF ProgressInv, PartIsPaid
  <2>2. /\ IsFiniteSet(Owing(p)') /\ Cardinality(Owing(p)) \in Nat
        /\ Cardinality(Owing(p)') = Cardinality(Owing(p)) + Owes(job.at, p) - Owes("store", p)
    BY <1>1, <1>2, <2>1, OwingMoves
  <2>3. Owes("store", p) = 0 /\ Owes("idle", p) = 0 /\ Owes("energy", p) = 1
    BY DEF Owes, Before, Parts
  <2>4. rewards[p] \in Nat /\ rewards'[p] = rewards[p]
    BY <1>1
  <2>5. Behind' = Behind \ {r}
    BY <1>2, <1>3 DEF Behind
  <2>6. CASE ~new
    <3>1. Room \in Nat /\ Room' \in Nat /\ Room <= Room'
      BY <1>5, <2>5 DEF Room
    <3> QED BY <1>1, <1>2, <1>4, <2>1, <2>2, <2>3, <2>4, <2>6, <3>1 DEF PartIsPaid
  <2>7. CASE new
    <3>1. Room = 0
      BY <1>5, <2>7 DEF Room
    <3>2. CASE Storing = {r}
      <4>1. Behind' = {}
        BY <2>5, <3>2 DEF Behind, Storing
      <4>2. Room' = 1
        BY <1>5, <2>7, <4>1 DEF Room
      <4> QED BY <1>1, <1>2, <1>4, <2>1, <2>2, <2>3, <2>4, <2>7, <3>1, <3>2, <4>2 DEF PartIsPaid
    <3>3. CASE Storing # {r}
      <4>1. Room' \in Nat
        BY DEF Room
      <4> QED BY <1>1, <1>2, <1>4, <2>1, <2>2, <2>3, <2>4, <2>7, <3>1, <3>3, <4>1 DEF PartIsPaid
    <3> QED BY <3>2, <3>3
  <2> QED BY <2>6, <2>7
<1> QED BY <1>5, <1>6, <1>7, <1>8, <1>9 DEF ProgressInv, IsComplete

LEMMA ProgressStep == ProgressInv /\ [Next]_vars => ProgressInv'
<1> SUFFICES ASSUME ProgressInv, [Next]_vars PROVE ProgressInv'
  OBVIOUS
<1>1. CASE UNCHANGED vars
  BY <1>1 DEF vars, ProgressInv, TypeOK, AllMastered, IsComplete, Counts, Completes, PartIsPaid,
              Owing, Room, Behind
<1> QED BY <1>1, ProgressNotStore, ProgressStore DEF Next

(* Complete and all idle, nothing is owed and nobody is behind.             *)
LEMMA ProgressHonours == ProgressInv => CompletionIsHonoured
<1> SUFFICES ASSUME ProgressInv PROVE CompletionIsHonoured
  OBVIOUS
<1>1. ASSUME ~refused, \A r \in Requests : request[r].at = "idle", \A c \in Challenges : attempt[c] = TRUE
      PROVE  lesson # None /\ lesson.completed
  BY <1>1 DEF ProgressInv, AllMastered, IsComplete, Counts
<1>2. ASSUME NEW p \in Parts PROVE rewards[p] <= 1 + overlap
  <2>1. rewards[p] \in Nat /\ overlap \in Nat /\ Cardinality(Owing(p)) \in Nat /\ Room \in 0..1
    BY FS_CardinalityType DEF ProgressInv, TypeOK, PartIsPaid, Room
  <2> QED BY <2>1 DEF ProgressInv, PartIsPaid
<1> QED BY <1>1, <1>2 DEF CompletionIsHonoured

(* No step forgets what was mastered or completed.                          *)
LEMMA ProgressUnlearnsNothing ==
  ASSUME ProgressInv, [Next]_vars
  PROVE  /\ \A c \in Challenges : attempt[c] = TRUE => attempt'[c] = TRUE
         /\ lesson # None /\ lesson.completed => lesson'.completed /\ lesson'.status = "COMPLETED"
<1>1. attempt \in [Challenges -> UserChallengeProgress \cup {None}]
      /\ (lesson # None /\ lesson.completed => lesson.status = "COMPLETED")
  BY DEF ProgressInv, TypeOK
<1>2. ASSUME NEW r \in Requests, RecordAttempt(r)
      PROVE  \A c \in Challenges : attempt[c] = TRUE => attempt'[c] = TRUE
  BY <1>1, <1>2, NoneIsNoRow DEF RecordAttempt
<1>3. ASSUME NEW r \in Requests, StoreLesson(r)
      PROVE  lesson # None /\ lesson.completed => lesson'.completed /\ lesson'.status = "COMPLETED"
  BY <1>3, StoringKeeps DEF IsComplete
<1>4. attempt' = attempt \/ \E r \in Requests : RecordAttempt(r)
  BY DEF Next, vars, check_answer, mark_lesson_completed, get_challenge_progress, Recompute,
         get_lesson_progress, StoreLesson, grant_for_lesson, RecordActivity, SaveStreak, SyncExtras,
         Pay, Raises
<1>5. lesson' = lesson \/ \E r \in Requests : StoreLesson(r)
  BY DEF Next, vars, check_answer, mark_lesson_completed, get_challenge_progress, Recompute,
         get_lesson_progress, RecordAttempt, grant_for_lesson, RecordActivity, SaveStreak, SyncExtras,
         Pay, Raises
<1> QED BY <1>1, <1>2, <1>3, <1>4, <1>5

-----------------------------------------------------------------------------
(* The Benchmark Exam.                                                      *)

Passing(s) == Exam!is_passing(sitting[s].answers)

\* What a request may rely on of the sitting it works on, whatever has become of it.
ExamJobOK(j, table) ==
  /\ j.at \in {"locking", "closing", "answering", "submitting", "reading", "saving"} =>
       j.sitting \in Sittings /\ table[j.sitting].status # "NEW"
  /\ j.at = "locking" =>
       \A q \in Questions : j.seen[q] # None => table[j.sitting].answers[q] = j.seen[q]
  /\ j.at = "answering" => j.question \in Questions
  /\ j.at \in {"reading", "saving"} =>
       /\ Exam!is_passing(table[j.sitting].answers)
       /\ j.then = "idle" => j.cap = table[j.sitting].cap

NewIsBlank == \A s \in Sittings : sitting[s].status = "NEW" =>
                sitting[s].cap = 0 /\ \A q \in Questions : sitting[s].answers[q] = None

PassesArePassing == \A s \in Sittings : sitting[s].status = "PASSED" => Passing(s)

ClearedIsPassed == cleared # 0 => \E s \in Sittings : sitting[s].cap = cleared /\ Passing(s)

ExamInv ==
  /\ Exam!TypeOK
  /\ \A r \in Requests : ExamJobOK(exam_request[r], sitting)
  /\ NewIsBlank /\ PassesArePassing /\ ClearedIsPassed

Paper == [Questions -> BOOLEAN \cup {None}]

LEMMA ExamConstants ==
  /\ IsFiniteSet(Questions) /\ IsFiniteSet(Sittings) /\ Caps \subseteq Nat /\ 0 \notin Caps
  /\ RawLevel \in Nat /\ TimeLimit \in Nat /\ MaxClock \in Nat /\ PassPercent \in Nat
  /\ None \notin Sittings /\ None \notin Questions /\ None \notin Nat /\ None \notin Requests
  /\ None \notin BOOLEAN
<1>1. Exam!ExamAssumption
  BY StudyAssumption
<1>2. IsFiniteSet(Questions) /\ IsFiniteSet(Sittings)
  BY <1>1, Counting DEF Exam!ExamAssumption
<1>4. Caps \subseteq Nat /\ 0 \notin Caps
  BY <1>1 DEF Exam!ExamAssumption
<1>5. RawLevel \in Nat /\ TimeLimit \in Nat /\ MaxClock \in Nat
  BY <1>1 DEF Exam!ExamAssumption
<1>6. PassPercent \in Nat
  BY <1>1 DEF Exam!ExamAssumption
<1>3. None \notin Sittings /\ None \notin Questions /\ None \notin Nat /\ None \notin Requests
  BY <1>1 DEF Exam!ExamAssumption
<1> QED BY <1>2, <1>3, <1>4, <1>5, <1>6, NoneIsNoRow

LEMMA ExamIdle == Exam!Idle \in Exam!Request /\ Exam!Idle.at = "idle" /\ Exam!Idle.then = "idle"
BY DEF Exam!Idle, Exam!Request, Exam!Unanswered

\* Answers that are added to never make a paper worse.
LEMMA PaperGrows ==
  ASSUME NEW a \in Paper, NEW b \in Paper, \A q \in Questions : a[q] # None => b[q] = a[q]
  PROVE  Exam!is_passing(a) => Exam!is_passing(b)
<1> DEFINE A == {q \in Questions : a[q] = TRUE}
           B == {q \in Questions : b[q] = TRUE}
<1>1. A \subseteq B /\ B \subseteq Questions
  BY ExamConstants
<1>2. IsFiniteSet(B) /\ Cardinality(A) <= Cardinality(B) /\ Cardinality(A) \in Nat /\ Cardinality(B) \in Nat
  <2> HIDE DEF A, B
  <2>1. IsFiniteSet(B)
    BY <1>1, ExamConstants, FS_Subset
  <2> QED BY <1>1, <2>1, FS_Subset, FS_CardinalityType
<1>3. Cardinality(Questions) * PassPercent \in Nat
  BY ExamConstants, FS_CardinalityType
<1> DEFINE K == Cardinality(Questions) * PassPercent
<1>4. K \in Nat
  BY <1>3
<1>5. Exam!correct_count(a) = Cardinality(A) /\ Exam!correct_count(b) = Cardinality(B)
  BY Counting DEF Exam!correct_count
<1>6. /\ Exam!is_passing(a) <=> Exam!correct_count(a) * 100 >= K
      /\ Exam!is_passing(b) <=> Exam!correct_count(b) * 100 >= K
  BY Counting DEF Exam!is_passing
<1> HIDE DEF A, B, K
<1> QED BY <1>2, <1>4, <1>5, <1>6

LEMMA ExamStart == Exam!Init => ExamInv
<1> SUFFICES ASSUME Exam!Init PROVE ExamInv
  OBVIOUS
<1>1. Exam!TypeOK
  BY ExamIdle, ExamConstants
  DEF Exam!Init, Exam!TypeOK, Exam!Unopened, Exam!Unanswered, Exam!BenchmarkExamAttempt
<1>2. \A r \in Requests : ExamJobOK(exam_request[r], sitting)
  BY ExamIdle DEF Exam!Init, ExamJobOK
<1>3. NewIsBlank /\ PassesArePassing /\ ClearedIsPassed
  BY DEF Exam!Init, Exam!Unopened, Exam!Unanswered, NewIsBlank, PassesArePassing, ClearedIsPassed
<1> QED BY <1>1, <1>2, <1>3 DEF ExamInv

-----------------------------------------------------------------------------
(* A sitting is opened once, keeps its cap and its answers, and is never    *)
(* new again.                                                               *)
SittingGoesOn(s) ==
  \/ sitting'[s] = sitting[s]
  \/ /\ sitting[s].status = "NEW" /\ sitting'[s].status = "IN_PROGRESS"
     /\ \A q \in Questions : sitting'[s].answers[q] = None
  \/ /\ sitting[s].status # "NEW" /\ sitting'[s].status # "NEW" /\ sitting'[s].cap = sitting[s].cap
     /\ \A q \in Questions : sitting[s].answers[q] # None
                               => sitting'[s].answers[q] = sitting[s].answers[q]

LEMMA PassingStays ==
  ASSUME ExamInv, Exam!TypeOK', NEW s \in Sittings, SittingGoesOn(s), sitting[s].status # "NEW"
  PROVE  /\ sitting'[s].status # "NEW" /\ sitting'[s].cap = sitting[s].cap
         /\ Passing(s) => Passing(s)'
         /\ \A q \in Questions : sitting[s].answers[q] # None
                                   => sitting'[s].answers[q] = sitting[s].answers[q]
<1>1. sitting[s].answers \in Paper /\ sitting'[s].answers \in Paper
  BY DEF ExamInv, Exam!TypeOK, Exam!BenchmarkExamAttempt, Paper
<1> QED BY <1>1, PaperGrows DEF SittingGoesOn, Passing

(* What every step shares: one request moves, and every sitting goes on.    *)
LEMMA ExamMoves ==
  ASSUME ExamInv, Exam!TypeOK',
         NEW r \in Requests, NEW job \in Exam!Request,
         exam_request' = [exam_request EXCEPT ![r] = job], ExamJobOK(job, sitting'),
         \A s \in Sittings : SittingGoesOn(s), PassesArePassing', ClearedIsPassed'
  PROVE  ExamInv'
<1>1. exam_request \in [Requests -> Exam!Request]
  BY DEF ExamInv, Exam!TypeOK
<1>2. \A q \in Requests : exam_request'[q] = IF q = r THEN job ELSE exam_request[q]
  BY <1>1
<1>3. ASSUME NEW q \in Requests PROVE ExamJobOK(exam_request'[q], sitting')
  <2>1. CASE q = r
    BY <1>2, <2>1
  <2>2. CASE q # r
    <3> DEFINE j == exam_request[q]
    <3>1. ExamJobOK(j, sitting) /\ exam_request'[q] = j
      BY <1>2, <2>2 DEF ExamInv
    <3>2. CASE j.at \in {"locking", "closing", "answering", "submitting", "reading", "saving"}
      <4>1. j.sitting \in Sittings /\ sitting[j.sitting].status # "NEW"
        BY <3>1, <3>2 DEF ExamJobOK
      <4>2. /\ sitting'[j.sitting].status # "NEW" /\ sitting'[j.sitting].cap = sitting[j.sitting].cap
            /\ Passing(j.sitting) => Exam!is_passing(sitting'[j.sitting].answers)
            /\ \A p \in Questions : sitting[j.sitting].answers[p] # None
                                   => sitting'[j.sitting].answers[p] = sitting[j.sitting].answers[p]
        BY <4>1, PassingStays DEF Passing
      <4> HIDE DEF j
      <4> QED BY <3>1, <4>1, <4>2 DEF ExamJobOK, Passing
    <3>3. CASE j.at \notin {"locking", "closing", "answering", "submitting", "reading", "saving"}
      BY <3>1, <3>3 DEF ExamJobOK
    <3> QED BY <3>2, <3>3
  <2> QED BY <2>1, <2>2
<1>4. NewIsBlank'
  BY DEF SittingGoesOn, ExamInv, NewIsBlank
<1> QED BY <1>3, <1>4 DEF ExamInv

(* With the sittings as they are only the request's own claims are new.     *)
LEMMA ExamSteps ==
  ASSUME ExamInv, NEW r \in Requests, NEW job \in Exam!Request,
         exam_request' = [exam_request EXCEPT ![r] = job], ExamJobOK(job, sitting),
         sitting' = sitting, holder' \in [Sittings -> Requests \cup {None}], UNCHANGED <<clock, cleared>>
  PROVE  ExamInv'
<1>1. Exam!TypeOK'
  BY DEF ExamInv, Exam!TypeOK
<1>2. \A s \in Sittings : SittingGoesOn(s)
  BY DEF SittingGoesOn
<1>3. PassesArePassing' /\ ClearedIsPassed' /\ ExamJobOK(job, sitting')
  BY DEF ExamInv, PassesArePassing, ClearedIsPassed, Passing
<1> QED BY <1>1, <1>2, <1>3, ExamMoves

LEMMA ExamFreed ==
  ASSUME ExamInv, NEW r \in Requests
  PROVE  Exam!Freed(r) \in [Sittings -> Requests \cup {None}]
BY DEF ExamInv, Exam!TypeOK, Exam!Freed

\* One sitting changes, and a request with it.
LEMMA ExamWrites ==
  ASSUME ExamInv, NEW r \in Requests, NEW job \in Exam!Request,
         exam_request' = [exam_request EXCEPT ![r] = job], ExamJobOK(job, sitting'),
         NEW s \in Sittings, NEW row \in Exam!BenchmarkExamAttempt,
         sitting' = [sitting EXCEPT ![s] = row], SittingGoesOn(s),
         row.status = "PASSED" => Exam!is_passing(row.answers),
         holder' \in [Sittings -> Requests \cup {None}], UNCHANGED <<clock, cleared>>
  PROVE  ExamInv'
<1>1. /\ sitting \in [Sittings -> Exam!BenchmarkExamAttempt]
      /\ exam_request \in [Requests -> Exam!Request]
  BY DEF ExamInv, Exam!TypeOK
<1>2. Exam!TypeOK'
  BY <1>1 DEF ExamInv, Exam!TypeOK
<1>3. \A t \in Sittings : sitting'[t] = IF t = s THEN row ELSE sitting[t]
  BY <1>1
<1>4. \A t \in Sittings : SittingGoesOn(t)
  BY <1>3 DEF SittingGoesOn
<1>5. PassesArePassing'
  BY <1>3 DEF ExamInv, PassesArePassing, Passing
<1>6. ClearedIsPassed'
  <2> SUFFICES ASSUME cleared # 0
               PROVE  \E t \in Sittings : sitting'[t].cap = cleared /\ Exam!is_passing(sitting'[t].answers)
    BY DEF ClearedIsPassed, Passing
  <2>1. PICK t \in Sittings : sitting[t].cap = cleared /\ Passing(t)
    BY DEF ExamInv, ClearedIsPassed
  <2>2. sitting[t].status # "NEW"
    BY <2>1 DEF ExamInv, NewIsBlank
  <2> QED BY <1>2, <1>4, <2>1, <2>2, PassingStays DEF Passing
<1> QED BY <1>2, <1>4, <1>5, <1>6, ExamMoves

LEMMA ExamStarts ==
  ASSUME ExamInv, NEW r \in Requests,
         \/ \E cap \in Caps : Exam!StartSitting(r, cap)
         \/ Exam!DrawPaper(r) \/ Exam!Refuse(r) \/ Exam!FindOpen(r)
         \/ \E s \in Sittings, q \in Questions, right \in BOOLEAN : Exam!SendAnswer(r, s, q, right)
         \/ \E s \in Sittings : Exam!SendSubmit(r, s)
         \/ Exam!ReadProfile(r) \/ Exam!Raises(r)
  PROVE  ExamInv'
<1>1. /\ exam_request \in [Requests -> Exam!Request] /\ clock \in Nat /\ cleared \in Caps \cup {0}
      /\ holder \in [Sittings -> Requests \cup {None}]
      /\ sitting \in [Sittings -> Exam!BenchmarkExamAttempt] /\ cleared \in Nat
  BY ExamConstants DEF ExamInv, Exam!TypeOK
<1>2. exam_request[r] \in Exam!Request /\ ExamJobOK(exam_request[r], sitting)
  BY <1>1 DEF ExamInv
<1>3. \A s \in Sittings : sitting[s].answers \in [Questions -> BOOLEAN \cup {None}]
  BY <1>1 DEF Exam!BenchmarkExamAttempt
<1>4. \A s \in Exam!Open : s \in Sittings /\ sitting[s].status = "IN_PROGRESS"
  BY DEF Exam!Open
<1>5. ExamJobOK(Exam!Idle, sitting)
  BY ExamIdle DEF ExamJobOK
<1>6. Exam!Freed(r) \in [Sittings -> Requests \cup {None}]
  BY ExamFreed
\* Only the request moves.
<1>7. ASSUME NEW job \in Exam!Request, Exam!Becomes(r, job), ExamJobOK(job, sitting),
             holder' \in [Sittings -> Requests \cup {None}], UNCHANGED <<clock, sitting, cleared>>
      PROVE  ExamInv'
  BY <1>7, ExamSteps DEF Exam!Becomes
<1>8. ASSUME NEW cap \in Caps, Exam!StartSitting(r, cap) PROVE ExamInv'
  <2> DEFINE Free == [Exam!Idle EXCEPT !.at = "checking", !.now = clock, !.cap = cap]
             Held(s) == [Exam!Idle EXCEPT !.at = "locking", !.now = clock, !.cap = cap,
                                          !.sitting = s, !.seen = sitting[s].answers]
  <2>1. Free \in Exam!Request /\ ExamJobOK(Free, sitting)
    BY <1>1 DEF Exam!Idle, Exam!Request, Exam!Unanswered, ExamJobOK
  <2>2. ASSUME NEW s \in Exam!Open PROVE Held(s) \in Exam!Request /\ ExamJobOK(Held(s), sitting)
    <3>1. Held(s) \in Exam!Request
      BY <1>1, <1>3, <1>4 DEF Exam!Idle, Exam!Request, Exam!Unanswered
    <3>2. Held(s).at = "locking" /\ Held(s).sitting = s /\ Held(s).seen = sitting[s].answers
      BY DEF Exam!Idle
    <3> HIDE DEF Held
    <3> QED BY <1>4, <3>1, <3>2 DEF ExamJobOK
  <2>3. \/ Exam!Becomes(r, Free)
        \/ \E s \in Exam!Open : Exam!Becomes(r, Held(s))
    BY <1>8 DEF Exam!StartSitting
  <2>4. UNCHANGED <<clock, sitting, cleared, holder>>
    BY <1>8 DEF Exam!StartSitting
  <2> HIDE DEF Free, Held
  <2> QED BY <1>1, <1>7, <2>1, <2>2, <2>3, <2>4
<1>9. CASE Exam!DrawPaper(r)
  <2> DEFINE job == [exam_request[r] EXCEPT !.at = "abandoning", !.sitting = None,
                                            !.seen = Exam!Unanswered]
  <2>1. job \in Exam!Request /\ job.at = "abandoning"
    BY <1>2 DEF Exam!Request, Exam!Unanswered
  <2>2. Exam!Becomes(r, job) /\ UNCHANGED <<clock, sitting, cleared, holder>>
    BY <1>9 DEF Exam!DrawPaper
  <2> HIDE DEF job
  <2> QED BY <1>1, <1>7, <2>1, <2>2 DEF ExamJobOK
<1>10. CASE Exam!Refuse(r)
  BY <1>5, <1>6, <1>7, <1>10, ExamIdle DEF Exam!Refuse, Exam!Ends
<1>11. CASE Exam!FindOpen(r)
  <2> DEFINE Free == [exam_request[r] EXCEPT !.at = "creating"]
             Held(s) == [exam_request[r] EXCEPT !.at = "closing", !.sitting = s]
  <2>1. Free \in Exam!Request /\ Free.at = "creating"
    BY <1>2 DEF Exam!Request
  <2>2. ASSUME NEW s \in Exam!Open
        PROVE  Held(s) \in Exam!Request /\ Held(s).at = "closing" /\ Held(s).sitting = s
    BY <1>2, <1>4 DEF Exam!Request
  <2>3. /\ \/ Exam!Becomes(r, Free)
           \/ \E s \in Exam!Open : Exam!Becomes(r, Held(s))
        /\ UNCHANGED <<clock, sitting, cleared, holder>>
    BY <1>11 DEF Exam!FindOpen
  <2> HIDE DEF Free, Held
  <2>4. ExamJobOK(Free, sitting) /\ \A s \in Exam!Open : ExamJobOK(Held(s), sitting)
    BY <1>4, <2>1, <2>2 DEF ExamJobOK
  <2> QED BY <1>1, <1>7, <2>1, <2>2, <2>3, <2>4
<1>12. ASSUME NEW s \in Sittings, NEW q \in Questions, NEW right \in BOOLEAN,
              Exam!SendAnswer(r, s, q, right)
       PROVE  ExamInv'
  <2> DEFINE job == [Exam!Idle EXCEPT !.at = "answering", !.now = clock, !.sitting = s,
                                      !.question = q, !.right = right, !.seen = sitting[s].answers]
  <2>1. job \in Exam!Request
    BY <1>1, <1>3 DEF Exam!Idle, Exam!Request, Exam!Unanswered
  <2>2. job.at = "answering" /\ job.sitting = s /\ job.question = q
    BY DEF Exam!Idle
  <2>3. /\ Exam!Becomes(r, job) /\ UNCHANGED <<clock, sitting, cleared, holder>>
        /\ sitting[s].status = "IN_PROGRESS"
    BY <1>12 DEF Exam!SendAnswer
  <2> HIDE DEF job
  <2> QED BY <1>1, <1>7, <2>1, <2>2, <2>3 DEF ExamJobOK
<1>13. ASSUME NEW s \in Sittings, Exam!SendSubmit(r, s) PROVE ExamInv'
  <2> DEFINE job == [Exam!Idle EXCEPT !.at = "submitting", !.sitting = s]
  <2>1. job \in Exam!Request /\ job.at = "submitting" /\ job.sitting = s
    BY DEF Exam!Idle, Exam!Request, Exam!Unanswered
  <2>2. /\ Exam!Becomes(r, job) /\ UNCHANGED <<clock, sitting, cleared, holder>>
        /\ sitting[s].status # "NEW"
    BY <1>13 DEF Exam!SendSubmit
  <2> HIDE DEF job
  <2> QED BY <1>1, <1>7, <2>1, <2>2 DEF ExamJobOK
<1>14. CASE Exam!ReadProfile(r)
  <2> DEFINE Writes == [exam_request[r] EXCEPT !.at = "saving"]
             Leaves == [exam_request[r] EXCEPT !.at = "checking", !.profile = cleared]
  <2>1. Writes \in Exam!Request /\ Leaves \in Exam!Request
    BY <1>1, <1>2 DEF Exam!Request
  <2>2. /\ Writes.at = "saving" /\ Writes.sitting = exam_request[r].sitting
        /\ Writes.then = exam_request[r].then /\ Writes.cap = exam_request[r].cap
        /\ Leaves.at = "checking" /\ exam_request[r].at = "reading"
    BY <1>2, <1>14 DEF Exam!Request, Exam!ReadProfile
  <2>3. /\ \/ (Exam!Becomes(r, Writes) \/ Exam!Becomes(r, Leaves)) /\ holder' = holder
           \/ Exam!Becomes(r, Exam!Idle) /\ holder' = Exam!Freed(r)
        /\ UNCHANGED <<clock, sitting, cleared>>
    BY <1>14 DEF Exam!ReadProfile, Exam!Ends
  <2> HIDE DEF Writes, Leaves
  <2>4. ExamJobOK(Writes, sitting) /\ ExamJobOK(Leaves, sitting)
    BY <1>2, <2>2 DEF ExamJobOK
  <2> QED BY <1>1, <1>5, <1>6, <1>7, <2>1, <2>3, <2>4, ExamIdle
<1>15. CASE Exam!Raises(r)
  BY <1>5, <1>6, <1>7, <1>15, ExamIdle DEF Exam!Raises, Exam!Ends
<1> QED BY <1>8, <1>9, <1>10, <1>11, <1>12, <1>13, <1>14, <1>15

\* A verdict passes only a passing paper, and is never "NEW" or "IN_PROGRESS".
LEMMA VerdictIsFair ==
  ASSUME NEW a
  PROVE  /\ Exam!Verdict(a) \in {"PASSED", "FAILED"}
         /\ Exam!Verdict(a) = "PASSED" <=> Exam!is_passing(a)
BY DEF Exam!Verdict

\* A status that is written leaves the paper alone.
LEMMA ExamCloses ==
  ASSUME ExamInv, NEW s \in Sittings, sitting[s].status # "NEW",
         NEW status \in {"PASSED", "FAILED", "ABANDONED"}
  PROVE  LET row == [sitting[s] EXCEPT !.status = status]
         IN /\ row \in Exam!BenchmarkExamAttempt /\ row.status = status
            /\ row.answers = sitting[s].answers /\ row.cap = sitting[s].cap
            /\ [sitting EXCEPT ![s].status = status] = [sitting EXCEPT ![s] = row]
            /\ sitting' = [sitting EXCEPT ![s] = row] => SittingGoesOn(s) /\ sitting'[s] = row
<1>1. sitting \in [Sittings -> Exam!BenchmarkExamAttempt]
  BY DEF ExamInv, Exam!TypeOK
<1> DEFINE row == [sitting[s] EXCEPT !.status = status]
<1>2. /\ row \in Exam!BenchmarkExamAttempt /\ row.status = status
      /\ row.answers = sitting[s].answers /\ row.cap = sitting[s].cap
  BY <1>1 DEF Exam!BenchmarkExamAttempt, Exam!BenchmarkAttemptStatus
<1>3. [sitting EXCEPT ![s].status = status] = [sitting EXCEPT ![s] = row]
  OBVIOUS
<1> HIDE DEF row
<1>4. sitting' = [sitting EXCEPT ![s] = row] => sitting'[s] = row
  BY <1>1
<1>5. sitting' = [sitting EXCEPT ![s] = row] => SittingGoesOn(s)
  BY <1>2, <1>4 DEF SittingGoesOn
<1>6. /\ row \in Exam!BenchmarkExamAttempt /\ row.status = status
      /\ row.answers = sitting[s].answers /\ row.cap = sitting[s].cap
      /\ [sitting EXCEPT ![s].status = status] = [sitting EXCEPT ![s] = row]
      /\ sitting' = [sitting EXCEPT ![s] = row] => SittingGoesOn(s) /\ sitting'[s] = row
  BY <1>2, <1>3, <1>4, <1>5
<1> QED BY <1>6 DEF row

LEMMA ExamGrades ==
  ASSUME ExamInv, NEW r \in Requests,
         Exam!GradeIfExpired(r) \/ Exam!Abandon(r) \/ Exam!Submit(r)
  PROVE  ExamInv'
<1> DEFINE me == exam_request[r]
           s  == me.sitting
<1>1. /\ exam_request \in [Requests -> Exam!Request] /\ me \in Exam!Request
      /\ holder \in [Sittings -> Requests \cup {None}]
      /\ sitting \in [Sittings -> Exam!BenchmarkExamAttempt]
  BY DEF ExamInv, Exam!TypeOK
<1>2. ExamJobOK(me, sitting)
  BY DEF ExamInv
<1>3. me.at \in {"locking", "closing", "submitting"}
  BY DEF Exam!GradeIfExpired, Exam!Abandon, Exam!Submit
<1>4. s \in Sittings /\ sitting[s].status # "NEW"
  BY <1>2, <1>3 DEF ExamJobOK
<1>5. sitting[s].answers \in Paper /\ me.seen \in Paper /\ sitting[s].cap \in Caps \cup {0}
  BY <1>1, <1>4 DEF Exam!BenchmarkExamAttempt, Paper, Exam!Request
<1>6. Exam!Freed(r) \in [Sittings -> Requests \cup {None}] /\ ExamJobOK(Exam!Idle, sitting')
  BY ExamFreed, ExamIdle DEF ExamJobOK
\* The row's status is written.
<1>7. ASSUME NEW status \in {"PASSED", "FAILED", "ABANDONED"},
             sitting' = [sitting EXCEPT ![s].status = status],
             status = "PASSED" => Exam!is_passing(sitting[s].answers),
             NEW job \in Exam!Request, Exam!Becomes(r, job),
             job.at \in {"reading", "checking", "creating", "idle"},
             job.at = "reading" => /\ job.sitting = s /\ Exam!is_passing(sitting[s].answers)
                                   /\ job.then = "idle" => job.cap = sitting[s].cap,
             holder' \in [Sittings -> Requests \cup {None}], UNCHANGED <<clock, cleared>>
      PROVE  ExamInv'
  <2> HIDE DEF me, s
  <2> DEFINE row == [sitting[s] EXCEPT !.status = status]
  <2>0. /\ row \in Exam!BenchmarkExamAttempt /\ row.status = status
        /\ row.answers = sitting[s].answers /\ row.cap = sitting[s].cap
        /\ [sitting EXCEPT ![s].status = status] = [sitting EXCEPT ![s] = row]
        /\ sitting' = [sitting EXCEPT ![s] = row] => SittingGoesOn(s) /\ sitting'[s] = row
    BY <1>4, ExamCloses
  <2> HIDE DEF row
  <2>1. /\ row \in Exam!BenchmarkExamAttempt /\ row.status = status
        /\ row.answers = sitting[s].answers /\ row.cap = sitting[s].cap
        /\ sitting' = [sitting EXCEPT ![s] = row] /\ SittingGoesOn(s) /\ sitting'[s] = row
    BY <1>7, <2>0
  <2>2. ExamJobOK(job, sitting')
    BY <1>4, <1>7, <2>1 DEF ExamJobOK
  <2> QED BY <1>4, <1>7, <2>1, <2>2, ExamWrites DEF Exam!Becomes
<1>8. CASE Exam!GradeIfExpired(r)
  <2> DEFINE Free  == [me EXCEPT !.at = "checking"]
             Reads == [me EXCEPT !.at = "reading", !.then = "checking"]
  <2>1. /\ Free \in Exam!Request /\ Free.at = "checking"
        /\ Reads \in Exam!Request /\ Reads.at = "reading" /\ Reads.sitting = s /\ Reads.then = "checking"
    BY <1>1 DEF Exam!Request
  <2>2. Exam!is_passing(me.seen) => Exam!is_passing(sitting[s].answers)
    BY <1>2, <1>5, <1>8, PaperGrows DEF Exam!GradeIfExpired, ExamJobOK
  <2>3. UNCHANGED <<clock, cleared>>
    BY <1>8 DEF Exam!GradeIfExpired
  <2>4. CASE Exam!accepts_answers_at(s, me.now)
    <3>1. holder' = [holder EXCEPT ![s] = r] /\ Exam!Becomes(r, Free) /\ sitting' = sitting
      BY <1>8, <2>4 DEF Exam!GradeIfExpired
    <3>2. holder' \in [Sittings -> Requests \cup {None}]
      BY <1>1, <3>1
    <3>3. ExamJobOK(Free, sitting)
      BY <2>1 DEF ExamJobOK
    <3> HIDE DEF Free
    <3> QED BY <2>1, <2>3, <3>1, <3>2, <3>3, ExamSteps DEF Exam!Becomes
  <2>5. CASE ~Exam!accepts_answers_at(s, me.now)
    <3>1. /\ sitting' = [sitting EXCEPT ![s].status = Exam!Verdict(me.seen)]
          /\ Exam!Becomes(r, IF Exam!is_passing(me.seen) THEN Reads ELSE Free)
          /\ holder' = holder
      BY <1>8, <2>5 DEF Exam!GradeIfExpired
    <3>2. /\ Exam!Verdict(me.seen) \in {"PASSED", "FAILED"}
          /\ Exam!Verdict(me.seen) = "PASSED" <=> Exam!is_passing(me.seen)
      BY VerdictIsFair
    <3> HIDE DEF Free, Reads, me, s
    <3>3. CASE Exam!is_passing(me.seen)
      BY <1>1, <1>7, <2>1, <2>2, <2>3, <3>1, <3>2, <3>3
    <3>4. CASE ~Exam!is_passing(me.seen)
      BY <1>1, <1>7, <2>1, <2>3, <3>1, <3>2, <3>4
    <3> QED BY <3>3, <3>4
  <2> QED BY <2>4, <2>5
<1>9. CASE Exam!Abandon(r)
  <2> DEFINE job == [me EXCEPT !.at = "creating", !.sitting = None]
  <2>1. job \in Exam!Request /\ job.at = "creating"
    BY <1>1 DEF Exam!Request
  <2>2. /\ sitting' = [sitting EXCEPT ![s].status = "ABANDONED"] /\ holder' = Exam!Freed(r)
        /\ Exam!Becomes(r, job) /\ UNCHANGED <<clock, cleared>>
    BY <1>9 DEF Exam!Abandon
  <2> HIDE DEF job, me, s
  <2> QED BY <1>6, <1>7, <2>1, <2>2
<1>10. CASE Exam!Submit(r)
  <2> DEFINE job == [me EXCEPT !.at = "reading", !.cap = sitting[s].cap]
  <2>1. job \in Exam!Request /\ job.at = "reading" /\ job.sitting = s /\ job.cap = sitting[s].cap
    BY <1>1, <1>5 DEF Exam!Request
  <2>2. /\ sitting' = IF sitting[s].status = "IN_PROGRESS"
                      THEN [sitting EXCEPT ![s].status = Exam!Verdict(sitting[s].answers)] ELSE sitting
        /\ IF sitting'[s].status = "PASSED" THEN Exam!Becomes(r, job) /\ holder' = holder
           ELSE Exam!Becomes(r, Exam!Idle) /\ holder' = Exam!Freed(r)
        /\ UNCHANGED <<clock, cleared>>
    BY <1>10 DEF Exam!Submit, Exam!Ends
  <2> HIDE DEF job, me, s
  <2>3. CASE sitting[s].status = "IN_PROGRESS"
    <3>1. /\ Exam!Verdict(sitting[s].answers) \in {"PASSED", "FAILED"}
          /\ Exam!Verdict(sitting[s].answers) = "PASSED" <=> Exam!is_passing(sitting[s].answers)
      BY VerdictIsFair
    <3>2. sitting'[s].status = Exam!Verdict(sitting[s].answers)
      <4>1. sitting[s] \in Exam!BenchmarkExamAttempt
        BY <1>1, <1>4
      <4> QED BY <1>1, <1>4, <2>2, <2>3, <4>1 DEF Exam!BenchmarkExamAttempt
    <3>3. CASE Exam!is_passing(sitting[s].answers)
      BY <1>1, <1>7, <2>1, <2>2, <2>3, <3>1, <3>2, <3>3
    <3>4. CASE ~Exam!is_passing(sitting[s].answers)
      BY <1>6, <1>7, <2>2, <2>3, <3>1, <3>2, <3>4, ExamIdle
    <3> QED BY <3>3, <3>4
  <2>4. CASE sitting[s].status # "IN_PROGRESS"
    <3>1. sitting' = sitting
      BY <2>2, <2>4
    <3>2. CASE sitting[s].status = "PASSED"
      <4>1. Exam!is_passing(sitting[s].answers)
        BY <1>4, <3>2 DEF ExamInv, PassesArePassing, Passing
      <4>2. ExamJobOK(job, sitting)
        BY <1>4, <2>1, <4>1 DEF ExamJobOK
      <4> QED BY <1>1, <2>1, <2>2, <3>1, <3>2, <4>2, ExamSteps DEF Exam!Becomes
    <3>3. CASE sitting[s].status # "PASSED"
      BY <1>6, <2>2, <3>1, <3>3, ExamSteps, ExamIdle DEF Exam!Becomes
    <3> QED BY <3>2, <3>3
  <2> QED BY <2>3, <2>4
<1> QED BY <1>8, <1>9, <1>10

LEMMA ExamTakes ==
  ASSUME ExamInv, NEW r \in Requests, Exam!CreateSitting(r) \/ Exam!TakeAnswer(r)
  PROVE  ExamInv'
<1>1. /\ exam_request \in [Requests -> Exam!Request] /\ exam_request[r] \in Exam!Request
      /\ sitting \in [Sittings -> Exam!BenchmarkExamAttempt]
  BY DEF ExamInv, Exam!TypeOK
<1>2. ExamJobOK(exam_request[r], sitting)
  BY DEF ExamInv
<1>3. /\ Exam!Becomes(r, Exam!Idle) /\ holder' = Exam!Freed(r) /\ UNCHANGED <<clock, cleared>>
  BY DEF Exam!CreateSitting, Exam!TakeAnswer, Exam!Ends
<1>4. Exam!Freed(r) \in [Sittings -> Requests \cup {None}] /\ ExamJobOK(Exam!Idle, sitting')
      /\ ExamJobOK(Exam!Idle, sitting)
  BY ExamFreed, ExamIdle DEF ExamJobOK
<1>5. CASE sitting' = sitting
  BY <1>3, <1>4, <1>5, ExamSteps, ExamIdle DEF Exam!Becomes
<1>6. ASSUME NEW s \in Sittings, NEW row \in Exam!BenchmarkExamAttempt,
             sitting' = [sitting EXCEPT ![s] = row], SittingGoesOn(s),
             row.status = "PASSED" => Exam!is_passing(row.answers)
      PROVE  ExamInv'
  BY <1>3, <1>4, <1>6, ExamWrites, ExamIdle DEF Exam!Becomes
<1>7. CASE Exam!CreateSitting(r) /\ sitting' # sitting
  <2>1. PICK s \in Exam!Fresh : sitting' = [sitting EXCEPT ![s] = Exam!Opened(r)]
    BY <1>7 DEF Exam!CreateSitting
  <2>2. s \in Sittings /\ sitting[s].status = "NEW"
    BY DEF Exam!Fresh
  <2>3. /\ Exam!Opened(r) \in Exam!BenchmarkExamAttempt /\ Exam!Opened(r).status = "IN_PROGRESS"
        /\ \A q \in Questions : Exam!Opened(r).answers[q] = None
    <3>1. exam_request[r].cap \in Caps \cup {0} /\ exam_request[r].now + TimeLimit \in Nat
      BY <1>1, ExamConstants DEF Exam!Request
    <3> QED BY <3>1 DEF Exam!Opened, Exam!Unanswered, Exam!BenchmarkExamAttempt,
               Exam!BenchmarkAttemptStatus
  <2>4. SittingGoesOn(s)
    BY <1>1, <2>1, <2>2, <2>3 DEF SittingGoesOn
  <2> QED BY <1>6, <2>1, <2>2, <2>3, <2>4
<1>8. CASE Exam!TakeAnswer(r) /\ sitting' # sitting
  <2> DEFINE me == exam_request[r]
             s  == me.sitting
             q  == me.question
  <2>1. /\ s \in Sittings /\ q \in Questions /\ sitting[s].status # "NEW" /\ me.right \in BOOLEAN
    BY <1>1, <1>2, <1>8 DEF ExamJobOK, Exam!TakeAnswer, Exam!Request
  <2>2. \/ /\ sitting[s].status = "IN_PROGRESS" /\ sitting[s].answers[q] = None
           /\ sitting' = [sitting EXCEPT ![s].answers[q] = me.right]
        \/ /\ sitting' = [sitting EXCEPT ![s].status = Exam!Verdict(sitting[s].answers)]
    BY <1>8 DEF Exam!TakeAnswer
  <2>3. sitting[s].answers \in [Questions -> BOOLEAN \cup {None}] /\ sitting[s] \in Exam!BenchmarkExamAttempt
    BY <1>1, <2>1 DEF Exam!BenchmarkExamAttempt
  <2>4. CASE /\ sitting[s].status = "IN_PROGRESS" /\ sitting[s].answers[q] = None
             /\ sitting' = [sitting EXCEPT ![s].answers[q] = me.right]
    <3> DEFINE paper == [sitting[s].answers EXCEPT ![q] = me.right]
               row   == [sitting[s] EXCEPT !.answers = paper]
    <3>1. sitting' = [sitting EXCEPT ![s] = row]
      BY <2>4
    <3>2. /\ paper \in [Questions -> BOOLEAN \cup {None}]
          /\ \A p \in Questions : sitting[s].answers[p] # None => paper[p] = sitting[s].answers[p]
      BY <2>1, <2>3, <2>4
    <3> HIDE DEF paper, me, s, q
    <3>3. /\ row \in Exam!BenchmarkExamAttempt /\ row.status = "IN_PROGRESS"
          /\ row.cap = sitting[s].cap /\ row.answers = paper
      BY <2>3, <2>4, <3>2 DEF Exam!BenchmarkExamAttempt
    <3> HIDE DEF row
    <3>4. SittingGoesOn(s)
      BY <1>1, <2>1, <3>1, <3>2, <3>3 DEF SittingGoesOn
    <3> QED BY <1>6, <2>1, <3>1, <3>3, <3>4
  <2>5. CASE sitting' = [sitting EXCEPT ![s].status = Exam!Verdict(sitting[s].answers)]
    <3> DEFINE status == Exam!Verdict(sitting[s].answers)
               row == [sitting[s] EXCEPT !.status = status]
    <3>1. status \in {"PASSED", "FAILED"} /\ (status = "PASSED" <=> Exam!is_passing(sitting[s].answers))
      BY VerdictIsFair
    <3> HIDE DEF status
    <3>2. /\ row \in Exam!BenchmarkExamAttempt /\ row.status = status
          /\ row.answers = sitting[s].answers
          /\ [sitting EXCEPT ![s].status = status] = [sitting EXCEPT ![s] = row]
          /\ sitting' = [sitting EXCEPT ![s] = row] => SittingGoesOn(s)
      <4>1. status \in {"PASSED", "FAILED", "ABANDONED"}
        BY <3>1
      <4> HIDE DEF me, s
      <4>2. s \in Sittings /\ sitting[s].status # "NEW"
        BY <2>1
      <4> QED BY <4>1, <4>2, ExamCloses
    <3>3. sitting' = [sitting EXCEPT ![s].status = status]
      BY <2>5 DEF status
    <3> HIDE DEF row, me, s
    <3> QED BY <1>6, <2>1, <3>1, <3>2, <3>3
  <2> QED BY <2>2, <2>4, <2>5
<1> QED BY <1>5, <1>7, <1>8

LEMMA ExamClears ==
  ASSUME ExamInv, NEW r \in Requests, Exam!ClearCap(r)
  PROVE  ExamInv'
<1> DEFINE me  == exam_request[r]
           cap == sitting[me.sitting].cap
           job == [me EXCEPT !.at = "checking", !.profile = Exam!PassedCap(r)]
<1>1. /\ exam_request \in [Requests -> Exam!Request] /\ me \in Exam!Request
      /\ sitting \in [Sittings -> Exam!BenchmarkExamAttempt]
      /\ holder \in [Sittings -> Requests \cup {None}] /\ clock \in 0..MaxClock
  BY DEF ExamInv, Exam!TypeOK
<1>2. /\ me.sitting \in Sittings /\ Passing(me.sitting) /\ (me.then = "idle" => me.cap = cap)
      /\ me.then \in {"idle", "checking"}
  BY <1>1 DEF ExamInv, ExamJobOK, Exam!ClearCap, Passing, Exam!Request
<1>3. Exam!PassedCap(r) = cap
  BY <1>2 DEF Exam!PassedCap
<1>4. cap \in Caps \cup {0} /\ cap \in Nat
  <2>1. sitting[me.sitting] \in Exam!BenchmarkExamAttempt
    BY <1>1, <1>2
  <2>2. cap \in Caps \cup {0}
    BY <2>1 DEF Exam!BenchmarkExamAttempt
  <2>3. Caps \cup {0} \subseteq Nat
    BY ExamConstants
  <2> HIDE DEF cap
  <2> QED BY <2>2, <2>3
<1>5. job \in Exam!Request /\ job.at = "checking"
  BY <1>1, <1>3, <1>4 DEF Exam!Request
<1>6. /\ cleared' = cap /\ UNCHANGED <<clock, sitting>>
      /\ \/ Exam!Becomes(r, Exam!Idle) /\ holder' = Exam!Freed(r)
         \/ Exam!Becomes(r, job) /\ holder' = holder
  BY <1>3 DEF Exam!ClearCap, Exam!Ends
<1>7. holder' \in [Sittings -> Requests \cup {None}]
  BY <1>1, <1>6, ExamFreed
<1>8. \A s \in Sittings : SittingGoesOn(s)
  BY <1>6 DEF SittingGoesOn
<1>9. PassesArePassing'
  BY <1>6 DEF ExamInv, PassesArePassing, Passing
<1>10. ClearedIsPassed'
  <2>1. sitting[me.sitting].cap = cleared' /\ Exam!is_passing(sitting[me.sitting].answers)
    BY <1>2, <1>6 DEF Passing
  <2> HIDE DEF me
  <2> QED BY <1>2, <1>6, <2>1 DEF ClearedIsPassed, Passing
<1> HIDE DEF job, cap, me
<1>11. ASSUME NEW j \in Exam!Request, Exam!Becomes(r, j), j.at \in {"idle", "checking"}
       PROVE  ExamInv'
  <2>1. exam_request' = [exam_request EXCEPT ![r] = j] /\ exam_request' \in [Requests -> Exam!Request]
    BY <1>1, <1>11 DEF Exam!Becomes
  <2>2. Exam!TypeOK'
    BY <1>1, <1>4, <1>6, <1>7, <2>1 DEF Exam!TypeOK
  <2>3. ExamJobOK(j, sitting')
    BY <1>11 DEF ExamJobOK
  <2> QED BY <1>8, <1>9, <1>10, <2>1, <2>2, <2>3, ExamMoves
<1> QED BY <1>5, <1>6, <1>11, ExamIdle

LEMMA ExamStep == ExamInv /\ [Exam!Next]_(Exam!vars) => ExamInv'
<1> SUFFICES ASSUME ExamInv, [Exam!Next]_(Exam!vars) PROVE ExamInv'
  OBVIOUS
<1>1. CASE UNCHANGED <<sitting, cleared, holder, exam_request>> /\ clock' \in 0..MaxClock
  BY <1>1 DEF ExamInv, Exam!TypeOK, NewIsBlank, PassesArePassing, ClearedIsPassed, Passing
<1>2. CASE UNCHANGED Exam!vars
  BY <1>1, <1>2 DEF Exam!vars, ExamInv, Exam!TypeOK
<1>3. CASE Exam!Tick
  <2>1. clock \in Nat /\ clock < MaxClock /\ clock' = clock + 1 /\ MaxClock \in Nat
    BY <1>3, ExamConstants DEF Exam!Tick, ExamInv, Exam!TypeOK
  <2> QED BY <1>1, <1>3, <2>1 DEF Exam!Tick
<1>4. ASSUME NEW r \in Requests,
             \/ \E cap \in Caps : Exam!StartSitting(r, cap)
             \/ Exam!GradeIfExpired(r) \/ Exam!DrawPaper(r) \/ Exam!Refuse(r) \/ Exam!FindOpen(r)
             \/ Exam!Abandon(r) \/ Exam!CreateSitting(r)
             \/ \E s \in Sittings, q \in Questions, right \in BOOLEAN : Exam!SendAnswer(r, s, q, right)
             \/ Exam!TakeAnswer(r)
             \/ \E s \in Sittings : Exam!SendSubmit(r, s)
             \/ Exam!Submit(r) \/ Exam!ReadProfile(r) \/ Exam!ClearCap(r) \/ Exam!Raises(r)
      PROVE  ExamInv'
  BY <1>4, ExamStarts, ExamGrades, ExamTakes, ExamClears
<1> QED BY <1>2, <1>3, <1>4 DEF Exam!Next

LEMMA ExamIsEarned == ExamInv => Exam!CapsAreEarned
BY Counting DEF ExamInv, Exam!CapsAreEarned, PassesArePassing, ClearedIsPassed, Passing,
   Exam!is_passing

(* An answer that stands is written over by no step.                        *)
LEMMA ExamKeepsAnswers ==
  ASSUME ExamInv, [Exam!Next]_(Exam!vars)
  PROVE  \A s \in Sittings, q \in Questions :
           sitting[s].answers[q] # None => sitting'[s].answers[q] = sitting[s].answers[q]
<1>1. sitting \in [Sittings -> Exam!BenchmarkExamAttempt]
  BY DEF ExamInv, Exam!TypeOK
<1> SUFFICES ASSUME NEW s \in Sittings, NEW q \in Questions, sitting[s].answers[q] # None
             PROVE  sitting'[s].answers[q] = sitting[s].answers[q]
  OBVIOUS
<1>2. \/ sitting' = sitting
      \/ \E r \in Requests : Exam!GradeIfExpired(r) \/ Exam!Abandon(r) \/ Exam!CreateSitting(r)
                             \/ Exam!TakeAnswer(r) \/ Exam!Submit(r)
  BY DEF Exam!Next, Exam!vars, Exam!Tick, Exam!StartSitting, Exam!DrawPaper, Exam!Refuse,
     Exam!FindOpen,
         Exam!SendAnswer, Exam!SendSubmit, Exam!ReadProfile, Exam!ClearCap, Exam!Raises
<1>3. ASSUME NEW t \in Sittings, NEW status, sitting' = [sitting EXCEPT ![t].status = status]
      PROVE  sitting'[s].answers = sitting[s].answers
  BY <1>1, <1>3 DEF Exam!BenchmarkExamAttempt
<1>4. ASSUME NEW r \in Requests,
             Exam!GradeIfExpired(r) \/ Exam!Abandon(r) \/ Exam!TakeAnswer(r) \/ Exam!Submit(r)
      PROVE  exam_request[r].sitting \in Sittings
  BY <1>4 DEF ExamInv, ExamJobOK, Exam!GradeIfExpired, Exam!Abandon, Exam!TakeAnswer, Exam!Submit
<1>5. ASSUME NEW r \in Requests, Exam!GradeIfExpired(r) \/ Exam!Abandon(r) \/ Exam!Submit(r),
             sitting' # sitting
      PROVE  sitting'[s].answers = sitting[s].answers
  <2>1. \E status : sitting' = [sitting EXCEPT ![exam_request[r].sitting].status = status]
    BY <1>5 DEF Exam!GradeIfExpired, Exam!Abandon, Exam!Submit
  <2> QED BY <1>3, <1>4, <1>5, <2>1
<1>6. ASSUME NEW r \in Requests, Exam!CreateSitting(r), sitting' # sitting
      PROVE  sitting'[s] = sitting[s]
  <2>1. PICK t \in Exam!Fresh : sitting' = [sitting EXCEPT ![t] = Exam!Opened(r)]
    BY <1>6 DEF Exam!CreateSitting
  <2>2. t # s
    BY DEF Exam!Fresh, ExamInv, NewIsBlank
  <2> QED BY <1>1, <2>1, <2>2
<1>7. ASSUME NEW r \in Requests, Exam!TakeAnswer(r), sitting' # sitting
      PROVE  sitting'[s].answers[q] = sitting[s].answers[q]
  <2> DEFINE t == exam_request[r].sitting
             p == exam_request[r].question
  <2>1. \/ /\ sitting[t].answers[p] = None
           /\ sitting' = [sitting EXCEPT ![t].answers[p] = exam_request[r].right]
        \/ \E status : sitting' = [sitting EXCEPT ![t].status = status]
    BY <1>7 DEF Exam!TakeAnswer
  <2>2. t \in Sittings
    BY <1>4, <1>7
  <2>3. sitting[t].answers \in [Questions -> BOOLEAN \cup {None}] /\ sitting[t] \in Exam!BenchmarkExamAttempt
    BY <1>1, <2>2 DEF Exam!BenchmarkExamAttempt
  <2> HIDE DEF t, p
  <2>4. CASE /\ sitting[t].answers[p] = None
             /\ sitting' = [sitting EXCEPT ![t].answers[p] = exam_request[r].right]
    <3>1. CASE s # t
      BY <1>1, <2>4, <3>1
    <3>2. CASE s = t
      <4>1. q # p
        BY <2>4, <3>2
      <4>2. sitting'[s].answers = [sitting[s].answers EXCEPT ![p] = exam_request[r].right]
        BY <1>1, <2>2, <2>3, <2>4, <3>2 DEF Exam!BenchmarkExamAttempt
      <4> QED BY <2>3, <3>2, <4>1, <4>2
    <3> QED BY <3>1, <3>2
  <2>5. CASE \E status : sitting' = [sitting EXCEPT ![t].status = status]
    BY <1>3, <2>2, <2>5
  <2> QED BY <2>1, <2>4, <2>5
<1> QED BY <1>2, <1>5, <1>6, <1>7

-----------------------------------------------------------------------------
(* Conversations.                                                           *)

(* A request goes on with the conversation it has loaded.  While the        *)
(* conversation is there lines are only added: a held turn count is not     *)
(* above what has been said, and a counted position is the learner's or the *)
(* AI's by its parity, whoever takes it first.                              *)
TalkJobOK(job, row, said_lines, begun) ==
  /\ job.at \notin {"idle", "creating"} => job.session # None
  /\ job.session # None => begun > 0
  /\ row # None =>
       /\ job.session # None => job.session.user_turns <= Len(said_lines) \div 2
       /\ job.at = "asking" => job.seq % 2 = 0
       /\ job.at = "replying" => job.seq % 2 = 1

TalkInv ==
  /\ Talk!TypeOK /\ Talk!LinesAlternate
  /\ session # None => /\ started > 0 /\ Len(lines) > 0
                       /\ session.status = "FINISHED" => session.feedback
  /\ started = 0 => lines = <<>>
  /\ \A r \in Requests : TalkJobOK(talk_request[r], session, lines, started)

LEMMA Halves ==
  ASSUME NEW n \in Nat
  PROVE  /\ n \div 2 \in Nat /\ n \div 2 <= (n + 1) \div 2
         /\ n % 2 \in {0, 1} /\ (n % 2 = 0 <=> (n + 1) % 2 = 1)
         /\ n % 2 = 1 => (n + 1) \div 2 = n \div 2 + 1
OBVIOUS

LEMMA TalkConstants ==
  /\ MaxTurns \in Nat /\ SessionsPerDay \in Nat /\ MaxLines \in Nat
  /\ None \notin Talk!ConversationSession
BY StudyAssumption DEF Talk!ConversationAssumption

LEMMA TalkIdle ==
  /\ Talk!Idle \in Talk!Request /\ Talk!Idle.at = "idle" /\ Talk!Idle.session = None
  /\ \A row, said_lines, begun : TalkJobOK(Talk!Idle, row, said_lines, begun)
BY DEF Talk!Idle, Talk!Request, TalkJobOK

LEMMA TalkStart == Talk!Init => TalkInv
BY TalkIdle DEF Talk!Init, TalkInv, Talk!TypeOK, Talk!LinesAlternate

\* Every line said so far is the learner's or the AI's by its parity.
LEMMA WhoseTurn ==
  ASSUME TalkInv
  PROVE  /\ lines \in Seq(Talk!MessageRole) /\ Len(lines) \in Nat
         /\ Talk!Awaiting <=> lines # <<>> /\ Len(lines) % 2 = 0
         /\ lines = <<>> <=> Len(lines) = 0
<1>1. lines \in Seq(Talk!MessageRole) /\ Len(lines) \in Nat /\ DOMAIN lines = 1..Len(lines)
  BY DEF TalkInv, Talk!TypeOK
<1>2. lines = <<>> <=> Len(lines) = 0
  BY <1>1
<1>3. lines # <<>> => (lines[Len(lines)] = "USER" <=> Len(lines) % 2 # 1)
  BY <1>1, <1>2 DEF TalkInv, Talk!LinesAlternate
<1>4. Len(lines) % 2 \in {0, 1}
  BY <1>1, Halves
<1> QED BY <1>1, <1>2, <1>3, <1>4 DEF Talk!Awaiting

\* A request that only moves on, with nothing written.
LEMMA TalkWaits ==
  ASSUME TalkInv, NEW r \in Requests, NEW job \in Talk!Request, TalkJobOK(job, session, lines, started),
         Talk!Becomes(r, job), session' = session, lines' = lines, started' = started, tracked' \in Nat
  PROVE  TalkInv'
<1>1. /\ talk_request' = [talk_request EXCEPT ![r] = job] /\ talk_request \in [Requests -> Talk!Request]
      /\ talk_request' \in [Requests -> Talk!Request]
  BY DEF Talk!Becomes, TalkInv, Talk!TypeOK
<1>2. \A s \in Requests : talk_request'[s] = talk_request[s] \/ talk_request'[s] = job
  BY <1>1
<1>3. \A s \in Requests : TalkJobOK(talk_request'[s], session', lines', started')
  BY <1>2 DEF TalkInv
<1>4. Talk!TypeOK' /\ Talk!LinesAlternate'
  BY <1>1 DEF TalkInv, Talk!TypeOK, Talk!LinesAlternate
<1> QED BY <1>3, <1>4 DEF TalkInv

\* What the others hold stays in order while lines are only added, or all is gone.
LEMMA TalkOthers ==
  ASSUME TalkInv, NEW r \in Requests, NEW job \in Talk!Request, Talk!Becomes(r, job),
         TalkJobOK(job, session', lines', started'), started' \in Nat, started' >= started,
         lines' \in Seq(Talk!MessageRole),
         session' # None => (session # None \/ started = 0) /\ Len(lines') >= Len(lines)
  PROVE  /\ talk_request' \in [Requests -> Talk!Request]
         /\ \A s \in Requests : TalkJobOK(talk_request'[s], session', lines', started')
<1>1. /\ talk_request' = [talk_request EXCEPT ![r] = job] /\ talk_request \in [Requests -> Talk!Request]
      /\ talk_request' \in [Requests -> Talk!Request] /\ started \in Nat /\ Len(lines) \in Nat
      /\ Len(lines') \in Nat
  BY DEF Talk!Becomes, TalkInv, Talk!TypeOK
<1>2. SUFFICES ASSUME NEW s \in Requests, s # r
               PROVE  TalkJobOK(talk_request[s], session', lines', started')
  BY <1>1
<1> DEFINE me == talk_request[s]
<1>3. me \in Talk!Request /\ TalkJobOK(me, session, lines, started)
  BY <1>1 DEF TalkInv
<1>4. me.session # None => me.session.user_turns \in Nat
  BY <1>3 DEF Talk!Request, Talk!ConversationSession
<1>5. Len(lines') >= Len(lines) => Len(lines) \div 2 <= Len(lines') \div 2
  BY <1>1
<1>6. Len(lines) \div 2 \in Nat /\ Len(lines') \div 2 \in Nat
  BY <1>1, Halves
<1>7. CASE session' = None
  BY <1>1, <1>3, <1>7 DEF TalkJobOK
<1>8. CASE session' # None /\ session # None
  BY <1>1, <1>3, <1>4, <1>5, <1>6, <1>8 DEF TalkJobOK
<1>9. CASE session' # None /\ session = None
  <2>1. started = 0 /\ me.at \in {"idle", "creating"} /\ me.session = None
    BY <1>1, <1>3, <1>9 DEF TalkJobOK
  <2> QED BY <1>3, <2>1 DEF TalkJobOK
<1> QED BY <1>7, <1>8, <1>9

LEMMA TalkStarts ==
  ASSUME TalkInv, NEW r \in Requests,
         \/ Talk!count_started_since(r) \/ Talk!create_session(r)
         \/ \E what \in {"send", "retry", "finish", "delete"} : Talk!Load(r, what)
  PROVE  TalkInv'
<1>1. /\ Talk!TypeOK /\ started \in Nat /\ lines \in Seq(Talk!MessageRole)
      /\ session \in Talk!ConversationSession \cup {None} /\ tracked \in Nat
  BY DEF TalkInv, Talk!TypeOK
<1>2. CASE Talk!count_started_since(r)
  <2> DEFINE job == [Talk!Idle EXCEPT !.at = "creating"]
  <2>1. job \in Talk!Request /\ TalkJobOK(job, session, lines, started)
    BY DEF Talk!Idle, Talk!Request, TalkJobOK
  <2>2. Talk!Becomes(r, job) /\ Talk!Waits
    BY <1>2 DEF Talk!count_started_since
  <2> QED BY <1>1, <2>1, <2>2, TalkWaits DEF Talk!Waits
<1>3. CASE \E what \in {"send", "retry", "finish", "delete"} : Talk!Load(r, what)
  <2>1. PICK what \in {"send", "retry", "finish", "delete"} : Talk!Load(r, what)
    BY <1>3
  <2> DEFINE job == [Talk!Idle EXCEPT !.at = "loaded", !.for = what, !.session = session]
  <2>2. session # None /\ started > 0 /\ session.user_turns <= Len(lines) \div 2
    BY <2>1 DEF Talk!Load, TalkInv, Talk!LinesAlternate
  <2>3. job \in Talk!Request /\ TalkJobOK(job, session, lines, started)
    BY <1>1, <2>2 DEF Talk!Idle, Talk!Request, TalkJobOK
  <2>4. Talk!Becomes(r, job) /\ Talk!Waits
    BY <2>1 DEF Talk!Load
  <2> QED BY <1>1, <2>3, <2>4, TalkWaits DEF Talk!Waits
<1>4. CASE Talk!create_session(r)
  <2>1. Talk!Becomes(r, Talk!Idle) /\ started' = started + 1 /\ tracked' = tracked
    BY <1>4 DEF Talk!create_session
  <2>2. CASE started = 0
    <3>1. /\ session' = [status |-> "ACTIVE", user_turns |-> 0, goal_reached |-> FALSE,
                         feedback |-> FALSE]
          /\ lines' = <<"ASSISTANT">> /\ session = None
      BY <1>4, <2>2 DEF Talk!create_session, TalkInv
    <3>2. session' \in Talk!ConversationSession /\ session' # None /\ lines' \in Seq(Talk!MessageRole)
      <4>1. session' \in Talk!ConversationSession
        BY <3>1 DEF Talk!ConversationSession, Talk!ConversationStatus
      <4>2. lines' \in Seq(Talk!MessageRole)
        BY <3>1 DEF Talk!MessageRole
      <4> QED BY <4>1, <4>2, TalkConstants
    <3>3. Len(lines') = 1 /\ DOMAIN lines' = {1} /\ lines'[1] = "ASSISTANT"
      BY <3>1
    <3>4. Talk!LinesAlternate'
      BY <3>1, <3>3 DEF Talk!LinesAlternate
    <3>6. Len(lines) = 0
      BY <2>2, WhoseTurn DEF TalkInv
    <3>5. /\ talk_request' \in [Requests -> Talk!Request]
          /\ \A s \in Requests : TalkJobOK(talk_request'[s], session', lines', started')
      BY <1>1, <2>1, <2>2, <3>1, <3>2, <3>3, <3>6, TalkIdle, TalkOthers
    <3> QED BY <1>1, <2>1, <2>2, <3>1, <3>2, <3>3, <3>4, <3>5 DEF TalkInv, Talk!TypeOK
  <2>3. CASE started # 0
    <3>1. session' = session /\ lines' = lines
      BY <1>4, <2>3 DEF Talk!create_session
    <3>2. started' \in Nat /\ started' > 0 /\ started' >= started
      BY <1>1, <2>1
    <3>3. /\ talk_request' \in [Requests -> Talk!Request]
          /\ \A s \in Requests : TalkJobOK(talk_request'[s], session', lines', started')
      BY <1>1, <2>1, <3>1, <3>2, TalkIdle, TalkOthers
    <3>4. Talk!TypeOK' /\ Talk!LinesAlternate'
      BY <1>1, <2>1, <3>1, <3>2, <3>3 DEF TalkInv, Talk!TypeOK, Talk!LinesAlternate
    <3> QED BY <2>3, <3>1, <3>2, <3>3, <3>4 DEF TalkInv
  <2> QED BY <2>2, <2>3
<1> QED BY <1>2, <1>3, <1>4

LEMMA TalkReads ==
  ASSUME TalkInv, NEW r \in Requests, Talk!messages(r) \/ Talk!track_quietly(r) \/ Talk!Raises(r)
  PROVE  TalkInv'
<1> DEFINE me  == talk_request[r]
           job == [me EXCEPT !.at = Talk!Following[me.for], !.seq = Len(lines) + 1]
<1>1. /\ me \in Talk!Request /\ TalkJobOK(me, session, lines, started) /\ tracked \in Nat
      /\ Len(lines) \in Nat /\ TalkJobOK(Talk!Idle, session, lines, started)
  BY TalkIdle, WhoseTurn DEF TalkInv, Talk!TypeOK
<1>2. CASE Talk!Becomes(r, Talk!Idle) /\ tracked' \in Nat /\ UNCHANGED <<session, lines, started>>
  BY <1>1, <1>2, TalkIdle, TalkWaits
<1>3. CASE Talk!track_quietly(r) \/ Talk!Raises(r)
  BY <1>1, <1>2, <1>3 DEF Talk!track_quietly, Talk!Raises, Talk!Waits
<1>4. CASE Talk!messages(r) /\ Talk!MayGoOn(r)
  <2>1. /\ me.at = "loaded" /\ me.for # "delete" /\ Talk!Becomes(r, job) /\ Talk!Waits
    BY <1>4 DEF Talk!messages
  <2>2. me.for \in {"start", "send", "retry", "finish", "delete"} /\ me.session # None
    BY <1>1, <2>1 DEF Talk!Request, TalkJobOK
  <2>3. me.for \in {"send", "retry", "finish"}
    BY <1>4, <2>1, <2>2 DEF Talk!MayGoOn
  <2>4. /\ me.for = "send" => ~Talk!Awaiting
        /\ me.for = "retry" => Talk!Awaiting
    BY <1>4 DEF Talk!MayGoOn
  <2>5. /\ me.for = "send" => job.at = "asking"
        /\ me.for = "retry" => job.at = "replying"
        /\ me.for = "finish" => job.at = "saving"
        /\ job.seq = Len(lines) + 1 /\ job.session = me.session
    BY <1>1 DEF Talk!Following, Talk!Request
  <2>6. job.at \in {"asking", "replying", "saving"} /\ Len(lines) + 1 \in Nat
    BY <1>1, <2>3, <2>5
  <2>7. job \in Talk!Request
    BY <1>1, <2>6 DEF Talk!Request
  <2>8. /\ job.at = "asking" => me.for = "send"
        /\ job.at = "replying" => me.for = "retry"
    BY <2>3, <2>5
  <2>9. session # None => Len(lines) > 0
    BY DEF TalkInv
  <2> HIDE DEF job, me
  <2>10. session # None /\ me.for = "send" => (Len(lines) + 1) % 2 = 0
    BY <1>1, <2>4, <2>9, WhoseTurn, Halves
  <2>11. session # None /\ me.for = "retry" => (Len(lines) + 1) % 2 = 1
    BY <1>1, <2>4, <2>9, WhoseTurn, Halves
  <2>12. TalkJobOK(job, session, lines, started)
    BY <1>1, <2>2, <2>5, <2>8, <2>10, <2>11 DEF TalkJobOK
  <2> QED BY <1>1, <2>1, <2>7, <2>12, TalkWaits DEF Talk!Waits
<1>5. CASE Talk!messages(r) /\ ~Talk!MayGoOn(r)
  BY <1>1, <1>2, <1>5 DEF Talk!messages, Talk!Waits
<1> QED BY <1>3, <1>4, <1>5

LEMMA TalkSends ==
  ASSUME TalkInv, NEW r \in Requests, Talk!send(r)
  PROVE  TalkInv'
<1> DEFINE me  == talk_request[r]
           job == [me EXCEPT !.at = "replying", !.seq = me.seq + 1]
<1>1. /\ me \in Talk!Request /\ TalkJobOK(me, session, lines, started)
      /\ started \in Nat /\ tracked \in Nat /\ session \in Talk!ConversationSession \cup {None}
      /\ lines \in Seq(Talk!MessageRole) /\ Len(lines) \in Nat
  BY WhoseTurn DEF TalkInv, Talk!TypeOK
<1>2. /\ me.at = "asking" /\ session # None /\ Len(lines) + 1 = me.seq
      /\ lines' = Append(lines, "USER") /\ Talk!Becomes(r, job)
      /\ session' = [session EXCEPT !.user_turns = me.session.user_turns + 1]
      /\ started' = started /\ tracked' = tracked
  BY DEF Talk!send, Talk!AddMessage
<1>3. /\ me.session # None /\ started > 0 /\ me.session.user_turns <= Len(lines) \div 2
      /\ me.seq % 2 = 0 /\ Len(lines) > 0
  BY <1>1, <1>2 DEF TalkJobOK, TalkInv
<1>4. /\ me.session \in Talk!ConversationSession /\ session \in Talk!ConversationSession
      /\ me.seq \in Nat
  BY <1>1, <1>2, <1>3 DEF Talk!Request
<1>5. me.session.user_turns \in Nat /\ me.session.user_turns + 1 \in Nat
  BY <1>4 DEF Talk!ConversationSession
<1>6. /\ session' \in Talk!ConversationSession /\ session'.user_turns = me.session.user_turns + 1
      /\ session'.status = session.status /\ session'.feedback = session.feedback
  BY <1>2, <1>4, <1>5 DEF Talk!ConversationSession
<1>7. /\ lines' \in Seq(Talk!MessageRole) /\ Len(lines') = Len(lines) + 1
      /\ \A i \in DOMAIN lines' : lines'[i] = IF i = Len(lines) + 1 THEN "USER" ELSE lines[i]
      /\ \A i \in DOMAIN lines' : i # Len(lines) + 1 => i \in DOMAIN lines
  BY <1>1, <1>2 DEF Talk!MessageRole
<1>8. job \in Talk!Request /\ job.at = "replying" /\ job.session = me.session /\ job.seq = me.seq + 1
  <2>1. me \in Talk!Request /\ me.seq + 1 \in Nat
    BY <1>1, <1>4
  <2> QED BY <2>1 DEF Talk!Request
<1> HIDE DEF job, me
<1>9. Len(lines) % 2 = 1 /\ (Len(lines) + 1) \div 2 = Len(lines) \div 2 + 1
  BY <1>1, <1>2, <1>3, Halves
<1>10. job.seq % 2 = 1
  BY <1>2, <1>3, <1>4, <1>8, Halves
<1>11. /\ me.session.user_turns + 1 <= Len(lines') \div 2
       /\ me.session.user_turns <= Len(lines') \div 2
  <2>1. Len(lines) \div 2 \in Nat
    BY <1>1, Halves
  <2> QED BY <1>3, <1>5, <1>7, <1>9, <2>1
<1>12. Talk!LinesAlternate'
  <2>1. ASSUME NEW i \in DOMAIN lines'
        PROVE  lines'[i] = IF i % 2 = 1 THEN "ASSISTANT" ELSE "USER"
    <3>1. CASE i = Len(lines) + 1
      BY <1>2, <1>3, <1>7, <3>1
    <3>2. CASE i # Len(lines) + 1
      BY <1>7, <3>2 DEF TalkInv, Talk!LinesAlternate
    <3> QED BY <3>1, <3>2
  <2> QED BY <1>6, <1>11, <2>1 DEF Talk!LinesAlternate
<1>13. TalkJobOK(job, session', lines', started')
  BY <1>2, <1>3, <1>8, <1>10, <1>11 DEF TalkJobOK
<1>14. /\ talk_request' \in [Requests -> Talk!Request]
       /\ \A s \in Requests : TalkJobOK(talk_request'[s], session', lines', started')
  <2>1. Len(lines') >= Len(lines) /\ started' >= started /\ started' \in Nat
    BY <1>1, <1>2, <1>7
  <2> QED BY <1>1, <1>2, <1>7, <1>8, <1>13, <2>1, TalkOthers
<1>15. Talk!TypeOK'
  BY <1>1, <1>2, <1>6, <1>7, <1>14 DEF Talk!TypeOK
<1>16. session.status = "FINISHED" => session.feedback
  BY <1>2 DEF TalkInv
<1>17. started' > 0 /\ Len(lines') > 0
  BY <1>1, <1>2, <1>3, <1>7
<1> QED BY <1>6, <1>12, <1>14, <1>15, <1>16, <1>17 DEF TalkInv

LEMMA TalkReplies ==
  ASSUME TalkInv, NEW r \in Requests, NEW goal_done \in BOOLEAN, Talk!Reply(r, goal_done)
  PROVE  TalkInv'
<1> DEFINE me == talk_request[r]
<1>1. /\ me \in Talk!Request /\ TalkJobOK(me, session, lines, started)
      /\ started \in Nat /\ tracked \in Nat /\ session \in Talk!ConversationSession \cup {None}
      /\ lines \in Seq(Talk!MessageRole) /\ Len(lines) \in Nat
  BY WhoseTurn DEF TalkInv, Talk!TypeOK
<1>2. /\ me.at = "replying" /\ session # None /\ Len(lines) + 1 = me.seq
      /\ lines' = Append(lines, "ASSISTANT") /\ Talk!Becomes(r, Talk!Idle)
      /\ session' = [session EXCEPT !.goal_reached = @ \/ goal_done]
      /\ started' = started /\ tracked' = tracked
  BY DEF Talk!Reply, Talk!AddMessage
<1>3. me.seq % 2 = 1 /\ started > 0
  BY <1>1, <1>2 DEF TalkJobOK, TalkInv
<1>4. /\ session' \in Talk!ConversationSession /\ session'.user_turns = session.user_turns
      /\ session'.status = session.status /\ session'.feedback = session.feedback
      /\ session.user_turns \in Nat /\ session.user_turns <= Len(lines) \div 2
  <2>1. session \in Talk!ConversationSession /\ session.goal_reached \in BOOLEAN
    BY <1>1, <1>2 DEF Talk!ConversationSession
  <2>2. (session.goal_reached \/ goal_done) \in BOOLEAN
    OBVIOUS
  <2>3. session.user_turns <= Len(lines) \div 2
    BY <1>2 DEF TalkInv, Talk!LinesAlternate
  <2> QED BY <1>2, <2>1, <2>2, <2>3 DEF Talk!ConversationSession
<1>5. /\ lines' \in Seq(Talk!MessageRole) /\ Len(lines') = Len(lines) + 1
      /\ \A i \in DOMAIN lines' : lines'[i] = IF i = Len(lines) + 1 THEN "ASSISTANT" ELSE lines[i]
      /\ \A i \in DOMAIN lines' : i # Len(lines) + 1 => i \in DOMAIN lines
  BY <1>1, <1>2 DEF Talk!MessageRole
<1> HIDE DEF me
<1>6. Len(lines') > 0 /\ Len(lines') >= Len(lines) /\ session'.user_turns <= Len(lines') \div 2
  <2>1. Len(lines) \div 2 \in Nat /\ Len(lines') \div 2 \in Nat /\ Len(lines) \div 2 <= Len(lines') \div 2
    BY <1>1, <1>5, Halves
  <2> QED BY <1>1, <1>4, <1>5, <2>1
<1>7. Talk!LinesAlternate'
  <2>1. ASSUME NEW i \in DOMAIN lines'
        PROVE  lines'[i] = IF i % 2 = 1 THEN "ASSISTANT" ELSE "USER"
    <3>1. CASE i = Len(lines) + 1
      BY <1>2, <1>3, <1>5, <3>1
    <3>2. CASE i # Len(lines) + 1
      BY <1>5, <3>2 DEF TalkInv, Talk!LinesAlternate
    <3> QED BY <3>1, <3>2
  <2> QED BY <1>6, <2>1 DEF Talk!LinesAlternate
<1>8. /\ talk_request' \in [Requests -> Talk!Request]
      /\ \A s \in Requests : TalkJobOK(talk_request'[s], session', lines', started')
  <2>1. started' >= started /\ started' \in Nat
    BY <1>1, <1>2
  <2>2. TalkJobOK(Talk!Idle, session', lines', started')
    BY TalkIdle
  <2> QED BY <1>2, <1>5, <1>6, <2>1, <2>2, TalkIdle, TalkOthers
<1>9. Talk!TypeOK'
  BY <1>1, <1>2, <1>4, <1>5, <1>8 DEF Talk!TypeOK
<1>10. session.status = "FINISHED" => session.feedback
  BY <1>2 DEF TalkInv
<1>11. started' > 0
  BY <1>2, <1>3
<1>12. session'.status = "FINISHED" => session'.feedback
  BY <1>4, <1>10
<1> QED BY <1>1, <1>6, <1>7, <1>8, <1>9, <1>11, <1>12 DEF TalkInv

LEMMA TalkEnds ==
  ASSUME TalkInv, NEW r \in Requests, Talk!finish(r) \/ Talk!delete_session(r)
  PROVE  TalkInv'
<1> DEFINE me  == talk_request[r]
           job == [me EXCEPT !.at = "tracking"]
<1>1. /\ me \in Talk!Request /\ TalkJobOK(me, session, lines, started)
      /\ started \in Nat /\ tracked \in Nat /\ session \in Talk!ConversationSession \cup {None}
      /\ lines \in Seq(Talk!MessageRole) /\ Len(lines) \in Nat
  BY WhoseTurn DEF TalkInv, Talk!TypeOK
<1>2. CASE Talk!finish(r)
  <2>1. /\ me.at = "saving" /\ session # None /\ Talk!Becomes(r, job)
        /\ session' = [session EXCEPT !.status = "FINISHED", !.feedback = TRUE]
        /\ UNCHANGED <<lines, started, tracked>>
    BY <1>2 DEF Talk!finish
  <2>2. /\ session' \in Talk!ConversationSession /\ session'.feedback
        /\ session'.user_turns = session.user_turns
    BY <1>1, <2>1 DEF Talk!ConversationSession, Talk!ConversationStatus
  <2>3. job \in Talk!Request /\ job.at = "tracking" /\ job.session = me.session
    BY <1>1 DEF Talk!Request
  <2>4. TalkJobOK(job, session', lines', started')
    BY <1>1, <2>1, <2>3 DEF TalkJobOK
  <2> HIDE DEF job, me
  <2>5. /\ talk_request' \in [Requests -> Talk!Request]
        /\ \A s \in Requests : TalkJobOK(talk_request'[s], session', lines', started')
    BY <1>1, <2>1, <2>3, <2>4, TalkOthers
  <2>6. Talk!TypeOK'
    BY <1>1, <2>1, <2>2, <2>5 DEF Talk!TypeOK
  <2>7. Talk!LinesAlternate'
    BY <2>1, <2>2 DEF TalkInv, Talk!LinesAlternate
  <2> QED BY <2>1, <2>2, <2>5, <2>6, <2>7 DEF TalkInv
<1>3. CASE Talk!delete_session(r)
  <2>1. /\ me.at = "loaded" /\ Talk!Becomes(r, Talk!Idle) /\ session' = None /\ lines' = <<>>
        /\ UNCHANGED <<started, tracked>>
    BY <1>3 DEF Talk!delete_session
  <2>2. /\ talk_request' \in [Requests -> Talk!Request]
        /\ \A s \in Requests : TalkJobOK(talk_request'[s], session', lines', started')
    BY <1>1, <2>1, TalkIdle, TalkOthers
  <2>3. Talk!TypeOK'
    BY <1>1, <2>1, <2>2 DEF Talk!TypeOK
  <2>4. Talk!LinesAlternate'
    BY <2>1 DEF Talk!LinesAlternate
  <2> QED BY <2>1, <2>2, <2>3, <2>4 DEF TalkInv
<1> QED BY <1>2, <1>3

LEMMA TalkStep == TalkInv /\ [Talk!Next]_(Talk!vars) => TalkInv'
<1> SUFFICES ASSUME TalkInv, [Talk!Next]_(Talk!vars) PROVE TalkInv'
  OBVIOUS
<1>1. CASE UNCHANGED Talk!vars
  BY <1>1 DEF Talk!vars, TalkInv, Talk!TypeOK, Talk!LinesAlternate
<1>2. ASSUME NEW r \in Requests,
             \/ Talk!count_started_since(r) \/ Talk!create_session(r)
             \/ \E what \in {"send", "retry", "finish", "delete"} : Talk!Load(r, what)
             \/ Talk!messages(r) \/ Talk!send(r)
             \/ \E goal_done \in BOOLEAN : Talk!Reply(r, goal_done)
             \/ Talk!finish(r) \/ Talk!track_quietly(r) \/ Talk!delete_session(r) \/ Talk!Raises(r)
      PROVE  TalkInv'
  BY <1>2, TalkStarts, TalkReads, TalkSends, TalkReplies, TalkEnds
<1> QED BY <1>1, <1>2 DEF Talk!Next

(* What was finished, or reached its goal, is so after every step.          *)
LEMMA TalkStaysFinished ==
  ASSUME TalkInv, [Talk!Next]_(Talk!vars), session # None, session' # None
  PROVE  /\ session.status = "FINISHED" => session'.status = "FINISHED" /\ session'.feedback
         /\ session.goal_reached => session'.goal_reached
<1>1. /\ session \in Talk!ConversationSession /\ started > 0 /\ started # 0
      /\ session.status = "FINISHED" => session.feedback
  BY DEF TalkInv, Talk!TypeOK
<1>2. ASSUME NEW r \in Requests, Talk!send(r)
      PROVE  /\ session'.status = session.status /\ session'.feedback = session.feedback
             /\ session'.goal_reached = session.goal_reached
  BY <1>1, <1>2 DEF Talk!send, Talk!ConversationSession
<1>3. ASSUME NEW r \in Requests, NEW goal_done \in BOOLEAN, Talk!Reply(r, goal_done)
      PROVE  /\ session'.status = session.status /\ session'.feedback = session.feedback
             /\ session.goal_reached => session'.goal_reached
  BY <1>1, <1>3 DEF Talk!Reply, Talk!ConversationSession
<1>4. ASSUME NEW r \in Requests, Talk!finish(r)
      PROVE  /\ session'.status = "FINISHED" /\ session'.feedback
             /\ session'.goal_reached = session.goal_reached
  BY <1>1, <1>4 DEF Talk!finish, Talk!ConversationSession
<1>5. \/ session' = session
      \/ \E r \in Requests : Talk!send(r) \/ (\E goal_done \in BOOLEAN : Talk!Reply(r, goal_done))
                             \/ Talk!finish(r)
  BY <1>1 DEF Talk!Next, Talk!vars, Talk!count_started_since, Talk!create_session, Talk!Load,
     Talk!messages,
     Talk!track_quietly, Talk!delete_session, Talk!Raises, Talk!Waits
<1> QED BY <1>1, <1>2, <1>3, <1>4, <1>5

-----------------------------------------------------------------------------
(* Daily quests.                                                            *)

Finished(rows)        == {q \in Quests : rows[q] # None /\ rows[q].completed}
Claimed(rows, chests) == {q \in Quests : rows[q] # None /\ rows[q].claimed} \cup chests

\* A quest is earned when it is finished, a chest when the finished ones open it.
Earned(c, rows) == /\ c \in Quests => c \in Finished(rows)
                   /\ c \in Chests => Daily!PointsOf(Finished(rows)) >= Milestone[c]

(* What a request goes on with: quests of the day to count, a claim that    *)
(* was earned when it was looked at, and to pay for, one it has written or  *)
(* one that the profile's creation has committed.                           *)
DailyJobOK(job, rows, chests) ==
  /\ job.at = "advancing" => job.todo # {} /\ \A q \in job.todo : rows[q] # None
  /\ job.for = "chest" => job.claim \in Chests
  /\ job.at = "points" => job.for = "chest"
  /\ job.at = "marking" => job.claim \in Quests
  /\ job.at = "opening" => job.claim \in Chests
  /\ job.at \in {"marking", "opening", "profile", "paying"} =>
       job.claim \in Quests \cup Chests /\ Earned(job.claim, rows)
  /\ job.at = "profile" => job.held
  /\ job.at = "paying" /\ ~job.held => job.claim \in Claimed(rows, chests)

RowsAddUp(rows, day) ==
  \A q \in Quests : /\ day[q] <= Target[q]
                    /\ rows[q] = None => day[q] = 0
                    /\ rows[q] # None => /\ rows[q].progress = day[q]
                                         /\ rows[q].completed <=> day[q] = Target[q]
                                         /\ rows[q].claimed => rows[q].completed

DailyInv ==
  /\ quest \in [Quests -> Daily!UserDailyQuest \cup {None}] /\ counted \in [Quests -> Nat]
  /\ opened \subseteq Chests /\ ledger \subseteq Quests \cup Chests
  /\ stranded \subseteq Quests \cup Chests /\ profile \in BOOLEAN
  /\ quest_request \in [Requests -> Daily!Request]
  /\ RowsAddUp(quest, counted)
  /\ \A c \in opened : Earned(c, quest)
  /\ ledger \subseteq Claimed(quest, opened) /\ Claimed(quest, opened) \subseteq ledger \cup stranded
  /\ \A r \in Requests : DailyJobOK(quest_request[r], quest, opened)

LEMMA DailyConstants ==
  /\ Quests \subseteq Nat /\ IsFiniteSet(Quests) /\ Peak \subseteq Quests
  /\ Target \in [Quests -> Nat \ {0}] /\ Points \in [Quests -> Nat]
  /\ Milestone \in [Chests -> Nat \ {0}] /\ MaxAmount \in Nat
  /\ Quests \cap Chests = {} /\ None \notin Quests /\ None \notin Chests
  /\ None \notin Daily!UserDailyQuest
BY StudyAssumption, Counting DEF Daily!QuestsAssumption

\* Points do not fall while quests are finished.
LEMMA PointsGrow ==
  ASSUME NEW few \in SUBSET Quests, NEW many \in SUBSET Quests, few \subseteq many
  PROVE  /\ Daily!PointsOf(few) \in Nat /\ Daily!PointsOf(many) \in Nat
         /\ Daily!PointsOf(few) <= Daily!PointsOf(many)
<1> DEFINE Of(q)      == {<<q, i>> : i \in 1..Points[q]}
           All(some)  == UNION {Of(q) : q \in some}
<1>1. ASSUME NEW q \in Quests
      PROVE  IsFiniteSet(Of(q))
  <2> DEFINE f == [i \in 1..Points[q] |-> <<q, i>>]
  <2>1. IsFiniteSet(1..Points[q])
    BY DailyConstants, FS_Interval
  <2>2. f \in Surjection(1..Points[q], Of(q))
    BY DEF Surjection
  <2> QED BY <2>1, <2>2, FS_Surjection
<1> HIDE DEF Of
<1>2. IsFiniteSet(All(many))
  <2> DEFINE f == [q \in many |-> Of(q)]
  <2>1. IsFiniteSet(many)
    BY DailyConstants, FS_Subset
  <2>2. f \in Surjection(many, {Of(q) : q \in many})
    BY DEF Surjection
  <2>3. IsFiniteSet({Of(q) : q \in many})
    BY <2>1, <2>2, FS_Surjection
  <2> QED BY <1>1, <2>3, FS_UNION
<1>3. All(few) \subseteq All(many)
  OBVIOUS
<1> HIDE DEF All
<1>4. /\ Cardinality(All(few)) <= Cardinality(All(many)) /\ IsFiniteSet(All(few))
  BY <1>2, <1>3, FS_Subset
<1>5. Cardinality(All(few)) \in Nat /\ Cardinality(All(many)) \in Nat
  BY <1>2, <1>4, FS_CardinalityType
<1>6. /\ Daily!PointsOf(few) = Cardinality(All(few))
      /\ Daily!PointsOf(many) = Cardinality(All(many))
  BY Counting DEF Daily!PointsOf, All, Of
<1> QED BY <1>4, <1>5, <1>6

LEMMA DailyIdle ==
  /\ Daily!Idle \in Daily!Request /\ Daily!Idle.at = "idle"
  /\ \A rows, chests : DailyJobOK(Daily!Idle, rows, chests)
BY DEF Daily!Idle, Daily!Nothing, Daily!Request, DailyJobOK

LEMMA DailyStart == Daily!Init => DailyInv
<1> SUFFICES ASSUME Daily!Init PROVE DailyInv
  OBVIOUS
<1>1. /\ quest = [q \in Quests |-> None] /\ opened = {} /\ ledger = {} /\ stranded = {}
      /\ profile = FALSE /\ quest_request = [r \in Requests |-> Daily!Idle]
      /\ counted = [q \in Quests |-> 0]
  BY DEF Daily!Init, Daily!Nothing
<1>2. RowsAddUp(quest, counted)
  BY <1>1, DailyConstants DEF RowsAddUp
<1>3. Claimed(quest, opened) = {}
  BY <1>1 DEF Claimed
<1> QED BY <1>1, <1>2, <1>3, DailyIdle DEF DailyInv

\* Rows are only added, finished and claimed.
RowsGrow(rows, later) ==
  \A q \in Quests : rows[q] # None =>
    later[q] # None /\ (rows[q].completed => later[q].completed) /\ (rows[q].claimed => later[q].claimed)

LEMMA EarnedStays ==
  ASSUME NEW rows, NEW later, NEW chests, NEW after, RowsGrow(rows, later), chests \subseteq after
  PROVE  /\ Claimed(rows, chests) \subseteq Claimed(later, after)
         /\ \A c \in Quests \cup Chests : Earned(c, rows) => Earned(c, later)
         /\ \A job : job.todo \in SUBSET Quests /\ DailyJobOK(job, rows, chests)
                      => DailyJobOK(job, later, after)
<1>1. Claimed(rows, chests) \subseteq Claimed(later, after)
  BY DEF Claimed, RowsGrow
<1>2. Finished(rows) \subseteq Finished(later) /\ Finished(later) \subseteq Quests
  BY DEF Finished, RowsGrow
<1>3. /\ Daily!PointsOf(Finished(rows)) \in Nat /\ Daily!PointsOf(Finished(later)) \in Nat
      /\ Daily!PointsOf(Finished(rows)) <= Daily!PointsOf(Finished(later))
  BY <1>2, PointsGrow
<1>4. \A c \in Quests \cup Chests : Earned(c, rows) => Earned(c, later)
  BY <1>2, <1>3, DailyConstants DEF Earned
<1>5. ASSUME NEW job, DailyJobOK(job, rows, chests), job.todo \in SUBSET Quests
      PROVE  DailyJobOK(job, later, after)
  BY <1>1, <1>4, <1>5 DEF DailyJobOK, RowsGrow
<1> QED BY <1>1, <1>4, <1>5

\* A request goes on; what it writes only adds to what there is.
LEMMA DailyWrites ==
  ASSUME DailyInv, NEW r \in Requests, NEW job \in Daily!Request, Daily!Becomes(r, job),
         DailyJobOK(job, quest', opened'), RowsGrow(quest, quest'), opened \subseteq opened'
  PROVE  /\ quest_request' \in [Requests -> Daily!Request]
         /\ \A s \in Requests : DailyJobOK(quest_request'[s], quest', opened')
         /\ Claimed(quest, opened) \subseteq Claimed(quest', opened')
         /\ \A c \in Quests \cup Chests : Earned(c, quest) => Earned(c, quest')
<1>1. /\ quest_request' = [quest_request EXCEPT ![r] = job] /\ quest_request \in [Requests -> Daily!Request]
      /\ quest_request' \in [Requests -> Daily!Request]
      /\ \A s \in Requests : quest_request'[s] = quest_request[s] \/ quest_request'[s] = job
  BY DEF Daily!Becomes, DailyInv
<1>2. \A s \in Requests : DailyJobOK(quest_request[s], quest, opened) /\ quest_request[s].todo \in SUBSET Quests
  BY <1>1 DEF DailyInv, Daily!Request
<1>3. \A s \in Requests : DailyJobOK(quest_request[s], quest', opened')
  BY <1>2, EarnedStays
<1>4. /\ Claimed(quest, opened) \subseteq Claimed(quest', opened')
      /\ \A c \in Quests \cup Chests : Earned(c, quest) => Earned(c, quest')
  BY EarnedStays
<1> QED BY <1>1, <1>3, <1>4

LEMMA DailyKeeps ==
  ASSUME DailyInv, NEW r \in Requests, NEW job \in Daily!Request, Daily!Becomes(r, job),
         DailyJobOK(job, quest, opened), Daily!Keeps
  PROVE  DailyInv'
<1>1. UNCHANGED <<quest, opened, ledger, profile, counted, stranded>>
  BY DEF Daily!Keeps
<1>2. RowsGrow(quest, quest')
  BY <1>1 DEF RowsGrow
<1>3. /\ quest_request' \in [Requests -> Daily!Request]
      /\ \A s \in Requests : DailyJobOK(quest_request'[s], quest', opened')
  BY <1>1, <1>2, DailyWrites
<1> QED BY <1>1, <1>3 DEF DailyInv

\* Most steps of a request write nothing.
LEMMA DailyLooks ==
  ASSUME DailyInv, NEW r \in Requests,
         \/ \E event \in [Quests -> 0..MaxAmount] : Daily!track(r, event)
         \/ Daily!quests_for_day(r) \/ (\E q \in Quests : Daily!claim_quest(r, q))
         \/ (\E c \in Chests : Daily!claim_chest(r, c))
         \/ Daily!mark_claimed(r) \/ Daily!chest_unlocked(r) \/ Daily!open_chest(r) \/ Daily!Raises(r)
  PROVE  DailyInv'
<1> DEFINE me == quest_request[r]
<1>1. me \in Daily!Request /\ DailyJobOK(me, quest, opened)
  BY DEF DailyInv
<1>2. ASSUME Daily!Becomes(r, Daily!Idle), Daily!Keeps
      PROVE  DailyInv'
  BY <1>2, DailyIdle, DailyKeeps
<1>3. CASE Daily!Raises(r)
  BY <1>2, <1>3 DEF Daily!Raises, Daily!Ends
<1>4. ASSUME NEW event \in [Quests -> 0..MaxAmount], Daily!track(r, event)
      PROVE  DailyInv'
  <2> DEFINE job == [Daily!Idle EXCEPT !.at = "today", !.event = event]
  <2>1. event \in [Quests -> Nat]
    BY DailyConstants
  <2>2. job \in Daily!Request /\ job.at = "today" /\ job.for = "track"
    BY <2>1, DailyIdle DEF Daily!Request, Daily!Idle
  <2>3. DailyJobOK(job, quest, opened)
    BY <2>2 DEF DailyJobOK
  <2> QED BY <1>4, <2>2, <2>3, DailyKeeps DEF Daily!track
<1>5. ASSUME NEW q \in Quests, Daily!claim_quest(r, q)
      PROVE  DailyInv'
  <2> DEFINE job == [Daily!Idle EXCEPT !.at = "marking", !.claim = q]
  <2>1. /\ job \in Daily!Request /\ job.at = "marking" /\ job.claim = q /\ job.for = "track"
    BY DailyIdle DEF Daily!Request, Daily!Idle, Daily!Claims
  <2>2. Earned(q, quest)
    BY <1>5, DailyConstants DEF Daily!claim_quest, Earned, Finished
  <2>3. DailyJobOK(job, quest, opened)
    BY <2>1, <2>2 DEF DailyJobOK
  <2> QED BY <1>5, <2>1, <2>3, DailyKeeps DEF Daily!claim_quest
<1>6. ASSUME NEW c \in Chests, Daily!claim_chest(r, c)
      PROVE  DailyInv'
  <2> DEFINE job == [Daily!Idle EXCEPT !.at = "today", !.for = "chest", !.claim = c]
  <2>1. /\ job \in Daily!Request /\ job.at = "today" /\ job.claim = c /\ job.for = "chest"
    BY DailyIdle DEF Daily!Request, Daily!Idle, Daily!Claims
  <2>2. DailyJobOK(job, quest, opened)
    BY <2>1 DEF DailyJobOK
  <2> QED BY <1>6, <2>1, <2>2, DailyKeeps DEF Daily!claim_chest
<1>7. CASE Daily!quests_for_day(r)
  <2>1. me.at = "today" /\ Daily!Keeps
    BY <1>7 DEF Daily!quests_for_day
  <2>2. ASSUME NEW to \in {"inserting", "points"}, Daily!Goes(r, to), to = "points" => me.for = "chest"
        PROVE  DailyInv'
    <3> DEFINE job == [me EXCEPT !.at = to]
    <3>1. /\ job \in Daily!Request /\ job.at = to /\ job.for = me.for /\ job.claim = me.claim
      BY <1>1, <2>2 DEF Daily!Request
    <3>2. DailyJobOK(job, quest, opened)
      BY <1>1, <2>1, <2>2, <3>1 DEF DailyJobOK
    <3> QED BY <2>1, <2>2, <3>1, <3>2, DailyKeeps DEF Daily!Goes
  <2>3. ASSUME me.for # "chest", Daily!Touched(r) # {},
               Daily!Becomes(r, [me EXCEPT !.at = "advancing", !.todo = Daily!Touched(r)])
        PROVE  DailyInv'
    <3> DEFINE job == [me EXCEPT !.at = "advancing", !.todo = Daily!Touched(r)]
    <3>1. Daily!Touched(r) \subseteq {q \in Quests : quest[q] # None}
      BY DEF Daily!Touched, Daily!Drawn
    <3>2. /\ job \in Daily!Request /\ job.at = "advancing" /\ job.for = me.for
          /\ job.todo = Daily!Touched(r)
      BY <1>1, <3>1 DEF Daily!Request
    <3>3. DailyJobOK(job, quest, opened)
      BY <2>3, <3>1, <3>2 DEF DailyJobOK
    <3> QED BY <2>1, <2>3, <3>2, <3>3, DailyKeeps
  <2> QED BY <1>2, <1>7, <2>1, <2>2, <2>3 DEF Daily!quests_for_day, Daily!Read, Daily!Ends
<1>8. CASE Daily!chest_unlocked(r)
  <2>1. me.at = "points" /\ Daily!Keeps /\ me.for = "chest" /\ me.claim \in Chests
    BY <1>1, <1>8 DEF Daily!chest_unlocked, DailyJobOK
  <2>2. Daily!activity_points = Daily!PointsOf(Finished(quest))
    BY DEF Daily!activity_points, Daily!Drawn, Finished
  <2>3. CASE Daily!PointsOf(Finished(quest)) >= Milestone[me.claim]
    <3> DEFINE job == [me EXCEPT !.at = "opening"]
    <3>1. /\ job \in Daily!Request /\ job.at = "opening" /\ job.for = me.for /\ job.claim = me.claim
      BY <1>1 DEF Daily!Request
    <3>2. Earned(me.claim, quest)
      BY <2>1, <2>3, DailyConstants DEF Earned
    <3>3. DailyJobOK(job, quest, opened)
      BY <2>1, <3>1, <3>2 DEF DailyJobOK
    <3> QED BY <1>8, <2>1, <2>2, <2>3, <3>1, <3>3, DailyKeeps DEF Daily!chest_unlocked, Daily!Goes
  <2> QED BY <1>2, <1>8, <2>1, <2>2, <2>3 DEF Daily!chest_unlocked, Daily!Ends
<1>9. CASE Daily!mark_claimed(r) \/ Daily!open_chest(r)
  <2> DEFINE job == [me EXCEPT !.at = "profile", !.held = TRUE]
  <2>1. /\ me.at \in {"marking", "opening"} /\ Daily!Keeps
        /\ Daily!Becomes(r, Daily!Idle) \/ Daily!Becomes(r, job)
    BY <1>9 DEF Daily!mark_claimed, Daily!open_chest, Daily!Ends
  <2>2. /\ job \in Daily!Request /\ job.at = "profile" /\ job.for = me.for /\ job.claim = me.claim /\ job.held
    BY <1>1 DEF Daily!Request
  <2>3. DailyJobOK(job, quest, opened)
    BY <1>1, <2>1, <2>2 DEF DailyJobOK
  <2> QED BY <1>2, <2>1, <2>2, <2>3, DailyKeeps
<1> QED BY <1>3, <1>4, <1>5, <1>6, <1>7, <1>8, <1>9

\* Every set of numbers with one in it has a smallest.
LEMMA Smallest ==
  ASSUME NEW T \in SUBSET Nat, T # {}
  PROVE  \E m \in T : \A k \in T : m <= k
<1> DEFINE R == OpToRel(<, Nat)
<1>1. IsWellFoundedOn(R, Nat)
  BY NatLessThanWellFounded
<1>2. \E x \in T : \A y \in T : ~(<<y, x>> \in R)
  <2> HIDE DEF R
  <2> QED BY <1>1, WFMin
<1>3. \A y, x \in Nat : y < x => <<y, x>> \in R
  BY DEF OpToRel
<1> HIDE DEF R
<1>4. PICK x \in T : \A y \in T : <<y, x>> \notin R
  BY <1>2
<1>5. ASSUME NEW y \in T PROVE x <= y
  <2>1. x \in Nat /\ y \in Nat /\ ~(y < x)
    BY <1>3, <1>4
  <2> QED BY <2>1
<1> QED BY <1>5

LEMMA DailyDraws ==
  ASSUME DailyInv, NEW r \in Requests, Daily!insert_quests(r)
  PROVE  DailyInv'
<1> DEFINE me  == quest_request[r]
           job == [me EXCEPT !.at = "today"]
<1>1. /\ me \in Daily!Request /\ DailyJobOK(me, quest, opened)
      /\ quest \in [Quests -> Daily!UserDailyQuest \cup {None}] /\ RowsAddUp(quest, counted)
      /\ counted \in [Quests -> Nat]
  BY DEF DailyInv
<1>2. /\ me.at = "inserting" /\ Daily!Becomes(r, job)
      /\ quest' = [q \in Quests |-> IF quest[q] = None THEN Daily!Unstarted ELSE quest[q]]
      /\ UNCHANGED <<opened, ledger, profile, counted, stranded>>
  BY DEF Daily!insert_quests, Daily!Goes
<1>3. /\ Daily!Unstarted \in Daily!UserDailyQuest /\ Daily!Unstarted.progress = 0
      /\ ~Daily!Unstarted.completed /\ ~Daily!Unstarted.claimed
  BY DEF Daily!Unstarted, Daily!UserDailyQuest
<1>4. quest' \in [Quests -> Daily!UserDailyQuest \cup {None}]
  BY <1>1, <1>2, <1>3
<1>5. job \in Daily!Request /\ job.at = "today" /\ job.for = me.for /\ job.claim = me.claim
  BY <1>1 DEF Daily!Request
<1> HIDE DEF job, me
<1>6. /\ RowsGrow(quest, quest') /\ DailyJobOK(job, quest', opened')
  BY <1>1, <1>2, <1>5 DEF RowsGrow, DailyJobOK
<1>7. RowsAddUp(quest', counted')
  BY <1>1, <1>2, <1>3, DailyConstants DEF RowsAddUp
<1>8. Claimed(quest', opened') = Claimed(quest, opened)
  BY <1>2, <1>3, DailyConstants DEF Claimed
<1>9. /\ quest_request' \in [Requests -> Daily!Request]
      /\ \A s \in Requests : DailyJobOK(quest_request'[s], quest', opened')
      /\ \A c \in Quests \cup Chests : Earned(c, quest) => Earned(c, quest')
  BY <1>2, <1>5, <1>6, DailyWrites
<1> QED BY <1>2, <1>4, <1>7, <1>8, <1>9 DEF DailyInv

\* What a count makes of the progress: never past the target, and no further than it.
LEMMA Progressing ==
  ASSUME NEW q \in Quests, NEW current \in Nat, NEW amount \in Nat, current <= Target[q]
  PROVE  /\ Daily!progress_after(q, current, amount) \in Nat
         /\ Daily!progress_after(q, current, amount) <= Target[q]
         /\ current = Target[q] => Daily!progress_after(q, current, amount) = Target[q]
<1>1. Target[q] \in Nat
  BY DailyConstants
<1> QED BY <1>1 DEF Daily!progress_after, Daily!Lesser, Daily!Greater

LEMMA DailyAdvances ==
  ASSUME DailyInv, NEW r \in Requests, Daily!advance(r)
  PROVE  DailyInv'
<1> DEFINE me  == quest_request[r]
           q   == CHOOSE t \in me.todo : \A u \in me.todo : t <= u
           progressed == Daily!progress_after(q, quest[q].progress, me.event[q])
           job == [me EXCEPT !.todo = @ \ {q}]
<1>1. /\ me \in Daily!Request /\ DailyJobOK(me, quest, opened)
      /\ quest \in [Quests -> Daily!UserDailyQuest \cup {None}] /\ RowsAddUp(quest, counted)
      /\ counted \in [Quests -> Nat]
  BY DEF DailyInv
<1>2. /\ me.at = "advancing"
      /\ quest' = IF quest[q].completed THEN quest
                  ELSE [quest EXCEPT ![q].progress = progressed,
                                     ![q].completed = progressed >= Target[q]]
      /\ counted' = [counted EXCEPT ![q] = Daily!progress_after(q, counted[q], me.event[q])]
      /\ IF me.todo = {q} THEN Daily!Becomes(r, Daily!Idle) ELSE Daily!Becomes(r, job)
      /\ UNCHANGED <<opened, ledger, profile, stranded>>
  BY DEF Daily!advance, Daily!Ends
<1>3. me.todo # {} /\ me.todo \subseteq Quests /\ me.todo \subseteq Nat /\ \A t \in me.todo : quest[t] # None
  BY <1>1, <1>2, DailyConstants DEF DailyJobOK, Daily!Request
<1>4. q \in me.todo
  <2>1. \E t \in me.todo : \A u \in me.todo : t <= u
    BY <1>3, Smallest
  <2> QED BY <2>1
<1>5. me.event[q] \in Nat /\ q \in Quests
  BY <1>1, <1>3, <1>4 DEF Daily!Request
<1> HIDE DEF q
<1>6. /\ quest[q] # None /\ quest[q] \in Daily!UserDailyQuest /\ quest[q].progress = counted[q]
      /\ counted[q] \in Nat /\ counted[q] <= Target[q] /\ Target[q] \in Nat
      /\ quest[q].completed <=> counted[q] = Target[q]
      /\ quest[q].claimed => quest[q].completed
      /\ quest[q].completed \in BOOLEAN
  BY <1>1, <1>3, <1>4, <1>5, DailyConstants DEF RowsAddUp, Daily!UserDailyQuest
<1>7. /\ progressed \in Nat /\ progressed <= Target[q]
      /\ counted[q] = Target[q] => progressed = Target[q]
      /\ counted' = [counted EXCEPT ![q] = progressed]
  BY <1>2, <1>5, <1>6, Progressing
<1> HIDE DEF progressed
<1>8. /\ quest'[q] \in Daily!UserDailyQuest /\ quest'[q].progress = progressed
      /\ quest'[q].completed <=> progressed = Target[q]
      /\ quest'[q].claimed = quest[q].claimed /\ (quest[q].completed => quest'[q].completed)
      /\ quest' \in [Quests -> Daily!UserDailyQuest \cup {None}]
      /\ \A t \in Quests : t # q => quest'[t] = quest[t]
  <2>1. CASE quest[q].completed
    BY <1>1, <1>2, <1>6, <1>7, <2>1
  <2>2. CASE ~quest[q].completed
    <3>1. (progressed >= Target[q]) \in BOOLEAN /\ (progressed >= Target[q] <=> progressed = Target[q])
      BY <1>6, <1>7
    <3>2. quest'[q] = [quest[q] EXCEPT !.progress = progressed, !.completed = progressed >= Target[q]]
      BY <1>1, <1>2, <1>5, <2>2
    <3>3. /\ quest'[q] \in Daily!UserDailyQuest /\ quest'[q].progress = progressed
          /\ quest'[q].completed = (progressed >= Target[q]) /\ quest'[q].claimed = quest[q].claimed
      BY <1>6, <1>7, <3>1, <3>2 DEF Daily!UserDailyQuest
    <3>4. /\ quest' \in [Quests -> Daily!UserDailyQuest \cup {None}]
          /\ \A t \in Quests : t # q => quest'[t] = quest[t]
      BY <1>1, <1>2, <1>5, <2>2, <3>3
    <3> QED BY <2>2, <3>1, <3>3, <3>4
  <2> QED BY <1>6, <2>1, <2>2
<1>9. quest'[q] # None
  BY <1>8, DailyConstants
<1>10. RowsGrow(quest, quest')
  BY <1>8, <1>9 DEF RowsGrow
<1>11. RowsAddUp(quest', counted')
  <2> SUFFICES ASSUME NEW t \in Quests
               PROVE  /\ counted'[t] <= Target[t]
                      /\ quest'[t] = None => counted'[t] = 0
                      /\ quest'[t] # None => /\ quest'[t].progress = counted'[t]
                                             /\ quest'[t].completed <=> counted'[t] = Target[t]
                                             /\ quest'[t].claimed => quest'[t].completed
    BY DEF RowsAddUp
  <2>1. CASE t = q
    <3>1. counted'[t] = progressed
      BY <1>1, <1>5, <1>7, <2>1
    <3> QED BY <1>6, <1>7, <1>8, <1>9, <2>1, <3>1
  <2>2. CASE t # q
    <3>1. counted'[t] = counted[t] /\ quest'[t] = quest[t]
      BY <1>1, <1>7, <1>8, <2>2
    <3> QED BY <1>1, <3>1 DEF RowsAddUp
  <2> QED BY <2>1, <2>2
<1>12. Claimed(quest', opened') = Claimed(quest, opened)
  BY <1>2, <1>5, <1>6, <1>8, <1>9 DEF Claimed
<1>13. counted' \in [Quests -> Nat]
  BY <1>1, <1>7
<1>14. \E next \in Daily!Request : Daily!Becomes(r, next) /\ DailyJobOK(next, quest', opened')
  <2>1. CASE me.todo = {q}
    BY <1>2, <2>1, DailyIdle
  <2>2. CASE me.todo # {q}
    <3>1. /\ job \in Daily!Request /\ job.todo = me.todo \ {q} /\ job.at = "advancing"
          /\ job.for = me.for /\ job.claim = me.claim
      BY <1>1, <1>2 DEF Daily!Request
    <3>2. job.todo # {}
      BY <1>4, <2>2, <3>1
    <3>3. \A t \in job.todo : quest'[t] # None
      BY <1>3, <1>8, <3>1
    <3>4. DailyJobOK(job, quest', opened')
      BY <1>1, <3>1, <3>2, <3>3 DEF DailyJobOK
    <3> QED BY <1>2, <2>2, <3>1, <3>4
  <2> QED BY <2>1, <2>2
<1>15. PICK next \in Daily!Request : Daily!Becomes(r, next) /\ DailyJobOK(next, quest', opened')
  BY <1>14
<1>16. /\ quest_request' \in [Requests -> Daily!Request]
       /\ \A s \in Requests : DailyJobOK(quest_request'[s], quest', opened')
       /\ \A c \in Quests \cup Chests : Earned(c, quest) => Earned(c, quest')
  BY <1>2, <1>10, <1>15, DailyWrites
<1> HIDE DEF me, job
<1> QED BY <1>2, <1>8, <1>11, <1>12, <1>13, <1>16 DEF DailyInv

\* What was written of a claim takes effect: that claim, and nothing else, is claimed.
LEMMA DailyCommits ==
  ASSUME DailyInv, NEW r \in Requests, Daily!Committed(r), counted' = counted,
         quest_request[r].at \in {"profile", "paying"}
  PROVE  LET c == quest_request[r].claim IN
         /\ c \in Quests \cup Chests /\ Earned(c, quest)
         /\ quest' \in [Quests -> Daily!UserDailyQuest \cup {None}] /\ opened' \subseteq Chests
         /\ RowsAddUp(quest', counted') /\ RowsGrow(quest, quest') /\ opened \subseteq opened'
         /\ Claimed(quest', opened') = Claimed(quest, opened) \cup (IF quest_request[r].held THEN {c} ELSE {})
         /\ opened' \subseteq opened \cup {c}
<1> DEFINE me == quest_request[r]
           c  == me.claim
<1>1. /\ me \in Daily!Request /\ DailyJobOK(me, quest, opened)
      /\ quest \in [Quests -> Daily!UserDailyQuest \cup {None}] /\ RowsAddUp(quest, counted)
      /\ counted \in [Quests -> Nat] /\ opened \subseteq Chests
  BY DEF DailyInv
<1>2. /\ c \in Quests \cup Chests /\ Earned(c, quest) /\ me.held \in BOOLEAN
      /\ ~(c \in Quests /\ c \in Chests)
  BY <1>1, DailyConstants DEF DailyJobOK, Daily!Request
<1>3. /\ quest' = IF me.held /\ c \in Quests THEN [quest EXCEPT ![c].claimed = TRUE] ELSE quest
      /\ opened' = IF me.held /\ c \in Chests THEN opened \cup {c} ELSE opened
  BY DEF Daily!Committed
<1> HIDE DEF c, me
<1>4. CASE me.held /\ c \in Quests
  <2>1. /\ quest[c] # None /\ quest[c] \in Daily!UserDailyQuest /\ quest[c].completed
    BY <1>1, <1>2, <1>4 DEF Earned, Finished
  <2>2. /\ quest'[c] \in Daily!UserDailyQuest /\ quest'[c].progress = quest[c].progress
        /\ quest'[c].completed = quest[c].completed /\ quest'[c].claimed
    BY <1>1, <1>3, <1>4, <2>1 DEF Daily!UserDailyQuest
  <2>3. /\ quest' \in [Quests -> Daily!UserDailyQuest \cup {None}] /\ opened' = opened
        /\ \A t \in Quests : t # c => quest'[t] = quest[t]
    BY <1>1, <1>2, <1>3, <1>4, <2>2
  <2>4. quest'[c] # None
    BY <2>2, DailyConstants
  <2>5. RowsAddUp(quest', counted') /\ RowsGrow(quest, quest')
    BY <1>1, <1>4, <2>1, <2>2, <2>3, <2>4 DEF RowsAddUp, RowsGrow
  <2>6. Claimed(quest', opened') = Claimed(quest, opened) \cup {c}
    BY <1>1, <1>4, <2>2, <2>3, <2>4 DEF Claimed
  <2> QED BY <1>1, <1>2, <1>4, <2>3, <2>5, <2>6 DEF me, c
<1>5. CASE me.held /\ c \in Chests
  <2>1. quest' = quest /\ opened' = opened \cup {c}
    BY <1>2, <1>3, <1>5
  <2>2. RowsAddUp(quest', counted') /\ RowsGrow(quest, quest')
    BY <1>1, <2>1 DEF RowsGrow
  <2>3. Claimed(quest', opened') = Claimed(quest, opened) \cup {c}
    BY <2>1 DEF Claimed
  <2> QED BY <1>1, <1>2, <1>5, <2>1, <2>2, <2>3 DEF me, c
<1>6. CASE ~me.held
  <2>1. quest' = quest /\ opened' = opened
    BY <1>3, <1>6
  <2>2. RowsAddUp(quest', counted') /\ RowsGrow(quest, quest')
    BY <1>1, <2>1 DEF RowsGrow
  <2> QED BY <1>1, <1>2, <1>6, <2>1, <2>2 DEF me, c
<1> QED BY <1>2, <1>4, <1>5, <1>6

LEMMA DailyPays ==
  ASSUME DailyInv, NEW r \in Requests, Daily!get_or_create(r) \/ Daily!Pay(r)
  PROVE  DailyInv'
<1> DEFINE me == quest_request[r]
           c  == me.claim
<1>1. /\ me \in Daily!Request /\ DailyJobOK(me, quest, opened)
      /\ ledger \subseteq Claimed(quest, opened) /\ Claimed(quest, opened) \subseteq ledger \cup stranded
      /\ \A d \in opened : Earned(d, quest)
      /\ ledger \subseteq Quests \cup Chests /\ stranded \subseteq Quests \cup Chests
      /\ counted \in [Quests -> Nat] /\ opened \subseteq Chests /\ profile \in BOOLEAN
  BY DEF DailyInv
\* Whoever commits, everything earned stays so, and nothing else is claimed.
<1>2. ASSUME Daily!Committed(r), counted' = counted, me.at \in {"profile", "paying"},
             NEW next \in Daily!Request, Daily!Becomes(r, next), DailyJobOK(next, quest', opened'),
             ledger' \subseteq Quests \cup Chests, stranded' \subseteq Quests \cup Chests, profile' \in BOOLEAN,
             ledger' \subseteq Claimed(quest', opened'),
             Claimed(quest', opened') \subseteq ledger' \cup stranded'
      PROVE  DailyInv'
  <2>1. /\ c \in Quests \cup Chests /\ Earned(c, quest)
        /\ quest' \in [Quests -> Daily!UserDailyQuest \cup {None}] /\ opened' \subseteq Chests
        /\ RowsAddUp(quest', counted') /\ RowsGrow(quest, quest') /\ opened \subseteq opened'
        /\ opened' \subseteq opened \cup {c}
    BY <1>2, DailyCommits
  <2>2. /\ quest_request' \in [Requests -> Daily!Request]
        /\ \A s \in Requests : DailyJobOK(quest_request'[s], quest', opened')
        /\ \A d \in Quests \cup Chests : Earned(d, quest) => Earned(d, quest')
    BY <1>2, <2>1, DailyWrites
  <2>3. \A d \in opened' : Earned(d, quest')
    BY <1>1, <2>1, <2>2
  <2> QED BY <1>1, <1>2, <2>1, <2>2, <2>3 DEF DailyInv
<1>3. CASE Daily!get_or_create(r) /\ profile
  <2> DEFINE job == [me EXCEPT !.at = "paying"]
  <2>1. /\ me.at = "profile" /\ Daily!Becomes(r, job) /\ Daily!Keeps
    BY <1>3 DEF Daily!get_or_create, Daily!Goes, Daily!Keeps
  <2>2. /\ job \in Daily!Request /\ job.at = "paying" /\ job.for = me.for /\ job.claim = me.claim
        /\ job.held = me.held
    BY <1>1 DEF Daily!Request
  <2>3. DailyJobOK(job, quest, opened)
    BY <1>1, <2>1, <2>2 DEF DailyJobOK
  <2> QED BY <2>1, <2>2, <2>3, DailyKeeps
<1>4. CASE Daily!get_or_create(r) /\ ~profile
  <2> DEFINE job == [me EXCEPT !.at = "paying", !.held = FALSE]
  <2>1. /\ me.at = "profile" /\ profile' = TRUE /\ Daily!Committed(r) /\ stranded' = stranded \cup {c}
        /\ Daily!Becomes(r, job) /\ ledger' = ledger /\ counted' = counted
    BY <1>4 DEF Daily!get_or_create
  <2>2. me.held
    BY <1>1, <2>1 DEF DailyJobOK
  <2>3. /\ c \in Quests \cup Chests /\ Earned(c, quest) /\ RowsGrow(quest, quest') /\ opened \subseteq opened'
        /\ Claimed(quest', opened') = Claimed(quest, opened) \cup {c}
    BY <2>1, <2>2, DailyCommits
  <2>4. /\ job \in Daily!Request /\ job.at = "paying" /\ job.for = me.for /\ job.claim = c
        /\ job.held = FALSE
    BY <1>1 DEF Daily!Request
  <2>5. Earned(c, quest')
    BY <2>3, EarnedStays
  <2> HIDE DEF job
  <2>6. DailyJobOK(job, quest', opened')
    BY <1>1, <2>3, <2>4, <2>5 DEF DailyJobOK
  <2>7. /\ ledger' \subseteq Claimed(quest', opened')
        /\ Claimed(quest', opened') \subseteq ledger' \cup stranded'
    BY <1>1, <2>1, <2>3
  <2> QED BY <1>1, <1>2, <2>1, <2>3, <2>4, <2>6, <2>7
<1>5. CASE Daily!Pay(r) /\ c \in ledger
  <2>1. Daily!Becomes(r, Daily!Idle) /\ Daily!Keeps
    BY <1>5 DEF Daily!Pay, Daily!Ends, Daily!Keeps
  <2> QED BY <2>1, DailyIdle, DailyKeeps
<1>6. CASE Daily!Pay(r) /\ c \notin ledger
  <2>1. /\ me.at = "paying" /\ ledger' = ledger \cup {c} /\ Daily!Committed(r)
        /\ Daily!Becomes(r, Daily!Idle) /\ UNCHANGED <<profile, counted, stranded>>
    BY <1>6 DEF Daily!Pay, Daily!Ends
  <2>2. /\ c \in Quests \cup Chests
        /\ Claimed(quest', opened') = Claimed(quest, opened) \cup (IF me.held THEN {c} ELSE {})
    BY <2>1, DailyCommits
  <2>3. ~me.held => c \in Claimed(quest, opened)
    BY <1>1, <2>1 DEF DailyJobOK
  <2>4. Claimed(quest', opened') = Claimed(quest, opened) \cup {c}
    BY <2>2, <2>3
  <2>5. /\ ledger' \subseteq Claimed(quest', opened')
        /\ Claimed(quest', opened') \subseteq ledger' \cup stranded'
    BY <1>1, <2>1, <2>4
  <2> QED BY <1>1, <1>2, <2>1, <2>2, <2>5, DailyIdle
<1> QED BY <1>1, <1>3, <1>4, <1>5, <1>6

LEMMA DailyStep == DailyInv /\ [Daily!Next]_(Daily!vars) => DailyInv'
<1> SUFFICES ASSUME DailyInv, [Daily!Next]_(Daily!vars) PROVE DailyInv'
  OBVIOUS
<1>1. CASE UNCHANGED Daily!vars
  BY <1>1 DEF Daily!vars, DailyInv
<1>2. ASSUME NEW r \in Requests,
             \/ \E event \in [Quests -> 0..MaxAmount] : Daily!track(r, event)
             \/ Daily!quests_for_day(r) \/ Daily!insert_quests(r) \/ Daily!advance(r)
             \/ \E q \in Quests : Daily!claim_quest(r, q)
             \/ \E c \in Chests : Daily!claim_chest(r, c)
             \/ Daily!mark_claimed(r) \/ Daily!chest_unlocked(r) \/ Daily!open_chest(r)
             \/ Daily!get_or_create(r) \/ Daily!Pay(r) \/ Daily!Raises(r)
      PROVE  DailyInv'
  BY <1>2, DailyLooks, DailyDraws, DailyAdvances, DailyPays
<1> QED BY <1>1, <1>2 DEF Daily!Next

LEMMA DailyAddsUp == DailyInv => Daily!TypeOK /\ Daily!ProgressAddsUp /\ Daily!ClaimsSettle
<1> SUFFICES ASSUME DailyInv PROVE Daily!TypeOK /\ Daily!ProgressAddsUp /\ Daily!ClaimsSettle
  OBVIOUS
<1>1. /\ quest \in [Quests -> Daily!UserDailyQuest \cup {None}] /\ RowsAddUp(quest, counted)
      /\ counted \in [Quests -> Nat]
  BY DEF DailyInv
<1>2. Daily!TypeOK
  BY <1>1, DailyConstants DEF DailyInv, Daily!TypeOK, Daily!Claims, RowsAddUp
<1>3. Daily!ProgressAddsUp
  BY <1>1 DEF Daily!ProgressAddsUp, Daily!Drawn, RowsAddUp
<1>4. Claimed(quest, opened) = {q \in Daily!Drawn : quest[q].claimed} \cup opened
  BY DEF Claimed, Daily!Drawn
<1>5. Daily!activity_points = Daily!PointsOf(Finished(quest))
  BY DEF Daily!activity_points, Daily!Drawn, Finished
<1>6. \A c \in Claimed(quest, opened) : c \in Quests => quest[c].completed
  BY <1>1, DailyConstants DEF Claimed, RowsAddUp, DailyInv
<1>7. \A c \in Claimed(quest, opened) :
        c \in Chests => Daily!PointsOf(Finished(quest)) >= Milestone[c]
  BY DailyConstants DEF Claimed, DailyInv, Earned
<1>8. Daily!ClaimsSettle
  BY <1>4, <1>5, <1>6, <1>7 DEF Daily!ClaimsSettle, DailyInv
<1> QED BY <1>2, <1>3, <1>8

-----------------------------------------------------------------------------
(* Levels.                                                                  *)

\* r is the greatest integer whose square is not above n.
IsRoot(r, n) == r * r <= n /\ n < (r + 1) * (r + 1)

LEMMA Squares ==
  ASSUME NEW a \in Nat, NEW b \in Nat
  PROVE  /\ a * a \in Nat
         /\ a <= b => a * a <= b * b
         /\ a * a < b * b => a < b
<1>1. a * a \in Nat /\ b * b \in Nat /\ a * b \in Nat
  OBVIOUS
<1>2. ASSUME NEW c \in Nat, NEW d \in Nat, c <= d
      PROVE  c * c <= d * d
  <2>1. c * c <= c * d
    BY <1>2
  <2>2. c * d <= d * d
    BY <1>2
  <2>3. c * c \in Nat /\ c * d \in Nat /\ d * d \in Nat
    OBVIOUS
  <2> QED BY <2>1, <2>2, <2>3
<1>3. b <= a => b * b <= a * a
  BY <1>2
<1>4. a <= b => a * a <= b * b
  BY <1>2
<1>5. ASSUME a * a < b * b
      PROVE  a < b
  BY <1>1, <1>3, <1>5
<1> QED BY <1>1, <1>4, <1>5

\* The root of n comes from that of a quarter of it.
LEMMA RootOfQuarter ==
  ASSUME NEW n \in Nat, NEW k \in Nat, IsRoot(k, n \div 4)
  PROVE  LET r == 2 * k
             root == IF (r + 1) * (r + 1) <= n THEN r + 1 ELSE r
         IN  root \in Nat /\ IsRoot(root, n)
<1> DEFINE q == n \div 4
           s == k * k
<1>1. q \in Nat /\ 4 * q <= n /\ n < 4 * q + 4
  OBVIOUS
<1>2. s \in Nat /\ s <= q /\ q < s + 2 * k + 1
  <2>1. (k + 1) * (k + 1) = k * k + 2 * k + 1
    OBVIOUS
  <2> QED BY <2>1 DEF IsRoot
<1>3. /\ (2 * k) * (2 * k) = 4 * s
      /\ (2 * k + 1) * (2 * k + 1) = 4 * s + 4 * k + 1
      /\ (2 * k + 1 + 1) * (2 * k + 1 + 1) = 4 * s + 8 * k + 4
  OBVIOUS
<1> HIDE DEF s, q
<1>4. 4 * s <= n /\ n < 4 * s + 8 * k + 4
  BY <1>1, <1>2
<1>5. CASE 4 * s + 4 * k + 1 <= n
  BY <1>3, <1>4, <1>5 DEF IsRoot
<1>6. CASE ~(4 * s + 4 * k + 1 <= n)
  BY <1>2, <1>3, <1>4, <1>6 DEF IsRoot
<1> QED BY <1>5, <1>6

LEMMA OneRoot ==
  ASSUME NEW n \in Nat, NEW r \in Nat, NEW t \in Nat, IsRoot(r, n), IsRoot(t, n)
  PROVE  r = t
<1>1. r * r \in Nat /\ t * t \in Nat /\ (r + 1) * (r + 1) \in Nat /\ (t + 1) * (t + 1) \in Nat
  BY Squares
<1>2. r * r < (t + 1) * (t + 1) /\ t * t < (r + 1) * (r + 1)
  BY <1>1 DEF IsRoot
<1>3. r < t + 1 /\ t < r + 1
  BY <1>2, Squares
<1> QED BY <1>3

\* Every number has a root: the smallest without one would have that of its quarter.
LEMMA EveryRoot == \A n \in Nat : \E r \in Nat : IsRoot(r, n)
<1> DEFINE Without == {n \in Nat : \A r \in Nat : ~IsRoot(r, n)}
<1> SUFFICES ASSUME Without # {} PROVE FALSE
  OBVIOUS
<1>1. PICK n \in Without : \A m \in Without : n <= m
  BY Smallest
<1>2. CASE n = 0
  BY <1>2 DEF IsRoot
<1>3. CASE n # 0
  <2>1. n \div 4 \in Nat /\ n \div 4 < n
    BY <1>3
  <2>2. n \div 4 \notin Without
    BY <1>1, <2>1
  <2>3. PICK k \in Nat : IsRoot(k, n \div 4)
    BY <2>1, <2>2
  <2> QED BY <2>3, RootOfQuarter
<1> QED BY <1>2, <1>3

(* math.isqrt: its recursion defines a function, and that is the root.      *)
LEMMA IsqrtIsRoot ==
  ASSUME NEW n \in Nat
  PROVE  Learner!isqrt[n] \in Nat /\ IsRoot(Learner!isqrt[n], n)
<1> DEFINE Next4(f, m) == IF m = 0 THEN 0
                          ELSE LET r == 2 * f[m \div 4] IN IF (r + 1) * (r + 1) <= m THEN r + 1 ELSE r
           Solves(f)   == f = [m \in Nat |-> Next4(f, m)]
           h == [m \in Nat |-> CHOOSE r \in Nat : IsRoot(r, m)]
<1>1. \A m \in Nat : h[m] \in Nat /\ IsRoot(h[m], m)
  BY EveryRoot
<1>2. ASSUME NEW m \in Nat
      PROVE  h[m] = Next4(h, m)
  <2>1. CASE m = 0
    <3>1. IsRoot(0, 0)
      BY DEF IsRoot
    <3>2. h[m] = 0
      BY <1>1, <2>1, <3>1, OneRoot
    <3> QED BY <2>1, <3>2
  <2>2. CASE m # 0
    <3>1. m \div 4 \in Nat
      OBVIOUS
    <3>2. h[m \div 4] \in Nat /\ IsRoot(h[m \div 4], m \div 4)
      BY <1>1, <3>1
    <3> HIDE DEF h
    <3>3. Next4(h, m) \in Nat /\ IsRoot(Next4(h, m), m)
      BY <2>2, <3>2, RootOfQuarter
    <3> QED BY <1>1, <3>3, OneRoot
  <2> QED BY <2>1, <2>2
<1>3. \E f : Solves(f)
  <2>1. Solves(h)
    BY <1>2
  <2> QED BY <2>1
<1>4. Learner!isqrt = CHOOSE f : Solves(f)
  BY DEF Learner!isqrt
<1> HIDE DEF Solves, h
<1>5. Solves(Learner!isqrt)
  BY <1>3, <1>4
<1>6. \A m \in Nat : Learner!isqrt[m] = Next4(Learner!isqrt, m)
  BY <1>5 DEF Solves
<1> DEFINE Wrong == {m \in Nat : ~(Learner!isqrt[m] \in Nat /\ IsRoot(Learner!isqrt[m], m))}
<1>7. ASSUME Wrong # {}
      PROVE  FALSE
  <2>1. PICK m \in Wrong : \A j \in Wrong : m <= j
    BY <1>7, Smallest
  <2>2. CASE m = 0
    <3>1. Learner!isqrt[m] = 0
      BY <1>6, <2>2
    <3>2. IsRoot(0, 0)
      BY DEF IsRoot
    <3> QED BY <2>1, <2>2, <3>1, <3>2
  <2>3. CASE m # 0
    <3>1. m \div 4 \in Nat /\ m \div 4 < m
      BY <2>3
    <3>2. m \div 4 \notin Wrong
      BY <2>1, <3>1
    <3>3. Learner!isqrt[m \div 4] \in Nat /\ IsRoot(Learner!isqrt[m \div 4], m \div 4)
      BY <3>1, <3>2
    <3>4. Next4(Learner!isqrt, m) \in Nat /\ IsRoot(Next4(Learner!isqrt, m), m)
      BY <2>3, <3>3, RootOfQuarter
    <3> QED BY <1>6, <2>1, <3>4
  <2> QED BY <2>2, <2>3
<1> QED BY <1>7

LEMMA LevelCosts ==
  ASSUME NEW level \in Nat \ {0}
  PROVE  /\ Learner!exp_for_level(level) = 50 * (level * level) - 50 * level
         /\ Learner!exp_for_level(level) \in Nat
         /\ Learner!exp_for_level(level + 1) = Learner!exp_for_level(level) + 100 * level
<1> DEFINE s == level * level
<1>1. s \in Nat /\ s >= level
  OBVIOUS
<1>2. /\ 100 * (level - 1) * level = 2 * (50 * s - 50 * level)
      /\ 100 * ((level + 1) - 1) * (level + 1) = 2 * (50 * s + 50 * level)
  OBVIOUS
<1>3. level = 1 => s = 1
  OBVIOUS
<1> HIDE DEF s
<1>4. Learner!exp_for_level(level) = 50 * s - 50 * level
  <2>1. CASE level = 1
    BY <1>3, <2>1 DEF Learner!exp_for_level
  <2>2. CASE level # 1
    <3>1. ~(level <= 1)
      BY <2>2
    <3>2. (2 * (50 * s - 50 * level)) \div 2 = 50 * s - 50 * level
      BY <1>1
    <3> QED BY <1>2, <3>1, <3>2 DEF Learner!exp_for_level
  <2> QED BY <2>1, <2>2
<1>5. Learner!exp_for_level(level + 1) = 50 * s + 50 * level
  <2>1. ~(level + 1 <= 1)
    OBVIOUS
  <2>2. (2 * (50 * s + 50 * level)) \div 2 = 50 * s + 50 * level
    BY <1>1
  <2> QED BY <1>2, <2>1, <2>2 DEF Learner!exp_for_level
<1> QED BY <1>1, <1>4, <1>5 DEF s

(* The level shown is the one the total has paid for: the root of the       *)
(* closed formula lands between what that level and the next one cost.      *)
LEMMA LevelIsPaid ==
  ASSUME NEW total \in Nat
  PROVE  LET level == Learner!level_for_exp(total) IN
         /\ level \in Nat \ {0}
         /\ Learner!exp_for_level(level) <= total
         /\ total < Learner!exp_for_level(level + 1)
<1>1. CASE total = 0
  <2>1. Learner!level_for_exp(total) = 1
    BY <1>1 DEF Learner!level_for_exp
  <2>2. Learner!exp_for_level(1) = 0 /\ Learner!exp_for_level(1 + 1) = 100
    BY DEF Learner!exp_for_level
  <2> QED BY <1>1, <2>1, <2>2
<1>2. CASE total # 0
  <2> DEFINE n     == 2500 + 200 * total
             root  == Learner!isqrt[n]
             level == (50 + root) \div 100
             low   == 100 * level - 50
             high  == 100 * level + 50
  <2>1. Learner!level_for_exp(total) = level
    BY <1>2 DEF Learner!level_for_exp
  <2>2. n \in Nat
    OBVIOUS
  <2>3. root \in Nat /\ root * root <= n /\ n < (root + 1) * (root + 1)
    BY <2>2, IsqrtIsRoot DEF IsRoot
  <2> HIDE DEF root
  <2>4. root * root \in Nat /\ (root + 1) * (root + 1) \in Nat
    BY <2>3
  <2>5. 50 * 50 < (root + 1) * (root + 1)
    BY <2>3, <2>4
  <2>6. 50 < root + 1
    BY <2>3, <2>5, Squares
  <2>7. level \in Nat /\ level >= 1 /\ 100 * level <= 50 + root /\ 50 + root < 100 * level + 100
    BY <2>3, <2>6
  <2> HIDE DEF level, n
  <2>8. low \in Nat /\ high \in Nat /\ low <= root /\ root + 1 <= high
    BY <2>3, <2>7
  <2> HIDE DEF low, high
  <2>9. low * low <= root * root /\ (root + 1) * (root + 1) <= high * high
    BY <2>3, <2>8, Squares
  <2>10. low * low \in Nat /\ high * high \in Nat
    BY <2>8
  <2>11. low * low <= n /\ n < high * high
    BY <2>2, <2>3, <2>4, <2>9, <2>10
  <2>12. /\ low * low = 10000 * (level * level) - 10000 * level + 2500
         /\ high * high = 10000 * (level * level) + 10000 * level + 2500
    BY <2>7 DEF low, high
  <2>13. level * level \in Nat
    BY <2>7
  <2>14. /\ 10000 * (level * level) - 10000 * level <= 200 * total
         /\ 200 * total < 10000 * (level * level) + 10000 * level
    BY <2>7, <2>11, <2>12, <2>13 DEF n
  <2>15. /\ Learner!exp_for_level(level) = 50 * (level * level) - 50 * level
         /\ Learner!exp_for_level(level + 1) = 50 * (level * level) + 50 * level
    <3>1. level \in Nat \ {0}
      BY <2>7
    <3>2. /\ Learner!exp_for_level(level) = 50 * (level * level) - 50 * level
          /\ Learner!exp_for_level(level + 1) = Learner!exp_for_level(level) + 100 * level
      BY <3>1, LevelCosts
    <3> DEFINE square == level * level
    <3>3. square \in Nat
      BY <2>13
    <3> HIDE DEF square
    <3>4. 50 * square - 50 * level + 100 * level = 50 * square + 50 * level
      BY <2>7, <3>3
    <3> QED BY <3>2, <3>4 DEF square
  <2> QED BY <2>1, <2>7, <2>13, <2>14, <2>15
<1> QED BY <1>1, <1>2

\* More experience is never a lower level.
LEMMA LevelsGrow ==
  ASSUME NEW total \in Nat, NEW more \in Nat,
         more >= Learner!exp_for_level(Learner!level_for_exp(total))
  PROVE  Learner!level_for_exp(more) >= Learner!level_for_exp(total)
<1> DEFINE a == Learner!level_for_exp(total)
           b == Learner!level_for_exp(more)
<1>1. a \in Nat \ {0} /\ b \in Nat \ {0} /\ more < Learner!exp_for_level(b + 1)
  BY LevelIsPaid
<1> HIDE DEF a, b
<1>2. Learner!exp_for_level(a) = 50 * (a * a) - 50 * a
  BY <1>1, LevelCosts
<1>3. Learner!exp_for_level(b + 1) = 50 * (b * b) + 50 * b /\ b * b \in Nat /\ a * a \in Nat
  BY <1>1, LevelCosts
<1>4. ASSUME b < a
      PROVE  FALSE
  <2>1. b + 1 <= a /\ b + 1 \in Nat
    BY <1>1, <1>4
  <2>2. (b + 1) * a <= a * a
    BY <1>1, <2>1
  <2>3. (a - 1) \in Nat /\ b <= a - 1
    BY <1>1, <2>1
  <2>4. (b + 1) * b <= a * (a - 1)
    <3>1. (b + 1) * b <= a * b
      BY <1>1, <2>1
    <3>2. a * b <= a * (a - 1)
      BY <1>1, <2>3
    <3>3. (b + 1) * b \in Nat /\ a * b \in Nat /\ a * (a - 1) \in Nat
      BY <1>1, <2>1, <2>3
    <3> QED BY <3>1, <3>2, <3>3
  <2>5. (b + 1) * b = b * b + b /\ a * (a - 1) = a * a - a
    BY <1>1
  <2>6. more >= Learner!exp_for_level(a)
    BY DEF a
  <2> QED BY <1>1, <1>2, <1>3, <2>4, <2>5, <2>6
<1> QED BY <1>1, <1>4 DEF a, b

LEMMA GrowthConstants ==
  /\ Starts \subseteq Nat /\ Corrects \subseteq Nat /\ Bonuses \subseteq Int
  /\ MaxMatches \in Nat /\ None \notin Int
BY StudyAssumption DEF Learner!GrowthAssumption

LEMMA BandTable ==
  /\ Learner!Bands = {<<"C2", 93>>, <<"C1", 76>>, <<"B2", 51>>, <<"B1", 26>>, <<"A2", 11>>, <<"A1", 1>>}
  /\ Learner!LEVEL_CAPS = {92, 75, 50, 25, 10}
<1>1. DOMAIN Learner!BAND_FLOORS = 1..6 /\ 1..6 = {1, 2, 3, 4, 5, 6}
  BY DEF Learner!BAND_FLOORS
<1>2. Learner!Bands = {<<"C2", 93>>, <<"C1", 76>>, <<"B2", 51>>, <<"B1", 26>>, <<"A2", 11>>, <<"A1", 1>>}
  BY <1>1 DEF Learner!Bands, Learner!BAND_FLOORS
<1>3. {b \in Learner!Bands : b[2] > 1} =
        {<<"C2", 93>>, <<"C1", 76>>, <<"B2", 51>>, <<"B1", 26>>, <<"A2", 11>>}
  BY <1>2
<1>4. Learner!LEVEL_CAPS = {92, 75, 50, 25, 10}
  <2> DEFINE Above == {<<"C2", 93>>, <<"C1", 76>>, <<"B2", 51>>, <<"B1", 26>>, <<"A2", 11>>}
  <2>1. {band[2] - 1 : band \in Above} = {93 - 1, 76 - 1, 51 - 1, 26 - 1, 11 - 1}
    OBVIOUS
  <2> QED BY <1>3, <2>1 DEF Learner!LEVEL_CAPS
<1> QED BY <1>2, <1>4

\* The caps in their order, by the last one cleared.
CapAfter(passed) == IF passed = None THEN 10 ELSE IF passed = 10 THEN 25 ELSE IF passed = 25 THEN 50
                     ELSE IF passed = 50 THEN 75 ELSE IF passed = 75 THEN 92 ELSE None

LEMMA NextCap ==
  ASSUME NEW passed \in Learner!LEVEL_CAPS \cup {None}
  PROVE  Learner!next_level_cap(passed) = CapAfter(passed)
<1> DEFINE from  == IF passed = None THEN 0 ELSE passed
           ahead == {cap \in {92, 75, 50, 25, 10} : cap > from}
<1>1. passed \in {92, 75, 50, 25, 10, None} /\ None \notin Int
  BY BandTable, GrowthConstants
<1>2. Learner!next_level_cap(passed) =
        IF ahead = {} THEN None ELSE CHOOSE cap \in ahead : \A c \in ahead : cap <= c
  BY BandTable DEF Learner!next_level_cap
<1>3. ASSUME NEW least \in ahead, \A c \in ahead : least <= c
      PROVE  Learner!next_level_cap(passed) = least
  <2>1. \A cap \in ahead : (\A c \in ahead : cap <= c) => cap = least
    BY <1>3
  <2> HIDE DEF ahead
  <2>2. (CHOOSE cap \in ahead : \A c \in ahead : cap <= c) = least
    BY <1>3, <2>1
  <2> QED BY <1>2, <1>3, <2>2
<1>4. CASE passed = None
  <2>1. 10 \in ahead /\ \A c \in ahead : 10 <= c
    BY <1>4
  <2> QED BY <1>3, <1>4, <2>1 DEF CapAfter
<1>5. CASE passed = 10
  <2>1. 25 \in ahead /\ \A c \in ahead : 25 <= c
    BY <1>1, <1>5
  <2> QED BY <1>1, <1>3, <1>5, <2>1 DEF CapAfter
<1>6. CASE passed = 25
  <2>1. 50 \in ahead /\ \A c \in ahead : 50 <= c
    BY <1>1, <1>6
  <2> QED BY <1>1, <1>3, <1>6, <2>1 DEF CapAfter
<1>7. CASE passed = 50
  <2>1. 75 \in ahead /\ \A c \in ahead : 75 <= c
    BY <1>1, <1>7
  <2> QED BY <1>1, <1>3, <1>7, <2>1 DEF CapAfter
<1>8. CASE passed = 75
  <2>1. 92 \in ahead /\ \A c \in ahead : 92 <= c
    BY <1>1, <1>8
  <2> QED BY <1>1, <1>3, <1>8, <2>1 DEF CapAfter
<1>9. CASE passed = 92
  <2>1. ahead = {}
    BY <1>1, <1>9
  <2> QED BY <1>1, <1>2, <1>9, <2>1 DEF CapAfter
<1> QED BY <1>1, <1>4, <1>5, <1>6, <1>7, <1>8, <1>9

\* More experience, or one more cap cleared, is never a lower level.
LEMMA EffectiveGrows ==
  ASSUME NEW total \in Nat, NEW more \in Nat, NEW passed \in Learner!LEVEL_CAPS \cup {None},
         NEW later \in Learner!LEVEL_CAPS \cup {None},
         Learner!level_for_exp(more) >= Learner!level_for_exp(total),
         later = passed \/ (later = CapAfter(passed) /\ later # None)
  PROVE  /\ Learner!effective_level(total, passed) \in Nat \ {0}
         /\ Learner!effective_level(more, later) \in Nat \ {0}
         /\ Learner!effective_level(more, later) >= Learner!effective_level(total, passed)
<1> DEFINE a == Learner!level_for_exp(total)
           b == Learner!level_for_exp(more)
<1>1. a \in Nat \ {0} /\ b \in Nat \ {0} /\ b >= a
  BY LevelIsPaid
<1> HIDE DEF a, b
<1>2. passed \in {92, 75, 50, 25, 10, None} /\ later \in {92, 75, 50, 25, 10, None} /\ None \notin Int
  BY BandTable, GrowthConstants
<1>3. /\ Learner!effective_level(total, passed) =
           IF CapAfter(passed) = None THEN a ELSE IF a < CapAfter(passed) THEN a ELSE CapAfter(passed)
      /\ Learner!effective_level(more, later) =
           IF CapAfter(later) = None THEN b ELSE IF b < CapAfter(later) THEN b ELSE CapAfter(later)
  BY NextCap DEF Learner!effective_level, Learner!Lesser, a, b
<1>4. /\ CapAfter(passed) \in {10, 25, 50, 75, 92, None} /\ CapAfter(later) \in {10, 25, 50, 75, 92, None}
      /\ CapAfter(passed) = None => CapAfter(later) = None
      /\ CapAfter(later) = None \/ CapAfter(passed) <= CapAfter(later)
  <2>1. CASE later = passed
    BY <1>2, <2>1 DEF CapAfter
  <2>2. CASE later = CapAfter(passed) /\ later # None
    <3>1. passed = None => CapAfter(passed) = 10 /\ CapAfter(later) = 25
      BY <1>2, <2>2 DEF CapAfter
    <3>2. passed = 10 => CapAfter(passed) = 25 /\ CapAfter(later) = 50
      BY <1>2, <2>2 DEF CapAfter
    <3>3. passed = 25 => CapAfter(passed) = 50 /\ CapAfter(later) = 75
      BY <1>2, <2>2 DEF CapAfter
    <3>4. passed = 50 => CapAfter(passed) = 75 /\ CapAfter(later) = 92
      BY <1>2, <2>2 DEF CapAfter
    <3>5. passed = 75 => CapAfter(passed) = 92 /\ CapAfter(later) = None
      BY <1>2, <2>2 DEF CapAfter
    <3>6. passed # 92
      BY <1>2, <2>2 DEF CapAfter
    <3> HIDE DEF CapAfter
    <3> QED BY <1>2, <3>1, <3>2, <3>3, <3>4, <3>5, <3>6
  <2> QED BY <2>1, <2>2
<1> QED BY <1>1, <1>2, <1>3, <1>4

(* The level shown is the highest there has been, whatever the totals.      *)
GrowthInv == Learner!TypeOK /\ Learner!LevelsAreKept

LEMMA Applied ==
  ASSUME NEW total \in Nat, NEW delta \in Int
  PROVE  /\ Learner!apply_exp(total, delta) \in Nat
         /\ Learner!apply_exp(total, delta) >= Learner!exp_for_level(Learner!level_for_exp(total))
         /\ delta > 0 => Learner!apply_exp(total, delta) = total + delta
         /\ delta <= 0 => Learner!apply_exp(total, delta) <= total
<1>1. /\ Learner!exp_for_level(Learner!level_for_exp(total)) \in Nat
      /\ Learner!exp_for_level(Learner!level_for_exp(total)) <= total
  BY LevelIsPaid, LevelCosts
<1> QED BY <1>1 DEF Learner!apply_exp, Learner!Greater

\* What is worn adds nothing to a loss, and to a gain no more than the ceiling.
LEMMA BonusIsCapped ==
  ASSUME NEW amount \in Int, NEW permille \in Int
  PROVE  LET p == Learner!capped(permille) IN
         /\ Learner!apply_bonus(amount, p) \in Int
         /\ amount <= 0 => Learner!apply_bonus(amount, p) = amount
         /\ amount > 0 => Learner!apply_bonus(amount, p) \in amount..((amount * 115) \div 100)
<1> DEFINE p == Learner!capped(permille)
<1>1. p \in 0..150
  BY DEF Learner!capped, Learner!Greater, Learner!Lesser, Learner!MAX_BONUS_EXP_PERMILLE
<1> HIDE DEF p
<1>2. CASE amount <= 0
  BY <1>2 DEF Learner!apply_bonus, p
<1>3. CASE amount > 0
  <2> DEFINE worth == amount * p
  <2>1. worth \in Nat /\ worth <= 150 * amount
    <3>1. worth \in Nat
      BY <1>1, <1>3
    <3>2. amount * p <= amount * 150
      BY <1>1, <1>3
    <3> QED BY <3>1, <3>2
  <2>2. Learner!apply_bonus(amount, p) = amount + worth \div 1000
    <3>1. ~(amount <= 0) /\ Learner!Greater(0, p) = p
      BY <1>1, <1>3 DEF Learner!Greater
    <3> QED BY <3>1 DEF Learner!apply_bonus
  <2> HIDE DEF worth
  <2>3. worth \div 1000 \in Nat /\ amount + worth \div 1000 <= (amount * 115) \div 100
    BY <1>3, <2>1
  <2>4. (amount * 115) \div 100 \in Int
    BY <1>3
  <2> QED BY <1>3, <2>2, <2>3, <2>4 DEF p
<1> QED BY <1>2, <1>3 DEF p

LEMMA RewardIsGiven ==
  ASSUME NEW data \in Learner!RewardInput
  PROVE  /\ Learner!compute_reward(data) \in Int
         /\ data.forfeited => Learner!compute_reward(data) <= 0
         /\ ~data.forfeited => Learner!compute_reward(data) > 0
<1>1. /\ data.correct_count \in Nat /\ data.outcome \in {"WIN", "DRAW", "LOSE"}
      /\ data.forfeited \in BOOLEAN /\ data.knockout \in BOOLEAN /\ data.opponent_quit \in BOOLEAN
  BY GrowthConstants DEF Learner!RewardInput
<1> QED BY <1>1 DEF Learner!compute_reward

LEMMA GrowthStart == Learner!Init => GrowthInv
<1> SUFFICES ASSUME Learner!Init PROVE GrowthInv
  OBVIOUS
<1>1. /\ total_exp \in Nat /\ benchmark_cleared_level \in Learner!LEVEL_CAPS \cup {None}
      /\ finished = 0 /\ credited = Learner!Level
  BY GrowthConstants DEF Learner!Init
<1>2. Learner!level_for_exp(total_exp) \in Nat
  BY <1>1, LevelIsPaid
<1>3. Learner!Level \in Nat
  BY <1>1, <1>2, EffectiveGrows DEF Learner!Level
<1> QED BY <1>1, <1>3, GrowthConstants DEF GrowthInv, Learner!TypeOK, Learner!LevelsAreKept

LEMMA GrowthStep == GrowthInv /\ [Learner!Next]_(Learner!vars) => GrowthInv'
<1> SUFFICES ASSUME GrowthInv, [Learner!Next]_(Learner!vars) PROVE GrowthInv'
  OBVIOUS
<1>1. /\ total_exp \in Nat /\ benchmark_cleared_level \in Learner!LEVEL_CAPS \cup {None}
      /\ finished \in 0..MaxMatches /\ credited = Learner!effective_level(total_exp, benchmark_cleared_level)
      /\ MaxMatches \in Nat
  BY GrowthConstants DEF GrowthInv, Learner!TypeOK, Learner!LevelsAreKept, Learner!Level
<1>2. ASSUME total_exp' \in Nat, benchmark_cleared_level' \in Learner!LEVEL_CAPS \cup {None},
             finished' \in 0..MaxMatches,
             Learner!level_for_exp(total_exp') >= Learner!level_for_exp(total_exp),
             \/ benchmark_cleared_level' = benchmark_cleared_level
             \/ benchmark_cleared_level' = CapAfter(benchmark_cleared_level) /\ benchmark_cleared_level' # None,
             credited' = Learner!Greater(credited, Learner!effective_level(total_exp', benchmark_cleared_level'))
      PROVE  GrowthInv'
  <2>1. /\ credited \in Nat /\ Learner!effective_level(total_exp', benchmark_cleared_level') \in Nat
        /\ Learner!effective_level(total_exp', benchmark_cleared_level') >= credited
    BY <1>1, <1>2, EffectiveGrows
  <2>2. credited' = Learner!effective_level(total_exp', benchmark_cleared_level')
    BY <1>2, <2>1 DEF Learner!Greater
  <2>3. Learner!TypeOK'
    BY <1>2, <2>1, <2>2 DEF Learner!TypeOK
  <2>4. Learner!LevelsAreKept'
    BY <2>2 DEF Learner!LevelsAreKept, Learner!Level
  <2> QED BY <2>3, <2>4 DEF GrowthInv
<1>3. ASSUME NEW data \in Learner!RewardInput, NEW permille \in Bonuses, Learner!SettleMatch(data, permille)
      PROVE  GrowthInv'
  <2> DEFINE delta == Learner!apply_bonus(Learner!compute_reward(data), Learner!capped(permille))
  <2>1. delta \in Int
    BY RewardIsGiven, BonusIsCapped, GrowthConstants
  <2> HIDE DEF delta
  <2>2. /\ finished < MaxMatches /\ finished' = finished + 1
        /\ total_exp' = Learner!apply_exp(total_exp, delta)
        /\ benchmark_cleared_level' = benchmark_cleared_level
        /\ credited' = Learner!Greater(credited, Learner!effective_level(total_exp', benchmark_cleared_level))
    BY <1>3 DEF Learner!SettleMatch, delta
  <2>3. /\ total_exp' \in Nat
        /\ total_exp' >= Learner!exp_for_level(Learner!level_for_exp(total_exp))
    BY <1>1, <2>1, <2>2, Applied
  <2>4. Learner!level_for_exp(total_exp') >= Learner!level_for_exp(total_exp)
    BY <1>1, <2>3, LevelsGrow
  <2>5. finished' \in 0..MaxMatches
    BY <1>1, <2>2
  <2> QED BY <1>1, <1>2, <2>2, <2>3, <2>4, <2>5
<1>4. CASE Learner!ClearBenchmark
  <2> DEFINE cap == Learner!pending_benchmark_level(total_exp, benchmark_cleared_level)
  <2>1. /\ cap # None /\ benchmark_cleared_level' = cap /\ total_exp' = total_exp /\ finished' = finished
        /\ credited' = Learner!Greater(credited, Learner!effective_level(total_exp, cap))
    BY <1>4 DEF Learner!ClearBenchmark
  <2>2. cap = CapAfter(benchmark_cleared_level)
    BY <1>1, <2>1, NextCap DEF Learner!pending_benchmark_level
  <2>3. cap \in Learner!LEVEL_CAPS \cup {None}
    BY <2>1, <2>2, BandTable DEF CapAfter
  <2>4. Learner!level_for_exp(total_exp) \in Nat
    BY <1>1, LevelIsPaid
  <2> HIDE DEF cap
  <2> QED BY <1>1, <1>2, <2>1, <2>2, <2>3, <2>4
<1>5. CASE UNCHANGED Learner!vars
  BY <1>5 DEF Learner!vars, GrowthInv, Learner!TypeOK, Learner!LevelsAreKept, Learner!Level
<1> QED BY <1>3, <1>4, <1>5 DEF Learner!Next

LEMMA LevelsPaid == GrowthInv => Learner!LevelsArePaidFor
<1> SUFFICES ASSUME GrowthInv PROVE Learner!LevelsArePaidFor
  OBVIOUS
<1> DEFINE raw     == Learner!level_for_exp(total_exp)
           cap     == CapAfter(benchmark_cleared_level)
           pending == Learner!pending_benchmark_level(total_exp, benchmark_cleared_level)
<1>1. total_exp \in Nat /\ benchmark_cleared_level \in Learner!LEVEL_CAPS \cup {None}
  BY DEF GrowthInv, Learner!TypeOK
<1>2. /\ raw \in Nat \ {0} /\ Learner!exp_for_level(raw) <= total_exp
      /\ total_exp < Learner!exp_for_level(raw + 1)
  BY <1>1, LevelIsPaid
<1>3. Learner!exp_to_next_level(total_exp) = Learner!exp_for_level(raw + 1) - total_exp
  BY <1>1 DEF Learner!exp_to_next_level, Learner!Greater
<1>4. /\ pending = IF cap = None THEN None ELSE IF raw < cap THEN None ELSE cap
      /\ Learner!Level = IF cap = None THEN raw ELSE IF raw < cap THEN raw ELSE cap
  BY <1>1, NextCap DEF Learner!pending_benchmark_level, Learner!Level, Learner!effective_level,
     Learner!Lesser
<1> HIDE DEF raw, pending
<1>5. Learner!exp_to_next_level(total_exp) \in 1..(100 * raw)
  <2>1. /\ Learner!exp_for_level(raw) \in Nat
        /\ Learner!exp_for_level(raw + 1) = Learner!exp_for_level(raw) + 100 * raw
    BY <1>2, LevelCosts
  <2> QED BY <1>1, <1>2, <1>3, <2>1
<1>6. cap \in {10, 25, 50, 75, 92, None} /\ None \notin Int
  BY GrowthConstants DEF CapAfter
<1>7. cap # None /\ benchmark_cleared_level # None => cap > benchmark_cleared_level
  <2>1. benchmark_cleared_level \in {92, 75, 50, 25, 10, None}
    BY <1>1, BandTable
  <2> QED BY <1>6, <2>1 DEF CapAfter
<1> HIDE DEF cap
<1>8. Learner!Level # raw => pending = Learner!Level
  BY <1>2, <1>4, <1>6
<1>9. pending # None => /\ pending = Learner!Level
                        /\ benchmark_cleared_level # None => pending > benchmark_cleared_level
  BY <1>2, <1>4, <1>6, <1>7
<1> QED BY <1>2, <1>5, <1>8, <1>9 DEF Learner!LevelsArePaidFor, raw, pending

LEMMA QuittingLoses == GrowthInv => Learner!QuittingNeverPays
<1> SUFFICES ASSUME GrowthInv, NEW data \in Learner!RewardInput, NEW permille \in Bonuses
             PROVE  LET plain == Learner!Gain(data, 0) IN
                    IF data.forfeited THEN Learner!Gain(data, permille) = plain /\ plain <= 0
                    ELSE plain > 0 /\ Learner!Gain(data, permille) \in plain..((plain * 115) \div 100)
  BY DEF Learner!QuittingNeverPays
<1> DEFINE amount == Learner!compute_reward(data)
           more   == Learner!apply_bonus(amount, Learner!capped(permille))
<1>1. total_exp \in Nat /\ permille \in Int
  BY GrowthConstants DEF GrowthInv, Learner!TypeOK
<1>2. amount \in Int /\ (data.forfeited => amount <= 0) /\ (~data.forfeited => amount > 0)
  BY RewardIsGiven
<1> HIDE DEF amount
<1>3. /\ more \in Int /\ (amount <= 0 => more = amount)
      /\ amount > 0 => more \in amount..((amount * 115) \div 100)
  BY <1>1, <1>2, BonusIsCapped
<1>4. Learner!apply_bonus(amount, Learner!capped(0)) = amount
  <2>1. Learner!capped(0) = 0 /\ Learner!Greater(0, 0) = 0
    BY DEF Learner!capped, Learner!Greater, Learner!Lesser, Learner!MAX_BONUS_EXP_PERMILLE
  <2>2. amount * 0 = 0 /\ 0 \div 1000 = 0 /\ amount + 0 = amount
    BY <1>2
  <2> QED BY <2>1, <2>2 DEF Learner!apply_bonus
<1> HIDE DEF more
<1>5. /\ Learner!Gain(data, 0) = Learner!apply_exp(total_exp, amount) - total_exp
      /\ Learner!Gain(data, permille) = Learner!apply_exp(total_exp, more) - total_exp
  BY <1>4 DEF Learner!Gain, amount, more
<1>6. CASE data.forfeited
  <2>1. more = amount /\ amount <= 0
    BY <1>2, <1>3, <1>6
  <2>2. Learner!apply_exp(total_exp, amount) \in Nat /\ Learner!apply_exp(total_exp, amount) <= total_exp
    BY <1>1, <1>2, <2>1, Applied
  <2> QED BY <1>1, <1>5, <1>6, <2>1, <2>2
<1>7. CASE ~data.forfeited
  <2>1. amount > 0 /\ more \in amount..((amount * 115) \div 100) /\ more > 0
    BY <1>2, <1>3, <1>7
  <2>2. /\ Learner!apply_exp(total_exp, amount) = total_exp + amount
        /\ Learner!apply_exp(total_exp, more) = total_exp + more
    BY <1>1, <1>2, <1>3, <2>1, Applied
  <2>3. Learner!Gain(data, 0) = amount /\ Learner!Gain(data, permille) = more
    BY <1>1, <1>2, <1>3, <1>5, <2>2
  <2> QED BY <1>7, <2>1, <2>3
<1> QED BY <1>6, <1>7

\* The bands by level.
Floors == [C2 |-> 93, C1 |-> 76, B2 |-> 51, B1 |-> 26, A2 |-> 11, A1 |-> 1]
BandOf(level) == IF level >= 93 THEN "C2" ELSE IF level >= 76 THEN "C1" ELSE IF level >= 51 THEN "B2"
                 ELSE IF level >= 26 THEN "B1" ELSE IF level >= 11 THEN "A2" ELSE "A1"

LEMMA BandIs ==
  ASSUME NEW level \in Nat \ {0}
  PROVE  Learner!cefr_for_level(level) = BandOf(level)
<1> DEFINE Reached(b) == b[2] <= level /\ \A c \in Learner!Bands : c[2] <= level => c[2] <= b[2]
<1>1. Learner!cefr_for_level(level) = (CHOOSE b \in Learner!Bands : Reached(b))[1]
  BY DEF Learner!cefr_for_level
<1>2. ASSUME NEW best_band \in Learner!Bands, Reached(best_band),
             \A b \in Learner!Bands : Reached(b) => b = best_band
      PROVE  Learner!cefr_for_level(level) = best_band[1]
  <2> HIDE DEF Reached
  <2>1. (CHOOSE b \in Learner!Bands : Reached(b)) = best_band
    BY <1>2
  <2> QED BY <1>1, <2>1
<1>3. \A b, c \in Learner!Bands : b[2] = c[2] => b = c
  BY BandTable
<1>4. \A b \in Learner!Bands : b[2] \in Nat
  BY BandTable
<1>5. \A b, c \in Learner!Bands : Reached(b) /\ Reached(c) => b = c
  BY <1>3, <1>4
<1>6. ASSUME NEW b \in Learner!Bands, Reached(b)
      PROVE  Learner!cefr_for_level(level) = b[1]
  BY <1>2, <1>5, <1>6
<1>7. CASE level >= 93
  <2>1. Reached(<<"C2", 93>>) /\ <<"C2", 93>> \in Learner!Bands
    BY <1>7, BandTable
  <2> QED BY <1>6, <1>7, <2>1 DEF BandOf
<1>8. CASE level \in 76..92
  <2>1. Reached(<<"C1", 76>>) /\ <<"C1", 76>> \in Learner!Bands
    BY <1>8, BandTable
  <2> QED BY <1>6, <1>8, <2>1 DEF BandOf
<1>9. CASE level \in 51..75
  <2>1. Reached(<<"B2", 51>>) /\ <<"B2", 51>> \in Learner!Bands
    BY <1>9, BandTable
  <2> QED BY <1>6, <1>9, <2>1 DEF BandOf
<1>10. CASE level \in 26..50
  <2>1. Reached(<<"B1", 26>>) /\ <<"B1", 26>> \in Learner!Bands
    BY <1>10, BandTable
  <2> QED BY <1>6, <1>10, <2>1 DEF BandOf
<1>11. CASE level \in 11..25
  <2>1. Reached(<<"A2", 11>>) /\ <<"A2", 11>> \in Learner!Bands
    BY <1>11, BandTable
  <2> QED BY <1>6, <1>11, <2>1 DEF BandOf
<1>12. CASE level \in 1..10
  <2>1. Reached(<<"A1", 1>>) /\ <<"A1", 1>> \in Learner!Bands
    BY <1>12, BandTable
  <2> QED BY <1>6, <1>12, <2>1 DEF BandOf
<1> QED BY <1>7, <1>8, <1>9, <1>10, <1>11, <1>12

LEMMA FloorIs == \A band \in DOMAIN Floors : Learner!cefr_floor(band) = Floors[band]
<1>1. ASSUME NEW b \in Learner!Bands
      PROVE  Learner!cefr_floor(b[1]) = b[2]
  <2>1. \A c \in Learner!Bands : c[1] = b[1] => c = b
    BY BandTable
  <2>2. (CHOOSE c \in Learner!Bands : c[1] = b[1]) = b
    BY <2>1
  <2> QED BY <2>2 DEF Learner!cefr_floor
<1>2. \A band \in {"C2", "C1", "B2", "B1", "A2", "A1"} : <<band, Floors[band]>> \in Learner!Bands
  BY BandTable DEF Floors
<1>3. DOMAIN Floors = {"C2", "C1", "B2", "B1", "A2", "A1"}
  BY DEF Floors
<1>4. ASSUME NEW band \in {"C2", "C1", "B2", "B1", "A2", "A1"}
      PROVE  Learner!cefr_floor(band) = Floors[band]
  <2> DEFINE b == <<band, Floors[band]>>
  <2>1. b \in Learner!Bands /\ b[1] = band /\ b[2] = Floors[band]
    BY <1>2
  <2> HIDE DEF b
  <2>2. Learner!cefr_floor(b[1]) = b[2]
    BY <1>1, <2>1
  <2> QED BY <2>1, <2>2
<1> QED BY <1>3, <1>4

\* The band that follows.
NextBand(level) == IF level >= 93 THEN None ELSE IF level >= 76 THEN <<"C2", 93>>
                   ELSE IF level >= 51 THEN <<"C1", 76>> ELSE IF level >= 26 THEN <<"B2", 51>>
                   ELSE IF level >= 11 THEN <<"B1", 26>> ELSE <<"A2", 11>>

LEMMA NextBandIs ==
  ASSUME NEW level \in Nat \ {0}
  PROVE  Learner!next_cefr_at_level(level) = NextBand(level)
<1> DEFINE floor  == Learner!cefr_floor(Learner!cefr_for_level(level))
           higher == {b \in Learner!Bands : b[2] > floor}
<1>1. Learner!next_cefr_at_level(level) =
        IF higher = {} THEN None ELSE CHOOSE b \in higher : \A c \in higher : b[2] <= c[2]
  BY DEF Learner!next_cefr_at_level
<1>2. floor = Floors[BandOf(level)] /\ BandOf(level) \in DOMAIN Floors
  <2>1. BandOf(level) \in DOMAIN Floors
    BY DEF BandOf, Floors
  <2> QED BY <2>1, BandIs, FloorIs
<1> HIDE DEF floor
<1>3. \A b, c \in Learner!Bands : b[2] \in Nat /\ (b[2] = c[2] => b = c)
  BY BandTable
<1>4. ASSUME NEW b \in higher, \A c \in higher : b[2] <= c[2]
      PROVE  Learner!next_cefr_at_level(level) = b
  <2>1. \A d \in higher : (\A c \in higher : d[2] <= c[2]) => d = b
    BY <1>3, <1>4
  <2> HIDE DEF higher
  <2>2. (CHOOSE d \in higher : \A c \in higher : d[2] <= c[2]) = b
    BY <1>4, <2>1
  <2> QED BY <1>1, <1>4, <2>2
<1>5. CASE level >= 93
  <2>1. floor = 93
    BY <1>2, <1>5 DEF BandOf, Floors
  <2>2. higher = {}
    BY <2>1, BandTable
  <2> QED BY <1>1, <1>5, <2>2 DEF NextBand
<1>6. CASE level \in 76..92
  <2>1. floor = 76
    BY <1>2, <1>6 DEF BandOf, Floors
  <2>2. <<"C2", 93>> \in higher /\ \A c \in higher : 93 <= c[2]
    BY <2>1, BandTable
  <2> QED BY <1>4, <1>6, <2>2 DEF NextBand
<1>7. CASE level \in 51..75
  <2>1. floor = 51
    BY <1>2, <1>7 DEF BandOf, Floors
  <2>2. <<"C1", 76>> \in higher /\ \A c \in higher : 76 <= c[2]
    BY <2>1, BandTable
  <2> QED BY <1>4, <1>7, <2>2 DEF NextBand
<1>8. CASE level \in 26..50
  <2>1. floor = 26
    BY <1>2, <1>8 DEF BandOf, Floors
  <2>2. <<"B2", 51>> \in higher /\ \A c \in higher : 51 <= c[2]
    BY <2>1, BandTable
  <2> QED BY <1>4, <1>8, <2>2 DEF NextBand
<1>9. CASE level \in 11..25
  <2>1. floor = 11
    BY <1>2, <1>9 DEF BandOf, Floors
  <2>2. <<"B1", 26>> \in higher /\ \A c \in higher : 26 <= c[2]
    BY <2>1, BandTable
  <2> QED BY <1>4, <1>9, <2>2 DEF NextBand
<1>10. CASE level \in 1..10
  <2>1. floor = 1
    BY <1>2, <1>10 DEF BandOf, Floors
  <2>2. <<"A2", 11>> \in higher /\ \A c \in higher : 11 <= c[2]
    BY <2>1, BandTable
  <2> QED BY <1>4, <1>10, <2>2 DEF NextBand
<1> QED BY <1>5, <1>6, <1>7, <1>8, <1>9, <1>10

\* The estimate, anchor by anchor.
Toeic(level) == IF level >= 93 THEN 990
                ELSE IF level >= 76 THEN 945 + (45 * (level - 76)) \div 17
                ELSE IF level >= 51 THEN 785 + (160 * (level - 51)) \div 25
                ELSE IF level >= 26 THEN 550 + (235 * (level - 26)) \div 25
                ELSE IF level >= 11 THEN 225 + (325 * (level - 11)) \div 15
                ELSE 10 + (215 * (level - 1)) \div 10

LEMMA ToeicIs ==
  ASSUME NEW level \in Nat \ {0}
  PROVE  Learner!toeic_estimate_for_level(level) = Toeic(level)
<1> DEFINE A      == Learner!TOEIC_ANCHORS
           capped == Learner!Greater(1, Learner!Lesser(level, Learner!MAX_CEFR_LEVEL))
           above  == {i \in (DOMAIN A) \ {1} : capped < A[i][1]}
           least  == CHOOSE i \in above : \A j \in above : i <= j
<1>1. Learner!toeic_estimate_for_level(level) =
        IF above = {} THEN 990
        ELSE A[least - 1][2] + (((A[least][2] - A[least - 1][2]) * (capped - A[least - 1][1]))
                                 \div (A[least][1] - A[least - 1][1]))
  BY DEF Learner!toeic_estimate_for_level, Learner!TOEIC_CEILING
<1>2. capped = (IF level <= 100 THEN level ELSE 100)
  BY DEF Learner!Greater, Learner!Lesser, Learner!MAX_CEFR_LEVEL
<1>3. /\ A = <<<<1, 10>>, <<11, 225>>, <<26, 550>>, <<51, 785>>, <<76, 945>>, <<93, 990>>>>
      /\ DOMAIN A = {1, 2, 3, 4, 5, 6}
  BY DEF Learner!TOEIC_ANCHORS, Learner!TOEIC_FLOOR, Learner!TOEIC_CEILING
<1> HIDE DEF A, capped
<1>4. ASSUME NEW i \in above, \A j \in above : i <= j
      PROVE  least = i /\ above # {}
  <2>1. \A k \in above : (\A j \in above : k <= j) => k = i
    BY <1>3, <1>4
  <2> HIDE DEF above
  <2> QED BY <1>4, <2>1
<1>5. ASSUME NEW i \in {2, 3, 4, 5, 6}, level < A[i][1], level >= A[i - 1][1]
      PROVE  Learner!toeic_estimate_for_level(level) =
               A[i - 1][2] + (((A[i][2] - A[i - 1][2]) * (level - A[i - 1][1])) \div (A[i][1] - A[i - 1][1]))
  <2>1. capped = level
    BY <1>2, <1>3, <1>5
  <2>2. i \in above /\ \A j \in above : i <= j
    BY <1>3, <1>5, <2>1
  <2>3. least = i /\ above # {}
    BY <1>4, <2>2
  <2> HIDE DEF least, above
  <2> QED BY <1>1, <2>1, <2>3
<1>6. CASE level >= 93
  <2>1. above = {}
    BY <1>2, <1>3, <1>6
  <2> QED BY <1>1, <1>6, <2>1 DEF Toeic
<1> HIDE DEF above, least
<1>7. CASE level \in 76..92
  BY <1>3, <1>5, <1>7 DEF Toeic
<1>8. CASE level \in 51..75
  BY <1>3, <1>5, <1>8 DEF Toeic
<1>9. CASE level \in 26..50
  BY <1>3, <1>5, <1>9 DEF Toeic
<1>10. CASE level \in 11..25
  BY <1>3, <1>5, <1>10 DEF Toeic
<1>11. CASE level \in 1..10
  BY <1>3, <1>5, <1>11 DEF Toeic
<1> QED BY <1>6, <1>7, <1>8, <1>9, <1>10, <1>11

LEMMA BandsPassed == GrowthInv => Learner!BandsArePassed
<1> SUFFICES ASSUME GrowthInv PROVE Learner!BandsArePassed
  OBVIOUS
<1> DEFINE level == Learner!Level
           next  == Learner!next_cefr_at_level(level)
<1>1. total_exp \in Nat /\ benchmark_cleared_level \in Learner!LEVEL_CAPS \cup {None}
  BY DEF GrowthInv, Learner!TypeOK
<1>2. level \in Nat \ {0} /\ (CapAfter(benchmark_cleared_level) # None => level <= CapAfter(benchmark_cleared_level))
  <2>1. /\ Learner!level_for_exp(total_exp) \in Nat \ {0}
        /\ level = IF CapAfter(benchmark_cleared_level) = None THEN Learner!level_for_exp(total_exp)
                   ELSE IF Learner!level_for_exp(total_exp) < CapAfter(benchmark_cleared_level)
                   THEN Learner!level_for_exp(total_exp) ELSE CapAfter(benchmark_cleared_level)
    BY <1>1, LevelIsPaid, NextCap DEF Learner!Level, Learner!effective_level, Learner!Lesser
  <2>2. CapAfter(benchmark_cleared_level) \in {10, 25, 50, 75, 92, None}
    BY DEF CapAfter
  <2> HIDE DEF level
  <2> QED BY <2>1, <2>2
<1> HIDE DEF level
<1>3. benchmark_cleared_level \in {92, 75, 50, 25, 10, None} /\ None \notin Int
  BY <1>1, BandTable, GrowthConstants
<1>4. /\ Learner!cefr_for_level(level) = BandOf(level) /\ BandOf(level) \in DOMAIN Floors
      /\ next = NextBand(level)
      /\ Learner!cefr_floor(BandOf(level)) = Floors[BandOf(level)]
  <2>1. BandOf(level) \in DOMAIN Floors
    BY DEF BandOf, Floors
  <2> QED BY <1>2, <2>1, BandIs, FloorIs, NextBandIs
<1> HIDE DEF next
\* The caps are where the bands end.
<1>5. BandOf(level) # "A1" => /\ benchmark_cleared_level # None
                              /\ Floors[BandOf(level)] <= benchmark_cleared_level + 1
  <2>1. CASE benchmark_cleared_level = None
    <3>1. level <= 10
      BY <1>2, <1>3, <2>1 DEF CapAfter
    <3> QED BY <1>2, <3>1 DEF BandOf
  <2>2. CASE benchmark_cleared_level = 10
    <3>1. level <= 25
      BY <1>2, <1>3, <2>2 DEF CapAfter
    <3> QED BY <1>2, <1>3, <2>2, <3>1 DEF BandOf, Floors
  <2>3. CASE benchmark_cleared_level = 25
    <3>1. level <= 50
      BY <1>2, <1>3, <2>3 DEF CapAfter
    <3> QED BY <1>2, <1>3, <2>3, <3>1 DEF BandOf, Floors
  <2>4. CASE benchmark_cleared_level = 50
    <3>1. level <= 75
      BY <1>2, <1>3, <2>4 DEF CapAfter
    <3> QED BY <1>2, <1>3, <2>4, <3>1 DEF BandOf, Floors
  <2>5. CASE benchmark_cleared_level = 75
    <3>1. level <= 92
      BY <1>2, <1>3, <2>5 DEF CapAfter
    <3> QED BY <1>2, <1>3, <2>5, <3>1 DEF BandOf, Floors
  <2>6. CASE benchmark_cleared_level = 92
    BY <1>2, <1>3, <2>6 DEF BandOf, Floors
  <2> QED BY <1>3, <2>1, <2>2, <2>3, <2>4, <2>5, <2>6
\* The estimate rises from the floor of the band to that of the next.
<1>6. /\ Learner!toeic_estimate_for_level(level) = Toeic(level)
      /\ \A floor \in {93, 76, 51, 26, 11, 1} : Learner!toeic_estimate_for_level(floor) = Toeic(floor)
      /\ Floors[BandOf(level)] \in {93, 76, 51, 26, 11, 1}
  <2>1. Floors[BandOf(level)] \in {93, 76, 51, 26, 11, 1}
    BY DEF BandOf, Floors
  <2> QED BY <1>2, <2>1, ToeicIs
<1>7. /\ Toeic(93) = 990 /\ Toeic(76) = 945 /\ Toeic(51) = 785 /\ Toeic(26) = 550 /\ Toeic(11) = 225
      /\ Toeic(1) = 10
  BY DEF Toeic
<1>8. Toeic(level) >= Toeic(Floors[BandOf(level)])
  <2>1. CASE level >= 93
    BY <1>7, <2>1 DEF Toeic, BandOf, Floors
  <2>2. CASE level \in 76..92
    BY <1>7, <2>2 DEF Toeic, BandOf, Floors
  <2>3. CASE level \in 51..75
    BY <1>7, <2>3 DEF Toeic, BandOf, Floors
  <2>4. CASE level \in 26..50
    BY <1>7, <2>4 DEF Toeic, BandOf, Floors
  <2>5. CASE level \in 11..25
    BY <1>7, <2>5 DEF Toeic, BandOf, Floors
  <2>6. CASE level \in 1..10
    BY <1>7, <2>6 DEF Toeic, BandOf, Floors
  <2> QED BY <1>2, <2>1, <2>2, <2>3, <2>4, <2>5, <2>6
<1>9. next # None => /\ level < next[2] /\ Learner!cefr_for_level(next[2]) = next[1]
                     /\ Learner!toeic_estimate_for_level(level) < Learner!toeic_estimate_for_level(next[2])
  <2>1. \A floor \in {93, 76, 51, 26, 11} : Learner!cefr_for_level(floor) = BandOf(floor)
    BY BandIs
  <2>2. /\ BandOf(93) = "C2" /\ BandOf(76) = "C1" /\ BandOf(51) = "B2" /\ BandOf(26) = "B1"
        /\ BandOf(11) = "A2"
    BY DEF BandOf
  <2>3. ASSUME NEW band, NEW floor \in {93, 76, 51, 26, 11}, next = <<band, floor>>, band = BandOf(floor),
               level < floor, Toeic(level) < Toeic(floor)
        PROVE  /\ level < next[2] /\ Learner!cefr_for_level(next[2]) = next[1]
               /\ Learner!toeic_estimate_for_level(level) < Learner!toeic_estimate_for_level(next[2])
    BY <1>6, <2>1, <2>3
  <2>4. CASE level >= 93
    BY <1>4, <2>4 DEF NextBand
  <2>5. CASE level \in 76..92
    <3>1. Toeic(level) < 990 /\ next = <<"C2", 93>>
      BY <1>4, <2>5 DEF Toeic, NextBand
    <3> QED BY <1>7, <2>2, <2>3, <2>5, <3>1
  <2>6. CASE level \in 51..75
    <3>1. Toeic(level) < 945 /\ next = <<"C1", 76>>
      BY <1>4, <2>6 DEF Toeic, NextBand
    <3> QED BY <1>7, <2>2, <2>3, <2>6, <3>1
  <2>7. CASE level \in 26..50
    <3>1. Toeic(level) < 785 /\ next = <<"B2", 51>>
      BY <1>4, <2>7 DEF Toeic, NextBand
    <3> QED BY <1>7, <2>2, <2>3, <2>7, <3>1
  <2>8. CASE level \in 11..25
    <3>1. Toeic(level) < 550 /\ next = <<"B1", 26>>
      BY <1>4, <2>8 DEF Toeic, NextBand
    <3> QED BY <1>7, <2>2, <2>3, <2>8, <3>1
  <2>9. CASE level \in 1..10
    <3>1. Toeic(level) < 225 /\ next = <<"A2", 11>>
      BY <1>4, <2>9 DEF Toeic, NextBand
    <3> QED BY <1>7, <2>2, <2>3, <2>9, <3>1
  <2> QED BY <1>2, <2>4, <2>5, <2>6, <2>7, <2>8, <2>9
<1> QED BY <1>4, <1>5, <1>6, <1>8, <1>9 DEF Learner!BandsArePassed, level, next

-----------------------------------------------------------------------------
(* The AI's client.                                                         *)

(* Two requests for a call, and the first of a pair is always a retry away. *)
LlmInv ==
  /\ Llm!TypeOK /\ Llm!AskedInReason
  /\ llm_attempt > 0 => asked > 0 /\ posts <= 2 * (asked - 1) + (llm_attempt - 1)

LEMMA LlmConstants ==
  /\ MaxHistory \in Nat /\ HINT_COUNT \in Nat \ {0} /\ Scores \subseteq Int /\ None \notin Int
BY StudyAssumption DEF Llm!LlmAssumption

LEMMA LlmStart == Llm!Init => LlmInv
<1> SUFFICES ASSUME Llm!Init PROVE LlmInv
  OBVIOUS
<1>1. said \in Seq(Llm!Roles)
  <2>1. PICK n \in 1..MaxHistory : said \in [1..n -> Llm!Roles]
    BY DEF Llm!Init
  <2> QED BY <2>1, LlmConstants
<1> QED BY <1>1 DEF Llm!Init, LlmInv, Llm!TypeOK, Llm!AskedInReason

\* What can come back, kind by kind.
LEMMA ResponseKinds ==
  \A r \in Llm!Responses :
    \/ r = Llm!Response("no answer", 0, "blank", 0, 0)
    \/ r = Llm!Response("garbled", 200, "blank", 0, 0)
    \/ \E status \in Llm!Statuses : r = Llm!Response("refused", status, "blank", 0, 0)
    \/ \E content \in Llm!Contents \ {"fits"} : r = Llm!Response("answer", 200, content, 0, 0)
    \/ \E score \in Scores, hints \in 0..(HINT_COUNT + 1) :
         r = Llm!Response("answer", 200, "fits", score, hints)
<1> DEFINE A == {Llm!Response("no answer", 0, "blank", 0, 0), Llm!Response("garbled", 200, "blank", 0, 0)}
           B == {Llm!Response("refused", status, "blank", 0, 0) : status \in Llm!Statuses}
           C == {Llm!Response("answer", 200, content, 0, 0) : content \in Llm!Contents \ {"fits"}}
           D == {Llm!Response("answer", 200, "fits", score, hints) :
                 score \in Scores, hints \in 0..(HINT_COUNT + 1)}
<1>1. Llm!Responses = A \cup B \cup C \cup D
  BY SMT DEF Llm!Responses
<1>2. \A r \in A : \/ r = Llm!Response("no answer", 0, "blank", 0, 0)
                  \/ r = Llm!Response("garbled", 200, "blank", 0, 0)
  OBVIOUS
<1>3. \A r \in B : \E status \in Llm!Statuses : r = Llm!Response("refused", status, "blank", 0, 0)
  OBVIOUS
<1>4. \A r \in C :
        \E content \in Llm!Contents \ {"fits"} : r = Llm!Response("answer", 200, content, 0, 0)
  OBVIOUS
<1>5. \A r \in D : \E score \in Scores, hints \in 0..(HINT_COUNT + 1) :
                  r = Llm!Response("answer", 200, "fits", score, hints)
  OBVIOUS
<1> HIDE DEF A, B, C, D
<1>6. \A r \in Llm!Responses : r \in A \/ r \in B \/ r \in C \/ r \in D
  BY <1>1
<1> SUFFICES ASSUME NEW r \in Llm!Responses
             PROVE  \/ r = Llm!Response("no answer", 0, "blank", 0, 0)
                    \/ r = Llm!Response("garbled", 200, "blank", 0, 0)
                    \/ \E status \in Llm!Statuses : r = Llm!Response("refused", status, "blank", 0, 0)
                    \/ \E content \in Llm!Contents \ {"fits"} : r = Llm!Response("answer", 200, content, 0, 0)
                    \/ \E score \in Scores, hints \in 0..(HINT_COUNT + 1) :
                         r = Llm!Response("answer", 200, "fits", score, hints)
  OBVIOUS
<1>7. CASE r \in A
  BY <1>2, <1>7
<1>8. CASE r \in B
  BY <1>3, <1>8
<1>9. CASE r \in C
  BY <1>4, <1>9
<1>10. CASE r \in D
  BY <1>5, <1>10
<1> QED BY <1>6, <1>7, <1>8, <1>9, <1>10

\* What an answer is taken for.
LEMMA LlmAnswers ==
  ASSUME NEW r \in Llm!Responses, r.kind = "answer"
  PROVE  /\ r.content \in Llm!Contents
         /\ r.content = "fits" => r.score \in Int /\ r.hints \in Nat
<1>1. \/ r = Llm!Response("no answer", 0, "blank", 0, 0)
      \/ r = Llm!Response("garbled", 200, "blank", 0, 0)
      \/ \E status \in Llm!Statuses : r = Llm!Response("refused", status, "blank", 0, 0)
      \/ \E content \in Llm!Contents \ {"fits"} : r = Llm!Response("answer", 200, content, 0, 0)
      \/ \E score \in Scores, hints \in 0..(HINT_COUNT + 1) :
           r = Llm!Response("answer", 200, "fits", score, hints)
  BY ResponseKinds
<1>2. \A kind, status, content, score, hints :
        r = Llm!Response(kind, status, content, score, hints) =>
          kind = "answer" /\ r.content = content /\ r.score = score /\ r.hints = hints
  BY DEF Llm!Response
<1>3. CASE \E content \in Llm!Contents \ {"fits"} : r = Llm!Response("answer", 200, content, 0, 0)
  BY <1>2, <1>3
<1>4. CASE \E score \in Scores, hints \in 0..(HINT_COUNT + 1) :
             r = Llm!Response("answer", 200, "fits", score, hints)
  <2>1. PICK score \in Scores, hints \in 0..(HINT_COUNT + 1) :
               r = Llm!Response("answer", 200, "fits", score, hints)
    BY <1>4
  <2>2. score \in Int /\ hints \in Nat
    BY <2>1, LlmConstants
  <2>3. r.content = "fits" /\ r.score = score /\ r.hints = hints
    BY <1>2, <2>1
  <2> QED BY <2>2, <2>3 DEF Llm!Contents
<1>5. CASE r = Llm!Response("no answer", 0, "blank", 0, 0)
  BY <1>5 DEF Llm!Response
<1>6. CASE r = Llm!Response("garbled", 200, "blank", 0, 0)
  BY <1>6 DEF Llm!Response
<1>7. CASE \E status \in Llm!Statuses : r = Llm!Response("refused", status, "blank", 0, 0)
  BY <1>7 DEF Llm!Response
<1> QED BY <1>1, <1>3, <1>4, <1>5, <1>6, <1>7

LEMMA LlmPosts ==
  ASSUME LlmInv, NEW r \in Llm!Responses, Llm!Post(r)
  PROVE  LlmInv'
<1>1. /\ llm_attempt \in {1, 2} /\ asked \in 0..2 /\ posts \in Nat /\ outcome = None
      /\ asked > 0 /\ posts <= 2 * (asked - 1) + (llm_attempt - 1)
      /\ said \in Seq(Llm!Roles) /\ purpose \in Llm!Purposes /\ (asked = 2 => purpose \in Llm!InJson)
  BY DEF LlmInv, Llm!TypeOK, Llm!Post, Llm!AskedInReason
<1>2. /\ posts' = posts + 1 /\ response' = r /\ UNCHANGED <<said, purpose, asked>>
      /\ \/ llm_attempt' = 0 /\ outcome' = None
         \/ llm_attempt' = 2 /\ llm_attempt = 1 /\ outcome' = None
         \/ llm_attempt' = 0 /\ r.kind # "answer" /\ Llm!Gives("raises")
         \/ llm_attempt' = 0 /\ r.kind # "answer" /\ Llm!Gives("unavailable")
  BY <1>1 DEF Llm!Post, Llm!Unavailable, Llm!Retryable
<1>3. outcome' # None => /\ outcome' \in Llm!Outcome /\ r.kind # "answer"
                         /\ outcome'.ends \in {"raises", "unavailable"}
  <2>1. ASSUME NEW ends \in {"raises", "unavailable"}, Llm!Gives(ends)
        PROVE  outcome' \in Llm!Outcome /\ outcome'.ends = ends
    BY <2>1 DEF Llm!Gives, Llm!Outcome
  <2> QED BY <1>2, <2>1
<1>4. Llm!TypeOK'
  BY <1>1, <1>2, <1>3 DEF Llm!TypeOK
<1>5. posts' <= 2 * asked /\ (llm_attempt' > 0 => posts' <= 2 * (asked - 1) + (llm_attempt' - 1))
  BY <1>1, <1>2
<1>6. Llm!AskedInReason'
  BY <1>1, <1>2, <1>3, <1>5 DEF Llm!AskedInReason, Llm!Answered
<1> QED BY <1>1, <1>2, <1>4, <1>5, <1>6 DEF LlmInv

LEMMA LlmReturns ==
  ASSUME LlmInv, Llm!generate_text \/ Llm!generate_json
  PROVE  LlmInv'
<1>1. /\ llm_attempt = 0 /\ asked \in 1..2 /\ posts \in Nat /\ posts <= 2 * asked /\ outcome = None
      /\ said \in Seq(Llm!Roles) /\ purpose \in Llm!Purposes /\ (asked = 2 => purpose \in Llm!InJson)
      /\ response \in Llm!Responses \cup {None} /\ response # None /\ response.kind = "answer"
      /\ UNCHANGED <<said, purpose, posts, response>>
  <2>1. Llm!Returned /\ UNCHANGED <<said, purpose, posts, response>>
    BY DEF Llm!generate_text, Llm!generate_json
  <2>2. /\ said \in Seq(Llm!Roles) /\ purpose \in Llm!Purposes /\ asked \in 0..2 /\ posts \in Nat
        /\ response \in Llm!Responses \cup {None}
        /\ posts <= 2 * asked /\ (asked = 2 => purpose \in Llm!InJson)
    BY DEF LlmInv, Llm!TypeOK, Llm!AskedInReason
  <2>3. /\ llm_attempt = 0 /\ asked > 0 /\ outcome = None
        /\ response # None /\ response.kind = "answer"
    BY <2>1 DEF Llm!Returned, Llm!Answered
  <2> QED BY <2>1, <2>2, <2>3
<1>2. /\ response.content \in Llm!Contents
      /\ response.content = "fits" => response.score \in Int /\ response.hints \in Nat
  BY <1>1, LlmAnswers
\* The call is over, with what is right for the answer.
<1>3. ASSUME llm_attempt' = 0, asked' = asked, outcome' \in Llm!Outcome,
             outcome'.ends \in {"answered", "unavailable"},
             outcome'.ends = "unavailable" =>
               IF purpose \in Llm!InJson THEN response.content # "fits" \/ response.hints = 0
               ELSE response.content \in {"blank", "marker"},
             outcome'.ends = "answered" =>
               /\ outcome'.score \in 0..100 /\ outcome'.hints <= HINT_COUNT
               /\ purpose = "hint" => outcome'.hints > 0
               /\ purpose \in Llm!InJson => response.content = "fits"
      PROVE  LlmInv'
  <2>1. Llm!TypeOK'
    BY <1>1, <1>3 DEF Llm!TypeOK
  <2>2. Llm!AskedInReason'
    BY <1>1, <1>3 DEF Llm!AskedInReason, Llm!Answered
  <2> QED BY <1>3, <2>1, <2>2 DEF LlmInv
<1>4. CASE Llm!generate_text
  <2>1. purpose \notin Llm!InJson /\ purpose # "hint"
    BY <1>4 DEF Llm!generate_text, Llm!InJson
  <2>2. CASE Llm!Unavailable /\ response.content \in {"blank", "marker"}
    BY <1>3, <2>1, <2>2 DEF Llm!Unavailable, Llm!Gives, Llm!Outcome
  <2>3. ASSUME NEW done \in BOOLEAN, llm_attempt' = llm_attempt, asked' = asked,
               outcome' = [ends |-> "answered", score |-> 0, hints |-> 0, goal_done |-> done]
        PROVE  LlmInv'
    <3>1. outcome' \in Llm!Outcome
      BY <2>3 DEF Llm!Outcome
    <3> QED BY <1>1, <1>3, <2>1, <2>3, <3>1, LlmConstants
  <2>4. (purpose = "reply" /\ response.content = "text and marker") \in BOOLEAN
    OBVIOUS
  <2> QED BY <1>4, <2>2, <2>3, <2>4 DEF Llm!generate_text, Llm!Blank
<1>5. CASE Llm!generate_json
  <2>1. purpose \in Llm!InJson
    BY <1>5 DEF Llm!generate_json
  <2>2. CASE asked = 1 /\ Llm!Asks
    <3>1. llm_attempt' = 1 /\ asked' = 2 /\ outcome' = None
      BY <2>2 DEF Llm!Asks
    <3>2. Llm!TypeOK'
      BY <1>1, <3>1 DEF Llm!TypeOK
    <3>3. Llm!AskedInReason'
      BY <1>1, <2>1, <2>2, <3>1 DEF Llm!AskedInReason
    <3> QED BY <1>1, <2>2, <3>1, <3>2, <3>3 DEF LlmInv
  <2>3. CASE Llm!Unavailable /\ (response.content # "fits" \/ response.hints = 0)
    BY <1>3, <2>1, <2>3 DEF Llm!Unavailable, Llm!Gives, Llm!Outcome
  <2>4. CASE /\ response.content = "fits" /\ ~(purpose = "hint" /\ response.hints = 0)
             /\ outcome' = [ends |-> "answered", score |-> Llm!Tidied(response.score),
                            hints |-> Llm!Hints(response.hints), goal_done |-> FALSE]
             /\ llm_attempt' = llm_attempt /\ asked' = asked
    <3>1. /\ Llm!Tidied(response.score) \in 0..100 /\ Llm!Hints(response.hints) \in Nat
          /\ Llm!Hints(response.hints) <= HINT_COUNT
          /\ purpose = "hint" => Llm!Hints(response.hints) > 0
      BY <1>2, <2>4, LlmConstants DEF Llm!Tidied, Llm!Hints
    <3>2. outcome' \in Llm!Outcome
      BY <2>4, <3>1 DEF Llm!Outcome
    <3> QED BY <1>1, <1>3, <2>4, <3>1, <3>2
  <2> QED BY <1>5, <2>2, <2>3, <2>4 DEF Llm!generate_json
<1> QED BY <1>4, <1>5

LEMMA LlmStep == LlmInv /\ [Llm!Next]_(Llm!vars) => LlmInv'
<1> SUFFICES ASSUME LlmInv, [Llm!Next]_(Llm!vars) PROVE LlmInv'
  OBVIOUS
<1>1. CASE Llm!Ask
  <2>1. /\ llm_attempt' = 1 /\ asked = 0 /\ asked' = 1 /\ outcome' = None /\ outcome = None
        /\ UNCHANGED <<said, purpose, posts, response>> /\ posts \in Nat /\ posts <= 0
    BY <1>1 DEF Llm!Ask, Llm!Asks, LlmInv, Llm!TypeOK, Llm!AskedInReason
  <2>2. Llm!TypeOK'
    BY <2>1 DEF LlmInv, Llm!TypeOK
  <2>3. Llm!AskedInReason'
    BY <2>1 DEF Llm!AskedInReason
  <2> QED BY <2>1, <2>2, <2>3 DEF LlmInv
<1>2. CASE UNCHANGED Llm!vars
  BY <1>2 DEF Llm!vars, LlmInv, Llm!TypeOK, Llm!AskedInReason, Llm!Answered
<1> QED BY <1>1, <1>2, LlmPosts, LlmReturns DEF Llm!Next

-----------------------------------------------------------------------------
(* The draw of a day's quests.                                              *)

(* An attempt takes one quest a slot at most, of types of its own and one   *)
(* opponent at most; one that took a quest for every slot so far has each   *)
(* of its slot's difficulty.                                                *)
Fair(quests) ==
  /\ quests \in Seq(Daily!QUEST_TEMPLATES)
  /\ \A i, j \in DOMAIN quests : i # j => quests[i].quest_type # quests[j].quest_type
  /\ \A i, j \in DOMAIN quests :
       quests[i].quest_type \in Daily!PVP_TYPES /\ quests[j].quest_type \in Daily!PVP_TYPES => i = j

EasyTypes == {"CORRECT_ANSWERS", "BEST_COMBO", "WIN_BATTLES"}

DrawInv ==
  /\ templates \subseteq Daily!QUEST_TEMPLATES
  /\ slot \in 1..5 /\ attempts \in Nat /\ Fair(chosen) /\ Fair(best)
  /\ Len(chosen) < slot /\ Len(best) < 4
  /\ Len(chosen) = slot - 1 => \A i \in DOMAIN chosen : chosen[i].difficulty = Daily!DAILY_SLOTS[i]
  \* Nothing is retired: only the last slot can stay empty, its types all taken.
  /\ templates = Daily!QUEST_TEMPLATES =>
       /\ slot <= 4 => Len(chosen) = slot - 1
       /\ slot = 5 /\ Len(chosen) < 4 => Len(chosen) = 3 /\ Daily!TypesOf(chosen) = EasyTypes
       /\ best = <<>> \/ (Len(best) = 3 /\ Daily!TypesOf(best) = EasyTypes)

LEMMA SlotsAre ==
  /\ Len(Daily!DAILY_SLOTS) = 4 /\ Daily!DAILY_SLOTS[1] = "HARD" /\ Daily!DAILY_SLOTS[2] = "MEDIUM"
  /\ Daily!DAILY_SLOTS[3] = "MEDIUM" /\ Daily!DAILY_SLOTS[4] = "EASY"
BY DEF Daily!DAILY_SLOTS

LEMMA TemplatesAre ==
  /\ \A t \in Daily!QUEST_TEMPLATES :
       t.difficulty \in {"EASY", "MEDIUM", "HARD"} /\ t = Daily!QuestTemplate(t.quest_type, t.difficulty)
  /\ \A type : Daily!QuestTemplate(type, "EASY") \in Daily!QUEST_TEMPLATES <=> type \in EasyTypes
  /\ \A type \in EasyTypes \cup {"NEW_LESSONS", "PLAY_PVP", "AI_CONVERSATION"} :
       Daily!QuestTemplate(type, "MEDIUM") \in Daily!QUEST_TEMPLATES
  /\ \A type \in EasyTypes \cup {"FLAWLESS_WIN", "NEW_LESSONS", "WIN_PVP"} :
       Daily!QuestTemplate(type, "HARD") \in Daily!QUEST_TEMPLATES
  /\ \A type, difficulty : /\ Daily!QuestTemplate(type, difficulty).quest_type = type
                           /\ Daily!QuestTemplate(type, difficulty).difficulty = difficulty
<1> DEFINE E == {Daily!QuestTemplate(type, "EASY") : type \in EasyTypes}
           M == {Daily!QuestTemplate(type, "MEDIUM") :
                 type \in {"CORRECT_ANSWERS", "BEST_COMBO", "WIN_BATTLES", "NEW_LESSONS", "PLAY_PVP",
                           "AI_CONVERSATION"}}
           H == {Daily!QuestTemplate(type, "HARD") :
                 type \in {"CORRECT_ANSWERS", "BEST_COMBO", "WIN_BATTLES", "FLAWLESS_WIN", "NEW_LESSONS",
                           "WIN_PVP"}}
<1>1. Daily!QUEST_TEMPLATES = E \cup M \cup H
  BY DEF Daily!QUEST_TEMPLATES, EasyTypes
<1>2. \A type, difficulty : /\ Daily!QuestTemplate(type, difficulty).quest_type = type
                            /\ Daily!QuestTemplate(type, difficulty).difficulty = difficulty
  BY DEF Daily!QuestTemplate
<1>3. /\ \A t \in E : t.difficulty = "EASY" /\ t.quest_type \in EasyTypes /\ t = Daily!QuestTemplate(t.quest_type, "EASY")
      /\ \A t \in M : t.difficulty = "MEDIUM" /\ t = Daily!QuestTemplate(t.quest_type, "MEDIUM")
      /\ \A t \in H : t.difficulty = "HARD" /\ t = Daily!QuestTemplate(t.quest_type, "HARD")
  BY <1>2
<1>4. /\ \A type \in EasyTypes : Daily!QuestTemplate(type, "EASY") \in E
      /\ \A type \in EasyTypes \cup {"NEW_LESSONS", "PLAY_PVP", "AI_CONVERSATION"} :
           Daily!QuestTemplate(type, "MEDIUM") \in M
      /\ \A type \in EasyTypes \cup {"FLAWLESS_WIN", "NEW_LESSONS", "WIN_PVP"} :
           Daily!QuestTemplate(type, "HARD") \in H
  BY DEF EasyTypes
<1> HIDE DEF E, M, H
<1>5. \A t \in Daily!QUEST_TEMPLATES :
        t.difficulty \in {"EASY", "MEDIUM", "HARD"} /\ t = Daily!QuestTemplate(t.quest_type, t.difficulty)
  BY <1>1, <1>3
<1>6. \A type : Daily!QuestTemplate(type, "EASY") \in Daily!QUEST_TEMPLATES => type \in EasyTypes
  <2> SUFFICES ASSUME NEW type, Daily!QuestTemplate(type, "EASY") \in Daily!QUEST_TEMPLATES
               PROVE  type \in EasyTypes
    OBVIOUS
  <2>1. Daily!QuestTemplate(type, "EASY") \in E
    BY <1>1, <1>2, <1>3
  <2> QED BY <1>2, <1>3, <2>1
<1> QED BY <1>1, <1>2, <1>4, <1>5, <1>6

\* Counted once there is at most one.
LEMMA PvpCounted ==
  ASSUME NEW quests, Fair(quests)
  PROVE  /\ Daily!PvpIn(quests) <= 1
         /\ Daily!PvpIn(quests) < 1 => \A i \in DOMAIN quests : quests[i].quest_type \notin Daily!PVP_TYPES
<1> DEFINE P == {i \in DOMAIN quests : quests[i].quest_type \in Daily!PVP_TYPES}
<1>1. Daily!PvpIn(quests) = Cardinality(P)
  BY Counting DEF Daily!PvpIn
<1>2. \A i, j \in P : i = j
  BY DEF Fair
<1>3. CASE P = {}
  <2>1. Cardinality(P) = 0
    BY <1>3, FS_EmptySet
  <2> QED BY <1>1, <1>3, <2>1
<1>4. CASE P # {}
  <2>1. PICK i \in P : TRUE
    BY <1>4
  <2>2. P = {i}
    BY <1>2, <2>1
  <2>3. Cardinality(P) = 1
    BY <2>2, FS_Singleton
  <2> HIDE DEF P
  <2> QED BY <1>1, <2>3
<1> QED BY <1>3, <1>4

LEMMA FairGrows ==
  ASSUME NEW quests, Fair(quests), NEW t \in Daily!QUEST_TEMPLATES, Daily!fits(t, quests)
  PROVE  Fair(Append(quests, t))
<1>1. quests \in Seq(Daily!QUEST_TEMPLATES)
  BY DEF Fair
<1>2. /\ Append(quests, t) \in Seq(Daily!QUEST_TEMPLATES)
      /\ DOMAIN Append(quests, t) = DOMAIN quests \cup {Len(quests) + 1}
      /\ \A i \in DOMAIN quests : Append(quests, t)[i] = quests[i]
      /\ Append(quests, t)[Len(quests) + 1] = t
  BY <1>1
<1>3. /\ \A i \in DOMAIN quests : quests[i].quest_type # t.quest_type
      /\ t.quest_type \in Daily!PVP_TYPES
           => \A i \in DOMAIN quests : quests[i].quest_type \notin Daily!PVP_TYPES
  BY PvpCounted DEF Daily!fits, Daily!TypesOf, Daily!MAX_PVP_QUESTS_PER_DAY
<1> HIDE DEF Daily!QUEST_TEMPLATES, Daily!PVP_TYPES
<1> QED BY <1>2, <1>3 DEF Fair

LEMMA DrawStart == Daily!DrawInit => DrawInv
BY DEF Daily!DrawInit, DrawInv, Fair

\* With nothing retired there is a candidate for every slot but the last.
LEMMA CandidateLeft ==
  ASSUME DrawInv, templates = Daily!QUEST_TEMPLATES, slot \in 1..3
  PROVE  Daily!Candidates # {}
<1>1. chosen \in Seq(Daily!QUEST_TEMPLATES) /\ Len(chosen) = slot - 1
  BY DEF DrawInv, Fair
<1>2. ASSUME NEW type \in EasyTypes, type \notin Daily!TypesOf(chosen), slot \in 2..3
      PROVE  Daily!Candidates # {}
  <2>1. Daily!QuestTemplate(type, "MEDIUM") \in templates
    BY <1>2, TemplatesAre
  <2>2. Daily!fits(Daily!QuestTemplate(type, "MEDIUM"), chosen)
    BY <1>2, TemplatesAre DEF Daily!fits, EasyTypes, Daily!PVP_TYPES
  <2>3. Daily!DAILY_SLOTS[slot] = "MEDIUM"
    BY <1>2, SlotsAre
  <2> QED BY <2>1, <2>2, <2>3, TemplatesAre DEF Daily!Candidates
<1>3. CASE slot = 1
  <2>1. Daily!QuestTemplate("FLAWLESS_WIN", "HARD") \in templates
    BY TemplatesAre
  <2>2. Daily!TypesOf(chosen) = {}
    BY <1>1, <1>3 DEF Daily!TypesOf
  <2>3. Daily!fits(Daily!QuestTemplate("FLAWLESS_WIN", "HARD"), chosen)
    BY <2>2, TemplatesAre DEF Daily!fits, Daily!PVP_TYPES
  <2> QED BY <1>3, <2>1, <2>3, TemplatesAre, SlotsAre DEF Daily!Candidates
<1>4. CASE slot = 2
  <2>1. Daily!TypesOf(chosen) = {chosen[1].quest_type}
    BY <1>1, <1>4 DEF Daily!TypesOf
  <2>2. \E type \in EasyTypes : type \notin Daily!TypesOf(chosen)
    BY <2>1 DEF EasyTypes
  <2> QED BY <1>2, <1>4, <2>2
<1>5. CASE slot = 3
  <2>1. Daily!TypesOf(chosen) = {chosen[1].quest_type, chosen[2].quest_type}
    BY <1>1, <1>5 DEF Daily!TypesOf
  <2>2. \E type \in EasyTypes : type \notin Daily!TypesOf(chosen)
    BY <2>1 DEF EasyTypes
  <2> QED BY <1>2, <1>5, <2>2
<1> QED BY <1>3, <1>4, <1>5

\* Nothing for the last slot: the others took all easy types.
LEMMA EasyTaken ==
  ASSUME DrawInv, templates = Daily!QUEST_TEMPLATES, slot = 4, Daily!Candidates = {}
  PROVE  Len(chosen) = 3 /\ Daily!TypesOf(chosen) = EasyTypes
<1>1. chosen \in Seq(Daily!QUEST_TEMPLATES) /\ Len(chosen) = 3
  BY DEF DrawInv, Fair
<1>2. Daily!TypesOf(chosen) = {chosen[1].quest_type, chosen[2].quest_type, chosen[3].quest_type}
  BY <1>1 DEF Daily!TypesOf
<1>3. ASSUME NEW type \in EasyTypes, type \notin Daily!TypesOf(chosen)
      PROVE  FALSE
  <2>1. Daily!QuestTemplate(type, "EASY") \in templates
    BY <1>3, TemplatesAre
  <2>2. Daily!fits(Daily!QuestTemplate(type, "EASY"), chosen)
    BY <1>3, TemplatesAre DEF Daily!fits, EasyTypes, Daily!PVP_TYPES
  <2> QED BY <2>1, <2>2, TemplatesAre, SlotsAre DEF Daily!Candidates
<1>4. EasyTypes \subseteq Daily!TypesOf(chosen)
  BY <1>3
<1>5. Daily!TypesOf(chosen) = EasyTypes
  BY <1>2, <1>4 DEF EasyTypes
<1> QED BY <1>1, <1>5

LEMMA DrawStep == DrawInv /\ [Daily!DrawNext]_(Daily!draw_vars) => DrawInv'
<1> SUFFICES ASSUME DrawInv, [Daily!DrawNext]_(Daily!draw_vars)
             PROVE  DrawInv'
  OBVIOUS
<1> USE DEF DrawInv
<1> DEFINE All == templates = Daily!QUEST_TEMPLATES
<1>1. CASE Daily!FillSlot
  <2>1. /\ slot \in 1..4 /\ slot' = slot + 1
        /\ templates' = templates /\ best' = best /\ attempts' = attempts
    BY <1>1, SlotsAre DEF Daily!FillSlot
  <2>2. CASE Daily!Candidates = {}
    <3>1. chosen' = chosen
      BY <1>1, <2>2 DEF Daily!FillSlot
    <3>2. All => slot = 4
      BY <2>1, <2>2, CandidateLeft
    <3>3. All => Len(chosen) = 3 /\ Daily!TypesOf(chosen) = EasyTypes
      BY <2>2, <3>2, EasyTaken
    <3>4. Daily!TypesOf(chosen') = Daily!TypesOf(chosen)
      BY <3>1
    <3> HIDE DEF Daily!TypesOf, Daily!QUEST_TEMPLATES, EasyTypes, Fair
    <3> QED BY <2>1, <3>1, <3>2, <3>3, <3>4
  <2>3. CASE Daily!Candidates # {}
    <3>1. PICK t \in Daily!Candidates : chosen' = Append(chosen, t)
      BY <1>1, <2>3 DEF Daily!FillSlot
    <3>2. /\ t \in Daily!QUEST_TEMPLATES /\ Daily!fits(t, chosen)
          /\ t.difficulty = Daily!DAILY_SLOTS[slot]
      BY DEF Daily!Candidates
    <3>3. Fair(chosen')
      BY <3>1, <3>2, FairGrows
    <3>4. /\ Len(chosen') = Len(chosen) + 1 /\ Len(chosen) \in Nat
          /\ DOMAIN chosen' = DOMAIN chosen \cup {Len(chosen) + 1}
          /\ \A i \in DOMAIN chosen : chosen'[i] = chosen[i]
          /\ chosen'[Len(chosen) + 1] = t
      BY <3>1, <3>2 DEF Fair
    <3>5. Len(chosen') = slot' - 1 => \A i \in DOMAIN chosen' : chosen'[i].difficulty = Daily!DAILY_SLOTS[i]
      <4> SUFFICES ASSUME Len(chosen') = slot' - 1, NEW i \in DOMAIN chosen'
                   PROVE  chosen'[i].difficulty = Daily!DAILY_SLOTS[i]
        OBVIOUS
      <4>1. Len(chosen) = slot - 1
        BY <2>1, <3>4
      <4>2. CASE i \in DOMAIN chosen
        BY <3>4, <4>1, <4>2
      <4>3. CASE i = slot
        BY <3>2, <3>4, <4>1, <4>3
      <4> HIDE DEF DrawInv
      <4> QED BY <2>1, <3>4, <4>1, <4>2, <4>3
    <3> HIDE DEF Daily!TypesOf, Daily!QUEST_TEMPLATES, EasyTypes, Fair
    <3> QED BY <2>1, <3>3, <3>4, <3>5
  <2> QED BY <2>2, <2>3
<1>2. CASE Daily!TryAgain
  <2>1. /\ slot = 5 /\ Len(chosen) # 4 /\ slot' = 1 /\ chosen' = <<>> /\ attempts' = attempts + 1
        /\ templates' = templates
        /\ best' = IF Len(chosen) > Len(best) THEN chosen ELSE best
    BY <1>2, SlotsAre DEF Daily!TryAgain, Daily!Full
  <2>2. Fair(chosen') /\ Len(chosen') = 0 /\ DOMAIN chosen' = {}
    BY <2>1 DEF Fair
  <2>3. Len(chosen) \in Nat
    BY DEF Fair
  <2>4. best' = chosen \/ best' = best
    BY <2>1
  <2>5. /\ Fair(chosen) /\ Fair(best) /\ Len(chosen) < 4 /\ Len(best) < 4
        /\ All => Len(chosen) = 3 /\ Daily!TypesOf(chosen) = EasyTypes
        /\ All => best = <<>> \/ (Len(best) = 3 /\ Daily!TypesOf(best) = EasyTypes)
    <3>1. Fair(chosen) /\ Fair(best) /\ Len(chosen) < slot /\ Len(best) < 4
      OBVIOUS
    <3>2. Len(chosen) < 4
      <4> DEFINE n == Len(chosen)
      <4>1. n \in Nat /\ n < 5 /\ n # 4
        BY <2>1, <2>3, <3>1
      <4> HIDE DEF n, DrawInv
      <4>2. n < 4
        BY <4>1
      <4> QED BY <4>2 DEF n
    <3>3. All => /\ slot = 5 /\ Len(chosen) < 4 => Len(chosen) = 3 /\ Daily!TypesOf(chosen) = EasyTypes
                 /\ best = <<>> \/ (Len(best) = 3 /\ Daily!TypesOf(best) = EasyTypes)
      OBVIOUS
    <3> HIDE DEF DrawInv, All
    <3> QED BY <2>1, <3>1, <3>2, <3>3
  <2>6. Fair(best') /\ Len(best') < 4
    BY <2>4, <2>5 DEF Fair
  <2>7. All => best' = <<>> \/ (Len(best') = 3 /\ Daily!TypesOf(best') = EasyTypes)
    <3>1. CASE best' = chosen
      BY <2>5, <3>1 DEF Daily!TypesOf
    <3>2. CASE best' = best
      BY <2>5, <3>2 DEF Daily!TypesOf
    <3> QED BY <2>4, <3>1, <3>2
  <2> HIDE DEF Daily!TypesOf, Daily!QUEST_TEMPLATES, EasyTypes, Fair
  <2> QED BY <2>1, <2>2, <2>6, <2>7
<1>3. CASE UNCHANGED Daily!draw_vars
  <2>1. /\ templates' = templates /\ chosen' = chosen /\ slot' = slot /\ best' = best /\ attempts' = attempts
    BY <1>3 DEF Daily!draw_vars
  <2> QED BY <2>1 DEF Fair, Daily!TypesOf
<1> QED BY <1>1, <1>2, <1>3 DEF Daily!DrawNext

\* The points of a quest, and of two and of four of them.
LEMMA PointsAre ==
  \A t \in Daily!QUEST_TEMPLATES :
    /\ Daily!POINTS_BY_DIFFICULTY[t.difficulty] \in 20..30
    /\ t.difficulty = "EASY" => Daily!POINTS_BY_DIFFICULTY[t.difficulty] = 20
    /\ t.difficulty = "MEDIUM" => Daily!POINTS_BY_DIFFICULTY[t.difficulty] = 25
    /\ t.difficulty = "HARD" => Daily!POINTS_BY_DIFFICULTY[t.difficulty] = 30
<1>1. /\ Daily!POINTS_BY_DIFFICULTY["EASY"] = 20 /\ Daily!POINTS_BY_DIFFICULTY["MEDIUM"] = 25
      /\ Daily!POINTS_BY_DIFFICULTY["HARD"] = 30
  BY DEF Daily!POINTS_BY_DIFFICULTY
<1> QED BY <1>1, TemplatesAre

LEMMA SumOfTwo ==
  ASSUME NEW s \in Daily!QUEST_TEMPLATES, NEW t \in Daily!QUEST_TEMPLATES
  PROVE  Daily!SumOf(<<s, t>>) = Daily!POINTS_BY_DIFFICULTY[s.difficulty]
                                 + Daily!POINTS_BY_DIFFICULTY[t.difficulty]
<1> DEFINE quests == <<s, t>>
           points(i) == Daily!POINTS_BY_DIFFICULTY[quests[i].difficulty]
           Sums(f) == f = [i \in 0..2 |-> IF i = 0 THEN 0 ELSE f[i - 1] + points(i)]
           h == [i \in 0..2 |-> IF i = 0 THEN 0 ELSE IF i = 1 THEN points(1) ELSE points(1) + points(2)]
           g == CHOOSE f : Sums(f)
<1>1. Len(quests) = 2 /\ quests[1] = s /\ quests[2] = t
  OBVIOUS
<1>2. points(1) \in 20..30 /\ points(2) \in 20..30
  BY <1>1, PointsAre
<1>3. Daily!SumOf(quests) = g[2]
  BY <1>1 DEF Daily!SumOf
<1> HIDE DEF quests
<1>4. Sums(h)
  <2> HIDE DEF points
  <2> QED BY <1>2
<1>5. Sums(g)
  <2> HIDE DEF Sums, h
  <2> QED BY <1>4
<1>6. g[0] = 0 /\ g[1] = g[0] + points(1) /\ g[2] = g[1] + points(2)
  <2> HIDE DEF g, points
  <2> QED BY <1>5
<1> QED
  <2> HIDE DEF g, Sums, h
  <2> QED BY <1>1, <1>2, <1>3, <1>6 DEF quests

LEMMA ElementsAre ==
  ASSUME NEW S, NEW s \in Seq(S)
  PROVE  \A i \in 1..Len(s) : s[i] \in S
OBVIOUS

LEMMA SumOfFour ==
  ASSUME NEW quests \in Seq(Daily!QUEST_TEMPLATES), Len(quests) = 4
  PROVE  Daily!SumOf(quests) = Daily!POINTS_BY_DIFFICULTY[quests[1].difficulty]
                               + Daily!POINTS_BY_DIFFICULTY[quests[2].difficulty]
                               + Daily!POINTS_BY_DIFFICULTY[quests[3].difficulty]
                               + Daily!POINTS_BY_DIFFICULTY[quests[4].difficulty]
<1> DEFINE points(i) == Daily!POINTS_BY_DIFFICULTY[quests[i].difficulty]
           Sums(f) == f = [i \in 0..4 |-> IF i = 0 THEN 0 ELSE f[i - 1] + points(i)]
           h == [i \in 0..4 |-> IF i = 0 THEN 0 ELSE IF i = 1 THEN points(1)
                                ELSE IF i = 2 THEN points(1) + points(2)
                                ELSE IF i = 3 THEN points(1) + points(2) + points(3)
                                ELSE points(1) + points(2) + points(3) + points(4)]
           g == CHOOSE f : Sums(f)
<1>1. \A i \in 1..4 : points(i) \in 20..30
  <2> HIDE DEF points
  <2>1. \A i \in 1..4 : quests[i] \in Daily!QUEST_TEMPLATES
    BY ElementsAre
  <2> QED BY <2>1, PointsAre DEF points
<1>2. Daily!SumOf(quests) = g[4]
  BY DEF Daily!SumOf
<1>3. Sums(h)
  <2> HIDE DEF points
  <2> QED BY <1>1
<1>4. Sums(g)
  <2> HIDE DEF Sums, h
  <2> QED BY <1>3
<1>5. /\ g[0] = 0 /\ g[1] = g[0] + points(1) /\ g[2] = g[1] + points(2)
      /\ g[3] = g[2] + points(3) /\ g[4] = g[3] + points(4)
  <2> HIDE DEF g, points
  <2> QED BY <1>4
<1> QED
  <2> HIDE DEF g, Sums, h
  <2> QED BY <1>1, <1>2, <1>5

\* What a full day is worth.
LEMMA FullDayIsWorth ==
  ASSUME DrawInv, Len(chosen) = 4
  PROVE  /\ Daily!SumOf(chosen) = 100
         /\ \A i \in DOMAIN chosen : Daily!POINTS_BY_DIFFICULTY[chosen[i].difficulty] \in 20..30
         /\ \A i, j \in DOMAIN chosen : i # j => Daily!SumOf(<<chosen[i], chosen[j]>>) \in 45..55
<1>1. /\ chosen \in Seq(Daily!QUEST_TEMPLATES) /\ DOMAIN chosen = 1..4
      /\ \A i \in 1..4 : chosen[i] \in Daily!QUEST_TEMPLATES
  <2>1. chosen \in Seq(Daily!QUEST_TEMPLATES)
    BY DEF DrawInv, Fair
  <2> QED BY <2>1, ElementsAre
<1>2. \A i \in 1..4 : chosen[i].difficulty = Daily!DAILY_SLOTS[i]
  BY <1>1 DEF DrawInv
<1> DEFINE points(i) == Daily!POINTS_BY_DIFFICULTY[chosen[i].difficulty]
<1>3. points(1) = 30 /\ points(2) = 25 /\ points(3) = 25 /\ points(4) = 20
  BY <1>1, <1>2, PointsAre, SlotsAre
<1>4. Daily!SumOf(chosen) = points(1) + points(2) + points(3) + points(4)
  BY <1>1, SumOfFour
<1>5. \A i, j \in 1..4 : Daily!SumOf(<<chosen[i], chosen[j]>>) = points(i) + points(j)
  BY <1>1, SumOfTwo
<1> HIDE DEF points
<1>6. \A i \in 1..4 : points(i) \in 20..30
  BY <1>3
<1>7. \A i, j \in 1..4 : i # j => points(i) + points(j) \in 45..55
  BY <1>3
<1>8. Daily!SumOf(chosen) = 100
  BY <1>3, <1>4
<1>9. \A i \in DOMAIN chosen : points(i) \in 20..30
  BY <1>1, <1>6
<1>10. ASSUME NEW i \in DOMAIN chosen, NEW j \in DOMAIN chosen, i # j
       PROVE  Daily!SumOf(<<chosen[i], chosen[j]>>) \in 45..55
  <2>1. i \in 1..4 /\ j \in 1..4
    BY <1>1
  <2>2. Daily!SumOf(<<chosen[i], chosen[j]>>) = points(i) + points(j)
    BY <1>5, <2>1
  <2>3. points(i) + points(j) \in 45..55
    BY <1>7, <1>10, <2>1
  <2> QED BY <2>2, <2>3
<1>11. \A i \in DOMAIN chosen : Daily!POINTS_BY_DIFFICULTY[chosen[i].difficulty] \in 20..30
  BY ONLY <1>9 DEF points
<1> QED BY <1>8, <1>10, <1>11

LEMMA DrawIsFair == DrawInv => Daily!DayIsFair
<1> SUFFICES ASSUME DrawInv PROVE Daily!DayIsFair
  OBVIOUS
<1> DEFINE days == Daily!DaysQuests
<1>1. /\ Len(chosen) \in Nat /\ Len(best) \in Nat /\ slot \in 1..5
      /\ Len(chosen) < slot /\ Len(best) < 4 /\ Fair(chosen) /\ Fair(best)
  BY DEF DrawInv, Fair
<1>2. /\ Daily!Full <=> Len(chosen) = 4
      /\ days = IF Len(chosen) = 4 \/ Len(chosen) > Len(best) THEN chosen ELSE best
      /\ Daily!Over => slot = 5
  BY <1>1, SlotsAre DEF Daily!Full, Daily!DaysQuests, Daily!Over
<1> HIDE DEF days
<1>3. Fair(days)
  BY <1>1, <1>2
<1>4. \A i, j \in DOMAIN days : i # j => days[i].quest_type # days[j].quest_type
  BY <1>3 DEF Fair
<1>5. Daily!PvpIn(days) <= 1
  BY <1>3, PvpCounted
<1>6. Len(best) <= Len(days) /\ Len(chosen) <= Len(days)
  BY <1>1, <1>2
<1>7. ASSUME Daily!Over, templates = Daily!QUEST_TEMPLATES
      PROVE  \/ Len(days) = 4
             \/ Daily!TypesOf(days) = {t.quest_type : t \in {u \in templates : u.difficulty = "EASY"}}
  <2> DEFINE easy == {t.quest_type : t \in {u \in templates : u.difficulty = "EASY"}}
  <2>1. easy = EasyTypes
    <3>1. \A type \in EasyTypes : type \in easy
      BY <1>7, TemplatesAre
    <3>2. \A type \in easy : type \in EasyTypes
      BY <1>7, TemplatesAre
    <3> HIDE DEF easy
    <3> QED BY <3>1, <3>2
  <2>2. Len(chosen) < 4 => Len(chosen) = 3 /\ Daily!TypesOf(chosen) = EasyTypes
    BY <1>2, <1>7 DEF DrawInv
  <2>3. best = <<>> \/ (Len(best) = 3 /\ Daily!TypesOf(best) = EasyTypes)
    BY <1>7 DEF DrawInv
  <2>4. best = <<>> => Len(best) = 0
    OBVIOUS
  <2>5. Len(chosen) < 4 => Len(days) = 3 /\ (days = chosen \/ (days = best /\ best # <<>>))
    BY <1>1, <1>2, <2>2, <2>3, <2>4
  <2>6. Len(chosen) < 4 => Daily!TypesOf(days) = EasyTypes
    BY <2>2, <2>3, <2>5
  <2>7. Len(chosen) = 4 => Len(days) = 4
    BY <1>2
  <2>8. Len(chosen) < 4 \/ Len(chosen) = 4
    <3> DEFINE n == Len(chosen)
    <3>1. n \in Nat /\ n < slot /\ slot \in 1..5
      BY <1>1
    <3> HIDE DEF n
    <3>2. n < 4 \/ n = 4
      BY <3>1
    <3> QED BY <3>2 DEF n
  <2>9. CASE Len(chosen) < 4
    BY <2>1, <2>6, <2>9, Zenon
  <2>10. CASE Len(chosen) = 4
    BY <2>7, <2>10
  <2> QED BY <2>8, <2>9, <2>10
<1>8. ASSUME Daily!Over, Len(days) = 4
      PROVE  /\ Daily!chests_reached(Daily!SumOf(days)) = Daily!CHESTS
             /\ \A i \in DOMAIN days :
                  Daily!SumOf(days) - Daily!POINTS_BY_DIFFICULTY[days[i].difficulty] < 100
             /\ \A i, j \in DOMAIN days :
                  i # j => Daily!chests_reached(Daily!SumOf(<<days[i], days[j]>>)) = {30}
             /\ \A i \in DOMAIN days :
                  60 \in Daily!chests_reached(Daily!SumOf(days)
                                              - Daily!POINTS_BY_DIFFICULTY[days[i].difficulty])
  <2>1. days = chosen
    BY <1>1, <1>2, <1>8
  <2>2. /\ Daily!SumOf(days) = 100
        /\ \A i \in DOMAIN days : Daily!POINTS_BY_DIFFICULTY[days[i].difficulty] \in 20..30
        /\ \A i, j \in DOMAIN days : i # j => Daily!SumOf(<<days[i], days[j]>>) \in 45..55
    BY <1>8, <2>1, FullDayIsWorth
  <2>3. /\ Daily!chests_reached(100) = Daily!CHESTS
        /\ \A n \in 45..55 : Daily!chests_reached(n) = {30}
        /\ \A n \in 70..80 : 60 \in Daily!chests_reached(n)
    BY DEF Daily!chests_reached, Daily!CHESTS
  <2> HIDE DEF Daily!chests_reached
  <2> QED BY <2>2, <2>3
<1> QED BY <1>4, <1>5, <1>6, <1>7, <1>8, SlotsAre DEF Daily!DayIsFair, days

-----------------------------------------------------------------------------
(* What the AI is sent of a conversation.                                   *)

Turn == [role : Llm!Roles, lines : Seq(Nat)]

First(turn) == turn.lines[1]
Final(turn) == turn.lines[Len(turn.lines)]

\* A turn has consecutive lines, all of one speaker.
Whole(turn) ==
  /\ turn \in Turn /\ Len(turn.lines) >= 1
  /\ \A j \in 1..(Len(turn.lines) - 1) : turn.lines[j + 1] = turn.lines[j] + 1
  /\ \A j \in 1..Len(turn.lines) : said[turn.lines[j]] = turn.role

\* What the lines after the first `cut', up to `last', have been made into.
Told(turns, cut, last) ==
  /\ turns \in Seq(Turn) /\ Len(turns) >= 1
  /\ First(turns[1]) = cut + 1 /\ Final(turns[Len(turns)]) = last
  /\ \A i \in 1..(Len(turns) - 1) : /\ turns[i].role # turns[i + 1].role
                                    /\ First(turns[i + 1]) = Final(turns[i]) + 1
  /\ \A i \in 1..Len(turns) : Whole(turns[i])

LEMMA OneLine ==
  ASSUME NEW line \in Nat, NEW role \in Llm!Roles, said[line] = role
  PROVE  LET turn == Llm!ChatTurn(role, <<line>>) IN
         turn \in Turn /\ Whole(turn) /\ turn.role = role /\ First(turn) = line /\ Final(turn) = line
<1> DEFINE turn == Llm!ChatTurn(role, <<line>>)
<1>1. <<line>> \in Seq(Nat) /\ Len(<<line>>) = 1 /\ <<line>>[1] = line
  OBVIOUS
<1>2. turn \in Turn /\ turn.role = role /\ turn.lines = <<line>>
  BY <1>1 DEF Turn, Llm!ChatTurn
<1> HIDE DEF turn
<1>3. Len(turn.lines) = 1 /\ turn.lines[1] = line
  BY <1>1, <1>2
<1>4. First(turn) = line /\ Final(turn) = line
  BY <1>3 DEF First, Final
<1>5. \A j \in 1..1 : said[turn.lines[j]] = turn.role
  BY <1>2, <1>3
<1>6. Whole(turn)
  BY <1>2, <1>3, <1>5 DEF Whole
<1> QED BY <1>2, <1>4, <1>6 DEF turn

\* A turn whose speaker goes on.
LEMMA TurnGoesOn ==
  ASSUME NEW turn, Whole(turn), NEW last \in Nat, Final(turn) = last, said[last + 1] = turn.role
  PROVE  LET longer == Llm!ChatTurn(turn.role, turn.lines \o <<last + 1>>) IN
         /\ longer \in Turn /\ Whole(longer) /\ longer.role = turn.role
         /\ First(longer) = First(turn) /\ Final(longer) = last + 1
<1> DEFINE spoken  == turn.lines
           k      == Len(spoken)
           more   == spoken \o <<last + 1>>
           longer == Llm!ChatTurn(turn.role, more)
<1>1. turn.role \in Llm!Roles /\ spoken \in Seq(Nat) /\ k \in Nat /\ k >= 1 /\ spoken[k] = last
  BY DEF Whole, Turn, Final
<1>2. /\ \A j \in 1..(k - 1) : spoken[j + 1] = spoken[j] + 1
      /\ \A j \in 1..k : said[spoken[j]] = turn.role
  BY DEF Whole
<1> HIDE DEF spoken
<1>3. /\ more \in Seq(Nat) /\ Len(more) = k + 1 /\ more[k + 1] = last + 1
      /\ \A j \in 1..k : more[j] = spoken[j]
  BY <1>1
<1> HIDE DEF more
<1>4. longer.role = turn.role /\ longer.lines = more /\ longer \in Turn
  BY <1>1, <1>3 DEF Turn, Llm!ChatTurn
<1> HIDE DEF longer, k
<1>5. \A j \in 1..k : more[j + 1] = more[j] + 1
  <2>1. \A j \in 1..(k - 1) : /\ j \in 1..k /\ j + 1 \in 1..k
                              /\ more[j] = spoken[j] /\ more[j + 1] = spoken[j + 1]
    BY <1>1, <1>3
  <2>2. \A j \in 1..(k - 1) : more[j + 1] = more[j] + 1
    BY <1>2, <2>1
  <2>3. k \in 1..k /\ more[k] = last
    BY <1>1, <1>3
  <2>4. more[k + 1] = more[k] + 1
    BY <1>3, <2>3
  <2>5. \A j \in 1..k : j \in 1..(k - 1) \/ j = k
    BY <1>1
  <2> QED BY <2>2, <2>4, <2>5
<1>6. \A j \in 1..(k + 1) : said[more[j]] = turn.role
  <2>1. \A j \in 1..k : said[more[j]] = turn.role
    BY <1>2, <1>3
  <2>2. said[more[k + 1]] = turn.role
    BY <1>3
  <2>3. \A j \in 1..(k + 1) : j \in 1..k \/ j = k + 1
    BY <1>1
  <2> QED BY <2>1, <2>2, <2>3
<1>7. Len(longer.lines) = k + 1 /\ Len(longer.lines) - 1 = k
  BY <1>1, <1>3, <1>4
<1>8. Whole(longer)
  BY <1>1, <1>4, <1>5, <1>6, <1>7 DEF Whole
<1>9. First(longer) = First(turn) /\ Final(longer) = last + 1
  BY <1>1, <1>3, <1>4, <1>7 DEF First, Final, spoken
<1> QED BY <1>4, <1>8, <1>9 DEF longer, more, spoken

\* One line more: into the last turn if its speaker goes on, into a turn of its own if not.
LEMMA LineJoined ==
  ASSUME NEW turns, NEW cut \in Nat, NEW last \in Nat, Told(turns, cut, last),
         NEW role \in Llm!Roles, said[last + 1] = role
  PROVE  Told(Llm!joined(turns, Llm!ChatTurn(role, <<last + 1>>)), cut, last + 1)
<1> DEFINE turn == Llm!ChatTurn(role, <<last + 1>>)
           n    == Len(turns)
           old  == turns[n]
<1>1. /\ n \in Nat /\ n >= 1 /\ turns \in Seq(Turn) /\ turns # <<>> /\ old \in Turn
      /\ First(turns[1]) = cut + 1 /\ Final(old) = last /\ Whole(old)
  BY DEF Told
<1>2. /\ \A i \in 1..(n - 1) : /\ turns[i].role # turns[i + 1].role
                               /\ First(turns[i + 1]) = Final(turns[i]) + 1
      /\ \A i \in 1..n : Whole(turns[i])
  BY DEF Told
<1>3. Llm!Last(turns) = old
  BY DEF Llm!Last
<1>4. turn \in Turn /\ Whole(turn) /\ turn.role = role /\ First(turn) = last + 1 /\ Final(turn) = last + 1
  BY OneLine
<1>5. turn.lines = <<last + 1>>
  BY DEF Llm!ChatTurn
<1> HIDE DEF turn, n, old
<1>6. CASE old.role = role
  <2> DEFINE new == Llm!ChatTurn(old.role, old.lines \o <<last + 1>>)
             all == [turns EXCEPT ![n] = new]
  <2>1. Llm!joined(turns, turn) = all
    BY <1>1, <1>3, <1>4, <1>5, <1>6 DEF Llm!joined, n
  <2>2. new \in Turn /\ Whole(new) /\ new.role = old.role /\ First(new) = First(old) /\ Final(new) = last + 1
    BY <1>1, <1>6, TurnGoesOn
  <2> HIDE DEF new
  <2>3. all \in Seq(Turn) /\ Len(all) = n /\ all[n] = new /\ \A i \in 1..(n - 1) : all[i] = turns[i]
    BY <1>1, <2>2 DEF n
  <2> HIDE DEF all
  <2>4. \A i \in 1..n : /\ all[i].role = turns[i].role /\ First(all[i]) = First(turns[i]) /\ Whole(all[i])
                        /\ i < n => Final(all[i]) = Final(turns[i])
    BY <1>1, <1>2, <2>2, <2>3 DEF old
  <2>5. \A i \in 1..(n - 1) : /\ all[i].role # all[i + 1].role
                              /\ First(all[i + 1]) = Final(all[i]) + 1
    <3>1. \A i \in 1..(n - 1) : i \in 1..n /\ i + 1 \in 1..n /\ i < n
      BY <1>1
    <3> QED BY <1>2, <2>4, <3>1
  <2>6. First(all[1]) = cut + 1 /\ Final(all[n]) = last + 1
    BY <1>1, <2>2, <2>3, <2>4
  <2> QED BY <1>1, <2>1, <2>3, <2>4, <2>5, <2>6 DEF Told, turn
<1>7. CASE old.role # role
  <2> DEFINE all == Append(turns, turn)
  <2>1. Llm!joined(turns, turn) = all
    BY <1>1, <1>3, <1>4, <1>7 DEF Llm!joined
  <2>2. all \in Seq(Turn) /\ Len(all) = n + 1 /\ all[n + 1] = turn /\ \A i \in 1..n : all[i] = turns[i]
    BY <1>1, <1>4 DEF n
  <2> HIDE DEF all
  <2>3. \A i \in 1..n : /\ all[i].role # all[i + 1].role
                        /\ First(all[i + 1]) = Final(all[i]) + 1
    <3>1. \A i \in 1..(n - 1) : /\ i \in 1..n /\ i + 1 \in 1..n
                                /\ all[i] = turns[i] /\ all[i + 1] = turns[i + 1]
      BY <1>1, <2>2
    <3>2. \A i \in 1..(n - 1) : /\ all[i].role # all[i + 1].role
                                /\ First(all[i + 1]) = Final(all[i]) + 1
      BY <1>2, <3>1
    <3>3. all[n].role # all[n + 1].role /\ First(all[n + 1]) = Final(all[n]) + 1
      BY <1>1, <1>4, <1>7, <2>2 DEF old
    <3> QED BY <1>1, <3>2, <3>3
  <2>4. \A i \in 1..(n + 1) : Whole(all[i])
    BY <1>1, <1>2, <1>4, <2>2
  <2>5. First(all[1]) = cut + 1 /\ Final(all[n + 1]) = last + 1
    BY <1>1, <1>4, <2>2
  <2>6. Len(all) >= 1 /\ Len(all) - 1 = n
    BY <1>1, <2>2
  <2>7. Told(all, cut, last + 1)
    BY <2>2, <2>3, <2>4, <2>5, <2>6 DEF Told
  <2> QED BY <2>1, <2>7 DEF turn
<1> QED BY <1>6, <1>7


\* The recursion has a solution, and what it builds up to n is what n lines are made into.
LEMMA MergedTold ==
  ASSUME NEW cut \in Nat, NEW turns, NEW total \in Nat \ {0}, Len(turns) = total,
         \A i \in 1..total : /\ said[cut + i] \in Llm!Roles
                             /\ turns[i] = Llm!ChatTurn(said[cut + i], <<cut + i>>)
  PROVE  Told(Llm!merged(turns), cut, cut + total)
<1> DEFINE Up(f, m)  == f = [n \in 0..m |-> IF n = 0 THEN <<>> ELSE Llm!joined(f[n - 1], turns[n])]
           Stuck == {m \in Nat : m <= total /\ \A f : ~Up(f, m)}
<1>1. ASSUME Stuck # {} PROVE FALSE
  <2>1. PICK m \in Stuck : \A k \in Stuck : m <= k
    BY <1>1, Smallest
  <2>2. CASE m = 0
    <3>1. Up([n \in 0..0 |-> <<>>], 0)
      OBVIOUS
    <3> QED BY <2>1, <2>2, <3>1
  <2>3. CASE m # 0
    <3>1. m - 1 \in Nat /\ m - 1 <= total /\ ~(m <= m - 1)
      BY <2>1, <2>3
    <3>2. \E f : Up(f, m - 1)
      <4> HIDE DEF Up
      <4>1. m - 1 \notin Stuck
        <5> HIDE DEF Stuck
        <5> QED BY <2>1, <3>1
      <4> QED BY <3>1, <4>1
    <3> PICK f : Up(f, m - 1)
      BY <3>2
    <3> DEFINE g == [n \in 0..m |-> IF n = m THEN Llm!joined(f[m - 1], turns[m]) ELSE f[n]]
    <3>3. \A n \in 0..(m - 1) : g[n] = f[n]
      BY <2>3, <3>1
    <3>4. \A n \in 0..(m - 1) : f[n] = IF n = 0 THEN <<>> ELSE Llm!joined(f[n - 1], turns[n])
      OBVIOUS
    <3>5. g[m] = Llm!joined(f[m - 1], turns[m]) /\ DOMAIN g = 0..m /\ g = [n \in 0..m |-> g[n]]
      BY <2>1
    <3> HIDE DEF g
    <3>6. ASSUME NEW n \in 0..m
          PROVE  g[n] = IF n = 0 THEN <<>> ELSE Llm!joined(g[n - 1], turns[n])
      <4>1. CASE n = m
        <5>1. m - 1 \in 0..(m - 1)
          BY <3>1
        <5> QED BY <2>3, <3>3, <3>5, <4>1, <5>1
      <4>2. CASE n # m
        <5>1. n \in 0..(m - 1) /\ (n # 0 => n - 1 \in 0..(m - 1))
          BY <2>1, <4>2
        <5> QED BY <3>3, <3>4, <5>1
      <4> QED BY <4>1, <4>2
    <3>7. Up(g, m)
      <4> DEFINE h == [n \in 0..m |-> IF n = 0 THEN <<>> ELSE Llm!joined(g[n - 1], turns[n])]
      <4>1. h = [n \in 0..m |-> g[n]]
        BY <3>6
      <4> QED BY <3>5, <4>1
    <3> QED BY <2>1, <3>7
  <2> QED BY <2>2, <2>3
<1>2. total \notin Stuck
  BY <1>1
<1> DEFINE up == CHOOSE f : Up(f, total)
<1>3. Llm!merged(turns) = up[total]
  BY DEF Llm!merged
<1>4. Up(up, total)
  <2> HIDE DEF Up
  <2>1. \E f : Up(f, total)
    BY <1>2
  <2> QED BY <2>1
<1> HIDE DEF up
<1>5. up[0] = <<>> /\ \A n \in 1..total : up[n] = Llm!joined(up[n - 1], turns[n])
  BY <1>4
<1> HIDE DEF Up, Stuck
<1> DEFINE Wrong == {n \in Nat : n \in 1..total /\ ~Told(up[n], cut, cut + n)}
<1>6. ASSUME Wrong # {} PROVE FALSE
  <2>1. PICK n \in Wrong : \A k \in Wrong : n <= k
    BY <1>6, Smallest
  <2>2. /\ n \in 1..total /\ cut + n \in Nat /\ said[cut + n] \in Llm!Roles
        /\ turns[n] = Llm!ChatTurn(said[cut + n], <<cut + n>>) /\ up[n] = Llm!joined(up[n - 1], turns[n])
    BY <1>5, <2>1
  <2>3. CASE n = 1
    <3>1. turns[1] \in Turn /\ Whole(turns[1]) /\ First(turns[1]) = cut + 1 /\ Final(turns[1]) = cut + 1
      BY <2>2, <2>3, OneLine
    <3>2. up[1] = Llm!joined(<<>>, turns[1])
      <4>1. 1 - 1 = 0 /\ 1 \in 1..total
        BY <2>2, <2>3
      <4> QED BY <1>5, <4>1
    <3>3. up[1] = Append(<<>>, turns[1])
      BY <3>2 DEF Llm!joined
    <3>4. up[1] \in Seq(Turn) /\ Len(up[1]) = 1 /\ up[1][1] = turns[1]
      BY <3>1, <3>3
    <3>5. Told(up[1], cut, cut + 1)
      BY <3>1, <3>4 DEF Told
    <3> QED BY <2>1, <2>3, <3>5
  <2>4. CASE n # 1
    <3>1. n - 1 \in 1..total /\ n - 1 \notin Wrong /\ cut + (n - 1) \in Nat /\ cut + (n - 1) + 1 = cut + n
      BY <2>1, <2>2, <2>4
    <3>2. Told(up[n - 1], cut, cut + (n - 1))
      BY <3>1
    <3>3. Told(Llm!joined(up[n - 1], Llm!ChatTurn(said[cut + n], <<cut + (n - 1) + 1>>)), cut, cut + (n - 1) + 1)
      BY <2>2, <3>1, <3>2, LineJoined
    <3> QED BY <2>1, <2>2, <3>1, <3>3
  <2> QED BY <2>3, <2>4
<1> QED BY <1>3, <1>6


\* What is sent opens with the learner, alternates, and says the end of the conversation.
LEMMA SentIsTold ==
  ASSUME StudyAssumption, said \in Seq(Llm!Roles), Len(said) >= 1,
         purpose = "reply" => said[Len(said)] = "user"
  PROVE  Llm!SentAlternates
<1> DEFINE whole == Len(said)
           cut   == IF whole > HISTORY_MESSAGES THEN whole - HISTORY_MESSAGES ELSE 0
           room  == whole - cut
           turns == Llm!to_chat_turns(said)
           told  == Llm!merged(turns)
           k     == Len(told)
           first == Llm!ChatTurn("user", <<0>>)
           full  == Llm!Sent
           own   == IF Head(full).lines = <<0>> THEN Tail(full) ELSE full
<1>1. HISTORY_MESSAGES \in Nat \ {0}
  BY DEF StudyAssumption, Llm!LlmAssumption
<1>2. whole \in Nat /\ cut \in Nat /\ room \in Nat \ {0} /\ cut + room = whole
  <2>1. whole \in Nat /\ whole >= 1
    OBVIOUS
  <2> HIDE DEF whole
  <2> QED BY ONLY <1>1, <2>1
<1>3. turns = [i \in 1..room |-> Llm!ChatTurn(said[i + cut], <<i + cut>>)]
  BY DEF Llm!to_chat_turns
<1>4. \A i \in 1..whole : said[i] \in Llm!Roles
  OBVIOUS
<1>5. purpose = "reply" => said[whole] = "user"
  OBVIOUS
<1> HIDE DEF cut, turns, room, whole
<1>6. Told(told, cut, whole)
  <2>1. Len(turns) = room
    BY ONLY <1>2, <1>3
  <2>2. \A i \in 1..room : cut + i = i + cut /\ cut + i \in 1..whole
    BY ONLY <1>2
  <2>3. \A i \in 1..room : turns[i] = Llm!ChatTurn(said[i + cut], <<i + cut>>)
    BY ONLY <1>3
  <2>4. \A i \in 1..room : /\ said[cut + i] \in Llm!Roles
                           /\ turns[i] = Llm!ChatTurn(said[cut + i], <<cut + i>>)
    BY ONLY <1>4, <2>2, <2>3
  <2>5. Told(told, cut, cut + room)
    BY <1>2, <2>1, <2>4, MergedTold
  <2> QED BY <1>2, <2>5
<1> HIDE DEF told
<1>7. /\ told \in Seq(Turn) /\ k \in Nat /\ k >= 1 /\ told # <<>>
      /\ First(told[1]) = cut + 1 /\ Final(told[k]) = whole
      /\ \A i \in 1..(k - 1) : /\ told[i].role # told[i + 1].role
                               /\ First(told[i + 1]) = Final(told[i]) + 1
      /\ \A i \in 1..k : Whole(told[i])
  BY <1>6 DEF Told
<1>8. Head(told) = told[1] /\ Llm!Last(told) = told[k]
  BY <1>7 DEF Llm!Last
<1>9. \A i \in 1..k : /\ told[i].role \in Llm!Roles /\ told[i].lines \in Seq(Nat) /\ Len(told[i].lines) >= 1
                      /\ DOMAIN told[i].lines = 1..Len(told[i].lines)
                      /\ Head(told[i].lines) = First(told[i])
                      /\ Llm!Last(told[i].lines) = Final(told[i])
  <2> SUFFICES ASSUME NEW i \in 1..k
               PROVE  /\ told[i].role \in Llm!Roles /\ told[i].lines \in Seq(Nat) /\ Len(told[i].lines) >= 1
                      /\ DOMAIN told[i].lines = 1..Len(told[i].lines)
                      /\ Head(told[i].lines) = First(told[i])
                      /\ Llm!Last(told[i].lines) = Final(told[i])
    OBVIOUS
  <2>1. told[i].role \in Llm!Roles /\ told[i].lines \in Seq(Nat) /\ Len(told[i].lines) >= 1
    BY <1>7 DEF Whole, Turn
  <2> DEFINE all == told[i].lines
  <2>2. all \in Seq(Nat) /\ Len(all) >= 1 /\ First(told[i]) = all[1] /\ Final(told[i]) = all[Len(all)]
    BY <2>1 DEF First, Final
  <2> HIDE DEF all
  <2>3. DOMAIN all = 1..Len(all) /\ Head(all) = all[1] /\ Llm!Last(all) = all[Len(all)]
    BY <2>2 DEF Llm!Last
  <2> QED BY <2>1, <2>2, <2>3 DEF all
\* Turn by turn, what is told is as it should be.
<1>10. /\ Head(Head(told).lines) = cut + 1 /\ Llm!Last(Llm!Last(told).lines) = whole
       /\ \A i \in 1..(k - 1) : Head(told[i + 1].lines) = Llm!Last(told[i].lines) + 1
       /\ \A i \in DOMAIN told :
            /\ \A j \in 1..(Len(told[i].lines) - 1) : told[i].lines[j + 1] = told[i].lines[j] + 1
            /\ \A j \in DOMAIN told[i].lines : said[told[i].lines[j]] = told[i].role
  <2>1. 1 \in 1..k /\ k \in 1..k /\ DOMAIN told = 1..k
    BY <1>7
  <2>2. \A i \in 1..(k - 1) : i \in 1..k /\ i + 1 \in 1..k
    BY <1>7
  <2>3. \A i \in 1..(k - 1) : Head(told[i + 1].lines) = Llm!Last(told[i].lines) + 1
    BY <1>7, <1>9, <2>2
  <2>4. \A i \in 1..k :
          /\ \A j \in 1..(Len(told[i].lines) - 1) : told[i].lines[j + 1] = told[i].lines[j] + 1
          /\ \A j \in DOMAIN told[i].lines : said[told[i].lines[j]] = told[i].role
    BY <1>7, <1>9 DEF Whole
  <2> QED BY <1>7, <1>8, <1>9, <2>1, <2>3, <2>4
<1>11. purpose = "reply" => told[k].role = "user"
  <2>1. k \in 1..k /\ Whole(told[k]) /\ Len(told[k].lines) \in 1..Len(told[k].lines)
    BY <1>7, <1>9
  <2>2. said[Final(told[k])] = told[k].role
    BY <2>1 DEF Whole, Final
  <2> QED BY <1>5, <1>7, <2>2
<1>12. full = IF told[1].role # "user" THEN <<first>> \o told ELSE told
  BY <1>7, <1>8 DEF Llm!Sent, Llm!normalize_turns, told, turns, Llm!CONVERSATION_START
<1>13. first.role = "user" /\ first.lines = <<0>>
  BY DEF Llm!ChatTurn
<1> HIDE DEF first, full
<1>14. ASSUME told[1].role = "user"
       PROVE  /\ own = told
              /\ Head(full).role = "user"
              /\ \A i \in 1..(Len(full) - 1) : full[i].role # full[i + 1].role
              /\ purpose = "reply" => Llm!Last(full).role = "user"
  <2>1. Head(told).lines # <<0>>
    <3>1. Head(Head(told).lines) # 0
      BY ONLY <1>2, <1>10
    <3> QED BY <3>1
  <2>2. full = told /\ own = told
    BY <1>12, <1>14, <2>1
  <2> HIDE DEF own
  <2>3. /\ Head(full).role = "user"
        /\ \A i \in 1..(Len(full) - 1) : full[i].role # full[i + 1].role
        /\ purpose = "reply" => Llm!Last(full).role = "user"
    BY <1>7, <1>8, <1>11, <1>14, <2>2
  <2> QED BY <2>2, <2>3
<1>15. ASSUME told[1].role # "user"
       PROVE  /\ own = told
              /\ Head(full).role = "user"
              /\ \A i \in 1..(Len(full) - 1) : full[i].role # full[i + 1].role
              /\ purpose = "reply" => Llm!Last(full).role = "user"
  <2>1. full = <<first>> \o told
    BY <1>12, <1>15
  <2>2. /\ Len(full) = k + 1 /\ full # <<>> /\ Head(full) = first /\ full[1] = first
        /\ \A i \in 1..k : full[i + 1] = told[i]
        /\ Llm!Last(full) = told[k]
    <3>1. /\ Len(full) = k + 1 /\ full # <<>> /\ Head(full) = first /\ full[1] = first
          /\ \A i \in 1..k : full[i + 1] = told[i]
      BY <1>7, <2>1
    <3> QED BY <1>7, <3>1 DEF Llm!Last
  <2>3. Tail(full) = told
    BY <1>7, <2>1
  <2>4. own = told
    BY <1>13, <2>2, <2>3
  <2>5. \A i \in 1..k : full[i].role # full[i + 1].role
    <3>1. full[1].role # full[1 + 1].role
      BY <1>7, <1>13, <1>15, <2>2
    <3>2. \A i \in 1..k : i # 1 => i - 1 \in 1..(k - 1) /\ (i - 1) + 1 = i /\ i - 1 \in 1..k
      BY <1>7
    <3>3. \A i \in 1..k : i # 1 => full[i] = told[i - 1] /\ full[i + 1] = told[i]
      BY <2>2, <3>2
    <3>4. \A i \in 1..(k - 1) : told[i].role # told[i + 1].role
      BY <1>7
    <3>5. ASSUME NEW i \in 1..k, i # 1
          PROVE  full[i].role # full[i + 1].role
      <4> DEFINE j == i - 1
      <4>1. j \in 1..(k - 1) /\ j + 1 = i /\ full[i] = told[j] /\ full[i + 1] = told[i]
        BY <3>2, <3>3, <3>5
      <4> HIDE DEF j
      <4> QED BY <3>4, <4>1
    <3> QED BY <3>1, <3>5
  <2>6. Len(full) - 1 = k
    BY <1>7, <2>2
  <2> HIDE DEF own
  <2>7. /\ Head(full).role = "user"
        /\ \A i \in 1..(Len(full) - 1) : full[i].role # full[i + 1].role
        /\ purpose = "reply" => Llm!Last(full).role = "user"
    BY <1>11, <1>13, <2>2, <2>5, <2>6
  <2> QED BY <2>4, <2>7
<1>16. /\ own = told
       /\ Head(full).role = "user"
       /\ \A i \in 1..(Len(full) - 1) : full[i].role # full[i + 1].role
       /\ purpose = "reply" => Llm!Last(full).role = "user"
  BY <1>14, <1>15
<1> HIDE DEF own, k
<1>17. /\ own # <<>> /\ Head(Head(own).lines) = cut + 1 /\ Llm!Last(Llm!Last(own).lines) = whole
       /\ \A i \in 1..(Len(own) - 1) : Head(own[i + 1].lines) = Llm!Last(own[i].lines) + 1
       /\ \A i \in DOMAIN own :
            /\ \A j \in 1..(Len(own[i].lines) - 1) : own[i].lines[j + 1] = own[i].lines[j] + 1
            /\ \A j \in DOMAIN own[i].lines : said[own[i].lines[j]] = own[i].role
  BY <1>7, <1>10, <1>16 DEF k
<1> QED BY ONLY <1>16, <1>17 DEF Llm!SentAlternates, Llm!CONVERSATION_START, own, full, cut, whole

\* There is something to send, and a reply is to the learner's line.
HistoryInv == /\ said \in Seq(Llm!Roles) /\ Len(said) >= 1
              /\ purpose = "reply" => said[Len(said)] = "user"

LEMMA HistoryStart == Llm!Init => HistoryInv
<1> SUFFICES ASSUME Llm!Init PROVE HistoryInv
  OBVIOUS
<1>1. PICK n \in 1..MaxHistory : said \in [1..n -> Llm!Roles]
  BY DEF Llm!Init
<1>2. said \in Seq(Llm!Roles) /\ Len(said) = n /\ n >= 1
  BY <1>1, LlmConstants
<1> QED BY <1>2 DEF HistoryInv, Llm!Init, Llm!Last

LEMMA HistoryStep == HistoryInv /\ [Llm!Next]_(Llm!vars) => HistoryInv'
<1> SUFFICES ASSUME HistoryInv, [Llm!Next]_(Llm!vars) PROVE HistoryInv'
  OBVIOUS
<1>1. said' = said /\ purpose' = purpose
  BY DEF Llm!Next, Llm!Ask, Llm!Post, Llm!generate_text, Llm!generate_json, Llm!vars
<1> QED BY <1>1 DEF HistoryInv

-----------------------------------------------------------------------------
(* Skills: a bar written while no class is being changed fits the class, an *)
(* empty one whose owner has the starters was emptied by somebody, and the  *)
(* tree of what is owned has no holes.                                      *)

Neutral(codes) == \A code \in codes : Tree!SkillOf[code].class = None

Climbed(code) ==
  LET parent == Tree!SkillOf[code].parent IN
  parent # None =>
    /\ Tree!SkillOf[parent].effect = Tree!SkillOf[code].effect
    /\ Tree!SkillOf[parent].level < Tree!SkillOf[code].level
    /\ Tree!SkillOf[parent].mana <= Tree!SkillOf[code].mana
    /\ \/ Tree!SkillOf[parent].magnitude < Tree!SkillOf[code].magnitude
       \/ Tree!SkillOf[parent].rounds < Tree!SkillOf[code].rounds

TreeInv ==
  /\ out \in SkillsOut /\ held \in Levels /\ class \in Tree!Schools \cup {None}
  /\ skills \subseteq Tree!Codes /\ IsFiniteSet(skills)
  /\ bar \subseteq skills /\ Cardinality(bar) <= 3
  /\ setting # None => /\ setting.bar \subseteq skills /\ Cardinality(setting.bar) <= 3
                       /\ \A code \in setting.bar : Tree!Fits(code, setting.class)
  /\ changing # None => changing.to \in Tree!Schools
  /\ entering \in {"fill", "equip"} => Tree!Starters \subseteq skills
  /\ ~raced => /\ \A code \in bar : Tree!Fits(code, class)
               /\ changing # None /\ changing.at = "switch" => Neutral(bar)
  /\ bar = {} /\ bared = "nobody" /\ Tree!Starters \subseteq skills
       => Tree!Starters = {} \/ entering = "fill"
  /\ carried = "nobody" => Tree!Starters = {}
  /\ \A code \in skills : Tree!SkillOf[code].parent # None => Tree!SkillOf[code].parent \in skills


\* What the catalog has of every skill.
LEMMA Seeded ==
  /\ \A code \in Tree!Codes : Tree!SkillOf[code].mana <= 100 /\ Climbed(code)
  /\ Tree!STARTERS \subseteq Tree!Codes
  /\ \A code \in Tree!STARTERS : Tree!SkillOf[code].class = None /\ Tree!SkillOf[code].parent = None
<1> DEFINE Early == {"STRIKE_X2", "SHIELD", "WAR_GUARD", "WAR_MEND", "WAR_LAST_STAND", "MAGE_BOLT",
                     "MAGE_FREEZE", "MAGE_DRAIN", "ASSA_FOCUS", "ASSA_REVEAL", "ASSA_EXECUTE"}
           Late  == {"ULT_OVERDRIVE", "ULT_AEGIS", "ULT_SIPHON"}
<1>1. DOMAIN Tree!SKILLS = Early /\ DOMAIN Tree!ULTIMATES = Late
  BY DEF Tree!SKILLS, Tree!ULTIMATES
<1>2. /\ Tree!Codes = Early \cup Late
      /\ \A code \in Early : Tree!SkillOf[code] = Tree!SKILLS[code]
      /\ \A code \in Late : Tree!SkillOf[code] = Tree!ULTIMATES[code]
  BY <1>1 DEF Tree!Codes, Tree!SkillOf
<1>3. /\ Tree!SKILLS.STRIKE_X2.parent = None /\ Tree!SKILLS.SHIELD.parent = None
      /\ Tree!SKILLS.STRIKE_X2.class = None /\ Tree!SKILLS.SHIELD.class = None
  BY DEF Tree!SKILLS, Tree!Skill
<1>4. \A code \in Late : Tree!ULTIMATES[code].mana <= 100 /\ Tree!ULTIMATES[code].parent = None
  BY DEF Tree!ULTIMATES, Tree!Skill
<1>5. \A code \in Early :
        /\ Tree!SKILLS[code].mana <= 100
        /\ \/ Tree!SKILLS[code].parent = None
           \/ /\ Tree!SKILLS[code].parent \in Early
              /\ LET parent == Tree!SKILLS[Tree!SKILLS[code].parent] IN
                 /\ parent.effect = Tree!SKILLS[code].effect
                 /\ parent.level < Tree!SKILLS[code].level
                 /\ parent.mana <= Tree!SKILLS[code].mana
                 /\ \/ parent.magnitude < Tree!SKILLS[code].magnitude
                    \/ parent.rounds < Tree!SKILLS[code].rounds
  BY DEF Tree!SKILLS, Tree!Skill
<1> HIDE DEF Early, Late
<1>6. \A code \in Tree!Codes : Tree!SkillOf[code].mana <= 100 /\ Climbed(code)
  BY <1>2, <1>4, <1>5 DEF Climbed
<1> QED BY <1>2, <1>3, <1>6 DEF Tree!STARTERS, Early

LEMMA StartersAre ==
  /\ Tree!Starters \subseteq Tree!Codes /\ IsFiniteSet(Tree!Starters) /\ Cardinality(Tree!Starters) <= 3
  /\ \A code \in Tree!Starters : Tree!SkillOf[code].class = None /\ Tree!SkillOf[code].parent = None
  /\ Tree!Starters \subseteq {"STRIKE_X2", "SHIELD"}
<1>1. IsFiniteSet({"STRIKE_X2", "SHIELD"}) /\ Cardinality({"STRIKE_X2", "SHIELD"}) <= 2
  <2>1. IsFiniteSet({"SHIELD"}) /\ Cardinality({"SHIELD"}) = 1
    BY FS_Singleton
  <2>2. {"STRIKE_X2", "SHIELD"} = {"SHIELD"} \cup {"STRIKE_X2"} /\ "STRIKE_X2" \notin {"SHIELD"}
    OBVIOUS
  <2> QED BY <2>1, <2>2, FS_AddElement
<1>2. Tree!Starters \subseteq {"STRIKE_X2", "SHIELD"}
  BY DEF Tree!Starters, Tree!STARTERS
<1>3. IsFiniteSet(Tree!Starters) /\ Cardinality(Tree!Starters) <= Cardinality({"STRIKE_X2", "SHIELD"})
  BY <1>1, <1>2, FS_Subset
<1>4. Cardinality(Tree!Starters) \in Nat /\ Cardinality({"STRIKE_X2", "SHIELD"}) \in Nat
  BY <1>1, <1>3, FS_CardinalityType
<1> QED BY <1>1, <1>2, <1>3, <1>4, Seeded DEF Tree!Starters

LEMMA TreeStart == ASSUME StudyAssumption, subject = "tree", Tree!Init PROVE TreeInv
<1>1. IsFiniteSet({}) /\ Cardinality({}) <= 3
  BY FS_EmptySet
<1>2. None \notin {"nobody", "grant", "equip", "fill"}
  BY DEF StudyAssumption, Tree!SkillTreeAssumption
<1> QED BY <1>1, <1>2 DEF Tree!Init, TreeInv

LEMMA TreeStep ==
  ASSUME StudyAssumption, TreeInv, [Tree!Next]_(Tree!vars)
  PROVE  TreeInv'
<1>1. None \notin {"nobody", "grant", "equip", "fill"}
  BY DEF StudyAssumption, Tree!SkillTreeAssumption
<1>2. out' = out /\ held' = held
  BY DEF Tree!Next, Tree!vars, Tree!unlock_skill, Tree!Ask, Tree!SetBar, Tree!ChooseFirst, Tree!Pay,
     Tree!ClearBar, Tree!Switch, Tree!EnterFight, Tree!GrantStarters, Tree!FillBar, Tree!Crash
<1>3. Tree!Starters' = Tree!Starters
  BY <1>2 DEF Tree!Starters
<1>4. \A code \in Tree!Starters : /\ Tree!SkillOf[code].class = None
                                  /\ Tree!SkillOf[code].parent = None /\ code \in Tree!STARTERS
  BY StartersAre DEF Tree!Starters
<1>5. ASSUME NEW code \in Tree!Codes, Tree!unlock_skill(code)
      PROVE  TreeInv'
  <2>1. Tree!Starters \subseteq skills' => Tree!Starters \subseteq skills
    BY <1>4, <1>5 DEF Tree!unlock_skill
  <2>2. \A c \in skills' : Tree!SkillOf[c].parent # None => Tree!SkillOf[c].parent \in skills'
    BY <1>5 DEF TreeInv, Tree!unlock_skill, Tree!Unlockable
  <2>3. IsFiniteSet(skills')
    BY <1>5, FS_AddElement DEF TreeInv, Tree!unlock_skill
  <2> QED BY <1>2, <1>3, <1>5, <2>1, <2>2, <2>3 DEF TreeInv, Tree!unlock_skill, Neutral
<1>6. ASSUME NEW wished \in SUBSET skills, Tree!Ask(wished)
      PROVE  TreeInv'
  <2>1. IsFiniteSet(wished) /\ Cardinality(wished) <= 3
    BY <1>6, Counting, FS_Subset DEF TreeInv, Tree!Ask, Tree!LOADOUT_SLOTS
  <2> QED BY <1>2, <1>3, <1>6, <2>1 DEF TreeInv, Tree!Ask, Neutral
<1>7. CASE Tree!SetBar
  BY <1>2, <1>3, <1>7 DEF TreeInv, Tree!SetBar
<1>8. ASSUME NEW school \in Tree!Schools, Tree!ChooseFirst(school)
      PROVE  TreeInv'
  BY <1>2, <1>3, <1>8 DEF TreeInv, Tree!ChooseFirst, Tree!Fits, Neutral
<1>9. ASSUME NEW school \in Tree!Schools, Tree!Pay(school)
      PROVE  TreeInv'
  BY <1>2, <1>3, <1>9 DEF TreeInv, Tree!Pay, Neutral
<1>10. CASE Tree!ClearBar
  <2>1. IsFiniteSet({}) /\ Cardinality({}) <= 3
    BY FS_EmptySet
  <2> QED BY <1>2, <1>3, <1>10, <2>1 DEF TreeInv, Tree!ClearBar, Neutral
<1>11. CASE Tree!Switch
  BY <1>2, <1>3, <1>11 DEF TreeInv, Tree!Switch, Tree!Fits, Neutral
<1>12. CASE Tree!EnterFight
  BY <1>1, <1>2, <1>3, <1>12 DEF TreeInv, Tree!EnterFight, Tree!Carry, Neutral
<1>13. CASE Tree!GrantStarters
  <2>1. IsFiniteSet(skills')
    BY <1>13, StartersAre, FS_Union DEF TreeInv, Tree!GrantStarters
  <2> QED BY <1>2, <1>3, <1>4, <1>13, <2>1, StartersAre DEF TreeInv, Tree!GrantStarters, Neutral
<1>14. CASE Tree!FillBar
  <2>1. CASE entering = "fill"
    BY <1>1, <1>2, <1>3, <1>4, <1>14, <2>1, StartersAre DEF TreeInv, Tree!FillBar, Tree!Carry,
       Neutral, Tree!Fits
  <2>2. CASE entering = "equip"
    BY <1>1, <1>2, <1>3, <1>14, <2>2 DEF TreeInv, Tree!FillBar, Tree!Carry, Neutral
  <2> QED BY <1>14, <2>1, <2>2 DEF Tree!FillBar
<1>15. CASE Tree!Crash
  BY <1>1, <1>2, <1>3, <1>15 DEF TreeInv, Tree!Crash, Neutral
<1>16. CASE UNCHANGED Tree!vars
  BY <1>2, <1>3, <1>16 DEF TreeInv, Tree!vars, Neutral
<1> QED BY <1>5, <1>6, <1>7, <1>8, <1>9, <1>10, <1>11, <1>12, <1>13, <1>14, <1>15, <1>16
           DEF Tree!Next

(* What is owned was climbed to, what is carried can be cast, and nobody is *)
(* left with an empty bar by the server alone.                              *)
LEMMA TreeHolds ==
  ASSUME TreeInv
  PROVE  Tree!TypeOK /\ Tree!BarIsCastable /\ Tree!EmptyByChoice /\ Tree!TreeIsClimbed
<1>1. Tree!TypeOK
  BY Counting DEF TreeInv, Tree!TypeOK, Tree!LOADOUT_SLOTS
<1>2. Tree!BarIsCastable
  BY Seeded DEF TreeInv, Tree!BarIsCastable, Tree!Equipped, Tree!MAX_MANA
<1>3. Tree!EmptyByChoice
  BY DEF TreeInv, Tree!EmptyByChoice
<1>4. Tree!TreeIsClimbed
  BY Seeded DEF TreeInv, Tree!TreeIsClimbed, Climbed
<1> QED BY <1>1, <1>2, <1>3, <1>4

-----------------------------------------------------------------------------
(* Items: what was bought has a price and no label, what was found has no   *)
(* price, and what is worn was found.                                       *)

GoodsInv ==
  /\ Goods!TypeOK
  /\ bought \subseteq Goods!list_purchasable
  /\ \A item \in dropped : item.price = 0
  /\ \A item \in bought : inventory[item] = 1
  /\ \A place \in DOMAIN worn : /\ worn[place] \in DOMAIN inventory
                                /\ worn[place].kind = "EQUIPMENT" /\ worn[place].slot = place

\* What the catalog has of every item.
LEMMA Labelled ==
  /\ \A item \in Goods!ITEMS :
       /\ item.price \in Nat /\ item.exp \in Nat /\ item.gold \in Nat
       /\ item.kind = "EQUIPMENT" => item.price = 0
       /\ item.price > 0 => item.exp = 0 /\ item.gold = 0
       /\ item.kind = "EQUIPMENT" /\ item.slot = "WEAPON" => item.exp = 0 /\ item.gold <= 70
       /\ item.kind = "EQUIPMENT" /\ item.slot = "ARMOR" => item.exp <= 70 /\ item.gold <= 30
       /\ item.kind = "EQUIPMENT" /\ item.slot = "TRINKET" => item.exp <= 35 /\ item.gold <= 35
<1> DEFINE Sound(item) ==
             /\ item.price \in Nat /\ item.exp \in Nat /\ item.gold \in Nat
             /\ item.kind = "EQUIPMENT" => item.price = 0
             /\ item.price > 0 => item.exp = 0 /\ item.gold = 0
             /\ item.kind = "EQUIPMENT" /\ item.slot = "WEAPON" => item.exp = 0 /\ item.gold <= 70
             /\ item.kind = "EQUIPMENT" /\ item.slot = "ARMOR" => item.exp <= 70 /\ item.gold <= 30
             /\ item.kind = "EQUIPMENT" /\ item.slot = "TRINKET" => item.exp <= 35 /\ item.gold <= 35
           Ranged(place, exp, gold) ==
             \/ place = "WEAPON" /\ exp = 0 /\ gold <= 70
             \/ place = "ARMOR" /\ exp <= 70 /\ gold <= 30
             \/ place = "TRINKET" /\ exp <= 35 /\ gold <= 35
<1>1. ASSUME NEW place, NEW rarity, NEW exp \in Nat, NEW gold \in Nat, Ranged(place, exp, gold)
      PROVE  Sound(Goods!Gear(place, rarity, exp, gold))
  BY <1>1 DEF Goods!Gear
<1>2. ASSUME NEW rarity, NEW price \in Nat
      PROVE  Sound(Goods!Show("SKIN", rarity, price)) /\ Sound(Goods!Show("CARD", rarity, price))
  BY <1>2 DEF Goods!Show
<1> HIDE DEF Sound
<1>3. \A item \in Goods!ITEMS :
        \/ \E place \in Goods!Slots, rarity \in Goods!Rarities, exp \in Nat, gold \in Nat :
             Ranged(place, exp, gold) /\ item = Goods!Gear(place, rarity, exp, gold)
        \/ \E rarity \in Goods!Rarities, price \in Nat :
             item \in {Goods!Show("SKIN", rarity, price), Goods!Show("CARD", rarity, price)}
  BY DEF Goods!ITEMS, Goods!Slots, Goods!Rarities
<1>4. \A item \in Goods!ITEMS : Sound(item)
  BY <1>1, <1>2, <1>3
<1> QED BY <1>4 DEF Sound

LEMMA GoodsStart == ASSUME StudyAssumption, Goods!Init PROVE GoodsInv
BY DEF StudyAssumption, Goods!WardrobeAssumption, Goods!Init, GoodsInv, Goods!TypeOK

\* One copy more changes nothing else, and keeps what is worn owned.
LEMMA CopyAdded ==
  ASSUME GoodsInv, NEW item \in Goods!ITEMS, Goods!add_to_inventory(item)
  PROVE  /\ DOMAIN inventory' = DOMAIN inventory \cup {item}
         /\ \A i \in DOMAIN inventory' : inventory'[i] \in Nat \ {0}
         /\ \A i \in DOMAIN inventory : i # item => inventory'[i] = inventory[i]
         /\ item \notin DOMAIN inventory => inventory'[item] = 1
BY DEF GoodsInv, Goods!TypeOK, Goods!add_to_inventory

LEMMA GoodsStep ==
  ASSUME GoodsInv, [Goods!Next]_(Goods!vars)
  PROVE  GoodsInv'
<1>1. ASSUME NEW rarity \in Goods!Rarities, Goods!OpenChest(rarity)
      PROVE  GoodsInv'
  <2>1. CASE Goods!drop_pool = {}
    BY <1>1, <2>1 DEF GoodsInv, Goods!TypeOK, Goods!OpenChest, Goods!list_purchasable, Goods!Active
  <2>2. CASE Goods!drop_pool # {}
    <3>1. PICK item \in Goods!Rolled(rarity) : Goods!add_to_inventory(item) /\ dropped' = dropped \cup {item}
      BY <1>1, <2>2 DEF Goods!OpenChest
    <3>2. item \in Goods!ITEMS /\ item.price = 0
      BY <3>1 DEF Goods!Rolled, Goods!drop_pool, Goods!Active
    <3>3. item \notin bought
      BY <3>2, Labelled DEF GoodsInv, Goods!list_purchasable
    <3>4. /\ DOMAIN inventory' = DOMAIN inventory \cup {item}
          /\ \A i \in DOMAIN inventory' : inventory'[i] \in Nat \ {0}
          /\ \A i \in DOMAIN inventory : i # item => inventory'[i] = inventory[i]
      BY <3>1, <3>2, CopyAdded
    <3>5. out' = out /\ worn' = worn /\ bought' = bought
      BY <1>1 DEF Goods!OpenChest
    <3> QED BY <3>1, <3>2, <3>3, <3>4, <3>5 DEF GoodsInv, Goods!TypeOK, Goods!list_purchasable,
               Goods!Active
  <2> QED BY <2>1, <2>2
<1>2. ASSUME NEW item \in Goods!ITEMS, Goods!purchase_item(item)
      PROVE  GoodsInv'
  <2>1. /\ DOMAIN inventory' = DOMAIN inventory \cup {item}
        /\ \A i \in DOMAIN inventory' : inventory'[i] \in Nat \ {0}
        /\ \A i \in DOMAIN inventory : i # item => inventory'[i] = inventory[i]
        /\ item \notin DOMAIN inventory => inventory'[item] = 1
    BY <1>2, CopyAdded DEF Goods!purchase_item
  <2> QED BY <1>2, <2>1 DEF GoodsInv, Goods!TypeOK, Goods!purchase_item, Goods!list_purchasable,
             Goods!Active
<1>3. ASSUME NEW slots \in SUBSET Goods!Slots, NEW requested \in [slots -> DOMAIN inventory],
             Goods!set_equipment(requested)
      PROVE  GoodsInv'
  BY <1>3 DEF GoodsInv, Goods!TypeOK, Goods!set_equipment, Goods!list_purchasable, Goods!Active
<1>4. CASE UNCHANGED Goods!vars
  BY <1>4 DEF GoodsInv, Goods!TypeOK, Goods!vars, Goods!list_purchasable, Goods!Active
<1> QED BY <1>1, <1>2, <1>3, <1>4 DEF Goods!Next

(* An item has one way in; what is worn is owned, each piece in its slot,   *)
(* and no three of them reach a ceiling.                                    *)
LEMMA GoodsHold ==
  ASSUME GoodsInv
  PROVE  Goods!TypeOK /\ Goods!OneWayIn /\ Goods!WornIsWorthItsLabels
<1>1. /\ bought \subseteq Goods!ITEMS /\ \A item \in bought : item.price > 0
      /\ dropped \subseteq Goods!ITEMS
  BY DEF GoodsInv, Goods!TypeOK, Goods!list_purchasable, Goods!Active
<1>2. \A place \in DOMAIN worn :
        /\ worn[place] \in Goods!ITEMS /\ worn[place] \in dropped /\ worn[place] \notin bought
        /\ worn[place].kind = "EQUIPMENT" /\ worn[place].slot = place
  BY <1>1, Labelled DEF GoodsInv, Goods!TypeOK
<1>3. Goods!OneWayIn
  <2>1. bought \cap dropped = {}
    BY <1>1 DEF GoodsInv
  <2>2. \A item \in bought : item \notin Goods!Range(worn)
    BY <1>2 DEF Goods!Range
  <2> QED BY <1>1, <2>1, <2>2, Labelled DEF GoodsInv, Goods!OneWayIn
<1>4. /\ Goods!Label("WEAPON", "exp") = 0 /\ Goods!Label("WEAPON", "gold") \in 0..70
      /\ Goods!Label("ARMOR", "exp") \in 0..70 /\ Goods!Label("ARMOR", "gold") \in 0..30
      /\ Goods!Label("TRINKET", "exp") \in 0..35 /\ Goods!Label("TRINKET", "gold") \in 0..35
  <2>1. \A place \in DOMAIN worn :
          /\ worn[place].exp \in Nat /\ worn[place].gold \in Nat
          /\ place = "WEAPON" => worn[place].exp = 0 /\ worn[place].gold <= 70
          /\ place = "ARMOR" => worn[place].exp <= 70 /\ worn[place].gold <= 30
          /\ place = "TRINKET" => worn[place].exp <= 35 /\ worn[place].gold <= 35
    BY <1>2, Labelled
  <2>2. Goods!Label("WEAPON", "exp") = 0 /\ Goods!Label("WEAPON", "gold") \in 0..70
    BY <2>1 DEF Goods!Label
  <2>3. Goods!Label("ARMOR", "exp") \in 0..70 /\ Goods!Label("ARMOR", "gold") \in 0..30
    BY <2>1 DEF Goods!Label
  <2>4. Goods!Label("TRINKET", "exp") \in 0..35 /\ Goods!Label("TRINKET", "gold") \in 0..35
    BY <2>1 DEF Goods!Label
  <2> QED BY <2>2, <2>3, <2>4
<1>5. Goods!Labels("exp") \in 0..105
  BY <1>4 DEF Goods!Labels
<1>6. Goods!Labels("gold") \in 0..135
  BY <1>4 DEF Goods!Labels
<1>7. Goods!WornIsWorthItsLabels
  BY <1>2, <1>5, <1>6 DEF Goods!WornIsWorthItsLabels, Goods!total_bonus, Goods!Capped,
     Goods!MAX_BONUS_EXP_PERMILLE, Goods!MAX_BONUS_GOLD_PERMILLE
<1> QED BY <1>3, <1>7 DEF GoodsInv

-----------------------------------------------------------------------------
(* All of them side by side: one moves, and the others stay where they are. *)

StudyInv ==
  /\ ProgressInv /\ ExamInv /\ TalkInv /\ DailyInv
  /\ subject = "growth" => GrowthInv
  /\ subject = "draw" => DrawInv
  /\ subject = "llm" => LlmInv /\ HistoryInv
  /\ subject = "tree" => TreeInv
  /\ subject = "goods" => GoodsInv

LEMMA StudyStarts == StudyInit => StudyInv
BY ProgressStart, ExamStart, TalkStart, DailyStart, GrowthStart, DrawStart, LlmStart, HistoryStart,
   TreeStart, GoodsStart, StudyAssumption DEF StudyInit, StudyInv

\* Every service takes a step of its own, or none.
LEMMA StudyMoves ==
  ASSUME [StudyNext]_<<subject, vars, exam_vars, talk_vars, daily_vars, rest_vars>>
  PROVE  /\ [Next]_vars /\ [Exam!Next]_(Exam!vars) /\ [Talk!Next]_(Talk!vars) /\ [Daily!Next]_(Daily!vars)
         /\ subject' = subject
         /\ subject = "growth" => [Learner!Next]_(Learner!vars)
         /\ subject = "draw" => [Daily!DrawNext]_(Daily!draw_vars)
         /\ subject = "llm" => [Llm!Next]_(Llm!vars)
         /\ subject = "tree" => [Tree!Next]_(Tree!vars)
         /\ subject = "goods" => [Goods!Next]_(Goods!vars)
<1>1. CASE UNCHANGED <<subject, vars, exam_vars, talk_vars, daily_vars, rest_vars>>
  BY <1>1 DEF Exam!vars, Talk!vars, Daily!vars, Learner!vars, Daily!draw_vars, Llm!vars, Tree!vars,
     Goods!vars, exam_vars, talk_vars, daily_vars, growth_vars, draw_vars, llm_vars, goods_vars,
     tree_vars, item_vars, rest_vars
<1>2. CASE StudyNext
  BY <1>2 DEF StudyNext, Exam!vars, Talk!vars, Daily!vars, Learner!vars, Daily!draw_vars, Llm!vars,
     Tree!vars, Goods!vars, exam_vars, talk_vars, daily_vars, growth_vars, draw_vars, llm_vars,
     goods_vars, tree_vars, item_vars, rest_vars
<1> QED BY <1>1, <1>2

LEMMA StudySteps ==
  StudyInv /\ [StudyNext]_<<subject, vars, exam_vars, talk_vars, daily_vars, rest_vars>> => StudyInv'
<1> SUFFICES ASSUME StudyInv, [StudyNext]_<<subject, vars, exam_vars, talk_vars, daily_vars, rest_vars>>
             PROVE  StudyInv'
  OBVIOUS
<1>1. /\ [Next]_vars /\ [Exam!Next]_(Exam!vars) /\ [Talk!Next]_(Talk!vars) /\ [Daily!Next]_(Daily!vars)
      /\ subject' = subject
      /\ subject = "growth" => [Learner!Next]_(Learner!vars)
      /\ subject = "draw" => [Daily!DrawNext]_(Daily!draw_vars)
      /\ subject = "llm" => [Llm!Next]_(Llm!vars)
      /\ subject = "tree" => [Tree!Next]_(Tree!vars)
      /\ subject = "goods" => [Goods!Next]_(Goods!vars)
  BY StudyMoves
<1>2. ProgressInv' /\ ExamInv' /\ TalkInv' /\ DailyInv'
  BY <1>1, ProgressStep, ExamStep, TalkStep, DailyStep DEF StudyInv
<1>3. subject = "growth" => GrowthInv'
  BY <1>1, GrowthStep DEF StudyInv
<1>4. subject = "draw" => DrawInv'
  BY <1>1, DrawStep DEF StudyInv
<1>5. subject = "llm" => LlmInv' /\ HistoryInv'
  BY <1>1, LlmStep, HistoryStep DEF StudyInv
<1>6. subject = "tree" => TreeInv'
  BY <1>1, TreeStep, StudyAssumption DEF StudyInv
<1>7. subject = "goods" => GoodsInv'
  BY <1>1, GoodsStep DEF StudyInv
<1> QED BY <1>1, <1>2, <1>3, <1>4, <1>5, <1>6, <1>7 DEF StudyInv

LEMMA StudyHolds == StudySpec => []StudyInv
BY StudyStarts, StudySteps, PTL DEF StudySpec

(* Every service keeps its state in its types.                              *)
THEOREM TypesAlwaysHold == StudySpec => []TypesOK
<1>1. StudyInv => TypesOK
  BY DailyAddsUp, TreeHolds, GoodsHold
     DEF StudyInv, TypesOK, ProgressInv, ExamInv, TalkInv, GrowthInv, LlmInv
<1> QED BY <1>1, StudyHolds, PTL

(* A player who has mastered every challenge is never left short of a       *)
(* completed lesson, and no part of a completion is paid again but where    *)
(* two requests stored the lesson at once: whatever the number of requests  *)
(* and challenges, and wherever a request is cut short.                     *)
THEOREM CompletionAlwaysHonoured == StudySpec => []CompletionIsHonoured
<1>1. StudyInv => CompletionIsHonoured
  BY ProgressHonours DEF StudyInv
<1> QED BY <1>1, StudyHolds, PTL

(* Nobody passes the exam, or has a cap lifted, on answers that do not      *)
(* pass; and at every total of experience the level shown is the one it     *)
(* has paid for up to the cap, is never lost, lies in the band whose caps   *)
(* were cleared, and is not raised by walking out of a match.               *)
THEOREM CapsAlwaysEarned == StudySpec => []CapsAreEarned
<1>1. StudyInv => CapsAreEarned
  BY ExamIsEarned, LevelsPaid, BandsPassed, QuittingLoses DEF StudyInv, CapsAreEarned, GrowthInv
<1> QED BY <1>1, StudyHolds, PTL

(* Learner and AI take turns, whatever races for a position, in a           *)
(* conversation of any length, and in what is sent of it, however it is     *)
(* cut; and the AI is asked no more often than it takes.                    *)
THEOREM LinesAlwaysAlternate == StudySpec => []LinesAlternate
<1>1. StudyInv => LinesAlternate
  <2> SUFFICES ASSUME StudyInv PROVE LinesAlternate
    OBVIOUS
  <2>1. subject = "talk" => Talk!LinesAlternate
    BY DEF StudyInv, TalkInv
  <2>2. subject = "llm" => Llm!SentAlternates /\ Llm!AskedInReason
    BY SentIsTold, StudyAssumption DEF StudyInv, LlmInv, HistoryInv
  <2> QED BY <2>1, <2>2 DEF LinesAlternate
<1> QED BY <1>1, StudyHolds, PTL

(* A quest stands where the activity of the day adds up to, and pays when,  *)
(* and only when, it was finished and claimed, with any number of quests,   *)
(* chests and requests; and the day's quests were drawn fairly, whatever    *)
(* is retired and however many attempts the draw has.                       *)
THEOREM QuestsAlwaysAddUp == StudySpec => []QuestsAddUp
<1>1. StudyInv => QuestsAddUp
  BY DailyAddsUp, DrawIsFair DEF StudyInv, QuestsAddUp
<1> QED BY <1>1, StudyHolds, PTL

(* Skills are climbed to, a bar is empty or another school's only for a     *)
(* reason, an item has one way in, and what is worn is worth its labels:    *)
(* at every level, however many skills are unlocked and items found, and    *)
(* whatever is retired.                                                     *)
THEOREM KitAlwaysEarned == StudySpec => []KitIsEarned
<1>1. StudyInv => KitIsEarned
  BY TreeHolds, GoodsHold DEF StudyInv, KitIsEarned
<1> QED BY <1>1, StudyHolds, PTL

(* No step unlearns what was learnt, writes over an exam answer, or reopens *)
(* a finished conversation.                                                 *)
THEOREM AlwaysKeptAsGiven == StudySpec => KeptAsGiven
<1> DEFINE Learnt   == /\ \A c \in Challenges : attempt[c] = TRUE => attempt'[c] = TRUE
                       /\ lesson # None /\ lesson.completed
                            => lesson'.completed /\ lesson'.status = "COMPLETED"
           Answered == \A s \in Sittings, q \in Questions :
                         sitting[s].answers[q] # None => sitting'[s].answers[q] = sitting[s].answers[q]
           Finishes == session # None /\ session' # None
                         => /\ session.status = "FINISHED" => session'.status = "FINISHED" /\ session'.feedback
                            /\ session.goal_reached => session'.goal_reached
<1>1. StudyInv /\ [StudyNext]_<<subject, vars, exam_vars, talk_vars, daily_vars, rest_vars>> => [Learnt]_vars
  BY StudyMoves, ProgressUnlearnsNothing DEF StudyInv
<1>2. StudyInv /\ [StudyNext]_<<subject, vars, exam_vars, talk_vars, daily_vars, rest_vars>>
        => [Answered]_(Exam!vars)
  BY StudyMoves, ExamKeepsAnswers DEF StudyInv
<1>3. StudyInv /\ [StudyNext]_<<subject, vars, exam_vars, talk_vars, daily_vars, rest_vars>>
        => [Finishes]_(Talk!vars)
  BY StudyMoves, TalkStaysFinished DEF StudyInv
<1>4. StudySpec => [][Learnt]_vars /\ [][Answered]_(Exam!vars) /\ [][Finishes]_(Talk!vars)
  BY <1>1, <1>2, <1>3, StudyHolds, PTL DEF StudySpec
<1> QED BY <1>4 DEF KeptAsGiven, NothingIsUnlearnt, Exam!AnswersAreKept, Talk!FinishedStays

===============================================================================
