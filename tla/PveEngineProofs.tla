--------------------------- MODULE PveEngineProofs ---------------------------
(***************************************************************************)
(* Theorems about a player's lesson battles, for any battles, sockets and  *)
(* pool, any number of blows, shown questions and faults.                  *)
(*                                                                         *)
(* The argument: only `_finish' ends a battle and it needs one that is     *)
(* being fought, so a battle has one settling task for good; where that    *)
(* task stands tells what the row and the payout are by then.  Whatever    *)
(* runs beside it (late answers, the sweep, a socket still opening the     *)
(* battle) leaves these alone.                                             *)
(***************************************************************************)
EXTENDS PveEngine, TLAPS

Points == {"idle", "loading", "creating", "announcing", "answered", "sleeping", "swung",
           "none"} \cup Settling

Bound == {"creating", "announcing", "answered", "sleeping", "swung"} \cup Settling

\* What a task at a point relies on.
Holds(t, b) ==
  /\ battle[b].status # "NEW"
  /\ task[t].at = "answered" => task[t].answer \in Answers
  /\ task[t].at = "creating" => /\ row[b] = [status |-> None, left |-> None]
                                /\ payouts[b] = 0 /\ ~battle[b].persisted
  /\ task[t].at \in Settling => battle[b].status \in Ended
  /\ task[t].at = "drain" => (battle[b].persisted => row[b].status = "IN_PROGRESS")
  /\ task[t].at = "claim" => battle[b].persisted /\ row[b].status = "IN_PROGRESS"
  /\ task[t].at = "pay" => battle[b].persisted /\ row[b].status = "WON" /\ payouts[b] = 0
  /\ task[t].at = "close" => /\ battle[b].persisted /\ row[b].status \in Ended
                             /\ row[b].status = "WON" => payouts[b] = 1
  /\ task[t].at = "complete" => row[b].status = "WON" /\ row[b].left # None /\ payouts[b] = 1

Standing == \A t \in Tasks : task[t].at \in Bound => task[t].battle \in Battles /\ Holds(t, task[t].battle)

Alone == \A t, u \in Tasks :
           /\ task[t].battle = task[u].battle
           /\ \/ task[t].at \in Settling /\ task[u].at \in Settling
              \/ task[t].at = "creating" /\ task[u].at = "creating"
           => t = u

Sound == \A b \in Battles :
  /\ battle[b].status = "NEW" => /\ row[b] = [status |-> None, left |-> None]
                                 /\ payouts[b] = 0 /\ ~battle[b].persisted
  /\ battle[b].status = "WON" => battle[b].monster = 0
  /\ battle[b].given + (IF battle[b].open THEN 1 ELSE 0) <= battle[b].shown

(* What is preserved, type, the tasks' assumptions and the properties        *)
(* themselves together.                                                     *)
IInv == TypeOK /\ Standing /\ Alone /\ Sound /\ OnlyOnce /\ RowIsTrue

\* Battle c waits for its row in task t.
Rowless(t, c) == /\ c = task[t].battle /\ task[t].at = "creating"
                 /\ row[c] = [status |-> None, left |-> None] /\ payouts[c] = 0
                 /\ ~battle[c].persisted /\ battle[c].status # "NEW"

-----------------------------------------------------------------------------
(* Types.                                                                   *)

LEMMA AtIsTask ==
  ASSUME NEW p \in Points, NEW b \in Battles \cup {None}
  PROVE  At(p, b) \in Task
BY DEF At, Task, Points

LEMMA MovedIsTask ==
  ASSUME NEW k \in Task, NEW p \in Points
  PROVE  [k EXCEPT !.at = p] \in Task
BY DEF Task, Points

LEMMA HomeIsTask == \A t : Home(t) \in Task /\ Home(t).at \notin Bound
<1> SUFFICES ASSUME NEW t PROVE Home(t) \in Task /\ Home(t).at \notin Bound
  OBVIOUS
<1>1. Home(t) \in Task
  BY AtIsTask DEF Home, Points
<1>2. Home(t).at \notin Bound
  BY DEF Home, At, Bound, Settling
<1> QED BY <1>1, <1>2

LEMMA OpenedIsRow == Opened \in LessonBattle
BY DEF Opened, LessonBattle, BattleStatus

LEMMA LiveOn ==
  ASSUME NEW l \in LiveBattle
  PROVE  /\ [l EXCEPT !.persisted = TRUE] \in LiveBattle
         /\ [l EXCEPT !.socket = None] \in LiveBattle
         /\ [l EXCEPT !.open = TRUE, !.shown = @ + 1] \in LiveBattle
         /\ l.hp > 0 => [l EXCEPT !.hp = @ - 1] \in LiveBattle
         /\ \A status \in BattleStatus : [l EXCEPT !.status = status] \in LiveBattle
<1>1. [l EXCEPT !.persisted = TRUE] \in LiveBattle
  BY DEF LiveBattle
<1>2. [l EXCEPT !.socket = None] \in LiveBattle
  BY DEF LiveBattle
<1>3. [l EXCEPT !.open = TRUE, !.shown = @ + 1] \in LiveBattle
  <2>1. l.shown + 1 \in Nat
    BY DEF LiveBattle
  <2>2. \A n \in Nat : [l EXCEPT !.open = TRUE, !.shown = n] \in LiveBattle
    BY DEF LiveBattle
  <2>3. [l EXCEPT !.open = TRUE, !.shown = l.shown + 1] \in LiveBattle
    BY <2>1, <2>2
  <2> QED BY <2>3
<1>4. l.hp > 0 => [l EXCEPT !.hp = @ - 1] \in LiveBattle
  BY PveAssumption DEF LiveBattle
<1>5. \A status \in BattleStatus : [l EXCEPT !.status = status] \in LiveBattle
  BY DEF LiveBattle
<1> QED BY <1>1, <1>2, <1>3, <1>4, <1>5

LEMMA UnbornIsLive == Unborn \in LiveBattle /\ Unborn.status = "NEW"
BY PveAssumption DEF Unborn, LiveBattle

LEMMA GoneIsLive ==
  ASSUME NEW b \in Battles, TypeOK
  PROVE  Gone(b) \in LiveBattle
BY UnbornIsLive DEF Gone, TypeOK, LiveBattle

LEMMA RegisterType ==
  ASSUME TypeOK, NEW s \in Sockets, Register(s)
  PROVE  TypeOK'
<1>1. PICK b \in Battles :
        /\ battle' = [battle EXCEPT ![b] = [Unborn EXCEPT !.status = "IN_PROGRESS", !.socket = s]]
        /\ user_battle' = b
        /\ task' = [task EXCEPT ![s] = At("creating", b)]
  BY DEF Register, Fresh
<1>2. [Unborn EXCEPT !.status = "IN_PROGRESS", !.socket = s] \in LiveBattle
  BY UnbornIsLive DEF LiveBattle, BattleStatus
<1>3. At("creating", b) \in Task
  BY AtIsTask DEF Points
<1> QED BY <1>1, <1>2, <1>3 DEF TypeOK, Register, stored, Tasks

LEMMA CreateBattleType ==
  ASSUME TypeOK, NEW s \in Sockets, task[s].battle \in Battles, CreateBattle(s)
  PROVE  TypeOK'
<1>1. At("announcing", task[s].battle) \in Task
  BY AtIsTask DEF Points
<1>2. [battle[task[s].battle] EXCEPT !.persisted = TRUE] \in LiveBattle
  BY LiveOn DEF TypeOK
<1> QED BY <1>1, <1>2, OpenedIsRow DEF TypeOK, CreateBattle, Tasks

LEMMA RunBattleType ==
  ASSUME TypeOK, NEW s \in Sockets, task[s].battle \in Battles, RunBattle(s)
  PROVE  TypeOK'
<1>1. At("idle", None) \in Task /\ At("sleeping", task[s].battle) \in Task
  BY AtIsTask DEF Points
<1>2. [battle[task[s].battle] EXCEPT !.open = TRUE, !.shown = @ + 1] \in LiveBattle
  BY LiveOn DEF TypeOK
<1> QED BY <1>1, <1>2 DEF TypeOK, RunBattle, Tasks, stored

LEMMA RecordType ==
  ASSUME TypeOK, NEW s \in Sockets, task[s].battle \in Battles,
         task[s].answer \in Answers, Record(s)
  PROVE  TypeOK'
<1>1. At("idle", None) \in Task
  BY AtIsTask DEF Points
<1>2. task' \in [Tasks -> Task]
  BY <1>1 DEF TypeOK, Record, Tasks
<1>3. grading' \in [Battles -> SUBSET Answers]
  BY DEF TypeOK, Record
<1>4. task[s].answer.question \in Questions
  BY DEF Answers
<1>5. owed' \in [Battles -> SUBSET Questions]
  BY <1>4 DEF TypeOK, Record
<1> QED BY <1>2, <1>3, <1>5 DEF TypeOK, Record, stored

\* A task that only moves on.
LEMMA MoveType ==
  ASSUME TypeOK, NEW t \in Tasks, NEW p \in Points, task' = [task EXCEPT ![t].at = p]
  PROVE  task' \in [Tasks -> Task]
<1>1. [task[t] EXCEPT !.at = p] \in Task
  BY MovedIsTask DEF TypeOK
<1> QED BY <1>1 DEF TypeOK

LEMMA DrainedType ==
  ASSUME TypeOK, NEW t \in Tasks, Drained(t)
  PROVE  TypeOK'
<1>1. [task[t] EXCEPT !.at = Onward(task[t].battle), !.pending = {}] \in Task
  <2>1. task[t] \in Task
    BY DEF TypeOK
  <2>2. \A k \in Task, p \in Points : [k EXCEPT !.at = p, !.pending = {}] \in Task
    BY DEF Task, Points
  <2> QED BY <2>1, <2>2 DEF Onward, Points, Settling
<1> QED BY <1>1 DEF TypeOK, Drained, stored

LEMMA ClaimType ==
  ASSUME TypeOK, NEW t \in Tasks, task[t].battle \in Battles,
         battle[task[t].battle].status \in BattleStatus, Claim(t)
  PROVE  TypeOK'
<1> DEFINE b == task[t].battle
<1>1. task' \in [Tasks -> Task]
  BY MoveType DEF Claim, AfterSave, Points, Settling
<1>2. row' \in [Battles -> LessonBattle]
  <2>1. [row[b] EXCEPT !.status = battle[b].status] \in LessonBattle
    BY DEF TypeOK, LessonBattle
  <2> QED BY <2>1 DEF TypeOK, Claim
<1> QED BY <1>1, <1>2 DEF TypeOK, Claim

LEMMA PayType ==
  ASSUME TypeOK, NEW t \in Tasks, task[t].battle \in Battles, Pay(t)
  PROVE  TypeOK'
<1>1. task' \in [Tasks -> Task]
  BY MoveType DEF Pay, Points, Settling
<1> QED BY <1>1 DEF TypeOK, Pay

LEMMA CloseRowType ==
  ASSUME TypeOK, NEW t \in Tasks, task[t].battle \in Battles, CloseRow(t)
  PROVE  TypeOK'
<1> DEFINE b == task[t].battle
<1>1. task' \in [Tasks -> Task]
  BY MoveType DEF CloseRow, AfterSave, Points, Settling
<1>2. [row[b] EXCEPT !.left = battle[b].monster] \in LessonBattle
  BY DEF TypeOK, LessonBattle, LiveBattle
<1> QED BY <1>1, <1>2 DEF TypeOK, CloseRow

LEMMA CompleteLessonType ==
  ASSUME TypeOK, NEW t \in Tasks, CompleteLesson(t)
  PROVE  TypeOK'
<1>1. task' \in [Tasks -> Task]
  BY MoveType DEF CompleteLesson, Points, Settling
<1> QED BY <1>1 DEF TypeOK, CompleteLesson

LEMMA ReportType ==
  ASSUME TypeOK, NEW t \in Tasks, Report(t)
  PROVE  TypeOK'
<1>1. task' \in [Tasks -> Task]
  BY MoveType DEF Report, Points, Settling
<1> QED BY <1>1 DEF TypeOK, Report, stored

LEMMA TeardownType ==
  ASSUME TypeOK, NEW t \in Tasks, task[t].battle \in Battles, Teardown(t)
  PROVE  TypeOK'
BY HomeIsTask, GoneIsLive DEF TypeOK, Teardown, stored

LEMMA SwingSentType ==
  ASSUME TypeOK, NEW b \in Battles, SwingSent(b)
  PROVE  TypeOK'
<1>1. task' \in [Tasks -> Task]
  BY MoveType DEF SwingSent, Points, Tasks
<1> QED BY <1>1 DEF TypeOK, SwingSent, stored

LEMMA MonsterSwingType ==
  ASSUME TypeOK, NEW b \in Battles, MonsterSwing(b)
  PROVE  TypeOK'
<1>1. task' \in [Tasks -> Task]
  BY MoveType DEF MonsterSwing, Points, Tasks
<1>2. [battle[b] EXCEPT !.hp = @ - 1] \in LiveBattle
  <2>1. battle[b] \in LiveBattle /\ battle[b].hp > 0
    BY DEF TypeOK, LiveBattle, MonsterSwing
  <2> QED BY <2>1, LiveOn
<1> QED BY <1>1, <1>2 DEF TypeOK, MonsterSwing, stored

LEMMA PushQuestionType ==
  ASSUME TypeOK, NEW b \in Battles, PushQuestion(b)
  PROVE  TypeOK'
<1>1. [battle[b] EXCEPT !.open = TRUE, !.shown = @ + 1] \in LiveBattle
  BY LiveOn DEF TypeOK
<1> QED BY <1>1 DEF TypeOK, PushQuestion, stored

LEMMA CrashType ==
  ASSUME TypeOK, Crash
  PROVE  TypeOK'
<1>1. task' \in [Tasks -> Task]
  BY HomeIsTask DEF Crash, Resting
<1>2. battle' \in [Battles -> LiveBattle]
  BY GoneIsLive DEF Crash, TypeOK
<1>3. row' \in [Battles -> LessonBattle]
  <2>1. \A b \in Battles : [row[b] EXCEPT !.status = "ABANDONED"] \in LessonBattle
    BY DEF TypeOK, LessonBattle, BattleStatus, Ended
  <2> QED BY <2>1 DEF Crash, TypeOK
<1>4. user_battle' \in Battles \cup {None} /\ faults' \in 0..MaxFaults
  BY PveAssumption DEF Crash, Fault, TypeOK
<1> QED BY <1>1, <1>2, <1>3, <1>4 DEF Crash, TypeOK

-----------------------------------------------------------------------------
(* What a step leaves of the invariant, where it takes an argument.          *)

LEMMA RegisterStanding ==
  ASSUME IInv, NEW s \in Sockets, Register(s)
  PROVE  Standing'
<1>1. PICK b \in Battles :
        /\ battle[b].status = "NEW"
        /\ battle' = [battle EXCEPT ![b] = [Unborn EXCEPT !.status = "IN_PROGRESS", !.socket = s]]
        /\ task' = [task EXCEPT ![s] = At("creating", b)]
        /\ UNCHANGED <<row, payouts>>
  BY DEF Register, Fresh, stored
<1> SUFFICES ASSUME NEW u \in Tasks, task'[u].at \in Bound
             PROVE  task'[u].battle \in Battles /\ Holds(u, task[u].battle)'
  BY DEF Standing
<1>2. CASE u = s
  BY <1>1, <1>2 DEF IInv, TypeOK, Tasks, Sound, Holds, At, Unborn, Settling
<1>3. CASE u # s
  BY <1>1, <1>3 DEF IInv, TypeOK, Tasks, Standing, Holds
<1> QED BY <1>2, <1>3

(* A battle that ended while its row was being written is drained, read or  *)
(* torn down by then, none of which looks at the row.                       *)
LEMMA CreateBattleStanding ==
  ASSUME IInv, NEW s \in Sockets, CreateBattle(s)
  PROVE  Standing'
<1> DEFINE b == task[s].battle
<1>1. b \in Battles /\ Holds(s, b) /\ task[s].at = "creating"
  BY DEF IInv, Standing, Bound, CreateBattle, Tasks
<1> SUFFICES ASSUME NEW u \in Tasks, task'[u].at \in Bound
             PROVE  task'[u].battle \in Battles /\ Holds(u, task[u].battle)'
  BY DEF Standing
<1>2. CASE u = s
  BY <1>1, <1>2 DEF IInv, TypeOK, Tasks, Holds, At, CreateBattle, Settling, LiveBattle
<1>3. CASE u # s
  <2>1. task[u].battle \in Battles /\ Holds(u, task[u].battle) /\ task'[u] = task[u]
    BY <1>3 DEF IInv, TypeOK, Standing, CreateBattle
  <2>2. task[u].battle = b => task[u].at # "creating"
    BY <1>1, <1>3 DEF IInv, Alone, Tasks
  <2>3. /\ battle \in [Battles -> LiveBattle] /\ row \in [Battles -> LessonBattle]
        /\ battle' = [battle EXCEPT ![b].persisted = TRUE]
        /\ row' = [row EXCEPT ![b] = Opened] /\ payouts' = payouts
    BY DEF IInv, TypeOK, CreateBattle
  <2>4. ~battle[b].persisted /\ row[b].left = None
    BY <1>1 DEF Holds
  <2>5. CASE task[u].battle # b
    <3> DEFINE c == task[u].battle
    <3>1. c \in Battles /\ battle'[c] = battle[c] /\ row'[c] = row[c]
      BY <1>1, <2>1, <2>3, <2>5
    <3> QED BY <2>1, <2>3, <3>1 DEF Holds
  <2>6. CASE task[u].battle = b
    <3>1. /\ battle'[b].status = battle[b].status /\ battle'[b].persisted
          /\ row'[b] = Opened
      BY <1>1, <2>3 DEF LiveBattle
    <3>2. task[u].at \notin {"creating", "claim", "pay", "close", "complete"}
      BY <2>1, <2>2, <2>4, <2>6 DEF Holds
    <3> QED BY <2>1, <2>3, <2>6, <3>1, <3>2 DEF Holds, Opened, Settling
  <2> QED BY <2>5, <2>6
<1> QED BY <1>2, <1>3

LEMMA RunBattleStanding ==
  ASSUME IInv, NEW s \in Sockets, RunBattle(s)
  PROVE  Standing'
<1> DEFINE b == task[s].battle
<1>1. b \in Battles /\ Holds(s, b)
  BY DEF IInv, Standing, Bound, RunBattle, Tasks
<1> SUFFICES ASSUME NEW u \in Tasks, task'[u].at \in Bound
             PROVE  task'[u].battle \in Battles /\ Holds(u, task[u].battle)'
  BY DEF Standing
<1>2. CASE u = s \/ u = b
  <2>1. /\ s \in Tasks /\ b \in Tasks /\ s # b /\ task' = [task EXCEPT ![s] = At("idle", None), ![b] = At("sleeping", b)]
    BY <1>1, PveAssumption DEF RunBattle, Tasks
  <2>2. u = b /\ task'[b] = At("sleeping", b)
    BY <1>2, <2>1 DEF IInv, TypeOK, At, Bound, Settling
  <2>3. battle'[b].status = battle[b].status
    BY <1>1 DEF IInv, TypeOK, RunBattle, LiveBattle
  <2> QED BY <1>1, <2>2, <2>3 DEF Holds, At, Settling
<1>3. CASE u # s /\ u # b
  <2>1. task[u].battle \in Battles /\ Holds(u, task[u].battle) /\ task'[u] = task[u]
    BY <1>3 DEF IInv, TypeOK, Standing, RunBattle
  <2>2. /\ battle'[task[u].battle].status = battle[task[u].battle].status
        /\ battle'[task[u].battle].persisted = battle[task[u].battle].persisted
    BY <2>1 DEF IInv, TypeOK, RunBattle, LiveBattle
  <2> QED BY <2>1, <2>2 DEF Holds, RunBattle, stored
<1> QED BY <1>2, <1>3

LEMMA DrainedStanding ==
  ASSUME IInv, NEW t \in Tasks, Drained(t)
  PROVE  Standing' /\ Alone'
<1> DEFINE b == task[t].battle
<1>1. b \in Battles /\ Holds(t, b) /\ task[t].at = "drain"
  BY DEF IInv, Standing, Bound, Settling, Drained
<1>2. /\ task'[t].at = Onward(b) /\ task'[t].battle = b /\ Onward(b) \in {"claim", "read"}
      /\ \A u \in Tasks : u # t => task'[u] = task[u]
      /\ UNCHANGED <<battle, row, payouts>>
  BY DEF IInv, TypeOK, Drained, Onward, stored, Task
<1>3. Holds(t, b)'
  BY <1>1, <1>2 DEF Holds, Settling, Onward
<1>4. ASSUME NEW u \in Tasks, u # t, task[u].at \in Bound, Holds(u, task[u].battle)
      PROVE  Holds(u, task[u].battle)'
  BY <1>2, <1>4 DEF Holds
<1>5. Standing'
  BY <1>1, <1>2, <1>3, <1>4 DEF IInv, Standing
<1>6. Alone'
  BY <1>1, <1>2 DEF IInv, Alone, Settling
<1> QED BY <1>5, <1>6

(* The claim finds the row as it was opened: nobody else settles this       *)
(* battle, and settling is what writes a row that is persisted.             *)
LEMMA ClaimRest ==
  ASSUME IInv, NEW t \in Tasks, Claim(t)
  PROVE  Standing' /\ Alone' /\ RowIsTrue'
<1> DEFINE b == task[t].battle
<1>1. b \in Battles /\ Holds(t, b) /\ task[t].at = "claim"
  BY DEF IInv, Standing, Bound, Settling, Claim
<1>2. row[b].status = "IN_PROGRESS" /\ battle[b].persisted /\ battle[b].status \in Ended
  BY <1>1 DEF Holds, Settling
<1>3. /\ task'[t].at = IF battle[b].status = "WON" THEN "pay" ELSE "close"
      /\ task'[t].battle = b
      /\ \A u \in Tasks : u # t => task'[u] = task[u]
      /\ row' = [row EXCEPT ![b].status = battle[b].status]
      /\ UNCHANGED <<battle, payouts, lesson>>
  BY <1>2 DEF IInv, TypeOK, Claim, Task
<1>4. /\ row'[b].status = battle[b].status /\ row'[b].left = row[b].left
      /\ \A c \in Battles : c # b => row'[c] = row[c]
  BY <1>1, <1>3 DEF IInv, TypeOK, LessonBattle
<1>5. row[b].left = None /\ payouts[b] = 0
  BY <1>1, <1>2 DEF IInv, TypeOK, RowIsTrue, Ended
<1>6. Holds(t, b)'
  BY <1>1, <1>2, <1>3, <1>4, <1>5 DEF Holds, Settling, Ended
<1>7. ASSUME NEW u \in Tasks, u # t, task[u].at \in Bound, task[u].battle \in Battles,
             Holds(u, task[u].battle)
      PROVE  Holds(u, task[u].battle)'
  <2>1. task[u].battle = b => task[u].at \notin Settling \cup {"creating"}
    BY <1>1, <1>2, <1>7 DEF IInv, Alone, Settling, Holds
  <2> QED BY <1>3, <1>4, <1>7, <2>1 DEF Holds, Settling
<1>8. Standing'
  BY <1>1, <1>3, <1>6, <1>7 DEF IInv, Standing
<1>9. Alone'
  BY <1>1, <1>3 DEF IInv, Alone, Settling
<1>10. RowIsTrue'
  BY <1>1, <1>2, <1>3, <1>4, <1>5 DEF IInv, RowIsTrue
<1> QED BY <1>8, <1>9, <1>10

LEMMA PayStanding ==
  ASSUME IInv, NEW t \in Tasks, Pay(t)
  PROVE  Standing'
<1> DEFINE b == task[t].battle
<1>1. b \in Battles /\ Holds(t, b) /\ task[t].at = "pay"
  BY DEF IInv, Standing, Bound, Settling, Pay
<1>3. /\ task'[t].at = "close" /\ task'[t].battle = b
      /\ \A u \in Tasks : u # t => task'[u] = task[u]
      /\ payouts'[b] = payouts[b] + 1 /\ \A c \in Battles : c # b => payouts'[c] = payouts[c]
      /\ UNCHANGED <<battle, row, lesson>>
  BY <1>1 DEF IInv, TypeOK, Pay, Task
<1>6. Holds(t, b)'
  BY <1>1, <1>3 DEF Holds, Settling, Ended
<1>7. ASSUME NEW u \in Tasks, u # t, task[u].at \in Bound, task[u].battle \in Battles,
             Holds(u, task[u].battle)
      PROVE  Holds(u, task[u].battle)'
  <2>1. task[u].battle = b => task[u].at \notin Settling \cup {"creating"}
    BY <1>1, <1>7 DEF IInv, Alone, Settling, Holds
  <2> QED BY <1>3, <1>7, <2>1 DEF Holds, Settling
<1> QED
  BY <1>1, <1>3, <1>6, <1>7 DEF IInv, Standing

LEMMA CloseRowStanding ==
  ASSUME IInv, NEW t \in Tasks, CloseRow(t)
  PROVE  Standing'
<1> DEFINE b == task[t].battle
<1>1. b \in Battles /\ Holds(t, b) /\ task[t].at = "close"
  BY DEF IInv, Standing, Bound, Settling, CloseRow
<1>2. battle[b].persisted /\ row[b].status = battle[b].status /\ battle[b].monster # None
  BY <1>1, PveAssumption DEF IInv, TypeOK, LiveBattle, RowIsTrue, Holds, Ended
<1>3. /\ task'[t].at = AfterSave(b) /\ task'[t].battle = b
      /\ \A u \in Tasks : u # t => task'[u] = task[u]
      /\ row'[b].status = row[b].status /\ row'[b].left = battle[b].monster
      /\ \A c \in Battles : c # b => row'[c] = row[c]
      /\ UNCHANGED <<battle, payouts, lesson>>
  BY <1>1 DEF IInv, TypeOK, CloseRow, Task, LessonBattle
<1>6. Holds(t, b)'
  BY <1>1, <1>2, <1>3 DEF Holds, Settling, AfterSave
<1>7. ASSUME NEW u \in Tasks, u # t, task[u].at \in Bound, task[u].battle \in Battles,
             Holds(u, task[u].battle)
      PROVE  Holds(u, task[u].battle)'
  <2>1. task[u].battle = b => task[u].at \notin Settling \cup {"creating"}
    BY <1>1, <1>2, <1>7 DEF IInv, Alone, Settling, Holds
  <2> QED BY <1>3, <1>7, <2>1 DEF Holds, Settling
<1> QED
  BY <1>1, <1>3, <1>6, <1>7 DEF IInv, Standing

(* Whoever else is about the battle is not settling it.                     *)
LEMMA TeardownStanding ==
  ASSUME IInv, NEW t \in Tasks, Teardown(t)
  PROVE  Standing'
<1> DEFINE b == task[t].battle
<1>1. b \in Battles /\ task[t].at = "teardown"
  BY DEF IInv, Standing, Bound, Settling, Teardown
<1>2. /\ task'[t] = Home(t) /\ \A u \in Tasks : u # t => task'[u] = task[u]
      /\ battle'[b] = Gone(b) /\ \A c \in Battles : c # b => battle'[c] = battle[c]
      /\ UNCHANGED <<row, payouts, lesson>>
  BY <1>1 DEF IInv, TypeOK, Teardown, stored
<1>3. Gone(b).status = "GONE" /\ Gone(b).persisted = FALSE
  BY DEF Gone, Unborn
<1>4. ASSUME NEW u \in Tasks, u # t, task[u].at \in Bound, task[u].battle \in Battles,
             Holds(u, task[u].battle)
      PROVE  Holds(u, task[u].battle)'
  <2>1. task[u].battle = b => task[u].at \notin Settling
    BY <1>1, <1>4 DEF IInv, Alone, Settling
  <2> QED BY <1>2, <1>3, <1>4, <2>1 DEF Holds, Settling
<1>5. task'[t].at \notin Bound
  BY <1>2 DEF Home, At, Bound, Settling
<1> QED BY <1>2, <1>4, <1>5 DEF IInv, Standing

LEMMA CrashRest ==
  ASSUME IInv, Crash
  PROVE  Sound' /\ OnlyOnce' /\ RowIsTrue'
<1>1. ASSUME NEW b \in Battles
      PROVE  /\ battle'[b].status \in {"NEW", "GONE"} /\ ~battle'[b].persisted
             /\ battle'[b].status = "NEW" => battle'[b] = battle[b] /\ battle[b].status = "NEW"
             /\ battle'[b].status = "GONE" => battle'[b] = Gone(b)
  BY DEF IInv, TypeOK, Sound, Crash, Gone, Unborn
<1>2. ASSUME NEW b \in Battles
      PROVE  /\ row'[b].left = row[b].left
             /\ row'[b].status = IF row[b].status = "IN_PROGRESS" THEN "ABANDONED" ELSE row[b].status
             /\ row[b].status # "IN_PROGRESS" => row'[b] = row[b]
  BY DEF IInv, TypeOK, LessonBattle, Crash
<1>3. ASSUME NEW b \in Battles
      PROVE  Gone(b).given = 0 /\ ~Gone(b).open /\ Gone(b).shown \in Nat
  BY DEF Gone, Unborn, IInv, TypeOK, LiveBattle
<1>4. ASSUME NEW b \in Battles
      PROVE  battle'[b].given + (IF battle'[b].open THEN 1 ELSE 0) <= battle'[b].shown
  <2>1. CASE battle'[b] = battle[b]
    BY <2>1 DEF IInv, Sound
  <2>2. CASE battle'[b] = Gone(b)
    BY <2>2, <1>3
  <2> QED BY <1>1, <2>1, <2>2
<1>5. Sound'
  BY <1>1, <1>2, <1>4, PveAssumption DEF IInv, Sound, Crash
<1>6. OnlyOnce'
  <2> SUFFICES ASSUME NEW b \in Battles
               PROVE  ~Playing(b)' /\ battle'[b].given <= battle'[b].shown
    BY DEF OnlyOnce
  <2>1. CASE battle'[b] = battle[b]
    BY <1>1, <2>1 DEF IInv, OnlyOnce, Playing
  <2>2. CASE battle'[b] = Gone(b)
    BY <1>1, <2>2, <1>3 DEF Playing
  <2> QED BY <1>1, <2>1, <2>2
<1>7. RowIsTrue'
  BY <1>1, <1>2 DEF IInv, RowIsTrue, Crash, Ended
<1> QED BY <1>5, <1>6, <1>7

LEMMA FinishingIsTask ==
  ASSUME TypeOK, NEW b \in Battles
  PROVE  /\ Finishing(b) \in Task /\ Finishing(b).battle = b
         /\ Finishing(b).at \in {"drain", "claim", "read"}
         /\ Finishing(b).at = "claim" => battle[b].persisted
BY DEF TypeOK, Finishing, Onward, Task, Settling

(* `_finish' begins: nobody was settling this battle, and its row, if it is  *)
(* persisted, is still the one that was opened.                             *)
LEMMA FinishKeeps ==
  ASSUME IInv, NEW t \in Tasks, NEW b \in Battles, Playing(b),
         NEW status \in Ended, status = "WON" => battle[b].monster = 0,
         NEW ended \in {battle[b], [battle[b] EXCEPT !.socket = None]},
         FinishIn(t, b, status, ended),
         \/ UNCHANGED row
         \/ task[t].at = "creating" /\ row' = [row EXCEPT ![task[t].battle] = Opened],
         UNCHANGED <<user_battle, grading, payouts, lesson, owed>>, faults' \in 0..MaxFaults
  PROVE  IInv'
<1>1. /\ battle'[b].status = status /\ battle'[b].monster = battle[b].monster
      /\ battle'[b].given = battle[b].given /\ battle'[b].open = battle[b].open
      /\ battle'[b].shown = battle[b].shown /\ battle'[b].persisted = battle[b].persisted
      /\ \A c \in Battles : c # b => battle'[c] = battle[c]
      /\ battle' \in [Battles -> LiveBattle]
  <2>1. ended \in LiveBattle /\ [ended EXCEPT !.status = status] \in LiveBattle
    <3>1. battle[b] \in LiveBattle
      BY DEF IInv, TypeOK
    <3>2. ended \in LiveBattle
      BY <3>1, LiveOn
    <3> QED BY <3>2, LiveOn DEF BattleStatus
  <2>2. /\ ended.monster = battle[b].monster /\ ended.given = battle[b].given
        /\ ended.open = battle[b].open /\ ended.shown = battle[b].shown
        /\ ended.persisted = battle[b].persisted
    BY DEF IInv, TypeOK, LiveBattle
  <2> QED BY <2>1, <2>2 DEF IInv, TypeOK, FinishIn, LiveBattle
<1>2. /\ task'[t] = Finishing(b)
      /\ \A u \in Tasks : u # t => task'[u] = IF u = b THEN At("none", None) ELSE task[u]
      /\ task' \in [Tasks -> Task]
  BY FinishingIsTask, AtIsTask DEF IInv, TypeOK, FinishIn, Points
<1>3. /\ Finishing(b) \in Task /\ Finishing(b).battle = b
      /\ Finishing(b).at \in {"drain", "claim", "read"}
      /\ Finishing(b).at = "claim" => battle[b].persisted
  BY FinishingIsTask DEF IInv
<1>4. \A u \in Tasks : task[u].battle = b => task[u].at \notin Settling
  BY DEF IInv, Standing, Holds, Bound, Playing, Ended
<1>5. battle[b].persisted => row[b].status = "IN_PROGRESS"
  BY DEF IInv, RowIsTrue, Playing
<1>6. ASSUME NEW c \in Battles
      PROVE  row'[c] = row[c] \/ (row'[c] = Opened /\ Rowless(t, c))
  BY DEF IInv, TypeOK, Standing, Holds, Bound, Rowless
<1>7. row' \in [Battles -> LessonBattle]
  BY OpenedIsRow DEF IInv, TypeOK
<1>8. TypeOK'
  BY <1>1, <1>2, <1>7 DEF IInv, TypeOK
<1>9. ASSUME NEW u \in Tasks, u # t, u # b, task[u].at \in Bound, task[u].battle \in Battles,
             Holds(u, task[u].battle)
      PROVE  Holds(u, task[u].battle)'
  <2>1. task'[u] = task[u]
    BY <1>2, <1>9
  <2>2. task[u].battle = b => task[u].at \notin Settling
    BY <1>4
  <2>3. CASE row'[task[u].battle] = row[task[u].battle]
    BY <1>1, <1>9, <2>1, <2>2, <2>3 DEF Holds, Ended
  <2>4. CASE Rowless(t, task[u].battle)
    <3>1. task[u].at # "creating"
      BY <1>9, <2>4 DEF IInv, Alone, Rowless
    <3>2. task[u].at \notin {"claim", "pay", "close", "complete"}
      BY <1>9, <2>4 DEF Holds, Rowless
    <3> QED BY <1>1, <1>9, <2>1, <2>2, <2>4, <3>1, <3>2 DEF Holds, Ended, Settling, Rowless
  <2> QED BY <1>6, <1>9, <2>3, <2>4
<1>10. Holds(t, b)'
  <2>1. task'[t].at \notin {"answered", "creating", "pay", "close", "complete"}
    BY <1>2, <1>3
  <2>2. row'[b] = row[b] \/ ~battle[b].persisted
    BY <1>6 DEF Rowless
  <2> QED BY <1>1, <1>2, <1>3, <1>5, <2>1, <2>2 DEF Holds, Ended, Playing
<1>11. Standing'
  <2> SUFFICES ASSUME NEW u \in Tasks, task'[u].at \in Bound
               PROVE  task'[u].battle \in Battles /\ Holds(u, task[u].battle)'
    BY DEF Standing
  <2>1. CASE u = t
    BY <1>2, <1>3, <1>10, <2>1
  <2>2. CASE u # t
    <3>1. u # b
      BY <1>2, <2>2 DEF At, Bound, Settling
    <3> QED BY <1>2, <1>9, <2>2, <3>1 DEF IInv, Standing
  <2> QED BY <2>1, <2>2
<1>12. Alone'
  <2>1. \A u \in Tasks : u # t /\ task'[u].at \in Settling \cup {"creating"} => task'[u] = task[u]
    BY <1>2 DEF At, Settling
  <2>2. \A u \in Tasks : u # t /\ task'[u].at \in Settling => task'[u].battle # b
    BY <1>4, <2>1
  <2> QED BY <1>2, <1>3, <2>1, <2>2 DEF IInv, Alone
<1>13. Sound'
  BY <1>1, <1>6 DEF IInv, Sound, Playing, Ended, Rowless
<1>14. OnlyOnce'
  BY <1>1 DEF IInv, OnlyOnce, Playing, Ended
<1>15. RowIsTrue'
  <2>1. \A c \in Battles : \/ row'[c] = row[c]
                           \/ /\ ~battle[c].persisted /\ payouts[c] = 0
                              /\ row'[c].left = None /\ row[c].left = None
    BY <1>6 DEF Opened, Rowless
  <2> QED BY <1>1, <1>5, <2>1 DEF IInv, RowIsTrue
<1> QED BY <1>8, <1>11, <1>12, <1>13, <1>14, <1>15 DEF IInv

(* Hanging up a socket whose battle is not running: at most the row of the  *)
(* battle it was about to create has appeared.                              *)
LEMMA HangUpKeeps ==
  ASSUME IInv, NEW t \in Tasks,
         task' = [task EXCEPT ![t] = Home(t)],
         \/ UNCHANGED battle
         \/ \E b \in Battles : battle' = [battle EXCEPT ![b].socket = None],
         \/ UNCHANGED row
         \/ task[t].at = "creating" /\ row' = [row EXCEPT ![task[t].battle] = Opened],
         UNCHANGED <<user_battle, grading, payouts, lesson, owed>>, faults' \in 0..MaxFaults
  PROVE  IInv'
<1>1. ASSUME NEW c \in Battles
      PROVE  /\ battle'[c] \in LiveBattle /\ battle'[c].status = battle[c].status
             /\ battle'[c].monster = battle[c].monster
             /\ battle'[c].given = battle[c].given /\ battle'[c].open = battle[c].open
             /\ battle'[c].shown = battle[c].shown /\ battle'[c].persisted = battle[c].persisted
  <2>1. battle[c] \in LiveBattle
    BY DEF IInv, TypeOK
  <2>2. battle'[c] = battle[c] \/ battle'[c] = [battle[c] EXCEPT !.socket = None]
    BY DEF IInv, TypeOK
  <2>3. CASE battle'[c] = [battle[c] EXCEPT !.socket = None]
    <3>1. battle'[c] \in LiveBattle
      BY <2>1, <2>3, LiveOn
    <3> QED BY <2>1, <2>3, <3>1 DEF LiveBattle
  <2> QED BY <2>1, <2>2, <2>3
<1>2. /\ task'[t].at \notin Bound
      /\ \A u \in Tasks : u # t => task'[u] = task[u]
      /\ task' \in [Tasks -> Task]
  BY HomeIsTask DEF IInv, TypeOK
<1>3. ASSUME NEW c \in Battles
      PROVE  row'[c] = row[c] \/ (row'[c] = Opened /\ Rowless(t, c))
  BY DEF IInv, TypeOK, Standing, Holds, Bound, Rowless
<1>4. TypeOK'
  <2>1. battle' \in [Battles -> LiveBattle]
    BY <1>1 DEF IInv, TypeOK
  <2>2. row' \in [Battles -> LessonBattle]
    BY OpenedIsRow DEF IInv, TypeOK
  <2> QED BY <2>1, <2>2, <1>2 DEF IInv, TypeOK
<1>5. ASSUME NEW u \in Tasks, u # t, task[u].at \in Bound, task[u].battle \in Battles,
             Holds(u, task[u].battle)
      PROVE  Holds(u, task[u].battle)'
  <2>1. task'[u] = task[u]
    BY <1>2, <1>5
  <2>2. CASE row'[task[u].battle] = row[task[u].battle]
    BY <1>1, <1>5, <2>1, <2>2 DEF Holds
  <2>3. CASE Rowless(t, task[u].battle)
    <3>1. task[u].at # "creating"
      BY <1>5, <2>3 DEF IInv, Alone, Rowless
    <3>2. task[u].at \notin {"claim", "pay", "close", "complete"}
      BY <1>5, <2>3 DEF Holds, Rowless
    <3> QED BY <1>1, <1>5, <2>1, <2>3, <3>1, <3>2 DEF Holds, Rowless
  <2> QED BY <1>3, <1>5, <2>2, <2>3
<1>6. Standing'
  BY <1>2, <1>5 DEF IInv, Standing
<1>7. Alone'
  BY <1>2 DEF IInv, Alone, Bound
<1>8. Sound'
  BY <1>1, <1>3 DEF IInv, Sound, Rowless
<1>9. OnlyOnce'
  BY <1>1 DEF IInv, OnlyOnce, Playing
<1>10. RowIsTrue'
  <2>1. \A c \in Battles : \/ row'[c] = row[c]
                           \/ /\ ~battle[c].persisted /\ payouts[c] = 0
                              /\ row'[c].left = None /\ row[c].left = None
    BY <1>3 DEF Opened, Rowless
  <2> QED BY <1>1, <2>1 DEF IInv, RowIsTrue
<1> QED BY <1>4, <1>6, <1>7, <1>8, <1>9, <1>10 DEF IInv

-----------------------------------------------------------------------------
(* One step per action.                                                     *)

LEMMA CurrentIsQuestion ==
  ASSUME TypeOK, NEW b \in Battles
  PROVE  Current(b) \in Questions
<1>1. battle[b].shown - 1 \in Int
  BY DEF TypeOK, LiveBattle
<1>2. \A x \in Int : (x % PoolSize) + 1 \in 1..PoolSize
  BY PveAssumption
<1> QED BY <1>1, <1>2 DEF Current, Questions

LEMMA AnsweredIsLive ==
  ASSUME NEW l \in LiveBattle, NEW right \in BOOLEAN, NEW n,
         n = [l EXCEPT !.open = FALSE, !.given = @ + 1,
                !.monster = IF right /\ @ > 0 THEN @ - 1 ELSE @]
  PROVE  /\ n \in LiveBattle /\ ~n.open /\ n.given = l.given + 1
         /\ n.status = l.status /\ n.shown = l.shown /\ n.persisted = l.persisted
<1> DEFINE g == l.given + 1
           m == IF right /\ l.monster > 0 THEN l.monster - 1 ELSE l.monster
<1>0. n = [l EXCEPT !.open = FALSE, !.given = g, !.monster = m]
  OBVIOUS
<1>1. g \in Nat /\ m \in 0..MonsterHp
  BY PveAssumption DEF LiveBattle
<1> HIDE DEF g, m
<1>2. n \in LiveBattle
  BY <1>1, <1>0 DEF LiveBattle
<1>3. ~n.open /\ n.given = g
  BY <1>1, <1>0 DEF LiveBattle
<1>4. n.status = l.status /\ n.shown = l.shown /\ n.persisted = l.persisted
  BY <1>1, <1>0 DEF LiveBattle
<1> QED BY <1>2, <1>3, <1>4 DEF g

(* One showing, one blow: the answer that closes a question was counted     *)
(* among the open ones, and only a battle still fought takes it.            *)
LEMMA SubmitStep ==
  ASSUME IInv, NEW s \in Sockets, NEW right \in BOOLEAN, Submit(s, right)
  PROVE  IInv'
<1> DEFINE b == user_battle
           a == [question |-> Current(b), right |-> right]
<1>1. b \in Battles /\ Playing(b) /\ battle[b].open /\ UNCHANGED user_battle
  BY DEF IInv, TypeOK, Submit, is_busy
<1>2. /\ battle'[b] \in LiveBattle /\ battle'[b].status = battle[b].status
      /\ battle'[b].given = battle[b].given + 1 /\ ~battle'[b].open
      /\ battle'[b].shown = battle[b].shown /\ battle'[b].persisted = battle[b].persisted
      /\ \A c \in Battles : c # b => battle'[c] = battle[c]
  <2>1. battle[b] \in LiveBattle
    BY <1>1 DEF IInv, TypeOK
  <2>2. /\ battle'[b] = [battle[b] EXCEPT !.open = FALSE, !.given = @ + 1,
                             !.monster = IF right /\ @ > 0 THEN @ - 1 ELSE @]
        /\ \A c \in Battles : c # b => battle'[c] = battle[c]
    BY <1>1 DEF IInv, TypeOK, Submit
  <2> QED BY <2>1, <2>2, AnsweredIsLive
<1>3. Current(b) \in Questions /\ a \in Answers
  BY <1>1, CurrentIsQuestion DEF IInv, Answers
<1>4. [At("answered", b) EXCEPT !.answer = a] \in Task
  BY <1>1, <1>3 DEF At, Task
<1>5. /\ task'[s].at = "answered" /\ task'[s].battle = b /\ task'[s].answer = a
      /\ \A u \in Tasks : u # s => task'[u] = task[u]
      /\ task' \in [Tasks -> Task]
  BY <1>4 DEF IInv, TypeOK, Submit, Tasks, At
<1> HIDE DEF a
<1>6. TypeOK'
  BY <1>1, <1>2, <1>3, <1>5 DEF IInv, TypeOK, Submit, stored
<1>7. Standing'
  <2>1. Holds(s, b)'
    BY <1>1, <1>2, <1>3, <1>5 DEF Holds, Playing, Settling, Answers
  <2>2. ASSUME NEW u \in Tasks, u # s, task[u].at \in Bound, task[u].battle \in Battles,
               Holds(u, task[u].battle)
        PROVE  Holds(u, task[u].battle)'
    <3>1. /\ battle'[task[u].battle].status = battle[task[u].battle].status
          /\ battle'[task[u].battle].persisted = battle[task[u].battle].persisted
      BY <1>2, <2>2
    <3>2. task'[u] = task[u] /\ UNCHANGED <<row, payouts>>
      BY <1>5, <2>2 DEF Submit, stored
    <3> QED BY <2>2, <3>1, <3>2 DEF Holds, Answers
  <2> QED BY <1>1, <1>5, <2>1, <2>2 DEF IInv, Standing
<1>8. Alone'
  BY <1>5 DEF IInv, Alone, Settling
<1>9. Sound'
  BY <1>1, <1>2 DEF IInv, TypeOK, LiveBattle, Sound, Submit, stored, Playing
<1>10. OnlyOnce'
  <2>1. battle[b].given + 1 <= battle[b].shown
    BY <1>1 DEF IInv, Sound
  <2> QED BY <1>1, <1>2, <2>1 DEF IInv, OnlyOnce, Playing, Submit
<1>11. RowIsTrue'
  <2>1. battle[b].persisted => row[b].status = "IN_PROGRESS"
    BY <1>1 DEF IInv, RowIsTrue, Playing
  <2>2. UNCHANGED <<row, payouts, lesson>>
    BY DEF Submit, stored
  <2> QED BY <1>1, <1>2, <2>1, <2>2 DEF IInv, RowIsTrue
<1> QED BY <1>6, <1>7, <1>8, <1>9, <1>10, <1>11 DEF IInv

LEMMA StartBattleStep ==
  ASSUME IInv, NEW s \in Sockets, StartBattle(s)
  PROVE  IInv'
<1>1. TypeOK'
  BY PveAssumption DEF IInv, TypeOK, Task, Tasks, LiveBattle, LessonBattle, Settling,
      BattleStatus, Ended, At, Home, stored, Questions, Answers, is_busy, StartBattle
<1>2. Standing'
  BY PveAssumption DEF IInv, TypeOK, Task, Tasks, LiveBattle, LessonBattle, Settling,
      BattleStatus, Ended, At, Home, stored, Standing, Holds, Bound, Opened, Playing,
      is_busy, StartBattle
<1>3. Alone'
  BY PveAssumption DEF IInv, TypeOK, Task, Tasks, LiveBattle, LessonBattle, Settling,
      BattleStatus, Ended, At, Home, stored, Standing, Holds, Alone, Bound, is_busy,
      StartBattle
<1>4. Sound'
  BY PveAssumption DEF IInv, TypeOK, Task, Tasks, LiveBattle, LessonBattle, Settling,
      BattleStatus, Ended, At, Home, stored, Standing, Holds, Sound, Bound, Playing,
      is_busy, StartBattle
<1>5. OnlyOnce'
  BY PveAssumption DEF IInv, TypeOK, Task, Tasks, LiveBattle, LessonBattle, Settling,
      BattleStatus, Ended, At, Home, stored, OnlyOnce, Playing, Standing, Holds, Bound,
      Sound, is_busy, StartBattle
<1>6. RowIsTrue'
  BY PveAssumption DEF IInv, TypeOK, Task, Tasks, LiveBattle, LessonBattle, Settling,
      BattleStatus, Ended, At, Home, stored, RowIsTrue, Standing, Holds, Bound, Sound,
      Playing, is_busy, StartBattle
<1> QED BY <1>1, <1>2, <1>3, <1>4, <1>5, <1>6 DEF IInv

LEMMA RejectedStep ==
  ASSUME IInv, NEW s \in Sockets, Rejected(s)
  PROVE  IInv'
<1>1. TypeOK'
  BY DEF IInv, TypeOK, Task, At, stored, Rejected
<1>2. Standing'
  BY DEF IInv, Settling, At, stored, Standing, Holds, Bound, Rejected
<1>3. Alone'
  BY DEF IInv, Settling, At, Alone, Rejected
<1>4. Sound'
  BY DEF IInv, stored, Sound, Rejected
<1>5. OnlyOnce'
  BY DEF IInv, OnlyOnce, Playing, Rejected
<1>6. RowIsTrue'
  BY DEF IInv, stored, RowIsTrue, Rejected
<1> QED BY <1>1, <1>2, <1>3, <1>4, <1>5, <1>6 DEF IInv

LEMMA RegisterStep ==
  ASSUME IInv, NEW s \in Sockets, Register(s)
  PROVE  IInv'
<1>1. TypeOK'
  BY RegisterType DEF IInv
<1>2. Standing'
  BY RegisterStanding
<1>3. Alone'
  BY PveAssumption DEF IInv, TypeOK, Task, Tasks, LiveBattle, LessonBattle, Settling,
      BattleStatus, Ended, At, Home, stored, Standing, Holds, Alone, Bound, Fresh, Unborn,
      is_busy, Register
<1>4. Sound'
  BY PveAssumption DEF IInv, TypeOK, Task, Tasks, LiveBattle, LessonBattle, Settling,
      BattleStatus, Ended, At, Home, stored, Standing, Holds, Sound, Bound, Playing, Fresh,
      Unborn, is_busy, Register
<1>5. OnlyOnce'
  BY PveAssumption DEF IInv, TypeOK, Task, Tasks, LiveBattle, LessonBattle, Settling,
      BattleStatus, Ended, At, Home, stored, OnlyOnce, Playing, Standing, Holds, Bound,
      Sound, Fresh, Unborn, is_busy, Register
<1>6. RowIsTrue'
  BY PveAssumption DEF IInv, TypeOK, Task, Tasks, LiveBattle, LessonBattle, Settling,
      BattleStatus, Ended, At, Home, stored, RowIsTrue, Standing, Holds, Bound, Sound,
      Playing, Fresh, Unborn, is_busy, Register
<1> QED BY <1>1, <1>2, <1>3, <1>4, <1>5, <1>6 DEF IInv

LEMMA CreateBattleStep ==
  ASSUME IInv, NEW s \in Sockets, CreateBattle(s)
  PROVE  IInv'
<1>0. task[s].battle \in Battles
  BY DEF IInv, Standing, Bound, Settling, CreateBattle, Tasks
<1>1. TypeOK'
  BY CreateBattleType, <1>0 DEF IInv
<1>2. Standing'
  BY CreateBattleStanding
<1>3. Alone'
  BY DEF IInv, Settling, At, Alone, CreateBattle
<1>4. Sound'
  BY DEF IInv, Tasks, Standing, Holds, Sound, Bound, CreateBattle
<1>5. OnlyOnce'
  BY DEF IInv, OnlyOnce, Playing, CreateBattle
<1>6. RowIsTrue'
  BY DEF IInv, TypeOK, Tasks, RowIsTrue, Standing, Holds, Bound, Opened, CreateBattle
<1> QED BY <1>1, <1>2, <1>3, <1>4, <1>5, <1>6 DEF IInv

LEMMA RunBattleStep ==
  ASSUME IInv, NEW s \in Sockets, RunBattle(s)
  PROVE  IInv'
<1>0. task[s].battle \in Battles
  BY DEF IInv, Standing, Bound, Settling, RunBattle, Tasks
<1>1. TypeOK'
  BY RunBattleType, <1>0 DEF IInv
<1>2. Standing'
  BY RunBattleStanding
<1>3. Alone'
  BY DEF IInv, TypeOK, Settling, At, Alone, RunBattle
<1>4. Sound'
  BY DEF IInv, TypeOK, LiveBattle, stored, Sound, RunBattle
<1>5. OnlyOnce'
  BY DEF IInv, TypeOK, LiveBattle, OnlyOnce, Playing, RunBattle
<1>6. RowIsTrue'
  BY DEF IInv, TypeOK, stored, RowIsTrue, RunBattle
<1> QED BY <1>1, <1>2, <1>3, <1>4, <1>5, <1>6 DEF IInv

LEMMA RecordStep ==
  ASSUME IInv, NEW s \in Sockets, Record(s)
  PROVE  IInv'
<1>0. task[s].battle \in Battles /\ task[s].answer \in Answers
  BY DEF IInv, Standing, Bound, Settling, Record, Holds, Tasks
<1>1. TypeOK'
  BY RecordType, <1>0 DEF IInv
<1>2. Standing'
  BY DEF IInv, Settling, At, stored, Standing, Holds, Bound, Record
<1>3. Alone'
  BY DEF IInv, Settling, At, Alone, Record
<1>4. Sound'
  BY DEF IInv, stored, Sound, Record
<1>5. OnlyOnce'
  BY DEF IInv, OnlyOnce, Playing, Record
<1>6. RowIsTrue'
  BY DEF IInv, stored, RowIsTrue, Record
<1> QED BY <1>1, <1>2, <1>3, <1>4, <1>5, <1>6 DEF IInv

LEMMA DrainedStep ==
  ASSUME IInv, NEW t \in Tasks, Drained(t)
  PROVE  IInv'
<1>1. TypeOK'
  BY DrainedType DEF IInv
<1>2. Standing'
  BY DrainedStanding
<1>3. Alone'
  BY DrainedStanding
<1>4. Sound'
  BY DEF IInv, stored, Sound, Drained
<1>5. OnlyOnce'
  BY DEF IInv, OnlyOnce, Playing, Drained
<1>6. RowIsTrue'
  BY DEF IInv, stored, RowIsTrue, Drained
<1> QED BY <1>1, <1>2, <1>3, <1>4, <1>5, <1>6 DEF IInv

LEMMA ClaimStep ==
  ASSUME IInv, NEW t \in Tasks, Claim(t)
  PROVE  IInv'
<1>0. task[t].battle \in Battles /\ battle[task[t].battle].status \in BattleStatus
  BY DEF IInv, Standing, Bound, Settling, Claim, Holds, BattleStatus
<1>1. TypeOK'
  BY ClaimType, <1>0 DEF IInv
<1>2. Standing'
  BY ClaimRest
<1>3. Alone'
  BY ClaimRest
<1>4. Sound'
  BY DEF IInv, TypeOK, Settling, Standing, Holds, Sound, Bound, Claim
<1>5. OnlyOnce'
  BY DEF IInv, OnlyOnce, Playing, Claim
<1>6. RowIsTrue'
  BY ClaimRest
<1> QED BY <1>1, <1>2, <1>3, <1>4, <1>5, <1>6 DEF IInv

LEMMA PayStep ==
  ASSUME IInv, NEW t \in Tasks, Pay(t)
  PROVE  IInv'
<1>0. task[t].battle \in Battles
  BY DEF IInv, Standing, Bound, Settling, Pay
<1>1. TypeOK'
  BY PayType, <1>0 DEF IInv
<1>2. Standing'
  BY PayStanding
<1>3. Alone'
  BY DEF IInv, Settling, Alone, Pay
<1>4. Sound'
  BY DEF IInv, Settling, Standing, Holds, Sound, Bound, Pay
<1>5. OnlyOnce'
  BY DEF IInv, OnlyOnce, Playing, Pay
<1>6. RowIsTrue'
  BY DEF IInv, Settling, RowIsTrue, Standing, Holds, Bound, Pay
<1> QED BY <1>1, <1>2, <1>3, <1>4, <1>5, <1>6 DEF IInv

LEMMA CloseRowStep ==
  ASSUME IInv, NEW t \in Tasks, CloseRow(t)
  PROVE  IInv'
<1>0. task[t].battle \in Battles
  BY DEF IInv, Standing, Bound, Settling, CloseRow
<1>1. TypeOK'
  BY CloseRowType, <1>0 DEF IInv
<1>2. Standing'
  BY CloseRowStanding
<1>3. Alone'
  BY DEF IInv, Settling, Alone, AfterSave, CloseRow
<1>4. Sound'
  BY DEF IInv, Settling, Standing, Holds, Sound, Bound, CloseRow
<1>5. OnlyOnce'
  BY DEF IInv, OnlyOnce, Playing, CloseRow
<1>6. RowIsTrue'
  BY DEF IInv, Settling, RowIsTrue, Standing, Holds, Bound, Sound, CloseRow
<1> QED BY <1>1, <1>2, <1>3, <1>4, <1>5, <1>6 DEF IInv

LEMMA CompleteLessonStep ==
  ASSUME IInv, NEW t \in Tasks, CompleteLesson(t)
  PROVE  IInv'
<1>1. TypeOK'
  BY CompleteLessonType DEF IInv
<1>2. Standing'
  BY DEF IInv, Settling, Standing, Holds, Bound, CompleteLesson
<1>3. Alone'
  BY DEF IInv, Settling, Alone, CompleteLesson
<1>4. Sound'
  BY DEF IInv, Sound, CompleteLesson
<1>5. OnlyOnce'
  BY DEF IInv, OnlyOnce, Playing, CompleteLesson
<1>6. RowIsTrue'
  BY DEF IInv, Settling, RowIsTrue, Standing, Holds, Bound, CompleteLesson
<1> QED BY <1>1, <1>2, <1>3, <1>4, <1>5, <1>6 DEF IInv

LEMMA ReportStep ==
  ASSUME IInv, NEW t \in Tasks, Report(t)
  PROVE  IInv'
<1>1. TypeOK'
  BY ReportType DEF IInv
<1>2. Standing'
  BY DEF IInv, Settling, stored, Standing, Holds, Bound, Report
<1>3. Alone'
  BY DEF IInv, Settling, Alone, Report
<1>4. Sound'
  BY DEF IInv, stored, Sound, Report
<1>5. OnlyOnce'
  BY DEF IInv, OnlyOnce, Playing, Report
<1>6. RowIsTrue'
  BY DEF IInv, stored, RowIsTrue, Report
<1> QED BY <1>1, <1>2, <1>3, <1>4, <1>5, <1>6 DEF IInv

LEMMA TeardownStep ==
  ASSUME IInv, NEW t \in Tasks, Teardown(t)
  PROVE  IInv'
<1>0. task[t].battle \in Battles
  BY DEF IInv, Standing, Bound, Settling, Teardown
<1>1. TypeOK'
  BY TeardownType, <1>0 DEF IInv
<1>2. Standing'
  BY TeardownStanding
<1>3. Alone'
  BY DEF IInv, Settling, At, Home, Alone, Teardown
<1>4. Sound'
  BY DEF IInv, TypeOK, LiveBattle, stored, Sound, Gone, Unborn, Teardown
<1>5. OnlyOnce'
  BY DEF IInv, TypeOK, LiveBattle, OnlyOnce, Playing, Gone, Unborn, Teardown
<1>6. RowIsTrue'
  BY DEF IInv, stored, RowIsTrue, Gone, Unborn, Teardown
<1> QED BY <1>1, <1>2, <1>3, <1>4, <1>5, <1>6 DEF IInv

LEMMA SwingSentStep ==
  ASSUME IInv, NEW b \in Battles, SwingSent(b)
  PROVE  IInv'
<1>1. TypeOK'
  BY SwingSentType DEF IInv
<1>2. Standing'
  BY DEF IInv, Settling, stored, Standing, Holds, Bound, SwingSent
<1>3. Alone'
  BY DEF IInv, Settling, Alone, SwingSent
<1>4. Sound'
  BY DEF IInv, stored, Sound, SwingSent
<1>5. OnlyOnce'
  BY DEF IInv, OnlyOnce, Playing, SwingSent
<1>6. RowIsTrue'
  BY DEF IInv, stored, RowIsTrue, SwingSent
<1> QED BY <1>1, <1>2, <1>3, <1>4, <1>5, <1>6 DEF IInv

LEMMA PushQuestionStep ==
  ASSUME IInv, NEW b \in Battles, PushQuestion(b)
  PROVE  IInv'
<1>1. TypeOK'
  BY PushQuestionType DEF IInv
<1>2. Standing'
  BY DEF IInv, TypeOK, stored, Standing, Holds, PushQuestion
<1>3. Alone'
  BY DEF IInv, Alone, PushQuestion
<1>4. Sound'
  BY DEF IInv, TypeOK, LiveBattle, PushQuestion
<1>5. OnlyOnce'
  BY DEF IInv, TypeOK, LiveBattle, PushQuestion
<1>6. RowIsTrue'
  BY DEF IInv, TypeOK, stored, RowIsTrue, PushQuestion
<1> QED BY <1>1, <1>2, <1>3, <1>4, <1>5, <1>6 DEF IInv

LEMMA LoopReturnsStep ==
  ASSUME IInv, NEW b \in Battles, LoopReturns(b)
  PROVE  IInv'
<1>1. TypeOK'
  BY DEF IInv, TypeOK, Task, At, stored, LoopReturns
<1>2. Standing'
  BY DEF IInv, Settling, At, stored, Standing, Holds, Bound, LoopReturns
<1>3. Alone'
  BY DEF IInv, Settling, At, Alone, LoopReturns
<1>4. Sound'
  BY DEF IInv, stored, Sound, LoopReturns
<1>5. OnlyOnce'
  BY DEF IInv, OnlyOnce, Playing, LoopReturns
<1>6. RowIsTrue'
  BY DEF IInv, stored, RowIsTrue, LoopReturns
<1> QED BY <1>1, <1>2, <1>3, <1>4, <1>5, <1>6 DEF IInv

LEMMA MonsterSwingStep ==
  ASSUME IInv, NEW b \in Battles, MonsterSwing(b)
  PROVE  IInv'
<1>1. TypeOK'
  BY MonsterSwingType DEF IInv
<1>2. Standing'
  BY DEF IInv, Settling, stored, Standing, Holds, Bound, Awake, MonsterSwing
<1>3. Alone'
  BY DEF IInv, Settling, Alone, MonsterSwing
<1>4. Sound'
  BY DEF IInv, stored, Sound, MonsterSwing
<1>5. OnlyOnce'
  BY DEF IInv, OnlyOnce, Playing, MonsterSwing
<1>6. RowIsTrue'
  BY DEF IInv, stored, RowIsTrue, MonsterSwing
<1> QED BY <1>1, <1>2, <1>3, <1>4, <1>5, <1>6 DEF IInv

LEMMA GradeStep ==
  ASSUME IInv, NEW b \in Battles, Grade(b)
  PROVE  IInv'
<1>1. TypeOK'
  BY DEF IInv, TypeOK, Answers, Grade
<1>2. Standing'
  BY DEF IInv, Standing, Holds, Grade
<1>3. Alone'
  BY DEF IInv, Alone, Grade
<1>4. Sound'
  BY DEF IInv, Sound, Grade
<1>5. OnlyOnce'
  BY DEF IInv, OnlyOnce, Playing, Grade
<1>6. RowIsTrue'
  BY DEF IInv, TypeOK, RowIsTrue, Answers, Grade
<1> QED BY <1>1, <1>2, <1>3, <1>4, <1>5, <1>6 DEF IInv

LEMMA GradeFailsStep ==
  ASSUME IInv, NEW b \in Battles, GradeFails(b)
  PROVE  IInv'
<1>1. TypeOK'
  BY PveAssumption DEF IInv, TypeOK, stored, Fault, GradeFails
<1>2. Standing'
  BY DEF IInv, stored, Standing, Holds, GradeFails
<1>3. Alone'
  BY DEF IInv, Alone, GradeFails
<1>4. Sound'
  BY DEF IInv, stored, Sound, GradeFails
<1>5. OnlyOnce'
  BY DEF IInv, OnlyOnce, Playing, GradeFails
<1>6. RowIsTrue'
  BY DEF IInv, stored, RowIsTrue, GradeFails
<1> QED BY <1>1, <1>2, <1>3, <1>4, <1>5, <1>6 DEF IInv

LEMMA CrashStep ==
  ASSUME IInv, Crash
  PROVE  IInv'
<1>1. TypeOK'
  BY CrashType DEF IInv
<1>2. Standing'
  BY DEF Settling, At, Home, Standing, Bound, Resting, Crash
<1>3. Alone'
  BY DEF Settling, At, Home, Alone, Resting, Crash
<1>4. Sound'
  BY CrashRest
<1>5. OnlyOnce'
  BY CrashRest
<1>6. RowIsTrue'
  BY CrashRest
<1> QED BY <1>1, <1>2, <1>3, <1>4, <1>5, <1>6 DEF IInv

LEMMA FaultIsBounded == ASSUME TypeOK, Fault PROVE faults' \in 0..MaxFaults
BY PveAssumption DEF TypeOK, Fault

LEMMA HangUpStep ==
  ASSUME IInv, NEW s \in Sockets, HangUp(s),
         \/ UNCHANGED row
         \/ task[s].at = "creating" /\ row' = [row EXCEPT ![task[s].battle] = Opened],
         UNCHANGED <<user_battle, grading, payouts, lesson, owed>>, faults' \in 0..MaxFaults
  PROVE  IInv'
<1> DEFINE b == user_battle
<1>1. CASE is_busy /\ battle[b].socket = s /\ Playing(b)
  <2>1. b \in Battles
    BY <1>1 DEF IInv, TypeOK, is_busy
  <2>2. FinishIn(s, b, "ABANDONED", [battle[b] EXCEPT !.socket = None])
    BY <1>1 DEF HangUp
  <2> QED BY <1>1, <2>1, <2>2, FinishKeeps DEF Tasks, Ended
<1>2. CASE ~(is_busy /\ battle[b].socket = s /\ Playing(b))
  <2>1. task' = [task EXCEPT ![s] = Home(s)]
    BY <1>2 DEF HangUp
  <2>2. \/ UNCHANGED battle
        \/ \E c \in Battles : battle' = [battle EXCEPT ![c].socket = None]
    BY <1>2 DEF HangUp, IInv, TypeOK, is_busy
  <2> QED BY <2>1, <2>2, HangUpKeeps DEF Tasks
<1> QED BY <1>1, <1>2

LEMMA DisconnectStep ==
  ASSUME IInv, NEW s \in Sockets, Disconnect(s)
  PROVE  IInv'
BY HangUpStep DEF Disconnect, stored, IInv, TypeOK

LEMMA StartFailsStep ==
  ASSUME IInv, NEW s \in Sockets, StartFails(s)
  PROVE  IInv'
BY HangUpStep, FaultIsBounded DEF StartFails, IInv

LEMMA LeaveBattleStep ==
  ASSUME IInv, NEW s \in Sockets, LeaveBattle(s)
  PROVE  IInv'
<1>1. user_battle \in Battles
  BY DEF LeaveBattle, IInv, TypeOK, is_busy
<1> QED BY <1>1, FinishKeeps DEF LeaveBattle, IInv, TypeOK, stored, Tasks, Ended

LEMMA CloseStaleStep ==
  ASSUME IInv, CloseStale
  PROVE  IInv'
<1>1. user_battle \in Battles
  BY DEF CloseStale, IInv, TypeOK, is_busy
<1> QED BY <1>1, FinishKeeps DEF CloseStale, IInv, TypeOK, stored, Tasks, Ended

LEMMA MonsterDownStep ==
  ASSUME IInv, NEW b \in Battles, MonsterDown(b)
  PROVE  IInv'
BY FinishKeeps DEF MonsterDown, Awake, IInv, TypeOK, stored, Tasks, Ended

LEMMA PlayerDownStep ==
  ASSUME IInv, NEW b \in Battles, PlayerDown(b)
  PROVE  IInv'
BY FinishKeeps DEF PlayerDown, IInv, TypeOK, stored, Tasks, Ended

LEMMA FinishFailsStep ==
  ASSUME IInv, NEW t \in Tasks, FinishFails(t)
  PROVE  IInv'
<1>1. faults' \in 0..MaxFaults
  BY FaultIsBounded DEF IInv, FinishFails
<1>2. CASE t \in Sockets /\ HangUp(t)
  BY <1>1, <1>2, HangUpStep DEF FinishFails, stored
<1>3. CASE t = Sweep /\ task' = [task EXCEPT ![t] = Home(t)] /\ UNCHANGED battle
  BY <1>1, <1>3, HangUpKeeps DEF FinishFails, stored
<1>4. CASE task' = [task EXCEPT ![t].at = "teardown"] /\ UNCHANGED battle
  <2>1. task' \in [Tasks -> Task]
    BY <1>4, MoveType DEF IInv, Points, Settling
  <2>2. /\ task[t].at \in Settling /\ task'[t].at = "teardown" /\ task'[t].battle = task[t].battle
        /\ \A u \in Tasks : u # t => task'[u] = task[u]
        /\ UNCHANGED <<battle, user_battle, grading, row, payouts, lesson, owed>>
    BY <1>4 DEF FinishFails, IInv, TypeOK, Task, stored, Settling
  <2>3. TypeOK'
    BY <1>1, <2>1, <2>2 DEF IInv, TypeOK
  <2>4. ASSUME NEW u \in Tasks, task[u].at \in Bound, task[u].battle \in Battles,
               Holds(u, task[u].battle)
        PROVE  Holds(u, task[u].battle)'
    BY <2>2, <2>4 DEF Holds, Settling
  <2>5. Standing'
    BY <2>2, <2>4 DEF IInv, Standing, Bound
  <2>6. Alone'
    BY <2>2 DEF IInv, Alone, Settling
  <2>7. Sound' /\ OnlyOnce' /\ RowIsTrue'
    BY <2>2 DEF IInv, Sound, OnlyOnce, RowIsTrue, Playing
  <2> QED BY <2>3, <2>5, <2>6, <2>7 DEF IInv
<1> QED BY <1>2, <1>3, <1>4 DEF FinishFails

-----------------------------------------------------------------------------
LEMMA InitHolds == Init => IInv
<1> SUFFICES ASSUME Init PROVE IInv
  OBVIOUS
<1>1. TypeOK
  BY HomeIsTask, UnbornIsLive, PveAssumption
  DEF Init, TypeOK, Resting, LessonBattle
<1>2. \A t \in Tasks : task[t].at \notin Bound
  BY HomeIsTask DEF Init, Resting
<1>3. Standing /\ Alone
  BY <1>2 DEF Standing, Alone, Bound
<1>4. \A b \in Battles : battle[b] = Unborn /\ row[b] = [status |-> None, left |-> None]
  BY DEF Init
<1>5. Sound /\ OnlyOnce /\ RowIsTrue
  BY <1>4, PveAssumption DEF Init, Sound, OnlyOnce, RowIsTrue, Unborn, Playing
<1> QED BY <1>1, <1>3, <1>5 DEF IInv

LEMMA StutterKeeps == IInv /\ UNCHANGED vars => IInv'
<1> SUFFICES ASSUME IInv, UNCHANGED vars PROVE IInv'
  OBVIOUS
<1>1. TypeOK' /\ Alone' /\ Sound'
  BY DEF IInv, vars, TypeOK, Alone, Sound
<1>2. Standing'
  BY DEF IInv, vars, Standing, Holds
<1>3. OnlyOnce' /\ RowIsTrue'
  BY DEF IInv, vars, OnlyOnce, RowIsTrue, Playing
<1> QED BY <1>1, <1>2, <1>3 DEF IInv

LEMMA NextKeeps == IInv /\ [Next]_vars => IInv'
<1> SUFFICES ASSUME IInv, [Next]_vars PROVE IInv'
  OBVIOUS
<1>1. ASSUME NEW s \in Sockets, StartBattle(s) \/ Rejected(s) \/ Continue(s)
      PROVE  IInv'
  BY <1>1, StartBattleStep, RejectedStep, RegisterStep, CreateBattleStep, RunBattleStep,
     RecordStep DEF Continue
<1>2. ASSUME NEW s \in Sockets, StartFails(s) \/ LeaveBattle(s) \/ Disconnect(s)
      PROVE  IInv'
  BY <1>2, StartFailsStep, LeaveBattleStep, DisconnectStep
<1>3. ASSUME NEW s \in Sockets, NEW right \in BOOLEAN, Submit(s, right)
      PROVE  IInv'
  BY <1>3, SubmitStep
<1>4. ASSUME NEW t \in Tasks, Settle(t) \/ FinishFails(t)
      PROVE  IInv'
  BY <1>4, DrainedStep, ClaimStep, PayStep, CloseRowStep, CompleteLessonStep, ReportStep,
     TeardownStep, FinishFailsStep DEF Settle
<1>5. ASSUME NEW b \in Battles, Tick(b) \/ MonsterSwing(b) \/ Grade(b) \/ GradeFails(b)
      PROVE  IInv'
  BY <1>5, MonsterDownStep, PlayerDownStep, SwingSentStep, PushQuestionStep,
     LoopReturnsStep, MonsterSwingStep, GradeStep, GradeFailsStep DEF Tick
<1>6. ASSUME CloseStale \/ Crash
      PROVE  IInv'
  BY <1>6, CloseStaleStep, CrashStep
<1> QED BY <1>1, <1>2, <1>3, <1>4, <1>5, <1>6, StutterKeeps DEF Next

-----------------------------------------------------------------------------
(* The drain: what is owed is mastered or still with a grading task, and the *)
(* task that drains holds on to those it found.                             *)

\* Question q is on its way to the study path, in one of these answers.
Coming(q, answers) == \E a \in answers : a.right /\ a.question = q

Counting ==
  faults = 0 =>
    /\ \A b \in Battles : \A q \in owed[b] : q \in lesson.mastered \/ Coming(q, grading[b])
    /\ \A t \in Tasks : task[t].at = "drain" =>
         \A q \in owed[task[t].battle] :
           q \in lesson.mastered \/ Coming(q, task[t].pending \cap grading[task[t].battle])
    /\ DrainedFirst

(* A step beside it: no answer is recorded or graded, and no task comes to   *)
(* drain or settle that did not already.                                    *)
LEMMA BesideKeeps ==
  ASSUME Counting, UNCHANGED <<grading, lesson, owed>>, faults' = 0 => faults = 0,
         \A t \in Tasks :
           \/ task'[t] = task[t]
           \/ task'[t].at \notin Judging \cup {"drain"}
           \/ task[t].at \in Judging /\ task'[t].at \in Judging /\ task'[t].battle = task[t].battle
  PROVE  Counting'
BY DEF Counting, DrainedFirst, Judging, Coming

(* `_finish' begins: it takes every grading task there is, or finds none.    *)
LEMMA FinishCounts ==
  ASSUME IInv, Counting, NEW t \in Tasks, NEW b \in Battles, NEW status, NEW ended,
         FinishIn(t, b, status, ended),
         UNCHANGED <<grading, lesson, owed>>, faults' = 0 => faults = 0
  PROVE  Counting'
<1> SUFFICES ASSUME faults' = 0 PROVE Counting'
  BY DEF Counting
<1>1. /\ task'[t] = Finishing(b)
      /\ \A u \in Tasks : u # t => task'[u] = task[u] \/ task'[u].at = "none"
  BY DEF FinishIn, At
<1>2. /\ Finishing(b).battle = b /\ Finishing(b).pending = grading[b]
      /\ Finishing(b).at = "drain" \/ grading[b] = {}
  BY DEF Finishing
<1>3. \A q \in owed[b] : q \in lesson.mastered \/ Coming(q, grading[b])
  BY DEF Counting
<1>4. task'[t].at = "drain" =>
        \A q \in owed[b] : q \in lesson.mastered \/ Coming(q, task'[t].pending \cap grading[b])
  BY <1>1, <1>2, <1>3 DEF Coming
<1>5. task'[t].at \in Judging => owed[b] \subseteq lesson.mastered
  BY <1>1, <1>2, <1>3 DEF Coming, Judging
<1> QED BY <1>1, <1>2, <1>4, <1>5 DEF Counting, DrainedFirst, Judging

LEMMA DrainedCounts ==
  ASSUME IInv, Counting, NEW t \in Tasks, Drained(t)
  PROVE  Counting'
<1>1. /\ task'[t].battle = task[t].battle /\ task'[t].at \in {"claim", "read"}
      /\ \A u \in Tasks : u # t => task'[u] = task[u]
  BY DEF IInv, TypeOK, Task, Drained, Onward
<1>2. faults = 0 => owed[task[t].battle] \subseteq lesson.mastered
  BY DEF Counting, Drained, Coming
<1>3. UNCHANGED <<grading, lesson, owed, faults>>
  BY DEF Drained, stored
<1> SUFFICES ASSUME faults = 0 PROVE Counting'
  BY <1>3 DEF Counting
<1>4. \A u \in Tasks : task'[u].at = "drain" => u # t /\ task'[u] = task[u]
  BY <1>1
<1>5. ASSUME NEW u \in Tasks, task'[u].at \in Judging
      PROVE  owed'[task'[u].battle] \subseteq lesson'.mastered
  BY <1>1, <1>2, <1>3, <1>5 DEF Counting, DrainedFirst
<1> QED BY <1>3, <1>4, <1>5 DEF Counting, DrainedFirst, Coming

(* Nobody settles a battle that is being fought, so nothing is added to what *)
(* is owed once it is over.                                                 *)
LEMMA RecordCounts ==
  ASSUME IInv, Counting, NEW s \in Sockets, Record(s)
  PROVE  Counting'
<1> DEFINE b == task[s].battle
           a == task[s].answer
<1>1. /\ b \in Battles /\ a \in Answers
      /\ task'[s].at = "idle" /\ \A u \in Tasks : u # s => task'[u] = task[u]
  BY DEF IInv, TypeOK, Standing, Holds, Bound, Record, At, Tasks
<1>2. \A c \in Battles : grading[c] \subseteq grading'[c]
  BY DEF IInv, TypeOK, Record
<1>3. \A c \in Battles : c # b => owed'[c] = owed[c]
  BY DEF IInv, TypeOK, Record
<1>4. owed'[b] = owed[b]
      \/ (/\ Playing(b) /\ owed'[b] = owed[b] \cup {a.question} /\ a.right /\ a \in grading'[b])
  <2>1. CASE Playing(b) /\ pool_pass(b) = 0 /\ a.right
    <3>1. owed'[b] = owed[b] \cup {a.question}
      BY <1>1, <2>1 DEF IInv, TypeOK, Record
    <3>2. a \in grading'[b]
      BY <1>1, <2>1 DEF IInv, TypeOK, Record
    <3> QED BY <2>1, <3>1, <3>2
  <2>2. CASE ~(Playing(b) /\ pool_pass(b) = 0 /\ a.right)
    BY <1>1, <2>2 DEF IInv, TypeOK, Record
  <2> QED BY <2>1, <2>2
<1>5. ASSUME Playing(b), NEW u \in Tasks, task[u].at \in Settling
      PROVE  task[u].battle # b
  BY <1>5 DEF IInv, Standing, Holds, Bound, Playing, Ended
<1>6. \A u \in Tasks : task'[u].at \in Settling =>
        u # s /\ task'[u] = task[u] /\ task[u].battle \in Battles /\ owed'[task[u].battle] = owed[task[u].battle]
  BY <1>1, <1>3, <1>4, <1>5 DEF Settling, IInv, Standing, Bound
<1>7. UNCHANGED <<lesson, faults>>
  BY DEF Record, stored
<1> SUFFICES ASSUME faults = 0 PROVE Counting'
  BY <1>7 DEF Counting
<1>8. \A c \in Battles : \A q \in owed'[c] : q \in lesson.mastered \/ Coming(q, grading'[c])
  BY <1>2, <1>3, <1>4 DEF Counting, Coming
<1>9. ASSUME NEW u \in Tasks, task'[u].at = "drain", NEW q \in owed'[task'[u].battle]
      PROVE  q \in lesson.mastered \/ Coming(q, task'[u].pending \cap grading'[task'[u].battle])
  <2>1. /\ task'[u] = task[u] /\ task[u].battle \in Battles /\ q \in owed[task[u].battle]
    BY <1>6, <1>9 DEF Settling
  <2> QED BY <1>2, <1>9, <2>1 DEF Counting, Coming
<1>10. DrainedFirst'
  BY <1>6, <1>7 DEF Counting, DrainedFirst, Judging, Settling
<1> QED BY <1>7, <1>8, <1>9, <1>10 DEF Counting

(* An answer leaves its grading task for what is mastered.                   *)
LEMMA GradeCounts ==
  ASSUME IInv, Counting, NEW b \in Battles, Grade(b)
  PROVE  Counting'
<1> DEFINE Kept(a) == lesson.mastered \cup (IF a.right THEN {a.question} ELSE {})
<1>0. PICK a \in grading[b] :
        /\ grading' = [grading EXCEPT ![b] = @ \ {a}]
        /\ lesson' = [mastered |-> Kept(a), completed |-> lesson.completed \/ Kept(a) = Questions]
  BY Zenon DEF Grade
<1>1. /\ grading' = [grading EXCEPT ![b] = @ \ {a}]
      /\ lesson'.mastered = lesson.mastered \cup (IF a.right THEN {a.question} ELSE {})
  BY <1>0
<1>2. ASSUME NEW c \in Battles PROVE grading[c] \ {a} \subseteq grading'[c]
  <2>1. c \in DOMAIN grading
    BY DEF IInv, TypeOK
  <2>2. grading'[c] = IF c = b THEN grading[b] \ {a} ELSE grading[c]
    BY ONLY <1>1, <2>1
  <2> QED BY <2>2
<1>3. /\ lesson.mastered \subseteq lesson'.mastered
      /\ a.right => a.question \in lesson'.mastered
  BY <1>1
<1>4. UNCHANGED <<task, owed, faults>>
  BY DEF Grade
<1>5. ASSUME NEW q, NEW c \in Battles, NEW answers, Coming(q, answers \cap grading[c])
      PROVE  q \in lesson'.mastered \/ Coming(q, answers \cap grading'[c])
  BY <1>2, <1>3, <1>5 DEF Coming
<1>6. ASSUME NEW q, NEW c \in Battles, Coming(q, grading[c])
      PROVE  q \in lesson'.mastered \/ Coming(q, grading'[c])
  BY <1>2, <1>3, <1>6 DEF Coming
<1>7. \A t \in Tasks : task[t].at = "drain" => task[t].battle \in Battles
  BY DEF IInv, Standing, Bound, Settling
<1> HIDE DEF Coming
<1> QED BY <1>3, <1>4, <1>5, <1>6, <1>7 DEF Counting, DrainedFirst

(* The report forgets what was owed.                                         *)
LEMMA ReportCounts ==
  ASSUME IInv, Counting, NEW t \in Tasks, Report(t)
  PROVE  Counting'
<1>1. /\ task'[t].at = "teardown" /\ \A u \in Tasks : u # t => task'[u] = task[u]
  BY DEF IInv, TypeOK, Task, Report
<1>2. \A c \in Battles : owed'[c] \subseteq owed[c]
  BY DEF IInv, TypeOK, Report
<1>3. \A u \in Tasks : task[u].at \in Judging \cup {"drain"} => task[u].battle \in Battles
  BY DEF IInv, Standing, Bound, Settling, Judging
<1>4. UNCHANGED <<grading, lesson, faults>>
  BY DEF Report, stored
<1> QED BY <1>1, <1>2, <1>3, <1>4 DEF Counting, DrainedFirst, Judging

LEMMA CountingKept == IInv /\ Counting /\ [Next]_vars => Counting'
<1> SUFFICES ASSUME IInv, Counting, [Next]_vars PROVE Counting'
  OBVIOUS
<1>1. ASSUME NEW s \in Sockets, StartBattle(s) \/ Rejected(s) \/ Register(s) \/ CreateBattle(s)
                                \/ RunBattle(s)
      PROVE  Counting'
  <2>1. UNCHANGED <<grading, lesson, owed, faults>>
    BY <1>1 DEF StartBattle, Rejected, Register, CreateBattle, RunBattle, stored
  <2>2. \A u \in Tasks : task'[u] = task[u] \/ task'[u].at \notin Judging \cup {"drain"}
    BY <1>1 DEF StartBattle, Rejected, Register, CreateBattle, RunBattle, At, Judging,
       IInv, TypeOK
  <2> QED BY <2>1, <2>2, BesideKeeps
<1>2. ASSUME NEW s \in Sockets, Record(s) PROVE Counting'
  BY <1>2, RecordCounts
<1>3. ASSUME Fault PROVE Counting'
  BY <1>3 DEF Fault, Counting, DrainedFirst, IInv, TypeOK
<1>4. ASSUME NEW s \in Sockets, LeaveBattle(s) PROVE Counting'
  <2>1. user_battle \in Battles
    BY <1>4 DEF LeaveBattle, IInv, TypeOK, is_busy
  <2> QED BY <1>4, <2>1, FinishCounts DEF LeaveBattle, stored, Tasks
<1>5. ASSUME NEW s \in Sockets, Disconnect(s) PROVE Counting'
  <2>1. user_battle \in Battles
    BY <1>5 DEF Disconnect, IInv, TypeOK, is_busy
  <2>2. UNCHANGED <<grading, lesson, owed, faults>>
    BY <1>5 DEF Disconnect, stored
  <2>3. \/ FinishIn(s, user_battle, "ABANDONED", [battle[user_battle] EXCEPT !.socket = None])
        \/ task' = [task EXCEPT ![s] = Home(s)]
    BY <1>5 DEF Disconnect, HangUp
  <2>4. CASE task' = [task EXCEPT ![s] = Home(s)]
    BY <2>2, <2>4, BesideKeeps, HomeIsTask DEF Bound, Judging, Settling, IInv, TypeOK
  <2> QED BY <2>1, <2>2, <2>3, <2>4, FinishCounts DEF Tasks
<1>6. ASSUME NEW s \in Sockets, NEW right \in BOOLEAN, Submit(s, right) PROVE Counting'
  <2>1. \A u \in Tasks : task'[u] = task[u] \/ task'[u].at = "answered"
    BY <1>6 DEF Submit, At, IInv, TypeOK
  <2> QED BY <1>6, <2>1, BesideKeeps DEF Submit, stored, Judging
<1>7. ASSUME NEW t \in Tasks, Claim(t) \/ Pay(t) \/ CloseRow(t) \/ CompleteLesson(t)
      PROVE  Counting'
  <2>1. UNCHANGED <<grading, owed, faults>> /\ lesson'.mastered = lesson.mastered
    BY <1>7 DEF Claim, Pay, CloseRow, CompleteLesson, IInv, TypeOK
  <2>2. \A u \in Tasks :
          \/ task'[u] = task[u]
          \/ /\ task[u].at \in Judging /\ task'[u].at \in Judging
             /\ task'[u].battle = task[u].battle
    BY <1>7 DEF Claim, Pay, CloseRow, CompleteLesson, AfterSave, Judging, IInv, TypeOK, Task
  <2> QED BY <2>1, <2>2 DEF Counting, DrainedFirst, Judging, Coming
<1>8. ASSUME NEW t \in Tasks, Drained(t) \/ Report(t) PROVE Counting'
  BY <1>8, DrainedCounts, ReportCounts
<1>9. ASSUME NEW t \in Tasks, Teardown(t) PROVE Counting'
  <2>1. \A u \in Tasks : task'[u] = task[u] \/ task'[u].at \notin Judging \cup {"drain"}
    BY <1>9, HomeIsTask DEF Teardown, Bound, Settling, Judging, IInv, TypeOK
  <2> QED BY <1>9, <2>1, BesideKeeps DEF Teardown, stored
<1>10. ASSUME NEW b \in Battles, MonsterDown(b) \/ PlayerDown(b) PROVE Counting'
  BY <1>10, FinishCounts DEF MonsterDown, PlayerDown, stored, Tasks
<1>11. ASSUME NEW b \in Battles, SwingSent(b) \/ PushQuestion(b) \/ LoopReturns(b) \/ MonsterSwing(b)
       PROVE  Counting'
  <2>1. UNCHANGED <<grading, lesson, owed, faults>>
    BY <1>11 DEF SwingSent, PushQuestion, LoopReturns, MonsterSwing, stored
  <2>2. \A u \in Tasks : task'[u] = task[u] \/ task'[u].at \notin Judging \cup {"drain"}
    BY <1>11 DEF SwingSent, PushQuestion, LoopReturns, MonsterSwing, At, Judging, IInv, TypeOK,
       Task
  <2> QED BY <2>1, <2>2, BesideKeeps
<1>12. ASSUME NEW b \in Battles, Grade(b) PROVE Counting'
  BY <1>12, GradeCounts
<1>13. ASSUME CloseStale PROVE Counting'
  <2>1. user_battle \in Battles
    BY <1>13 DEF CloseStale, IInv, TypeOK, is_busy
  <2> QED BY <1>13, <2>1, FinishCounts DEF CloseStale, stored, Tasks
<1>14. ASSUME UNCHANGED vars PROVE Counting'
  BY <1>14 DEF vars, Counting, DrainedFirst, Coming
<1>15. \/ Fault \/ UNCHANGED vars
       \/ \E s \in Sockets : \/ StartBattle(s) \/ Rejected(s) \/ Register(s) \/ CreateBattle(s)
                             \/ RunBattle(s) \/ Record(s) \/ LeaveBattle(s) \/ Disconnect(s)
                             \/ \E right \in BOOLEAN : Submit(s, right)
       \/ \E t \in Tasks : \/ Claim(t) \/ Pay(t) \/ CloseRow(t) \/ CompleteLesson(t)
                           \/ Drained(t) \/ Report(t) \/ Teardown(t)
       \/ \E b \in Battles : \/ MonsterDown(b) \/ PlayerDown(b) \/ SwingSent(b) \/ PushQuestion(b)
                             \/ LoopReturns(b) \/ MonsterSwing(b) \/ Grade(b)
       \/ CloseStale
  BY DEF Next, Continue, Settle, Tick, StartFails, FinishFails, GradeFails, Crash
<1> QED BY <1>1, <1>2, <1>3, <1>4, <1>5, <1>6, <1>7, <1>8, <1>9, <1>10, <1>11, <1>12, <1>13,
           <1>14, <1>15

-----------------------------------------------------------------------------
(* Every step of a socket, a loop, a grading task, the sweep or a dying      *)
(* process keeps the invariant.                                              *)
THEOREM InvariantHolds == Spec => []IInv
BY InitHolds, NextKeeps, PTL DEF Spec

(* Battles, tasks, rows and payouts keep their types: blows never take the   *)
(* monster or the player below zero.                                         *)
THEOREM TypesHold == Spec => []TypeOK
<1>1. IInv => TypeOK
  BY DEF IInv
<1> QED BY <1>1, InvariantHolds, PTL

(* `start_battle' checks twice, under the lock the second time, so the       *)
(* player fights one battle at a time; one showing lands one blow.           *)
THEOREM NothingTwice == Spec => []OnlyOnce
<1>1. IInv => OnlyOnce
  BY DEF IInv
<1> QED BY <1>1, InvariantHolds, PTL

(* `_finish' and `save_result' write what was fought and pay a win once,     *)
(* whoever brings the end and whatever raises or dies on the way; and no     *)
(* statement raising, they do so after the answers handed to the study path  *)
(* while the battle ran have been counted.                                   *)
THEOREM SettledTrue == Spec => []SettledAsFought
<1>1. IInv /\ Counting => SettledAsFought
  BY DEF IInv, Counting, DrainedFirst, SettledAsFought
<1>2. Init => Counting
  BY HomeIsTask DEF Init, Counting, DrainedFirst, Resting, Bound, Settling, Judging
<1> QED BY <1>1, <1>2, InvariantHolds, CountingKept, PTL DEF Spec
=============================================================================
