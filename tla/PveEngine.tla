----------------------------- MODULE PveEngine -----------------------------
(***************************************************************************)
(* One player's lesson battles (services/pve/battle_runtime.py, registry,  *)
(* state, persistence, housekeeping; api/routes/pve/battle_ws.py): opening *)
(* a battle, the loop against the answers, the grading tasks, ending a     *)
(* battle, settling it commit by commit, and the process dying.            *)
(*                                                                         *)
(* One step is what runs between two awaits.  A socket handles one frame   *)
(* at a time, but the player may have several sockets, and the loop of a   *)
(* battle and the sweep are tasks of their own.  Every blow takes one      *)
(* point here: LessonFight has the numbers, the clock and the skills.      *)
(***************************************************************************)
EXTENDS Integers, FiniteSets

CONSTANTS Battles, Sockets,
          Sweep,               \* the housekeeping task
          PoolSize,            \* questions drawn for the lesson, all it has
          PlayerHp, MonsterHp,
          MaxShown,            \* bound: questions pushed in one battle
          MaxFaults,           \* bound: statements that raise, deaths of the process
          None

ASSUME PveAssumption ==
  /\ IsFiniteSet(Battles) /\ Battles \cap Sockets = {} /\ Sweep \notin Battles \cup Sockets
  /\ None \notin Battles \cup Sockets /\ None \notin Nat /\ None # "IN_PROGRESS"
  /\ {PoolSize, PlayerHp, MonsterHp} \subseteq Nat \ {0}
  /\ {MaxShown, MaxFaults} \subseteq Nat

VARIABLES battle,       \* the LiveBattle objects
          user_battle,  \* the registry: the player's battle (`_battles' holds just it)
          task,         \* where every socket's handler, every loop and the sweep rest
          grading,      \* answers on their way to the study path
          row,          \* lesson_battles
          payouts,      \* settle_battle: how often a battle paid
          lesson,       \* user_challenge_progress and user_lesson_progress
          owed,         \* history: questions right in the first round of a running battle,
                        \* handed to the study path while it ran
          faults

vars == <<battle, user_battle, task, grading, row, payouts, lesson, owed, faults>>

Questions    == 1..PoolSize
Ended        == {"WON", "LOST", "ABANDONED"}
BattleStatus == {"IN_PROGRESS"} \cup Ended
Tasks        == Sockets \cup Battles \cup {Sweep}

\* "NEW": no object yet; "GONE": unregistered.  open: a question token stands;
\* shown: question_cursor.
LiveBattle == [status : BattleStatus \cup {"NEW", "GONE"}, socket : Sockets \cup {None},
               hp : 0..PlayerHp, monster : 0..MonsterHp, given : Nat,
               open : BOOLEAN, shown : Nat, persisted : BOOLEAN]

\* left: monster_hp_left once `finish' wrote the result, None before.
LessonBattle == [status : BattleStatus \cup {None}, left : 0..MonsterHp \cup {None}]

Answers == [question : Questions, right : BOOLEAN]

Settling == {"drain", "claim", "pay", "close", "complete", "read", "teardown"}
Task == [at : {"idle", "loading", "creating", "announcing", "answered",
               "sleeping", "swung", "none"} \cup Settling,
         battle : Battles \cup {None}, answer : Answers \cup {None},
         pending : SUBSET Answers]

TypeOK == /\ battle \in [Battles -> LiveBattle]
          /\ user_battle \in Battles \cup {None}
          /\ task \in [Tasks -> Task]
          /\ grading \in [Battles -> SUBSET Answers]
          /\ row \in [Battles -> LessonBattle]
          /\ payouts \in [Battles -> Nat]
          /\ lesson \in [mastered : SUBSET Questions, completed : BOOLEAN]
          /\ owed \in [Battles -> SUBSET Questions]
          /\ faults \in 0..MaxFaults

Unborn == [status |-> "NEW", socket |-> None, hp |-> PlayerHp, monster |-> MonsterHp,
           given |-> 0, open |-> FALSE, shown |-> 0, persisted |-> FALSE]

At(point, b) == [at |-> point, battle |-> b, answer |-> None, pending |-> {}]
Home(t)      == At(IF t \in Battles THEN "none" ELSE "idle", None)
Resting      == [t \in Tasks |-> Home(t)]

Init == /\ battle = [b \in Battles |-> Unborn]
        /\ user_battle = None
        /\ task = Resting
        /\ grading = [b \in Battles |-> {}]
        /\ row = [b \in Battles |-> [status |-> None, left |-> None]]
        /\ payouts = [b \in Battles |-> 0]
        /\ lesson = [mastered |-> {}, completed |-> FALSE]
        /\ owed = [b \in Battles |-> {}]
        /\ faults = 0

\* The question on screen is the last one pushed, and the pool is a ring.
Current(b)   == ((battle[b].shown - 1) % PoolSize) + 1
pool_pass(b) == (battle[b].shown - 1) \div PoolSize

Playing(b) == battle[b].status = "IN_PROGRESS"
is_busy    == user_battle # None
stored     == <<row, payouts, lesson>>

Fault == faults < MaxFaults /\ faults' = faults + 1

-----------------------------------------------------------------------------
(* Opening a battle.                                                        *)

\* The first busy check; a refusal is an error frame and nothing else.
StartBattle(s) ==
  /\ task[s].at = "idle" /\ ~is_busy
  /\ task' = [task EXCEPT ![s] = At("loading", None)]
  /\ UNCHANGED <<battle, user_battle, grading, stored, owed, faults>>

Rejected(s) ==
  /\ task[s].at = "loading"
  /\ task' = [task EXCEPT ![s] = At("idle", None)]
  /\ UNCHANGED <<battle, user_battle, grading, stored, owed, faults>>

\* A uuid of its own: which one does not matter.
Fresh == LET new == {b \in Battles : battle[b].status = "NEW"}
         IN {b \in new : b = CHOOSE c \in new : TRUE}

\* Mutant: the busy check is not made again after the load.
RegisterUnchecked(s) ==
  /\ task[s].at = "loading"
  /\ \E b \in Fresh :
       /\ battle' = [battle EXCEPT ![b] = [Unborn EXCEPT !.status = "IN_PROGRESS", !.socket = s]]
       /\ user_battle' = b
       /\ task' = [task EXCEPT ![s] = At("creating", b)]
  /\ UNCHANGED <<grading, stored, owed, faults>>

\* The load has answered: checked again and registered under the lock.
Register(s) ==
  /\ task[s].at = "loading" /\ ~is_busy
  /\ \E b \in Fresh :
       /\ battle' = [battle EXCEPT ![b] = [Unborn EXCEPT !.status = "IN_PROGRESS", !.socket = s]]
       /\ user_battle' = b
       /\ task' = [task EXCEPT ![s] = At("creating", b)]
  /\ UNCHANGED <<grading, stored, owed, faults>>

Opened == [status |-> "IN_PROGRESS", left |-> None]

CreateBattle(s) ==
  LET b == task[s].battle IN
  /\ task[s].at = "creating"
  /\ row' = [row EXCEPT ![b] = Opened]
  /\ battle' = [battle EXCEPT ![b].persisted = TRUE]
  /\ task' = [task EXCEPT ![s] = At("announcing", b)]
  /\ UNCHANGED <<user_battle, grading, payouts, lesson, owed, faults>>

\* The announcement is sent: the loop begins, whatever became of the battle meanwhile,
\* and pushes its first question before it looks.
RunBattle(s) ==
  LET b == task[s].battle IN
  /\ task[s].at = "announcing"
  /\ task' = [task EXCEPT ![s] = At("idle", None), ![b] = At("sleeping", b)]
  /\ battle' = [battle EXCEPT ![b].open = TRUE, ![b].shown = @ + 1]
  /\ UNCHANGED <<user_battle, grading, stored, owed, faults>>

-----------------------------------------------------------------------------
(* The end of a battle, in whichever task brings it.                        *)

\* Where `_finish' goes once nothing is left to drain.
Onward(b) == IF battle[b].persisted THEN "claim" ELSE "read"

\* Mutant: nothing waits for the grading tasks.
FinishingUndrained(b) ==
  [at |-> Onward(b), battle |-> b, answer |-> None, pending |-> {}]

Finishing(b) ==
  [at |-> IF grading[b] = {} THEN Onward(b) ELSE "drain", battle |-> b, answer |-> None,
   pending |-> grading[b]]

\* Mutant: the loop that finishes its battle is cancelled with it.
FinishInCancelling(t, b, status, ended) ==
  /\ battle' = [battle EXCEPT ![b] = [ended EXCEPT !.status = status]]
  /\ task' = [u \in Tasks |-> IF u = b THEN At("none", None)
                              ELSE IF u = t THEN Finishing(b) ELSE task[u]]

\* `_finish' up to its first await: the status, and the loop unless it is this very task.
FinishIn(t, b, status, ended) ==
  /\ battle' = [battle EXCEPT ![b] = [ended EXCEPT !.status = status]]
  /\ task' = [u \in Tasks |-> IF u = t THEN Finishing(b)
                              ELSE IF u = b THEN At("none", None)
                              ELSE task[u]]

Drained(t) ==
  LET k == task[t] IN
  /\ k.at = "drain" /\ k.pending \cap grading[k.battle] = {}
  /\ task' = [task EXCEPT ![t].at = Onward(k.battle), ![t].pending = {}]
  /\ UNCHANGED <<battle, user_battle, grading, stored, owed, faults>>

AfterSave(b) == IF battle[b].persisted /\ battle[b].status = "WON" THEN "complete" ELSE "read"

\* claim_for_settlement, its own commit; whoever loses it writes nothing.
Claim(t) ==
  LET b == task[t].battle IN
  /\ task[t].at = "claim"
  /\ IF row[b].status = "IN_PROGRESS"
     THEN /\ row' = [row EXCEPT ![b].status = battle[b].status]
          /\ task' = [task EXCEPT ![t].at = IF battle[b].status = "WON" THEN "pay" ELSE "close"]
     ELSE /\ task' = [task EXCEPT ![t].at = AfterSave(b)]
          /\ UNCHANGED row
  /\ UNCHANGED <<battle, user_battle, grading, payouts, lesson, owed, faults>>

\* `_pay': settle_battle (Wallet has its commits and its prices).
Pay(t) ==
  LET b == task[t].battle IN
  /\ task[t].at = "pay"
  /\ payouts' = [payouts EXCEPT ![b] = @ + 1]
  /\ task' = [task EXCEPT ![t].at = "close"]
  /\ UNCHANGED <<battle, user_battle, grading, row, lesson, owed, faults>>

\* LessonBattleRepository.finish, from the object as it is now.
CloseRow(t) ==
  LET b == task[t].battle IN
  /\ task[t].at = "close"
  /\ row' = [row EXCEPT ![b].left = battle[b].monster]
  /\ task' = [task EXCEPT ![t].at = AfterSave(b)]
  /\ UNCHANGED <<battle, user_battle, grading, payouts, lesson, owed, faults>>

\* Winning the gate finishes the lesson behind it.
CompleteLesson(t) ==
  /\ task[t].at = "complete"
  /\ lesson' = [lesson EXCEPT !.completed = TRUE]
  /\ task' = [task EXCEPT ![t].at = "read"]
  /\ UNCHANGED <<battle, user_battle, grading, row, payouts, owed, faults>>

\* lesson_progress is read and battle.finished goes out with it.
Report(t) ==
  LET b == task[t].battle IN
  /\ task[t].at = "read"
  /\ owed' = [owed EXCEPT ![b] = {}]
  /\ task' = [task EXCEPT ![t].at = "teardown"]
  /\ UNCHANGED <<battle, user_battle, grading, stored, faults>>

\* The object is out of reach, but for a handler that is still sending a result: it will
\* read pool_pass.
Gone(b) == [Unborn EXCEPT !.status = "GONE",
              !.shown = IF /\ \E s \in Sockets : task[s].at = "answered" /\ task[s].battle = b
                           /\ pool_pass(b) > 0
                        THEN battle[b].shown ELSE 0]

Teardown(t) ==
  LET b == task[t].battle IN
  /\ task[t].at = "teardown"
  /\ user_battle' = IF user_battle = b THEN None ELSE user_battle
  /\ battle' = [battle EXCEPT ![b] = Gone(b)]
  /\ task' = [task EXCEPT ![t] = Home(t)]
  /\ UNCHANGED <<grading, stored, owed, faults>>

-----------------------------------------------------------------------------
(* Leaving, hanging up, and what a raising statement does to its task.      *)

LeaveBattle(s) ==
  LET b == user_battle IN
  /\ task[s].at = "idle" /\ is_busy /\ Playing(b)
  /\ FinishIn(s, b, "ABANDONED", battle[b])
  /\ UNCHANGED <<user_battle, grading, stored, owed, faults>>

\* on_disconnect, in the `finally' of the endpoint: only the socket the battle was
\* started on ends it.  s is from then on the player's next connection, idle once
\* on_disconnect has returned.
HangUp(s) ==
  LET b == user_battle IN
  IF is_busy /\ battle[b].socket = s /\ Playing(b)
  THEN FinishIn(s, b, "ABANDONED", [battle[b] EXCEPT !.socket = None])
  ELSE /\ task' = [task EXCEPT ![s] = Home(s)]
       /\ battle' = IF is_busy /\ battle[b].socket = s
                    THEN [battle EXCEPT ![b].socket = None] ELSE battle

Disconnect(s) ==
  /\ task[s].at = "idle" /\ is_busy /\ battle[user_battle].socket = s
  /\ HangUp(s)
  /\ UNCHANGED <<user_battle, grading, stored, owed, faults>>

\* load_setup or create_battle raises: the endpoint closes.  create commits before it
\* refreshes, so the row may be there all the same.
StartFails(s) ==
  /\ task[s].at \in {"loading", "creating"} /\ Fault
  /\ \/ UNCHANGED row
     \/ task[s].at = "creating" /\ row' = [row EXCEPT ![task[s].battle] = Opened]
  /\ HangUp(s)
  /\ UNCHANGED <<user_battle, grading, payouts, lesson, owed>>

\* A statement of `_finish' raises.  In the loop `_abort' finds a battle that is over
\* and tears it down; a socket hangs up; the sweep logs it and goes on.
FinishFails(t) ==
  /\ task[t].at \in {"claim", "pay", "close", "complete", "read"} /\ Fault
  /\ \/ /\ t \in Battles
        /\ task' = [task EXCEPT ![t].at = "teardown"]
        /\ UNCHANGED battle
     \/ t \in Sockets /\ HangUp(t)
     \/ t = Sweep /\ task' = [task EXCEPT ![t] = Home(t)] /\ UNCHANGED battle
  /\ UNCHANGED <<user_battle, grading, stored, owed>>

-----------------------------------------------------------------------------
(* The player's answers.                                                    *)

\* submit_answer and `_settle_answer' up to the send of the result.
Submit(s, right) ==
  LET b == user_battle IN
  /\ task[s].at = "idle" /\ is_busy /\ Playing(b) /\ battle[b].open
  /\ battle' = [battle EXCEPT ![b].open = FALSE, ![b].given = @ + 1,
                  ![b].monster = IF right /\ @ > 0 THEN @ - 1 ELSE @]
  /\ task' = [task EXCEPT ![s] =
                [At("answered", b) EXCEPT !.answer = [question |-> Current(b), right |-> right]]]
  /\ UNCHANGED <<user_battle, grading, stored, owed, faults>>

\* The result is sent; only now is the study path told, and only in the first round.
Record(s) ==
  LET b == task[s].battle IN
  /\ task[s].at = "answered"
  /\ grading' = [grading EXCEPT ![b] = IF pool_pass(b) > 0 THEN @ ELSE @ \cup {task[s].answer}]
  /\ owed' = [owed EXCEPT ![b] = IF Playing(b) /\ pool_pass(b) = 0 /\ task[s].answer.right
                                  THEN @ \cup {task[s].answer.question} ELSE @]
  /\ task' = [task EXCEPT ![s] = At("idle", None)]
  /\ UNCHANGED <<battle, user_battle, stored, faults>>

\* check_answer through the study path: mastery only grows, and all of it completes.
Grade(b) ==
  \E a \in grading[b] :
    /\ grading' = [grading EXCEPT ![b] = @ \ {a}]
    /\ LET mastered == lesson.mastered \cup (IF a.right THEN {a.question} ELSE {})
       IN lesson' = [mastered |-> mastered,
                     completed |-> lesson.completed \/ mastered = Questions]
    /\ UNCHANGED <<battle, user_battle, task, row, payouts, owed, faults>>

\* Whatever it raises is suppressed.
GradeFails(b) ==
  /\ Fault
  /\ \E a \in grading[b] : grading' = [grading EXCEPT ![b] = @ \ {a}]
  /\ UNCHANGED <<battle, user_battle, task, stored, owed>>

-----------------------------------------------------------------------------
(* The loop.                                                                *)

Awake(b) == task[b].at = "sleeping" /\ Playing(b)

\* `_tick': deaths first, the monster's before the player's.
MonsterDown(b) ==
  /\ Awake(b) /\ battle[b].monster = 0
  /\ FinishIn(b, b, "WON", battle[b])
  /\ UNCHANGED <<user_battle, grading, stored, owed, faults>>

\* After its swing the tick looks at the player alone.
PlayerDown(b) ==
  /\ Playing(b) /\ battle[b].hp = 0
  /\ task[b].at \in {"sleeping", "swung"}
  /\ task[b].at = "sleeping" => battle[b].monster > 0
  /\ FinishIn(b, b, "LOST", battle[b])
  /\ UNCHANGED <<user_battle, grading, stored, owed, faults>>

\* The cast is due.
MonsterSwing(b) ==
  /\ Awake(b) /\ battle[b].monster > 0 /\ battle[b].hp > 0
  /\ battle' = [battle EXCEPT ![b].hp = @ - 1]
  /\ task' = [task EXCEPT ![b].at = "swung"]
  /\ UNCHANGED <<user_battle, grading, stored, owed, faults>>

SwingSent(b) ==
  /\ task[b].at = "swung" /\ battle[b].hp > 0
  /\ task' = [task EXCEPT ![b].at = "sleeping"]
  /\ UNCHANGED <<battle, user_battle, grading, stored, owed, faults>>

\* No question stands and the lockout is over.
PushQuestion(b) ==
  /\ Awake(b) /\ battle[b].monster > 0 /\ battle[b].hp > 0
  /\ ~battle[b].open /\ battle[b].shown < MaxShown
  /\ battle' = [battle EXCEPT ![b].open = TRUE, ![b].shown = @ + 1]
  /\ UNCHANGED <<user_battle, task, grading, stored, owed, faults>>

\* The loop wakes to a battle that ended while it opened.
LoopReturns(b) ==
  /\ task[b].at = "sleeping" /\ ~Playing(b)
  /\ task' = [task EXCEPT ![b] = At("none", None)]
  /\ UNCHANGED <<battle, user_battle, grading, stored, owed, faults>>

-----------------------------------------------------------------------------
(* Housekeeping, and the life of the process.                               *)

\* sweep_battles: a battle past BATTLE_TTL_SECONDS; one already over is left as it is.
CloseStale ==
  LET b == user_battle IN
  /\ task[Sweep].at = "idle" /\ is_busy /\ Playing(b)
  /\ FinishIn(Sweep, b, "ABANDONED", battle[b])
  /\ UNCHANGED <<user_battle, grading, stored, owed, faults>>

\* The process stops at any point; the next one abandons what was running.
Crash ==
  /\ Fault
  /\ row' = [b \in Battles |-> IF row[b].status = "IN_PROGRESS"
                               THEN [row[b] EXCEPT !.status = "ABANDONED"] ELSE row[b]]
  /\ battle' = [b \in Battles |-> IF battle[b].status = "NEW" THEN battle[b]
                                  ELSE Gone(b)]
  /\ user_battle' = None /\ task' = Resting
  /\ grading' = [b \in Battles |-> {}]
  /\ owed' = [b \in Battles |-> {}]
  /\ UNCHANGED <<payouts, lesson>>

-----------------------------------------------------------------------------
Settle(t) == Drained(t) \/ Claim(t) \/ Pay(t) \/ CloseRow(t) \/ CompleteLesson(t)
             \/ Report(t) \/ Teardown(t)
Continue(s) == Register(s) \/ CreateBattle(s) \/ RunBattle(s) \/ Record(s)
Tick(b) == MonsterDown(b) \/ PlayerDown(b) \/ SwingSent(b) \/ PushQuestion(b) \/ LoopReturns(b)

Next == \/ \E s \in Sockets : \/ StartBattle(s) \/ Rejected(s) \/ Continue(s)
                              \/ StartFails(s) \/ LeaveBattle(s) \/ Disconnect(s)
                              \/ \E right \in BOOLEAN : Submit(s, right)
        \/ \E t \in Tasks : Settle(t) \/ FinishFails(t)
        \/ \E b \in Battles : Tick(b) \/ MonsterSwing(b) \/ Grade(b) \/ GradeFails(b)
        \/ CloseStale \/ Crash

\* What happens without the player: handlers, loops and grading tasks run on, the cast
\* bar fills.
Machinery == \/ \E s \in Sockets : Continue(s) \/ Rejected(s)
             \/ \E t \in Tasks : Settle(t)
             \/ \E b \in Battles : Tick(b) \/ MonsterSwing(b) \/ Grade(b)

\* The event loop always runs something that is ready; that is all it has to promise.
\* Nobody has to answer, and nothing relies on the sweep.
Fairness == WF_vars(Machinery)

Spec     == Init /\ [][Next]_vars
FairSpec == Spec /\ Fairness

-----------------------------------------------------------------------------
(* Properties.                                                              *)

\* Nothing is had twice: the player fights one battle at a time, and the registry
\* knows the one that is running, whichever socket asked for it (the lock's promise,
\* registry.py); and however many sockets tap, one showing of a question lands one blow.
OnlyOnce == \A b \in Battles : /\ Playing(b) => user_battle = b
                               /\ battle[b].given <= battle[b].shown

RowIsTrue ==
  /\ \A b \in Battles :
       /\ row[b].left # None => /\ row[b].status \in Ended
                                /\ row[b].status = "WON" => row[b].left = 0
       /\ battle[b].persisted /\ row[b].status # "IN_PROGRESS" =>
            /\ row[b].status = battle[b].status
            /\ row[b].left # None => row[b].left = battle[b].monster
       /\ payouts[b] > 0 => payouts[b] = 1 /\ row[b].status = "WON"
  /\ lesson.completed => \/ lesson.mastered = Questions
                         \/ \E b \in Battles : /\ row[b].status = "WON" /\ row[b].left # None
                                               /\ payouts[b] = 1

\* Past the drain; "teardown" has nothing left to say.
Judging == {"claim", "pay", "close", "complete", "read"}

DrainedFirst == faults = 0 => \A t \in Tasks : task[t].at \in Judging =>
                  owed[task[t].battle] \subseteq lesson.mastered

\* The row says what was fought, while late answers, leavers and swings race the tick
\* that judged it: its status is the battle's, its numbers are the final ones, a win
\* stands over a fallen monster, and only a win has paid, once.  The lesson's gate
\* opens for those who mastered all of it or won a battle, by then paid and written.
\* And unless a statement raised or the process died, whoever settles a battle or reads
\* the lesson's progress for its report finds every right first-round answer that was
\* handed to the study path while it ran already counted (`_drain_grading').
SettledAsFought == RowIsTrue /\ DrainedFirst

\* Unless a statement raises or the process dies, a battle that began ends and lets its
\* player go, though nobody answers, and a persisted win is paid and completes its lesson.
EveryFightEnds ==
  \A b \in Battles :
    /\ (user_battle = b) ~> (user_battle # b \/ faults > 0)
    /\ (battle[b].persisted /\ battle[b].status = "WON")
         ~> ((payouts[b] = 1 /\ lesson.completed) \/ faults > 0)
=============================================================================
