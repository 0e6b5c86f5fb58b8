------------------------------ MODULE DuoFight ------------------------------
(***************************************************************************)
(* One duo fight, from the first question to the verdict: the match loop   *)
(* (`_run_match', `_tick', `_push_question'), what players do to it        *)
(* (submit_answer, use_skill, leaving) and `_finish' up to the outcome, of *)
(* services/duo/match_runtime.py.  DuoEngine takes over from there.        *)
(*                                                                         *)
(* Handlers run whole between awaits, but the loop awaits a send after     *)
(* each question it pushes and goes on with the `now' it read before.      *)
(* Nothing bounds how late the loop wakes.                                 *)
(*                                                                         *)
(* A question's token is the number of its showing: never used again, and  *)
(* a client may submit any it has seen.  Only the three effects the active *)
(* catalog grants are here (catalog.py: "exactly these three").            *)
(***************************************************************************)
EXTENDS CombatRules, Sequences, SequencesExt

CONSTANTS One, Two,         \* the players, in the order the match holds them
          DeckSize, MaxHp,
          TimePerQuestion,  \* settings.time_per_question, the speed reference
          TimeCap,          \* clock.match_time_cap
          Lateness,         \* bound: how long past the cap the clock is followed
          CorrectLockout, WrongLockout, StunTime, RoundTime, MinCooldown,
          Skills,           \* codes of the skills that may be equipped
          SkillOf,          \* their catalog rows
          Equipped,         \* who brought which
          None

Players   == {One, Two}
Questions == 1..DeckSize
Effects   == {"COMBO_KEEP", "TIME_BONUS", "REMOVE_OPTIONS"}

ASSUME FightAssumption ==
  /\ One # Two /\ None \notin Questions
  /\ DeckSize \in Nat \ {0} /\ MaxHp \in Nat \ {0}
  /\ {TimePerQuestion, TimeCap} \subseteq Nat \ {0} /\ Lateness \in Nat
  /\ {CorrectLockout, WrongLockout, StunTime, RoundTime, MinCooldown} \subseteq Nat \ {0}
ASSUME SkillAssumption ==
  /\ SkillOf \in [Skills -> [effect : Effects, cost : Nat, magnitude : Nat, rounds : Nat]]
  /\ \A s \in Skills : SkillOf[s].effect # "REMOVE_OPTIONS" => SkillOf[s].rounds > 0
  /\ Equipped \in [Players -> SUBSET Skills]

VARIABLES now,     \* the monotonic clock; the fight starts at 0
          player,  \* the two PlayerConn
          loop,    \* where `_run_match' rests
          verdict  \* status, end_reason and the outcomes once FINISHED

vars == <<now, player, loop, verdict>>

\* readyAgain is skill_ready_at; screen stands for question_token, current_index
\* and question_pushed_at, which are set and cleared together.
PlayerConn ==
  [hp : 0..MaxHp, mana : 0..100, combo : Nat, score : Nat, correct : Nat, given : Nat,
   elapsed : Nat, deck : Seq(Questions), screen : Questions \cup {None}, shown : Nat,
   pushedAt : Nat, lockout : Nat, stunned : Nat, deckCleared : BOOLEAN,
   effects : Seq([effect : Effects, magnitude : Nat, code : Skills, until : Nat]),
   readyAgain : [Skills -> Nat]]

\* "starting": before the first question; "opening" and "pushing": the send of One's
\* question is awaited, at is the tick's `now'; "over": returned or cancelled.
Loop == [point : {"starting", "opening", "sleeping", "pushing", "over"}, at : Nat]

Reasons  == {"KNOCKOUT", "DECK_CLEARED", "TIME_UP", "FORFEIT"}
Outcomes == {"WIN", "LOSE", "DRAW"}
Running  == [reason |-> None, outcome |-> [u \in Players |-> None]]

TypeOK == /\ now \in 0..(TimeCap + Lateness)
          /\ player \in [Players -> PlayerConn]
          /\ loop \in Loop
          /\ verdict = Running \/ verdict \in [reason : Reasons, outcome : [Players -> Outcomes]]

Fresh == [hp |-> MaxHp, mana |-> 0, combo |-> 0, score |-> 0, correct |-> 0, given |-> 0,
          elapsed |-> 0, deck |-> [i \in Questions |-> i], screen |-> None, shown |-> 0,
          pushedAt |-> 0, lockout |-> 0, stunned |-> 0, deckCleared |-> FALSE,
          effects |-> <<>>, readyAgain |-> [s \in Skills |-> 0]]

Init == /\ now = 0
        /\ player = [u \in Players |-> Fresh]
        /\ loop = [point |-> "starting", at |-> 0]
        /\ verdict = Running

InProgress  == verdict = Running
Opponent(u) == IF u = One THEN Two ELSE One
ReadyAt(p)  == Greater(p.lockout, p.stunned)
Stunned(p)  == now < p.stunned
Down(p)     == p.hp <= 0

-----------------------------------------------------------------------------
(* Effects: `expires_at' is inclusive.                                      *)

Standing(p, effect) == SelectInSeq(p.effects, LAMBDA e : e.effect = effect /\ e.until >= now)
Without(es, i)      == IF i = 0 THEN es ELSE RemoveAt(es, i)
Pruned(p)           == [p EXCEPT !.effects = SelectSeq(@, LAMBDA e : e.until >= now)]

-----------------------------------------------------------------------------
(* Ending.                                                                  *)

Decided(u, outcome) == [v \in Players |-> IF v = u THEN outcome ELSE invert(outcome)]

\* `_finish': once, whoever comes first; it stops the loop wherever it rests.
Finish(reason, conns, outcomes) ==
  /\ InProgress
  /\ verdict' = [reason |-> reason, outcome |-> outcomes]
  /\ player' = conns
  /\ loop' = [loop EXCEPT !.point = "over"]
  /\ UNCHANGED now

\* leave_match, or a grace timer that ran out.
Forfeit(u) == Finish("FORFEIT", player, Decided(u, "LOSE"))

-----------------------------------------------------------------------------
(* The loop.                                                                *)

Due(p, at) == p.screen = None /\ p.deck # <<>> /\ at >= ReadyAt(p)

\* `_push_question', stamped with the loop's own reading of the clock.
Shown(p, at) == [p EXCEPT !.screen = Head(p.deck), !.deck = Tail(@),
                          !.shown = @ + 1, !.pushedAt = at]

Rest(point) == [loop EXCEPT !.point = point]

Start == /\ loop.point = "starting" /\ InProgress
         /\ player' = [player EXCEPT ![One] = Shown(@, now)]
         /\ loop' = [point |-> "opening", at |-> now]
         /\ UNCHANGED <<now, verdict>>

StartSecond == /\ loop.point = "opening"
               /\ player' = [player EXCEPT ![Two] = Shown(@, loop.at)]
               /\ loop' = Rest("sleeping")
               /\ UNCHANGED <<now, verdict>>

\* Aged effects go; an empty deck is latched once its last lockout is up.
Latched(p) == [Pruned(p) EXCEPT !.deckCleared =
                 @ \/ (p.screen = None /\ p.deck = <<>> /\ now >= ReadyAt(p))]

\* Mutant: no cap on the time a fight may take.
EndReasonUncapped(conns) ==
  IF \E u \in Players : Down(conns[u]) THEN "KNOCKOUT"
  ELSE IF \E u \in Players : conns[u].deckCleared THEN "DECK_CLEARED" ELSE None

\* `_end_reason', None to keep playing.
EndReason(conns) ==
  IF \E u \in Players : Down(conns[u]) THEN "KNOCKOUT"
  ELSE IF \E u \in Players : conns[u].deckCleared THEN "DECK_CLEARED"
  ELSE IF now >= TimeCap THEN "TIME_UP" ELSE None

AfterAging == [u \in Players |-> Latched(player[u])]

TickEnds ==
  /\ loop.point = "sleeping" /\ EndReason(AfterAging) # None
  /\ Finish(EndReason(AfterAging), AfterAging,
            Decided(One, decide_outcome(AfterAging[One], AfterAging[Two])))

\* The tick runs to its first await: One's question if it is due, else Two's.
TickPushes ==
  /\ loop.point = "sleeping" /\ EndReason(AfterAging) = None
  /\ \/ /\ Due(AfterAging[One], now)
        /\ player' = [AfterAging EXCEPT ![One] = Shown(@, now)]
        /\ loop' = [point |-> "pushing", at |-> now]
     \/ /\ ~Due(AfterAging[One], now)
        /\ player' = IF Due(AfterAging[Two], now)
                     THEN [AfterAging EXCEPT ![Two] = Shown(@, now)] ELSE AfterAging
        /\ UNCHANGED loop
  /\ UNCHANGED <<now, verdict>>

\* Mutant: who is due is settled before the first send.
PushSecondUnchecked ==
  /\ loop.point = "pushing"
  /\ player' = IF player[Two].screen = None /\ player[Two].deck # <<>>
               THEN [player EXCEPT ![Two] = Shown(@, loop.at)] ELSE player
  /\ loop' = Rest("sleeping")
  /\ UNCHANGED <<now, verdict>>

\* Back from sending One's question: Two is looked at now, with the tick's `now'.
PushSecond ==
  /\ loop.point = "pushing"
  /\ player' = IF Due(player[Two], loop.at)
               THEN [player EXCEPT ![Two] = Shown(@, loop.at)] ELSE player
  /\ loop' = Rest("sleeping")
  /\ UNCHANGED <<now, verdict>>

-----------------------------------------------------------------------------
(* What a player does.                                                      *)

\* Mutant: the question is shut only after the blow has been sent.
AnsweredUnshut(p, right) ==
  [p EXCEPT !.given = @ + 1, !.correct = IF right THEN @ + 1 ELSE @,
            !.combo = combo_after(p.combo, right),
            !.lockout = now + (IF right THEN CorrectLockout ELSE WrongLockout)]

\* Mutant: every answered question goes to the back of the deck, right or wrong.
AnsweredKeeping(p, right) ==
  [p EXCEPT !.given = @ + 1, !.correct = IF right THEN @ + 1 ELSE @,
            !.combo = combo_after(p.combo, right), !.screen = None,
            !.deck = Append(@, p.screen),
            !.lockout = now + (IF right THEN CorrectLockout ELSE WrongLockout)]

\* `_settle_answer' on the one who answered, with the lockout that follows.
Answered(p, right) ==
  LET bonus   == Standing(p, "TIME_BONUS")
      limit   == TimePerQuestion + (IF bonus = 0 THEN 0 ELSE p.effects[bonus].magnitude)
      timed   == [p EXCEPT !.effects = Without(@, bonus)]
      shield  == IF right THEN 0 ELSE Standing(timed, "COMBO_KEEP")
      combo   == IF shield # 0 THEN p.combo ELSE combo_after(p.combo, right)
      spent   == now - p.pushedAt
  IN [timed EXCEPT
        !.effects = Without(@, shield), !.combo = combo,
        !.given = @ + 1, !.elapsed = @ + spent, !.correct = IF right THEN @ + 1 ELSE @,
        !.mana  = gain_mana(@, award_mana(right, spent, limit)),
        !.score = @ + award_points(right, spent, limit, combo),
        !.deck  = IF right THEN @ ELSE Append(@, p.screen),
        !.screen = None,
        !.lockout = now + (IF right THEN CorrectLockout ELSE WrongLockout)]

\* ... and on the one who takes the blow (arena builds: no shield, no armour).
Struck(foe, p, combo) ==
  LET bonus == Standing(p, "TIME_BONUS")
      limit == TimePerQuestion + (IF bonus = 0 THEN 0 ELSE p.effects[bonus].magnitude)
  IN [foe EXCEPT
        !.hp = apply_damage(@, resolve_blow(now - p.pushedAt, limit, combo, 1000, 0, 0)),
        !.stunned = IF Stuns(combo) THEN Greater(@, now + StunTime) ELSE @]

\* submit_answer of the token of showing k.
Answer(u, k, right) ==
  LET me == Answered(player[u], right)
      v  == Opponent(u)
  IN /\ InProgress
     /\ player[u].screen # None /\ k = player[u].shown
     /\ ~Stunned(player[u])
     /\ player' = [player EXCEPT ![u] = me,
                     ![v] = IF right THEN Struck(@, player[u], me.combo) ELSE @]
     /\ UNCHANGED <<now, loop, verdict>>

Cooldown(s) == Greater(MinCooldown, SkillOf[s].rounds * RoundTime)

Cast(p, s) ==
  [p EXCEPT !.mana = @ - SkillOf[s].cost,
            !.readyAgain[s] = now + Cooldown(s),
            !.effects = IF SkillOf[s].effect = "REMOVE_OPTIONS" THEN @
                        ELSE Append(@, [effect |-> SkillOf[s].effect, code |-> s,
                                        magnitude |-> SkillOf[s].magnitude,
                                        until |-> now + Greater(1, SkillOf[s].rounds) * RoundTime])]

UseSkill(u, s) ==
  /\ InProgress
  /\ ~Stunned(player[u])
  /\ s \in Equipped[u]
  /\ now >= player[u].readyAgain[s]
  /\ player[u].mana >= SkillOf[s].cost
  /\ SkillOf[s].effect = "REMOVE_OPTIONS" => player[u].screen # None
  /\ player' = [player EXCEPT ![u] = Cast(@, s)]
  /\ UNCHANGED <<now, loop, verdict>>

-----------------------------------------------------------------------------
TimePasses == /\ InProgress /\ now < TimeCap + Lateness
              /\ now' = now + 1
              /\ UNCHANGED <<player, loop, verdict>>

LoopStep == Start \/ StartSecond \/ TickEnds \/ TickPushes \/ PushSecond

PlayerStep(u) == \/ Forfeit(u)
                 \/ \E k \in 1..player[u].shown, right \in BOOLEAN : Answer(u, k, right)
                 \/ \E s \in Skills : UseSkill(u, s)

Next == TimePasses \/ LoopStep \/ \E u \in Players : PlayerStep(u)

Spec == Init /\ [][Next]_vars

(* The clock runs and the event loop resumes the match task; nothing is     *)
(* assumed of the players.                                                  *)
FairSpec == Spec /\ WF_vars(TimePasses) /\ WF_vars(LoopStep)

-----------------------------------------------------------------------------
Hand(p) == IF p.screen = None THEN p.deck ELSE Append(p.deck, p.screen)

(* A question leaves a player's deck only by being answered correctly: what *)
(* is still to come, what is on screen and what is mastered add up to the   *)
(* deck, and no question is held twice -- through misses that go to the     *)
(* back, replayed tokens and pushes that interleave with answers.           *)
DeckIsConserved ==
  \A u \in Players : /\ IsInjective(Hand(player[u]))
                     /\ Len(Hand(player[u])) + player[u].correct = DeckSize

(* Every showing of a question is resolved exactly once or still open: a    *)
(* double tap or a replayed token never lands a second blow.                *)
ShownOnceAnsweredOnce ==
  \A u \in Players :
    player[u].given + (IF player[u].screen = None THEN 0 ELSE 1) = player[u].shown

\* The recorded reason is true of the final state, and a knockout outranks a
\* cleared deck, which outranks the clock.
ReasonIsTrue ==
  LET fallen   == \E u \in Players : Down(player[u])
      mastered == \E u \in Players : player[u].deckCleared /\ player[u].correct = DeckSize
  IN CASE verdict.reason = "KNOCKOUT"     -> fallen
       [] verdict.reason = "DECK_CLEARED" -> ~fallen /\ mastered
       [] verdict.reason = "TIME_UP"      -> ~fallen /\ ~mastered /\ now >= TimeCap
       [] OTHER -> TRUE

(* Nobody is handed a question during a lockout or a stun, even one they    *)
(* ran into while the tick that pushes was awaiting the other's socket.     *)
NoPushWhileLocked ==
  [][\A u \in Players : player'[u].shown # player[u].shown => now >= ReadyAt(player[u])]_vars

(* A verdict is reached once: whoever ends the fight, no later answer,      *)
(* skill, tick or forfeit moves a score, a health bar or the outcome.       *)
VerdictIsFinal == [][~InProgress => UNCHANGED <<player, verdict>>]_vars

(* Every fight ends, whatever the players do or leave undone, and for the   *)
(* reason that is recorded.                                                 *)
FightEnds == <>~InProgress /\ []ReasonIsTrue

=============================================================================
