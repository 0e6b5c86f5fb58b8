---------------------------- MODULE LessonFight ----------------------------
(***************************************************************************)
(* One lesson battle from its first question to its verdict: the loop      *)
(* (`_run_battle', `_tick'), the answers and the skills, and `_finish' up  *)
(* to the status, of services/pve/battle_runtime.py.  PveEngine takes over *)
(* from there.                                                             *)
(*                                                                         *)
(* Every instant is kept as the time left until it, so the fight needs no  *)
(* bound on how long it lasts.  The loop awaits the send of a swing and    *)
(* goes on with the `now' it read before.  Skills are the three kinds the  *)
(* active catalog grants; how many questions were shown is PveEngine's.    *)
(***************************************************************************)
EXTENDS CombatRules, Sequences, SequencesExt, TLAPS

CONSTANTS MaxHp, Armour, Might,  \* the build: max_hp, defence, damage_permille,
          StartingMana,          \* and starting_mana
          Monster,               \* its catalog row
          Weakness,              \* whether the lesson's questions are its weak topic
          CastTime,              \* cast_interval_seconds
          SpeedReference, CorrectLockout, WrongLockout, RoundTime, MinCooldown,
          SendTime,              \* bound: how long the send of a swing may take
          Skills, SkillOf        \* the equipped codes and their catalog rows

Effects == {"COMBO_KEEP", "TIME_BONUS", "REMOVE_OPTIONS"}

ASSUME LessonFightAssumption ==
  /\ MaxHp \in Nat \ {0} /\ {Armour, Might, SendTime} \subseteq Nat /\ StartingMana \in 0..100
  /\ Monster \in [tier : Tiers, boss : BOOLEAN, hp : Nat \ {0}, attack : Nat \ {0},
                  reduction : 0..999, enrageAfter : Nat, enrage : Nat]
  /\ Weakness \in {2, 3}
  /\ {CastTime, SpeedReference, CorrectLockout, WrongLockout, RoundTime, MinCooldown}
       \subseteq Nat \ {0}
  /\ SkillOf \in [Skills -> [effect : Effects, cost : Nat, magnitude : Nat, rounds : Nat]]

VARIABLES player,   \* the player's half of LiveBattle
          monster,  \* MonsterState: health, time to the blow, time to the rage
          loop,     \* where `_run_battle' rests, and for how long it has awaited a send
          verdict   \* status

vars == <<player, monster, loop, verdict>>

Longest(S)   == CHOOSE n \in S : \A m \in S : m <= n
LongestLimit == SpeedReference + Longest({0} \cup {SkillOf[s].magnitude : s \in Skills})

\* open: a question token stands, pushed age ago; lock: time to lockout_until, which
\* may have passed; a standing effect has left >= 0, `expires_at' being inclusive.
Player == [hp : 0..MaxHp, mana : 0..100, combo : 0..ComboTier2, hurt : BOOLEAN,
           open : BOOLEAN, age : 0..LongestLimit,
           lock : (-SendTime)..Greater(CorrectLockout, WrongLockout),
           effects : Seq([effect : Effects, magnitude : Nat, left : Nat]),
           ready : [Skills -> Nat]]

MonsterState == [hp : 0..Monster.hp, cast : 0..CastTime, rage : Nat]

TypeOK == /\ player \in Player
          /\ monster \in MonsterState
          /\ loop \in [point : {"starting", "sleeping", "swinging", "over"}, since : 0..SendTime]
          /\ verdict \in {"IN_PROGRESS", "WON", "LOST", "ABANDONED"}

\* One full wind-up before the first blow.
Init == /\ player = [hp |-> MaxHp, mana |-> StartingMana, combo |-> 0, hurt |-> FALSE, open |-> FALSE,
                     age |-> 0, lock |-> 0, effects |-> <<>>, ready |-> [s \in Skills |-> 0]]
        /\ monster = [hp |-> Monster.hp, cast |-> CastTime, rage |-> enrage_after(Monster, RoundTime)]
        /\ loop = [point |-> "starting", since |-> 0]
        /\ verdict = "IN_PROGRESS"

InProgress  == verdict = "IN_PROGRESS"
PlayerDown  == player.hp <= 0
MonsterDown == monster.hp <= 0
Active(effect)   == SelectInSeq(player.effects, LAMBDA e : e.effect = effect)
Without(es, i)   == IF i = 0 THEN es ELSE RemoveAt(es, i)
Attack           == monster_attack(Monster, monster.rage = 0, 0, Armour)
Rest(point)      == [point |-> point, since |-> 0]

-----------------------------------------------------------------------------
(* Ending: whoever comes first, and the loop never wakes again.             *)

Finish(status) == /\ InProgress
                  /\ verdict' = status
                  /\ loop' = Rest("over")
                  /\ UNCHANGED <<player, monster>>

\* battle.leave, a dropped socket, the sweep.
Leave == Finish("ABANDONED")

-----------------------------------------------------------------------------
(* The loop.                                                                *)

\* `since' ago the loop read its clock: by that reading the lockout is over.
Due == ~player.open /\ player.lock + loop.since <= 0

Pushed == [player EXCEPT !.open = TRUE, !.age = Lesser(loop.since, LongestLimit)]

FirstQuestion == /\ loop.point = "starting" /\ InProgress
                 /\ player' = Pushed
                 /\ loop' = Rest("sleeping")
                 /\ UNCHANGED <<monster, verdict>>

TickWins == loop.point = "sleeping" /\ MonsterDown /\ Finish("WON")

\* Mutant: the monster waits for the question on screen to be answered.
SwingInTurn ==
  /\ loop.point = "sleeping" /\ InProgress /\ ~MonsterDown /\ monster.cast = 0 /\ ~player.open
  /\ player' = [player EXCEPT !.hp = apply_damage(@, Attack), !.hurt = @ \/ Attack > 0]
  /\ monster' = [monster EXCEPT !.cast = CastTime]
  /\ loop' = Rest("swinging")
  /\ UNCHANGED verdict

\* The cast is complete: the blow lands, the next wind-up begins, and the player is told.
MonsterSwing ==
  /\ loop.point = "sleeping" /\ InProgress /\ ~MonsterDown /\ monster.cast = 0
  /\ player' = [player EXCEPT !.hp = apply_damage(@, Attack), !.hurt = @ \/ Attack > 0]
  /\ monster' = [monster EXCEPT !.cast = CastTime]
  /\ loop' = Rest("swinging")
  /\ UNCHANGED verdict

TickLoses == loop.point = "swinging" /\ PlayerDown /\ Finish("LOST")

\* Mutant: the tick that follows a swing does not look whether the player still stands.
SwingSentUnchecked ==
  /\ loop.point = "swinging" /\ InProgress
  /\ player' = IF Due THEN Pushed ELSE player
  /\ loop' = Rest("sleeping")
  /\ UNCHANGED <<monster, verdict>>

\* Told: with the player standing the tick goes on, by the clock it read before.
SwingSent ==
  /\ loop.point = "swinging" /\ InProgress /\ ~PlayerDown
  /\ player' = IF Due THEN Pushed ELSE player
  /\ loop' = Rest("sleeping")
  /\ UNCHANGED <<monster, verdict>>

TickPushes == /\ loop.point = "sleeping" /\ InProgress /\ ~MonsterDown /\ monster.cast > 0
              /\ Due
              /\ player' = Pushed
              /\ UNCHANGED <<monster, loop, verdict>>

-----------------------------------------------------------------------------
(* What the player does.                                                    *)

\* `_settle_answer' but the blow: a standing time bonus goes with any answer, a
\* combo shield with a miss.
Answered(right, limit, bonus) ==
  LET timed  == Without(player.effects, bonus)
      shield == IF right THEN 0 ELSE SelectInSeq(timed, LAMBDA e : e.effect = "COMBO_KEEP")
  IN [player EXCEPT
        !.effects = Without(timed, shield),
        !.combo   = IF shield # 0 THEN @ ELSE Lesser(ComboTier2, combo_after(@, right)),
        !.mana    = gain_mana(@, award_mana(right, player.age, limit)),
        !.open    = FALSE, !.age = 0,
        !.lock    = IF right THEN CorrectLockout ELSE WrongLockout]

Blow(limit, combo) == resolve_blow(player.age, limit, combo, (Might * Weakness) \div 2,
                                   Monster.reduction, 0)

\* submit_answer of the open token: a stale one is refused.
Answer(right) ==
  LET bonus == Active("TIME_BONUS")
      limit == SpeedReference + (IF bonus = 0 THEN 0 ELSE player.effects[bonus].magnitude)
      after == Answered(right, limit, bonus)
  IN /\ InProgress /\ player.open
     /\ player' = after
     /\ monster' = IF right THEN [monster EXCEPT !.hp = apply_damage(@, Blow(limit, after.combo))]
                   ELSE monster
     /\ UNCHANGED <<loop, verdict>>

Cooldown(s) == Greater(MinCooldown, SkillOf[s].rounds * RoundTime)

\* `_apply_skill': narrowing the options leaves no effect standing.
Cast(s) ==
  [player EXCEPT
     !.mana = @ - SkillOf[s].cost,
     !.ready[s] = Cooldown(s),
     !.effects = IF SkillOf[s].effect = "REMOVE_OPTIONS" THEN @
                 ELSE Append(@, [effect |-> SkillOf[s].effect, magnitude |-> SkillOf[s].magnitude,
                                 left |-> Greater(1, SkillOf[s].rounds) * RoundTime])]

\* Narrowing the options is refused for an ORDER question too: what kind of question
\* stands is left open, and a refusal changes nothing.
UseSkill(s) ==
  /\ InProgress
  /\ player.ready[s] = 0
  /\ player.mana >= SkillOf[s].cost
  /\ SkillOf[s].effect = "REMOVE_OPTIONS" => player.open
  /\ player' = Cast(s)
  /\ UNCHANGED <<monster, loop, verdict>>

-----------------------------------------------------------------------------
Sooner(left) == Greater(0, left - 1)

\* One unit of the clock, during which an awaited send cannot outlast its bound.
TimePasses ==
  /\ InProgress
  /\ loop.point = "swinging" => loop.since < SendTime
  /\ player' = [player EXCEPT
       !.age  = IF player.open THEN Lesser(LongestLimit, @ + 1) ELSE @,
       !.lock = Greater(-SendTime, @ - 1),
       !.effects = LET running == SelectSeq(@, LAMBDA e : e.left > 0)
                   IN [i \in DOMAIN running |-> [running[i] EXCEPT !.left = @ - 1]],
       !.ready = [s \in Skills |-> Sooner(@[s])]]
  /\ monster' = [monster EXCEPT !.cast = Sooner(@), !.rage = Sooner(@)]
  /\ loop' = IF loop.point = "swinging" THEN [loop EXCEPT !.since = @ + 1] ELSE loop
  /\ UNCHANGED verdict

LoopStep == FirstQuestion \/ TickWins \/ MonsterSwing \/ TickLoses \/ SwingSent \/ TickPushes

Next == \/ TimePasses \/ LoopStep \/ Leave
        \/ \E right \in BOOLEAN : Answer(right)
        \/ \E s \in Skills : UseSkill(s)

Spec == Init /\ [][Next]_vars

(* The clock runs and the event loop resumes the battle's task; nothing is  *)
(* assumed of the player.                                                   *)
FairSpec == Spec /\ WF_vars(TimePasses) /\ WF_vars(LoopStep)

-----------------------------------------------------------------------------
(* Nobody wins a fight they fell in: a blow that lands while the last       *)
(* answer is on its way, or an answer sent while the fatal swing is being   *)
(* told, is judged by the player's health first.  And a flawless win is one *)
(* in which the monster never landed a blow: what the flag remembers and    *)
(* what the health bar shows agree in every fight.                          *)
VerdictIsEarned == /\ verdict = "WON" => MonsterDown /\ ~PlayerDown
                   /\ player.hurt <=> player.hp < MaxHp

(* "Only the health bars end a battle": the monster's clock is not the      *)
(* player's to stop, so a fight nobody leaves ends all the same, whether    *)
(* questions are answered or left on screen.                                *)
FightEnds == <>~InProgress
-----------------------------------------------------------------------------
(* The verdict is earned in every fight: whatever the build, the monster,   *)
(* the skills and the clock, and however many blows and answers cross.      *)

(* The loop sleeps, or has yet to start, only while the player stands: the  *)
(* tick that told of a swing has looked.                                    *)
FightInv ==
  /\ {"hp", "hurt"} \subseteq DOMAIN player /\ "hp" \in DOMAIN monster
  /\ player.hp \in 0..MaxHp /\ player.hurt \in BOOLEAN
  /\ loop \in [point : {"starting", "sleeping", "swinging", "over"}, since : Nat]
  /\ loop.point \in {"starting", "sleeping"} => ~PlayerDown
  /\ VerdictIsEarned

LEMMA AttackIsInteger == Attack \in Int
<1> DEFINE rage     == monster.rage = 0
           strength == Greater(0, Monster.attack)
           raw      == IF rage THEN (strength * Greater(0, Monster.enrage)) \div 1000 ELSE strength
           held     == Lesser(Greater(0, 0), 1000)
           dealt    == (raw * (1000 - held)) \div 1000
<1>1. Monster.attack \in Nat /\ Monster.enrage \in Nat /\ Armour \in Nat
  BY LessonFightAssumption
<1>2. strength \in Int /\ Greater(0, Monster.enrage) \in Int /\ 1000 - held \in Int
  BY <1>1 DEF Greater, Lesser
<1>3. raw \in Int
  <2>1. strength * Greater(0, Monster.enrage) \in Int
    BY <1>2
  <2> QED BY <1>2, <2>1
<1>4. dealt \in Int
  <2>1. raw * (1000 - held) \in Int
    BY <1>2, <1>3
  <2> HIDE DEF raw, held
  <2> QED BY <2>1
<1>5. Attack = Greater(0, apply_defence(dealt, Armour))
  BY DEF Attack, monster_attack
<1> HIDE DEF dealt
<1> QED BY <1>1, <1>4, <1>5 DEF Greater, apply_defence

(* A blow that takes anything leaves the bar short for good.                *)
LEMMA SwingKeepsFlag ==
  ASSUME FightInv, MonsterSwing
  PROVE  /\ player'.hp \in 0..MaxHp /\ player'.hurt \in BOOLEAN
         /\ player'.hurt <=> player'.hp < MaxHp
<1>1. /\ player'.hp = apply_damage(player.hp, Attack)
      /\ player'.hurt = (player.hurt \/ Attack > 0)
  BY DEF MonsterSwing, FightInv
<1>2. player.hp \in 1..MaxHp /\ MaxHp \in Nat /\ Attack \in Int
  BY AttackIsInteger, LessonFightAssumption DEF FightInv, MonsterSwing, PlayerDown
<1>3. player.hurt \in BOOLEAN /\ (player.hurt <=> player.hp < MaxHp)
  BY DEF FightInv, VerdictIsEarned
<1>4. /\ apply_damage(player.hp, Attack) \in 0..MaxHp
      /\ apply_damage(player.hp, Attack) < MaxHp <=> (player.hp < MaxHp \/ Attack > 0)
  BY <1>2 DEF apply_damage, Greater
<1> HIDE DEF Attack
<1>5. player'.hurt \in BOOLEAN /\ (player'.hurt <=> (player.hurt \/ Attack > 0))
  BY <1>1, <1>3
<1> QED BY <1>1, <1>3, <1>4, <1>5

LEMMA FightStart == Init => FightInv
BY LessonFightAssumption DEF Init, FightInv, PlayerDown, VerdictIsEarned, MonsterDown

LEMMA FightStep == FightInv /\ [Next]_vars => FightInv'
<1> SUFFICES ASSUME FightInv, [Next]_vars PROVE FightInv'
  OBVIOUS
<1>1. ASSUME NEW status \in {"WON", "LOST", "ABANDONED"}, Finish(status),
             status = "WON" => MonsterDown /\ loop.point = "sleeping"
      PROVE  FightInv'
  BY <1>1 DEF Finish, Rest, FightInv, VerdictIsEarned, PlayerDown, MonsterDown
<1>2. CASE TimePasses
  BY <1>2 DEF TimePasses, FightInv, VerdictIsEarned, PlayerDown, MonsterDown, InProgress
<1>3. CASE FirstQuestion
  BY <1>3 DEF FirstQuestion, Pushed, Rest, FightInv, VerdictIsEarned, PlayerDown, MonsterDown, InProgress
<1>4. CASE TickWins
  BY <1>1, <1>4 DEF TickWins
<1>5. CASE MonsterSwing
  <2>1. /\ DOMAIN player' = DOMAIN player /\ DOMAIN monster' = DOMAIN monster
        /\ loop' = [point |-> "swinging", since |-> 0] /\ verdict' # "WON"
    BY <1>5 DEF MonsterSwing, Rest, InProgress
  <2> QED BY <1>5, <2>1, SwingKeepsFlag DEF FightInv, VerdictIsEarned
<1>6. CASE TickLoses
  BY <1>1, <1>6 DEF TickLoses
<1>7. CASE SwingSent
  BY <1>7 DEF SwingSent, Pushed, Rest, FightInv, VerdictIsEarned, PlayerDown, MonsterDown, InProgress
<1>8. CASE TickPushes
  BY <1>8 DEF TickPushes, Pushed, FightInv, VerdictIsEarned, PlayerDown, MonsterDown, InProgress
<1>9. CASE Leave
  BY <1>1, <1>9 DEF Leave
<1>10. ASSUME NEW right \in BOOLEAN, Answer(right) PROVE FightInv'
  BY <1>10 DEF Answer, Answered, FightInv, VerdictIsEarned, PlayerDown, MonsterDown, InProgress
<1>11. ASSUME NEW s \in Skills, UseSkill(s) PROVE FightInv'
  BY <1>11 DEF UseSkill, Cast, FightInv, VerdictIsEarned, PlayerDown, MonsterDown, InProgress
<1>12. CASE UNCHANGED vars
  BY <1>12 DEF vars, FightInv, VerdictIsEarned, PlayerDown, MonsterDown
<1> QED
  BY <1>2, <1>3, <1>4, <1>5, <1>6, <1>7, <1>8, <1>9, <1>10, <1>11, <1>12 DEF Next, LoopStep

(* VerdictIsEarned holds in every reachable state of every fight.           *)
THEOREM VerdictAlwaysEarned == Spec => []VerdictIsEarned
<1>1. FightInv => VerdictIsEarned
  BY DEF FightInv
<1> QED BY <1>1, FightStart, FightStep, PTL DEF Spec
=============================================================================
