---------------------------- MODULE CombatRules ----------------------------
(***************************************************************************)
(* The pure rules of an answer (services/game/combat.py and                *)
(* services/duo/scoring.py): points, mana, damage, combo, outcome.         *)
(*                                                                         *)
(* Times are in the caller's unit; every rule but QUICK reads only their   *)
(* ratio.  The code's floats are exact fractions here, rounded as Python   *)
(* rounds: to the nearest integer, a half to the even one.                 *)
(***************************************************************************)
EXTENDS Integers

CONSTANTS ComboTier1, ComboTier2,  \* COMBO_TIER_1, COMBO_TIER_2 (3 and 5)
          QuickTime                \* QUICK_THRESHOLD_MS

ASSUME ComboAssumption == /\ ComboTier1 \in Nat \ {0} /\ ComboTier2 \in Nat
                          /\ ComboTier1 <= ComboTier2 /\ ComboTier2 > 1
                          /\ QuickTime \in Nat

Greater(a, b) == IF a >= b THEN a ELSE b
Lesser(a, b)  == IF a <= b THEN a ELSE b

\* round(n / d) for n >= 0, d > 0
Rounded(n, d) == LET q == n \div d
                     r == 2 * (n % d)
                 IN IF r > d \/ (r = d /\ q % 2 = 1) THEN q + 1 ELSE q

\* What is left of the time limit: the speed share is Left / limit, 1 without a limit.
Left(elapsed, limit) == IF limit <= 0 THEN 1 ELSE Greater(0, limit - Greater(0, elapsed))
Over(limit)          == IF limit <= 0 THEN 1 ELSE limit

combo_bonus_points(combo) == CASE combo >= ComboTier2 -> 120
                               [] combo >= ComboTier1 /\ combo < ComboTier2 -> 50
                               [] OTHER -> 0

award_points(correct, elapsed, limit, combo) ==
  IF ~correct THEN 0
  ELSE Rounded(500 * (Over(limit) + Left(elapsed, limit)), Over(limit)) + combo_bonus_points(combo)

award_damage(correct, elapsed, limit) ==
  IF ~correct THEN 0 ELSE Rounded(10 * (Over(limit) + Left(elapsed, limit)), Over(limit))

award_mana(correct, elapsed, limit) ==
  IF ~correct THEN 5 ELSE 20 + Rounded(15 * Left(elapsed, limit), Over(limit))

gain_mana(current, amount) == Lesser(100, Greater(0, current + amount))

combo_after(combo, correct) == IF correct THEN combo + 1 ELSE 0

\* combo_multiplier, in halves; only the second tier stuns.
combo_halves(combo) == CASE combo >= ComboTier2 -> 4
                         [] combo >= ComboTier1 /\ combo < ComboTier2 -> 3
                         [] OTHER -> 2
Stuns(combo) == combo >= ComboTier2

apply_damage(hp, damage) == Greater(0, hp - Greater(0, damage))

apply_defence(damage, flat) ==
  IF flat <= 0 \/ damage <= 0 THEN Greater(0, damage) ELSE Greater(1, damage - flat)

classify_strike(elapsed, limit) ==
  CASE elapsed <= QuickTime -> "QUICK"
    [] elapsed > QuickTime /\ limit > 0 /\ 10 * elapsed >= 6 * limit -> "HEAVY"
    [] OTHER -> "NORMAL"

\* resolve_blow's final damage (element 1.0): shield first, then flat defence;
\* a HEAVY strike ignores half of both.
resolve_blow(elapsed, limit, combo, attack, shield, flat) ==
  LET strike == classify_strike(elapsed, limit)
      raw    == award_damage(TRUE, elapsed, limit) + (IF strike = "QUICK" THEN 4 ELSE 0)
      Pierced(n) == IF strike = "HEAVY" THEN Rounded(Greater(0, n), 2) ELSE Greater(0, n)
      reduction  == Lesser(1000, Pierced(shield))
  IN apply_defence(Rounded(raw * combo_halves(combo) * attack * (1000 - reduction), 2000000),
                   Pierced(flat))

-----------------------------------------------------------------------------
\* decide_outcome from player one's point of view; `elapsed' counts against them.
decide_outcome(one, two) ==
  LET Ahead(a, b) ==
        \/ a.deckCleared /\ ~b.deckCleared
        \/ /\ a.deckCleared = b.deckCleared
           /\ \/ a.score > b.score
              \/ a.score = b.score /\ a.correct > b.correct
              \/ a.score = b.score /\ a.correct = b.correct /\ a.elapsed < b.elapsed
  IN CASE Ahead(one, two) -> "WIN" [] Ahead(two, one) -> "LOSE" [] OTHER -> "DRAW"

invert(outcome) == CASE outcome = "WIN" -> "LOSE" [] outcome = "LOSE" -> "WIN" [] OTHER -> "DRAW"
-----------------------------------------------------------------------------
(* The monster's side (services/pve/monster.py), in milliseconds, and what  *)
(* a lesson battle pays (services/pve/rewards.py).                          *)

Tiers == 1..6

\* Eight units to a tier; the path may outgrow the catalog.
tier_for_unit(unit) == 1 + Lesser(5, Greater(0, unit) \div 8)

is_boss_lesson(lesson, last) == lesson >= last

\* The monsters a lesson may get: of its kind, the highest tier at or below; none, no battle.
select_monster(candidates, tier, boss) ==
  LET matching == {m \in candidates : m.boss = boss /\ m.tier <= tier}
  IN {m \in matching : \A other \in matching : other.tier <= m.tier}

\* A boss winds up 1.4 times as long as the others of its tier.
cast_interval(m) ==
  LET tier     == Greater(1, Lesser(6, m.tier))
      interval == 15000 - (tier - 1) * 500
  IN Greater(1200, IF m.boss THEN (interval * 14) \div 10 ELSE interval)

enrage_after(m, round) == Greater(0, m.enrageAfter) * round

is_enraged(elapsed, m, round) == m.enrageAfter <= 0 \/ elapsed >= enrage_after(m, round)

\* In halves: 1.5 on the monster's weak topic.
element_halves(weak, topic, none) == IF weak # none /\ weak = topic THEN 3 ELSE 2

\* The blow at the end of a wind-up: rage, then the shield, then flat defence.
monster_attack(m, enraged, shield, flat) ==
  LET strength == Greater(0, m.attack)
      raw      == IF enraged THEN (strength * Greater(0, m.enrage)) \div 1000 ELSE strength
      held     == Lesser(Greater(0, shield), 1000)
  IN Greater(0, apply_defence((raw * (1000 - held)) \div 1000, flat))

-----------------------------------------------------------------------------
NoReward == [exp |-> 0, gold |-> 0]

compute_battle_reward(won, correct, boss, flawless) ==
  IF ~won THEN NoReward
  ELSE [exp  |-> 20 + 3 * Greater(0, correct) + (IF boss THEN 30 ELSE 0)
                    + (IF flawless THEN 15 ELSE 0),
        gold |-> 10 + Greater(0, correct) + (IF boss THEN 15 ELSE 0)]

replayed(reward) == [exp  |-> (reward.exp * 300) \div 1000,
                     gold |-> (reward.gold * 300) \div 1000]
=============================================================================
