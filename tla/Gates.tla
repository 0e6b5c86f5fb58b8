-------------------------------- MODULE Gates --------------------------------
(***************************************************************************)
(* The gate on a lesson, with the numbers the catalog seeds: which monster *)
(* stands there (services/pve/catalog.py, services/game/catalog.py), what  *)
(* the learner brings (services/game/combat_stats.py) and what the fight   *)
(* comes to when answers arrive at a reader's pace.  LessonFight has the   *)
(* fight's interleavings; here every question is answered, no skill is     *)
(* cast, and times are milliseconds since the opening bell.                *)
(***************************************************************************)
EXTENDS CombatRules, SequencesExt

CONSTANTS Matchups,   \* places on the path with the monsters retired: <<unit, retired codes>>
          Streaks,    \* day streaks
          Paces,      \* how long an answer takes
          MaxMisses,  \* bound: wrong answers in a fight
          None        \* no monster, no weak topic

SPEED_REFERENCE == 8000
CORRECT_LOCKOUT == 600
WRONG_LOCKOUT   == 1500
ROUND           == 6000

VARIABLES gate,    \* [unit, boss, retired, monster]
          build,   \* what `resolve' made of the learner's class and streak
          fight    \* [foe, hp, combo, correct, misses, clock, swings, verdict]

vars == <<gate, build, fight>>

-----------------------------------------------------------------------------
Foe(tier, boss, hp, attack, reduction, rage) ==
  [tier |-> tier, boss |-> boss, hp |-> hp, attack |-> attack, reduction |-> reduction,
   enrageAfter |-> rage, enrage |-> 1400]

\* code, tier, boss, max_hp, attack_damage, damage_reduction_permille, enrage_after_rounds
MONSTERS ==
  {<<"SLIME",     Foe(1, FALSE, 235,  8,   0, 9)>>, <<"SLIME_KING",   Foe(1, TRUE, 375, 11,   0, 9)>>,
   <<"GOBLIN",    Foe(2, FALSE, 235,  9,   0, 9)>>, <<"GOBLIN_CHIEF", Foe(2, TRUE, 375, 12,   0, 9)>>,
   <<"DIRE_WOLF", Foe(3, FALSE, 235, 10,   0, 7)>>, <<"ALPHA_WOLF",   Foe(3, TRUE, 375, 13,   0, 7)>>,
   <<"GOLEM",     Foe(4, FALSE, 225, 11, 100, 9)>>, <<"STONE_TITAN",  Foe(4, TRUE, 345, 14, 150, 9)>>,
   <<"WRAITH",    Foe(5, FALSE, 235, 12,   0, 9)>>, <<"LICH",         Foe(5, TRUE, 360, 15, 100, 9)>>,
   <<"DRAKE",     Foe(6, FALSE, 235, 13,   0, 9)>>, <<"DRAGON",       Foe(6, TRUE, 345, 16, 150, 9)>>}

\* seed_monster_catalog never deletes: a retired row is only not active.
Catalog(retired) == {row[2] : row \in {r \in MONSTERS : r[1] \notin retired}}

\* resolve_for_lesson, on the unit's last path lesson or on another.
resolve_for_lesson(unit, lesson, last, retired) ==
  select_monster(Catalog(retired), tier_for_unit(unit), is_boss_lesson(lesson, last))

-----------------------------------------------------------------------------
Part(hp, permille, mana, defence) ==
  [hp |-> hp, permille |-> permille, mana |-> mana, defence |-> defence]

\* WARRIOR, MAGE, ASSASSIN.
CLASSES  == {Part(115, 900, 10, 3), Part(80, 1250, 30, 0), Part(100, 1050, 20, 1)}
Baseline == Part(100, 1000, 0, 0)

attack_for(permille) == Rounded(20 * Greater(0, permille), 1000)

streak_buff(days) == [hp   |-> Lesser(15, Greater(0, days)),
                      mana |-> Lesser(10, Greater(0, days) \div 3)]

\* combat_stats.resolve: the totals, and the line of the card each part gets.
resolve(part, days) ==
  LET buff == streak_buff(days)
      origin == [hp |-> part.hp, atk |-> attack_for(part.permille), defence |-> part.defence,
                 mana |-> part.mana]
      habit == [hp |-> buff.hp, atk |-> 0, defence |-> 0, mana |-> buff.mana]
  IN [hp      |-> part.hp + buff.hp,
      permille |-> part.permille,
      mana    |-> part.mana + buff.mana,
      defence |-> part.defence,
      sources |-> IF buff.hp > 0 \/ buff.mana > 0 THEN <<origin, habit>> ELSE <<origin>>]

-----------------------------------------------------------------------------
InFight == fight.verdict = "IN_PROGRESS"
Monster == gate.monster

TypeOK ==
  /\ build.hp \in 80..130 /\ build.mana \in 0..40
  /\ fight.hp \in 0..build.hp /\ fight.misses \in 0..MaxMisses
  /\ fight.verdict \in {"NO_BATTLE", "IN_PROGRESS", "WON", "LOST"}

Init ==
  /\ \E matchup \in Matchups, lesson \in {1, 2} :
       LET found == resolve_for_lesson(matchup[1], lesson, 2, matchup[2]) IN
       \E monster \in IF found = {} THEN {None} ELSE found :
         gate = [unit |-> matchup[1], boss |-> lesson = 2, retired |-> matchup[2], monster |-> monster]
  /\ \E part \in CLASSES \cup {Baseline}, days \in Streaks : build = resolve(part, days)
  /\ fight = [foe |-> IF gate.monster = None THEN 0 ELSE gate.monster.hp, hp |-> build.hp,
              combo |-> 0, correct |-> 0, misses |-> 0, clock |-> 0, swings |-> 0,
              verdict |-> IF gate.monster = None THEN "NO_BATTLE" ELSE "IN_PROGRESS"]

\* A question is answered `pace' after it came up.  No pace leaves room for two
\* blows; the one whose wind-up ends by then has landed first.
Answer(pace, right) ==
  LET at     == fight.clock + pace
      swing  == (fight.swings + 1) * cast_interval(Monster)
      struck == swing <= at
      hp     == IF struck THEN apply_damage(fight.hp, monster_attack(Monster,
                                 is_enraged(swing, Monster, ROUND), 0, build.defence))
                ELSE fight.hp
      combo  == combo_after(fight.combo, right)
      foe    == IF ~right THEN fight.foe
                ELSE apply_damage(fight.foe, resolve_blow(pace, SPEED_REFERENCE, combo,
                       (build.permille * element_halves(None, None, None)) \div 2,
                       Monster.reduction, 0))
  IN /\ InFight
     /\ right \/ fight.misses < MaxMisses
     /\ fight' =
          IF hp = 0 THEN [fight EXCEPT !.hp = 0, !.swings = @ + 1, !.verdict = "LOST"]
          ELSE [fight EXCEPT
                  !.hp = hp, !.foe = foe, !.combo = combo,
                  !.swings  = IF struck THEN @ + 1 ELSE @,
                  !.correct = IF right THEN @ + 1 ELSE @,
                  !.misses  = IF right THEN @ ELSE @ + 1,
                  !.clock   = at + (IF right THEN CORRECT_LOCKOUT ELSE WRONG_LOCKOUT),
                  !.verdict = IF foe = 0 THEN "WON" ELSE @]
     /\ UNCHANGED <<gate, build>>

Next == \E pace \in Paces, right \in BOOLEAN : Answer(pace, right)

Spec == Init /\ [][Next]_vars

-----------------------------------------------------------------------------
Plain   == build.permille = Baseline.permille
Flawless == fight.hp = build.hp
Reward  == compute_battle_reward(fight.verdict = "WON", fight.correct, Monster.boss, Flawless)

(* A lesson is never left unguarded while the first monsters are active:    *)
(* whoever is retired, the strongest of the right kind that the unit has    *)
(* reached stands there.                                                    *)
GuardsStand ==
  IF Monster = None THEN {"SLIME", "SLIME_KING"} \cap gate.retired # {}
  ELSE /\ Monster.boss = gate.boss /\ Monster.tier <= tier_for_unit(gate.unit)
       /\ \A row \in MONSTERS : /\ row[2].boss = gate.boss /\ row[1] \notin gate.retired
                                /\ row[2].tier <= tier_for_unit(gate.unit)
                                => row[2].tier <= Monster.tier

(* A gate is the whole lesson and a boss half as long again, at any mix of  *)
(* paces up to the reference; it falls to every class that misses nothing,  *)
(* and to a plain learner at the ordinary gates even with a miss.           *)
GatesAreFair ==
  Monster # None =>
    LET lesson == IF Monster.boss THEN 15 ELSE 10 IN
    /\ Plain /\ fight.misses = 0 => fight.correct <= lesson
    /\ Plain /\ InFight => fight.correct < lesson + 2 * fight.misses
    /\ fight.verdict = "LOST" => fight.misses > 0 /\ Monster.boss

(* Clearing a lesson again pays less than clearing any of its kind for the  *)
(* first time, however many answers the replay was dragged out to.          *)
ReplayPaysLess ==
  fight.verdict = "WON" =>
    LET again  == replayed(Reward)
        fewest == IF Monster.boss THEN 9 ELSE 6
        first  == compute_battle_reward(TRUE, fewest, Monster.boss, FALSE)
    IN again.exp < first.exp /\ again.gold < first.gold /\ again.exp > 0 /\ again.gold > 0

Total(field) == FoldLeft(LAMBDA sum, line : sum + line[field], 0, build.sources)

(* The lines of a profile card add up to what the fight uses.               *)
CardAddsUp == /\ Total("hp") = build.hp           /\ Total("mana") = build.mana
              /\ Total("defence") = build.defence /\ Total("atk") = attack_for(build.permille)
=============================================================================
