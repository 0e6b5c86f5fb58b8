------------------------------ MODULE SkillTree ------------------------------
(***************************************************************************)
(* The skills the catalog seeds (services/game/catalog.py), how a player   *)
(* comes to own them and to carry them (services/game/game_service.py),    *)
(* and the bar a fight is entered with (services/game/loadout_builder.py). *)
(*                                                                         *)
(* One player with two tabs: one sets the bar, in a read and a write, and  *)
(* one changes class, in three commits.  Wallet has the gold, so whether   *)
(* it is enough is left open here; LearnPath has the units behind the      *)
(* ultimates.  Levels stand still.                                         *)
(***************************************************************************)
EXTENDS Naturals, FiniteSets

CONSTANTS Levels,       \* levels a player may be held at
          Retirements,  \* sets of skills that may be out of the catalog
          MaxUnlocks, MaxChanges,  \* bounds
          WishSizes,    \* how many skills a player asks for at once
          None          \* no class, no parent, nothing under way

LOADOUT_SLOTS == 3
MAX_MANA      == 100

VARIABLES level, retired, class, skills, bar,
          setting,  \* [class, bar] of a set_loadout that has checked and not yet written
          changing, \* [to, at] of a choose_class that has paid
          entering, \* where a fight's bar is being made: "grant", "equip", "fill", or None
          carried,  \* what the last fight was entered with: None before it, "skills", or why none
          changes,
          raced,    \* history: the bar was written while the class was being changed
          bared     \* history: who emptied the bar last: "nobody", "player", "change" or "crash"

\* None is no word of the ones it stands in for the absence of.
SkillTreeAssumption == None \notin {"nobody", "grant", "equip", "fill"}

vars == <<level, retired, class, skills, bar, setting, changing, entering, carried, changes, raced, bared>>

-----------------------------------------------------------------------------
Skill(school, parent, needs, effect, magnitude, rounds, mana) ==
  [class |-> school, parent |-> parent, level |-> needs, effect |-> effect,
   magnitude |-> magnitude, rounds |-> rounds, mana |-> mana]

SKILLS ==
  [STRIKE_X2      |-> Skill(None,       None,          1, "COMBO_KEEP",     1, 1, 50),
   SHIELD         |-> Skill(None,       None,          1, "REMOVE_OPTIONS", 1, 0, 40),
   WAR_GUARD      |-> Skill("WARRIOR",  None,          2, "REMOVE_OPTIONS", 1, 0, 45),
   WAR_MEND       |-> Skill("WARRIOR",  "WAR_GUARD",   5, "REMOVE_OPTIONS", 2, 0, 50),
   WAR_LAST_STAND |-> Skill("WARRIOR",  "WAR_MEND",    9, "REMOVE_OPTIONS", 3, 0, 70),
   MAGE_BOLT      |-> Skill("MAGE",     None,          2, "TIME_BONUS",     3, 1, 55),
   MAGE_FREEZE    |-> Skill("MAGE",     "MAGE_BOLT",   5, "TIME_BONUS",     5, 1, 55),
   MAGE_DRAIN     |-> Skill("MAGE",     "MAGE_FREEZE", 9, "TIME_BONUS",     8, 1, 60),
   ASSA_FOCUS     |-> Skill("ASSASSIN", None,          2, "COMBO_KEEP",     1, 1, 40),
   ASSA_REVEAL    |-> Skill("ASSASSIN", "ASSA_FOCUS",  5, "COMBO_KEEP",     1, 2, 45),
   ASSA_EXECUTE   |-> Skill("ASSASSIN", "ASSA_REVEAL", 9, "COMBO_KEEP",     1, 3, 60)]

\* Neutral, and bound to a unit of the path instead of a level.
ULTIMATES ==
  [ULT_OVERDRIVE  |-> Skill(None,       None,          1, "REMOVE_OPTIONS", 3, 0, 80),
   ULT_AEGIS      |-> Skill(None,       None,          1, "COMBO_KEEP",     1, 2, 70),
   ULT_SIPHON     |-> Skill(None,       None,          1, "TIME_BONUS",    10, 1, 90)]

Codes    == DOMAIN SKILLS \cup DOMAIN ULTIMATES
SkillOf  == [code \in Codes |-> IF code \in DOMAIN SKILLS THEN SKILLS[code] ELSE ULTIMATES[code]]
STARTERS == {"STRIKE_X2", "SHIELD"}
Schools  == {"WARRIOR", "MAGE", "ASSASSIN"}
Fits(code, school) == SkillOf[code].class \in {None, school}

TypeOK ==
  /\ level \in Levels /\ retired \in Retirements /\ class \in Schools \cup {None}
  /\ bar \subseteq skills /\ skills \subseteq Codes
  /\ Cardinality(bar) <= LOADOUT_SLOTS

Init ==
  /\ level \in Levels /\ retired \in Retirements
  /\ class = None /\ skills = {} /\ bar = {} /\ changes = 0
  /\ setting = None /\ changing = None /\ entering = None /\ carried = None
  /\ raced = FALSE /\ bared = "nobody"

-----------------------------------------------------------------------------
\* Mutant: the level is looked at, the parent is not.
UnlockableByLevel(code) ==
  /\ Fits(code, class)
  /\ level >= SkillOf[code].level

\* `_lock_reason': a parent counts while it is in the catalog.
Unlockable(code) ==
  /\ Fits(code, class)
  /\ SkillOf[code].parent \in {None} \cup (skills \ retired)
  /\ level >= SkillOf[code].level

unlock_skill(code) ==
  /\ code \notin skills \cup retired \cup STARTERS
  /\ Cardinality(skills \ STARTERS) < MaxUnlocks
  /\ Unlockable(code)
  /\ skills' = skills \cup {code}
  /\ UNCHANGED <<level, retired, class, bar, setting, changing, entering, carried, changes, raced, bared>>

\* set_loadout: every refusal, against the rows as they are now.
Ask(wished) ==
  /\ setting = None
  /\ wished \subseteq skills \ retired /\ Cardinality(wished) <= LOADOUT_SLOTS
  /\ \A code \in wished : Fits(code, class)
  /\ setting' = [class |-> class, bar |-> wished]
  /\ UNCHANGED <<level, retired, class, skills, bar, changing, entering, carried, changes, raced, bared>>

\* replace_loadout.
SetBar ==
  /\ setting # None
  /\ bar' = setting.bar /\ setting' = None
  /\ raced' = (changing # None \/ setting.class # class)
  /\ bared' = IF setting.bar = {} THEN "player" ELSE "nobody"
  /\ UNCHANGED <<level, retired, class, skills, changing, entering, carried, changes>>

\* choose_class: the first class is free and leaves the bar alone.
ChooseFirst(school) ==
  /\ class = None
  /\ class' = school
  /\ UNCHANGED <<level, retired, skills, bar, setting, changing, entering, carried, changes, raced, bared>>

Pay(school) ==
  /\ class \notin {None, school} /\ changing = None /\ changes < MaxChanges
  /\ changing' = [to |-> school, at |-> "clear"]
  /\ changes' = changes + 1
  /\ UNCHANGED <<level, retired, class, skills, bar, setting, entering, carried, raced, bared>>

ClearBar ==
  /\ changing # None /\ changing.at = "clear"
  /\ bar' = {} /\ bared' = "change" /\ raced' = FALSE
  /\ changing' = [changing EXCEPT !.at = "switch"]
  /\ UNCHANGED <<level, retired, class, skills, setting, entering, carried, changes>>

Switch ==
  /\ changing # None /\ changing.at = "switch"
  /\ class' = changing.to /\ changing' = None
  /\ UNCHANGED <<level, retired, skills, bar, setting, entering, carried, changes, raced, bared>>

-----------------------------------------------------------------------------
(* LoadoutBuilder.build: an empty bar is filled for who lacks a starter.    *)

Starters == STARTERS \ retired

\* What is retired is left out.
Equipped == bar \ retired
Carry    == carried' = IF bar' \ retired # {} THEN "skills" ELSE IF bar' # {} THEN "retired" ELSE bared'

EnterFight ==
  /\ entering = None
  /\ bared' = bared
  /\ IF bar = {} /\ ~(Starters \subseteq skills)
     THEN entering' = "grant" /\ UNCHANGED <<bar, carried>>
     ELSE bar' = bar /\ Carry /\ UNCHANGED entering
  /\ UNCHANGED <<level, retired, class, skills, setting, changing, changes, raced>>

GrantStarters ==
  /\ entering = "grant"
  /\ skills' = skills \cup Starters
  /\ entering' = IF bar = {} THEN "fill" ELSE "equip"
  /\ UNCHANGED <<level, retired, class, bar, setting, changing, carried, changes, raced, bared>>

\* replace_loadout, on what was an empty bar a moment ago.
FillBar ==
  /\ entering \in {"fill", "equip"}
  /\ bar' = IF entering = "fill" THEN Starters ELSE bar
  /\ bared' = IF entering = "fill" THEN "nobody" ELSE bared
  /\ raced' = (raced /\ entering = "equip")
  /\ Carry /\ entering' = None
  /\ UNCHANGED <<level, retired, class, skills, setting, changing, changes>>

\* The process ends: what was under way is gone, what was committed stays.
Crash ==
  /\ entering # None \/ changing # None \/ setting # None
  /\ entering' = None /\ changing' = None /\ setting' = None
  /\ bared' = IF entering = "fill" /\ bar = {} THEN "crash" ELSE bared
  /\ UNCHANGED <<level, retired, class, skills, bar, carried, changes, raced>>

Next ==
  \/ \E code \in Codes : unlock_skill(code)
  \/ \E wished \in SUBSET skills : Cardinality(wished) \in WishSizes /\ Ask(wished)
  \/ SetBar
  \/ \E school \in Schools : ChooseFirst(school) \/ Pay(school)
  \/ ClearBar \/ Switch \/ EnterFight \/ GrantStarters \/ FillBar \/ Crash

Spec == Init /\ [][Next]_vars

-----------------------------------------------------------------------------
(* A bar is never carried into a fight with a skill on it that a full mana  *)
(* bar could not cast, nor one of another school; only a bar written while  *)
(* the class was being changed may hold the old school's.                   *)
BarIsCastable ==
  /\ ~raced /\ changing = None => \A code \in bar : Fits(code, class)
  /\ \A code \in Equipped : SkillOf[code].mana <= MAX_MANA

(* Nobody carries an empty bar into a fight unless they emptied it, changed *)
(* class since, were cut off between the grant and the filling, or had      *)
(* everything on it retired.                                                *)
EmptyByChoice ==
  carried = "nobody" => Starters = {}

(* Whoever owns a skill owns all below it, each a stronger or longer form   *)
(* of one lifeline, dearer in mana or the same.                             *)
TreeIsClimbed ==
  \A code \in skills :
    LET parent == SkillOf[code].parent IN
    parent # None =>
      /\ parent \in skills
      /\ SkillOf[parent].effect = SkillOf[code].effect
      /\ SkillOf[parent].level < SkillOf[code].level
      /\ SkillOf[parent].mana <= SkillOf[code].mana
      /\ \/ SkillOf[parent].magnitude < SkillOf[code].magnitude
         \/ SkillOf[parent].rounds < SkillOf[code].rounds
=============================================================================
