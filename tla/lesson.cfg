CONSTANTS
  keep = keep  extend = extend
  ComboTier1 = 2  ComboTier2 = 3  QuickTime = 1
  MaxHp = 13  Armour = 1  Might = 1000
  Monster <- Boss
  Weakness = 3
  CastTime = 4  SpeedReference = 3  CorrectLockout = 1  WrongLockout = 2
  StartingMana = 1  RoundTime = 2  MinCooldown = 1  SendTime = 1
  Skills = {keep, extend}
  SkillOf <- Catalog
SPECIFICATION FairSpec
INVARIANTS VerdictIsEarned
PROPERTY FightEnds
CHECK_DEADLOCK FALSE
