CONSTANTS
  p1 = p1  p2 = p2  keep = keep  more = more  peek = peek
  One = p1  Two = p2  None = None
  ComboTier1 = 1  ComboTier2 = 2  QuickTime = 1
  DeckSize = 2  MaxHp = 60
  TimePerQuestion = 4  TimeCap = 4  Lateness = 1
  CorrectLockout = 1  WrongLockout = 2  StunTime = 3  RoundTime = 2  MinCooldown = 1
  Skills = {keep, more, peek}
  SkillOf <- AllThree
  Equipped <- AllEquipped
SPECIFICATION FairSpec
INVARIANTS DeckIsConserved ShownOnceAnsweredOnce
PROPERTIES NoPushWhileLocked FightEnds
CHECK_DEADLOCK FALSE
