CONSTANTS
  None = None  Sweep = Sweep
  Battles = {b1, b2}
  Sockets = {s1, s2}
  PoolSize = 1
  PlayerHp = 2
  MonsterHp = 1
  MaxShown = 2
  MaxFaults = 1
SPECIFICATION FairSpec
INVARIANTS OnlyOnce SettledAsFought
PROPERTIES EveryFightEnds
CHECK_DEADLOCK FALSE
