CONSTANTS
  q1 = q1  q2 = q2  q3 = q3  start = start  hit = hit  ulti = ulti  hat = hat
  duelist = duelist  scholar = scholar  match1 = match1  battle1 = battle1  battle2 = battle2
  lesson1 = lesson1  quest1 = quest1  bronze = bronze  None = None
  Sessions = {q1, q2, q3}
  Requests <- All
  Opening = 2
  Skills = {start, hit, ulti}
  SkillOf <- Catalog
  Starter = start
  Items = {hat}
  PriceOf <- Prices
  Classes = {duelist, scholar}
  ClassPrice = 1
  LessonOf <- Lessons
  Boss = {battle1}
  GoldOf <- Gold
  ReplayGold = 1
  QuestsDone = {quest1}
  PointsOf <- Points1
  MilestoneOf <- Chests
SPECIFICATION Spec
SYMMETRY Anyone
PROPERTY LedgerKept
INVARIANTS GoodsArePaidFor ReplaysFollowClears ClassChangesArePaid BalanceIsLast
CHECK_DEADLOCK FALSE
