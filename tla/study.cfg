CONSTANTS
 r1 = r1 r2 = r2 c1 = c1 c2 = c2 e1 = e1 e2 = e2 b1 = b1 b2 = b2
 None = None
 Requests = {r1, r2}
 Challenges = {c1, c2}
 Sittings = {e1, e2}
 Questions = {c1, c2}
 Caps = {1}
 RawLevel = 1
 PassPercent = 50
 TimeLimit = 0
 MaxClock = 1
 MaxTurns = 2
 SessionsPerDay = 1
 MaxLines = 6
 Quests = {1, 2}
 Peak = {2}
 Target <- MCTarget
 Points <- MCPoints
 Chests = {b1, b2}
 Milestone <- MCMilestone
 MaxAmount = 2
 Starts <- MCStarts
 Corrects = {0, 7}
 Bonuses <- MCBonuses
 MaxMatches = 2
 Retired <- MCRetired
 DRAW_ATTEMPTS = 2
 MaxHistory = 5
 HISTORY_MESSAGES = 3
 HINT_COUNT = 2
 Scores <- MCScores
 Levels = {5}
 SkillsOut <- MCSkillsOut
 ItemsOut <- MCItemsOut
 MaxUnlocks = 2
 MaxChanges = 1
 WishSizes = {0, 1, 4}
 MaxItems = 3
SPECIFICATION StudySpec
SYMMETRY Sym
INVARIANTS CompletionIsHonoured CapsAreEarned LinesAlternate QuestsAddUp KitIsEarned
PROPERTY KeptAsGiven
CHECK_DEADLOCK FALSE
