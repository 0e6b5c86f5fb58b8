CONSTANTS
 NoCommand = NoCommand
 MaxCommands = 4
 m1 = m1 m2 = m2 m3 = m3 m4 = m4 m5 = m5 r1 = r1 r2 = r2 r3 = r3 r4 = r4
 l1 = l1 l2 = l2 l3 = l3 h1 = h1 h2 = h2 h3 = h3 h4 = h4 u1 = u1 x1 = x1
 mc = mc reading = reading artA = artA artB = artB artC = artC artD = artD artE = artE
 NoBand = NoBand NoPassage = NoPassage Idle = Idle
 Items <- MCItems
 Sources <- MCSources
 Bands <- MCBands
 Kinds <- MCKinds
 BandOf <- MCBandOf
 KindOf <- MCKindOf
 PassageOf <- MCPassageOf
 Answerable = {m1, m2, m3, m4, m5, r1, r2, r3, r4, l1, l2, l3, h1, h2, h3, h4, u1}
 PerLesson = 2
 LessonsPerUnit = 2
 MaxUnits = 2
 BATCH_SIZE = 3
 MaxRuns = 3
 Books <- MCBooks
 AnswerOf <- MCAnswerOf
 Pictured = {"a", "b", "c", "d", "e", "f", "h", "i"}
 WORDS_PER_LESSON = 2
 OPTIONS_PER_QUESTION = 3
 None = None
 ComboTier1 = 3
 ComboTier2 = 5
 QuickTime = 3000
 Matchups <- MCMatchups
 Streaks = {0, 20}
 Paces = {2000, 5000}
 MaxMisses = 1
SPECIFICATION UpkeepSpec
INVARIANTS SchemaHolds ContentIsWhole
CHECK_DEADLOCK FALSE
