CONSTANTS
 r1 = r1 r2 = r2 x1 = x1 x2 = x2 t1 = t1 t2 = t2 t3 = t3
 None = None
 Requests = {r1, r2}
 Tokens = {t1, t2, t3}
 Resets = {t1, t2}
 Passwords = {x1, x2}
 Files = {1, 2, 3}
 Users = {x1, x2}
 Devices = {t1}
 Processes = {r1, r2}
 Batch = 1
 Kinds = {"STREAK_REMINDER", "QUEST_REMINDER"}
 Options = {1, 2, 3}
 Orders = {1, 2, 3}
 Lessons = {1, 2}
 Filters = {1, 2}
 Banks <- MCBanks
 MaxCount = 2
 OverFetch = 1
 QUESTIONS_PER_LESSON = 1
 Rules <- MCRules
 MaxKeyClock = 9
 Rate = 2
 Burst = 3
 MaxSocketClock = 5
 MAX_ENERGY = 3
 REGEN_INTERVAL = 3
 MATCH_COST = 1
 REVIEW_REFILL = 2
 MaxSkew = 2
 MaxTime = 12
 Opening <- MCOpening
 Deck <- MCDeck
 Extra = {"x"}
 Guards <- MCGuards
 ORDER_OFFSET = 10
 MaxScripts = 2
 MaxEdits = 1
 MaxStarts = 2
 Absent = Absent
SPECIFICATION AccountsSpec
SYMMETRY Sym
INVARIANTS ExchangedOnce AvatarIsStored SentOnce ContentIsAskable LimitsHold PathIsKept
PROPERTY LazyIsEager
CHECK_DEADLOCK FALSE
