CONSTANTS
  ua = ua  ub = ub  uc = uc  m1 = m1  m2 = m2  c1 = c1  c2 = c2  c3 = c3  None = None
  Users = {ua, ub, uc}
  Matches = {m1, m2}
  Seats <- SharedSeats
  Calls = {c1, c2, c3}
  CallOn <- TwiceOnOne
  Days = 1
  MonthOf <- OneMonth
  SeasonLength = 1
  MaxErrors = 1
  MaxCrashes = 1
SPECIFICATION Spec
SYMMETRY Retries
INVARIANTS SettledInOrder CountsAreTrue
CHECK_DEADLOCK FALSE
