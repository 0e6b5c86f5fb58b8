CONSTANTS
  u1 = u1  u2 = u2  u3 = u3
  s1 = s1  s2 = s2  s3 = s3
  None = None
  Users = {u1, u2}
  Sockets = {s1, s2}
  Owner <- OnePair
  Matches = {m1}
  Loops = {l1, l2}
  Graces = {}
  Sweepers = {}
  DoubleStart = TRUE
  MaxCrashes = 0
  MaxDbErrors = 0
SPECIFICATION Spec
INVARIANTS ChargedOnce
