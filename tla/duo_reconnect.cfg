CONSTANTS
  u1 = u1  u2 = u2  u3 = u3
  s1 = s1  s2 = s2  s3 = s3
  None = None
  Users = {u1, u2}
  Sockets = {s1, s2, s3}
  Owner <- Reconnecting
  Matches = {m1}
  Loops = {l1}
  Graces = {g1, g2}
  Sweepers = {}
  DoubleStart = FALSE
  MaxCrashes = 1
  MaxDbErrors = 1
SPECIFICATION Spec
SYMMETRY Pools
INVARIANTS QueueIsListening AbsentIsWatched EnergyIsFair
