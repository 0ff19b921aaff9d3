CONSTANTS
  p1 = p1
  p2 = p2
  d1 = d1
  d2 = d2
  r1 = r1
  r2 = r2
  s1 = s1
  s2 = s2
  Requests = {p1}
  Devices = {d1, d2}
  Rows = {r1, r2}
  Sessions = {s1, s2}
  MaxToken = 2
  Faults = {"push"}
  NoDevice = NoDevice
  NoRow = NoRow
  NoSession = NoSession
SPECIFICATION Spec
SYMMETRY Symmetry
INVARIANT SingleMobileSession
CHECK_DEADLOCK FALSE
