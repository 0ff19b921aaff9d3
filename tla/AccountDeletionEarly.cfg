CONSTANTS
  p1 = p1
  p2 = p2
  p3 = p3
  Requests = {p1, p2, p3}
  Grace = 2
  MaxDay = 5
  MaxAttempts = 2
  Faults = {"crash"}
SPECIFICATION Spec
INVARIANT NotBeforeAnnounced
CHECK_DEADLOCK FALSE
