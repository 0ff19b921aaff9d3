CONSTANTS
  q1 = q1
  q2 = q2
  r1 = r1
  r2 = r2
  c1 = c1
  c2 = c2
  Requests = {q1, q2}
  Records = {r1, r2}
  Contacts = {c1, c2}
  MaxAttempts = 2
  Faults = {"abandon", "edit"}
  NoRecord = NoRecord
  NoContact = NoContact
SPECIFICATION Spec
SYMMETRY Symmetry
INVARIANT UsedOnce
CHECK_DEADLOCK FALSE
