CONSTANTS
  s1 = s1
  s2 = s2
  web = web
  Sockets = {s1, s2}
  Surfaces = {web}
  Marking = {s1}
  Locating = {s2}
  MaxInFlight = 2
  Guards = {"jwt"}
  Faults = {}
  Customer = Customer
  TestUser = TestUser
  NoUser = NoUser
  NoSocket = NoSocket
SPECIFICATION Spec
INVARIANT OfflineAfterDisconnect
CHECK_DEADLOCK FALSE
