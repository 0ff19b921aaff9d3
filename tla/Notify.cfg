CONSTANTS
  c1 = c1
  c2 = c2
  n1 = n1
  p1 = p1
  m1 = m1
  Calls = {c1, c2}
  Notices = {n1}
  Promos = {p1}
  Mails = {m1}
  Surfaces = {"web_in_app"}
  MaxTries = 2
  MaxRunning = 2
  Workloads = {{c1, c2}, {n1}, {p1}, {m1}}
  MaxCuts = 2
  Faults = {"key", "error", "realtime"}
  NoRef = NoRef
SPECIFICATION FairSpec
INVARIANTS
  TypeOK
  OnePushPerEvent
  AnnouncedByItsAttempt
CHECK_DEADLOCK FALSE
PROPERTIES InboxPromise EventReachesInbox OrphansAreDeleted
