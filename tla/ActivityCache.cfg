CONSTANTS
  r1 = r1
  r2 = r2
  r3 = r3
  w1 = w1
  w2 = w2
  Readers = {r1, r2, r3}
  Writers = {w1, w2}
  Faults = {"error", "stop", "slow"}
  None = None
SPECIFICATION FairSpec
INVARIANTS
  TypeOK
  OneLoaderUnlessLapsed
  FreshUnlessTainted
PROPERTY CallsEnd
CHECK_DEADLOCK FALSE
