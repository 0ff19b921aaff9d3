CONSTANTS
  a1 = a1
  a2 = a2
  a3 = a3
  h1 = h1
  h2 = h2
  Attempts = {a1, a2, a3}
  Payloads = {h1, h2}
  Faults = {"slow", "redis", "crash", "day"}
  NoPayload = NoPayload
  NoResponse = NoResponse
  NoAttempt = NoAttempt
SPECIFICATION Spec
INVARIANTS
  TypeOK
  OneEffectUnlessLapsed
  AnswersMatch
  EffectsStayKnown
PROPERTIES
  RecordedStays
  PromiseKept
CHECK_DEADLOCK FALSE
