SPECIFICATION MCSpec
CONSTANTS
  MaxRetries = 2
  Codes = {0, 7}
  o1 = o1
  o2 = o2
  Objects = {o1, o2}
  Descriptors = {1, 2}
  MaxCalls = 3
INVARIANTS
  NoneAfterSuccess
  HonestResult
  SpoiltOnlyByAnswer
  AnsweredAsMeant
  LastCallReachable
PROPERTY CallEndsOnceMade
\* the call ends, and so do the requests it left behind
CHECK_DEADLOCK FALSE
