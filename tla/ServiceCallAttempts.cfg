SPECIFICATION FairSpec
CONSTANTS
  MaxRetries = 2
  Codes = {0, 7}
INVARIANT AtMostRetries
CHECK_DEADLOCK FALSE
