CONSTANTS
  Pushers = {t1, t2}
  MaxCalls = 2
  MaxRounds = 0
  SameCore = FALSE
SPECIFICATION FairSpec
PROPERTY WaitReturns
CHECK_DEADLOCK FALSE
