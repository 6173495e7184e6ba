CONSTANTS
  Pushers = {t1, t2}
  MaxCalls = 2
  MaxRounds = 1
  SameCore = TRUE
SPECIFICATION FairSpec
INVARIANTS TypeOK WaitIsSound
PROPERTIES PushesServed TasksRunAsPushed
CHECK_DEADLOCK FALSE
