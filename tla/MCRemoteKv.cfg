SPECIFICATION FairSpec
CONSTANTS
  Tasks = {t1, t2}
  Buffer = 1
  MaxOps = 3
  None = None
INVARIANTS OneInFlight OwnAnswers
PROPERTY OperationsEnd
CHECK_DEADLOCK FALSE
