SPECIFICATION FairSpec
CONSTANTS
  a = a
  file = file
  none = none
  NoName = none
  Functions <- MCFunctions
  Faults = {"clock", "name", "bailout"}
  MaxTime = 2
  MaxCalls = 4
  MaxRequests = 2
INVARIANTS TypeOK PrintedIsTrue StackMatchesCalls
PROPERTIES LedgerSpec EndingFinishes
CHECK_DEADLOCK FALSE
