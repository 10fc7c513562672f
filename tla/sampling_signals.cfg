SPECIFICATION FairSpec
CONSTANTS
  a = a
  c = c
  file1 = file1
  file2 = file2
  none = none
  NoName = none
  Functions <- MCFunctions
  Faults = {"clock", "start", "stop", "name", "bailout", "limit", "fork"}
  MaxDepth = 3
  MaxSamples = 3
  MaxRequests = 2
INVARIANTS TypeOK NeverKilled ReportComplete
PROPERTIES SamplingGoesOn LedgerSpec
CHECK_DEADLOCK FALSE
