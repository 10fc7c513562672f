SPECIFICATION FairSpec
CONSTANTS
  a = a
  c = c
  file1 = file1
  file2 = file2
  none = none
  NoName = none
  Functions <- MCFunctions
  Faults = {"limit"}
  MaxDepth = 2
  MaxSamples = 2
  MaxRequests = 1
PROPERTY SamplesAnyScript
CHECK_DEADLOCK FALSE
