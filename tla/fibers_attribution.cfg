SPECIFICATION Spec
CONSTANTS
  a = a
  b = b
  file = file
  none = none
  NoName = none
  Fibers = {main, f1}
  MainFiber = main
  Functions <- MCFunctions
  Faults = {}
  Threshold = 1
  MaxTime = 3
  MaxCalls = 3
INVARIANT ThresholdShowsSlowCalls
CHECK_DEADLOCK FALSE
