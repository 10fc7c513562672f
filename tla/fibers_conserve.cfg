SPECIFICATION Spec
CONSTANTS
  a = a
  b = b
  file = file
  none = none
  NoName = none
  Fibers = {main, f1, f2}
  MainFiber = main
  Functions <- MCFunctions
  Faults = {}
  Threshold = 1
  MaxTime = 2
  MaxCalls = 5
INVARIANTS CallsExact TimeConserved
CHECK_DEADLOCK FALSE
