SPECIFICATION Spec
CONSTANTS
  LONG_MAX = 2000000
  Environments <- MCEnvironments
  Faults = {}
  MaxRequests = 2
INVARIANT AcceptedConfigStarts
CHECK_DEADLOCK FALSE
