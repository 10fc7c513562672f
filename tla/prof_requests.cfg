SPECIFICATION Spec
CONSTANTS
  LONG_MAX = 2000000
  Environments <- MCEnvironments
  Faults = {"clock", "log", "file", "bailout", "late"}
  MaxRequests = 2
INVARIANTS TypeOK HooksFindTables NothingLeft OneAnswer RunsWithinBounds ReadersAgree
CHECK_DEADLOCK FALSE
