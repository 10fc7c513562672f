SPECIFICATION Spec
CONSTANTS
  Limits <- MCLimits
  Thresholds = {1, 2}
  UintWidth = 3
  HT_MIN_SIZE = 1
  HT_MAX_SIZE = 6
  MaxSlots = 4
  Unset = Unset
  Strings <- MCStrings
  Tables <- MCTables
  sampling_interval = 100
  sampling_threshold = 1
  Faults = {"clock", "open", "gzip", "write", "close", "bailout"}
INVARIANTS TypeOK TopN WellFormed FileHasUnits  
CHECK_DEADLOCK FALSE
