SPECIFICATION Spec
CONSTANTS
  file1 = file1
  file2 = file2
  NULL = NULL
  Dangling = Dangling
  Files = {file1, file2}
  Lines <- TwoFiles
  Faults = {}
  opcode_threshold = 0
  MaxTime = 3
  MaxRequests = 1
INVARIANT RowsAreExecuted
CHECK_DEADLOCK FALSE
