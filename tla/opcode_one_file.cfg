SPECIFICATION Spec
CONSTANTS
  file1 = file1
  file2 = file2
  NULL = NULL
  Dangling = Dangling
  Files = {file1}
  Lines <- OneFile
  Faults = {"clock", "memory"}
  opcode_threshold = 0
  MaxTime = 6
  MaxRequests = 1
INVARIANTS TypeOK OneFileIsTrue
CHECK_DEADLOCK FALSE
