SPECIFICATION Spec
CONSTANTS
  f = f
  g = g
  Names <- MCNames
  Faults = {"clock", "fork"}
  Width = 6
  STACK_BLOCK_SIZE = 2
  FUNC_UNITS_DEFAULT_CAPACITY = 3
  Kilo = 4
  MaxChanges = 3
  MaxCalls = 3
INVARIANTS FiguresExact UndisturbedMemoryExact OverheadBounded
CHECK_DEADLOCK FALSE
