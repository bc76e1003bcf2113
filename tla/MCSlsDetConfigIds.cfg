INIT Init
NEXT Next
CONSTANTS
  Lines <- MCLinesShort
  Ids = {0, 1, 2}
  MaxPorts = 2
INVARIANTS
  UniqueMemoryIsOwn
CHECK_DEADLOCK FALSE
