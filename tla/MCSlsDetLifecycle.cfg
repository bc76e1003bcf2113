SPECIFICATION Spec
CONSTANTS
  Capacity = 4
  Serials = {s1, s2}
  Cells = {c1, c2}
INVARIANTS
  QuietEndIsSafe
  QuietEndIsClean
  StringIsAlive
PROPERTY
  DestructorReturns
\* The process ends, or the model stops at undefined behaviour.
CHECK_DEADLOCK FALSE
