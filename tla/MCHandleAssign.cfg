SPECIFICATION HandleSpec
CONSTANTS
  Handles = {h1, h2, h3}
  Timers = {t1, t2, t3}
  None = None
  MaxDepth = 6
INVARIANTS
  AssignmentFitsStack
CHECK_DEADLOCK FALSE
