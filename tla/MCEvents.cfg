SPECIFICATION MCSpec
CONSTANTS
  Flows = {f1, f2, f3}
  MainLcore = 1
  GenLcore = 1
  NoFlow = NoFlow
  Handles = {h1, h2, h3}
  Timers = {t1, t2}
  None = None
  MaxDepth = 3
INVARIANTS
  TypeOK
  NothingRefused
  ListsMatchStatus
  AllReturned
  OneOwner
  BoundIffHolding
PROPERTIES
  ImplementsTimers
  EventsFire
CHECK_DEADLOCK FALSE
