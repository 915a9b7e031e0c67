SPECIFICATION FairSpec
CONSTANTS
  CntMbufs = 5
  RxRing = 1
  TxRing = 1
  MaxCaptures = 2
  MaxSegs = 2
  Captures <- MCCaptures
  Main = m
  Worker = w
  Threads = {m, w}
  NoThread = NoThread
INVARIANTS
  TypeOK
  PoolOutlivesMbufs
  EndedHoldsNothing
  LoadsWholePackets
  LoopsHaveMembers
  PortClosed
  OneDump
PROPERTIES
  StopEnds
  FatalEnds
CHECK_DEADLOCK FALSE
