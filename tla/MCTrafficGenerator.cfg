SPECIFICATION Spec
CONSTANTS
  Conns = {c1, c2, c3, c4}
  NoConn = NoConn
  OutCapacity = 3
  IncCapacity = 2
  Batch = 2
  AbortsWhen = FALSE
  Flows = {f1, f2}
  BurstPkts = 2
SYMMETRY Symmetry
INVARIANTS
  TypeOK
  NoAbort
  OneInFlight
  RequestsAlwaysFit
  IdleIsClean
  StopEndsEarlierStarts
  FailedStartsNothing
PROPERTIES
  ImplementsControl
