SPECIFICATION FairSpec
CONSTANTS
  Conns = {c1, c2}
  NoConn = NoConn
  OutCapacity = 3
  IncCapacity = 2
  Batch = 2
  AbortsWhen = FALSE
  Flows = {f1, f2}
  BurstPkts = 2
PROPERTIES
  StopIsReported
