SPECIFICATION Spec
CONSTANTS
  Conns = {c1, c2, c3}
  NoConn = NoConn
  OutCapacity = 3
  IncCapacity = 2
  Batch = 2
  AbortsWhen = TRUE
  Flows = {f1, f2}
  BurstPkts = 2
SYMMETRY Symmetry
INVARIANTS
  NoAbort
