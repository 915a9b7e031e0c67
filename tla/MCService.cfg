SPECIFICATION ServiceFairSpec
CONSTANTS
  Conns = {c1, c2}
  NoConn = NoConn
  OutCapacity = 3
  IncCapacity = 1
  Batch = 2
  AbortsWhen = FALSE
  Flows = {f1}
  BurstPkts = 1
INVARIANTS
  OneResumer
PROPERTIES
  AnsweredUnlessLost
  GenerationEnds
  ConnectionsEnd
  AcceptsAgain
