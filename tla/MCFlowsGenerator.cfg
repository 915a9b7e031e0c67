SPECIFICATION FairSpec
CONSTANTS
  Tstamps <- ThreePackets
  Ipg = NoIpg
  NoIpg = NoIpg
  IfGap = 1
  Second = 3
  FlowsPerSec = 2
  BurstCnt = 3
  ClnNet <- NoHosts
  SrvNet <- TwoHosts
  AddrMod = 8
INVARIANTS
  TypeOK
  AddressesByBurst
PROPERTIES
  ImplementsReplay
  KeepsReplaying
