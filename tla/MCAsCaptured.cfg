SPECIFICATION Spec
CONSTANTS
  Tstamps <- ThreePackets
  Ipg = NoIpg
  NoIpg = NoIpg
  IfGap = 1
  Second = 3
  FlowsPerSec = 2
  BurstCnt = 1
  ClnNet <- TwoHosts
  SrvNet <- SixHosts
  AddrMod = 8
PROPERTIES
  ReplaysAsCaptured
