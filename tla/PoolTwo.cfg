SPECIFICATION PoolsSpec
CONSTANTS
  p1 = p1
  p2 = p2
  netA = netA
  netB = netB
  NoPool = NoPool
  NoVm = NoVm
  Nobody = Nobody
  Pool = {p1, p2}
  VmIds = {1, 2, 3, 4, 5, 6}
  IPs = {1, 2, 3}
  IpPools = {netA}
  IpPoolOf <- OneIpPool
  IpPoolNames <- OneName
  Count <- OneAndTwoVms
  MaxAttempts = 2
  MaxTries = 2
  MaxDeletes = 1
  Faults = {"clone_failed", "delete_failed"}
  g1 = g1
  g2 = g2
  b1 = b1
  b2 = b2
  MaxName = 3
  MaxId = 6
  Growth = {g1, g2}
  Wanted <- Three
  Rebuilds = {b1, b2}
  Kind <- OneAndAll
  Initial = 2
  HvAttempts = 2
  Mixes <- SomeMixes
INVARIANTS
  MachineReachable
  ClonesBounded
  HyperVTypeOK
  LossHasReport
  RowsAreListed
PROPERTIES
  DropLeavesNoListedVm
  DeletionSparesOthers
