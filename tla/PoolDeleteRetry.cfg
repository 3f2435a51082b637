SPECIFICATION Spec
CONSTANTS
  p1 = p1
  p2 = p2
  netA = netA
  netB = netB
  NoPool = NoPool
  NoVm = NoVm
  Nobody = Nobody
  Pool = {p1}
  VmIds = {1, 2, 3, 4}
  IPs = {1, 2, 3}
  IpPools = {netA, netB}
  IpPoolOf <- OneIpPool
  IpPoolNames <- OneName
  Count <- TwoVms
  MaxAttempts = 2
  MaxTries = 2
  MaxDeletes = 2
  Faults = {"delete_failed"}
PROPERTY GiveUpIsRetriable
CHECK_DEADLOCK FALSE
