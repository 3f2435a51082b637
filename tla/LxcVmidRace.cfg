SPECIFICATION Spec
CONSTANTS
  j1 = j1
  j2 = j2
  netA = netA
  netB = netB
  NoJob = NoJob
  NoVm = NoVm
  NoIp = NoIp
  Job = {j1, j2}
  VmIds = {1, 2, 3, 4}
  IPs = {1, 2}
  IpPools = {netA, netB}
  IpPoolOf <- OnePerPool
  IpPoolNames <- OneAndBoth
  Faults <- NoFaults
PROPERTY ClearsFailedOnly
CHECK_DEADLOCK FALSE
