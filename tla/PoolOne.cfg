SPECIFICATION PoolMachinesSpec
CONSTANTS
  p1 = p1
  p2 = p2
  netA = netA
  netB = netB
  NoPool = NoPool
  NoVm = NoVm
  Nobody = Nobody
  Pool = {p1}
  VmIds = {1, 2, 3, 4, 5, 6, 7, 8}
  IPs = {1, 2, 3}
  IpPools = {netA}
  IpPoolOf <- OneIpPool
  IpPoolNames <- OneName
  Count <- TwoVms
  MaxAttempts = 2
  MaxTries = 2
  MaxDeletes = 1
  Faults = {"cluster_missing", "clone_failed", "clone_lost", "name_skipped", "name_collision", "register_failed", "finalize_lost", "boot_failed", "delete_failed", "connection_kept"}
  v1 = v1
  r1 = r1
  NoMachine = NoMachine
  Vm = {v1}
  Rebuild = {r1}
  Asks <- ControlMixes
  RebuildAttempts = 2
  Creation = Creation
INVARIANTS
  CreatedIsComplete
  UsedIpReclaimable
  LossIsShown
PROPERTIES
  RequestsEnd
  TrackingEnds
  PowerIsShown
