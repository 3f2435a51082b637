SPECIFICATION LibrarySpec
CONSTANTS
  j1 = j1
  j2 = j2
  netA = netA
  netB = netB
  NoJob = NoJob
  NoVm = NoVm
  NoIp = NoIp
  Job = {j1, j2}
  VmIds = {1, 2, 3, 4}
  IPs = {1, 2}
  IpPools = {netA, netB}
  IpPoolOf <- OnePerPool
  IpPoolNames <- OneAndBoth
  Faults <- Split
  i1 = i1
  i2 = i2
  u1 = u1
  u2 = u2
  d1 = d1
  r1 = r1
  r2 = r2
  f1 = f1
  f2 = f2
  NoItem = NoItem
  NoImage = NoImage
  Item = {i1, i2}
  ItemTypes <- TypesOfEach
  File = {f1, f2}
  FileOf <- OwnFile
  Archive <- OneArchive
  Image = {r1, r2}
  Repo <- OneRepo
  Refs <- OneOrTwo
  Put = {u1, u2}
  ItemsOf <- OneOrBoth
  Removal = {d1}
  Victim <- OnlyFirst
  Attempts = 2
  ItemFaults = {"upload_failed", "start_failed", "start_unconfirmed", "push_failed", "push_unconfirmed", "update_failed", "cleanup_failed", "worker_died", "delete_failed"}
  MaxMishaps = 2
INVARIANTS
  FailureFreesIp
  DeployedKeepsIp
  ImageTraced
  PushedIsThere
  TempHasOwner
  PushingHasPush
PROPERTIES
  ReservesIps
  WorkflowEnds
