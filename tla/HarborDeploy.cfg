SPECIFICATION HarborSpec
CONSTANTS
  r1 = r1
  r2 = r2
  shared = shared
  NoRequest = NoRequest
  Request = {r1, r2}
  Namespace = {shared}
  Target <- SameTarget
  Faults <- Split
INVARIANTS
  NamespaceHasRow
  ImporterHasOwner
  DeployedIsInstalled
PROPERTIES
  WorkflowEnds
CHECK_DEADLOCK FALSE
