SPECIFICATION PortalSpec
CONSTANTS
    c1 = c1
    c2 = c2
    v1 = v1
    l1 = l1
    Client = {c1, c2}
    VectorDb = {v1}
    Llm = {l1}
    Asks <- Mixes
    NoDb = NoDb
    a1 = a1
    a2 = a2
    m1 = m1
    m2 = m2
    w1 = w1
    w2 = w2
    Admin = {a1, a2}
    Machine = {m1, m2}
    User = {w1, w2}
    Wants <- Combined
    MachineAttempts = 2
INVARIANTS
    PatchesKept
    LlmsAgree
    LoginPossible
    MachinesAgree
    AccessAgrees
PROPERTIES
    DbUrlStays
    WorkflowSettles
CHECK_DEADLOCK FALSE
