CONSTANTS
    u1 = u1  n1 = n1
    Users = {u1}
    Nets = {n1}
    NGateways = 3
    NServices = 3
    None = None
    InitialTables <- TrianglesAndPools
    MaxEdits = 2
SPECIFICATION ResolverSpec
CHECK_DEADLOCK FALSE
INVARIANTS
    ResolverTypeOK
    PlanPartitions
    PlanEnforcedAtEntry
    PathIsWired
