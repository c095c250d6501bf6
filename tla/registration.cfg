CONSTANTS
    Users = {u1, u2}
    Keys = {k1, k2}
    Workers = {w1, w2}
    NGateways = 2
    NHosts = 3
    NoRow = NoRow
    MaxRequests = 2
    MaxRegroups = 1
    MaxEdits = 1
    MaxDeletes = 1
SPECIFICATION MCSpec
CHECK_DEADLOCK FALSE
CONSTRAINT EditsApart
SYMMETRY SameRoles
INVARIANTS
    TypeOK
    UniqueAddresses
    OneKeypair
    AllOrNothing
PROPERTIES AddressStable ImplementsRegistry
