CONSTANTS
    Users = {u1, u2}
    Keys = {k1, k2}
    Workers = {w1, w2}
    NGateways = 1
    NHosts = 3
    NoRow = NoRow
    MaxRequests = 2
    MaxRegroups = 0
    MaxEdits = 0
    MaxDeletes = 0
SPECIFICATION Spec
CHECK_DEADLOCK FALSE
INVARIANT KeyOwnership
