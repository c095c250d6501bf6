CONSTANTS
    Users = {u1, u2}
    Keys = {k1, k2}
    Workers = {w1, w2}
    NGateways = 3
    NHosts = 3
    NoRow = NoRow
    MaxRequests = 2
    MaxRegroups = 1
    MaxEdits = 0
    MaxDeletes = 0
SPECIFICATION WaitingSpec
CHECK_DEADLOCK FALSE
INVARIANT NoDeadlockInLoop
PROPERTY RequestAnswered
