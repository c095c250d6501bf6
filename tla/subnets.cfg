CONSTANTS
    low = low  lowToo = lowToo  high = high  both = both  bad = bad
    Gateways = {g1, g2}
    Users = {u1, u2}
    Admins = {a1, a2}
    None = None
    Texts <- Typed
    Net <- Denoted
    MaxForms = 4
    MaxDevices = 4
    MaxDeletes = 1
SPECIFICATION Spec
CHECK_DEADLOCK FALSE
SYMMETRY SameRoles
INVARIANTS TypeOK SubnetsDisjoint AddressesUnambiguous
