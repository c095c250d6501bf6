CONSTANTS
    u1 = u1  n1 = n1
    Users = {u1}
    Nets = {n1}
    NGateways = 3
    NServices = 3
    None = None
    Client = Client
    InitialTables <- Simple
    MaxEdits = 1
SPECIFICATION FairSpec
INVARIANTS TypeOK OneFreshHopEnforces
PROPERTY Settles
