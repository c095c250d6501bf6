CONSTANTS
    NPlanes = 2
    Keys = {k1, k2, k3}
    Subnets = {s1, s2}
    None = None
    Empty = Empty
    MaxCrashes = 1
    MaxLosses = 1
    MaxFlips = 2
    MaxEdits = 1
SPECIFICATION Spec
INVARIANTS TypeOK KeyKept FailsOnlyWithoutPlane
PROPERTIES HealthyPlaneKept KeysAgree
