CONSTANTS
    ka = ka  kb = kb  kc = kc  kr = kr
    a1 = a1  a2 = a2  n1 = n1  n2 = n2  bad = bad
    Keys = {ka, kb, kc, kr, bad}
    Clients = {a1, a2}
    Nets = {n1, n2, bad}
    Malformed = {bad}
    Answers <- Withdrawn
    None = None
    ForwardAccepts = FALSE
    MaxChanges = 1
    MaxFailures = 0
    MaxCrashes = 0
SPECIFICATION Spec
INVARIANT RevokedFlowsDie
