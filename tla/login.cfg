CONSTANTS
    Users = {u1}
    Groups = {"staff", "lab"}
    Wired = {"staff"}
    Names = {"employees", "staff", "lab"}
    GroupOf <- WhichGroup
    Workers = {w1, w2}
    None = None
    Sites = {"lyon"}
    SiteValues = {"lyon", "mars"}
    SiteOf <- WhichSite
    CodeAge = 1
    TokenAge = 1
    RequestAge = 1
    MaxTime = 4
    MaxLogins = 2
    MaxEvents = 1
SPECIFICATION MCSpec
CHECK_DEADLOCK FALSE
CONSTRAINT TimeOrAttributes
SYMMETRY Interchangeable
INVARIANTS TypeOK CodeSpentOnce SessionBounded AttributesMirrored
