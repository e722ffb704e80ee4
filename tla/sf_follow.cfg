SPECIFICATION FairFetchSpec
CONSTANTS
    p1 = p1
    p2 = p2
    j1 = j1
    j2 = j2
    r1 = r1
    r2 = r2
    Provider = "greenhouse"
    Postings = {j1}
    Profiles = {p1, p2}
    Runs = {r1}
    NoRun = NoRun
    PageLimit = 1
    InvalidThreshold = 2
    MaxAttempts = 2
    MaxCrashes = 0
PROPERTIES
    OpenRoleArrives
CHECK_DEADLOCK FALSE
