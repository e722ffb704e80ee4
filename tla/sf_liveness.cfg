SPECIFICATION FairFetchSpec
CONSTANTS
    p1 = p1
    p2 = p2
    j1 = j1
    j2 = j2
    r1 = r1
    r2 = r2
    Provider = "lever"
    Postings = {j1, j2}
    Profiles = {p1}
    Runs = {r1}
    NoRun = NoRun
    PageLimit = 1
    InvalidThreshold = 1
    MaxAttempts = 1
    MaxCrashes = 1
PROPERTIES
    WantedPostingArrives
CHECK_DEADLOCK FALSE
