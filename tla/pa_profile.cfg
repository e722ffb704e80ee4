SPECIFICATION MCSpec
CONSTANTS
    AutoPause = 2
    Period = 1
    MaxToggles = 2
    Companies = {"c1", "c2"}
    Patches = {"p1", "p2"}
    Turns = {"t1"}
    FreeLimit = 1
    PaidLimit = 2
    Boards = {"b1", "b2"}
    MaxMatches = 1
    Requests = {"r1", "r2", "r3"}
    Limit = 1
    Window = 2
    MaxClock = 3
INVARIANTS
    ProfileTypeOK
    RulesAreKept
    FollowsStayWithinPlan
PROPERTIES
    AdmittedWithinLimits
    NotPausedWhileEngaged
    SearchPausesWhenIdle
    SyncClosesDrained
    
CHECK_DEADLOCK FALSE
