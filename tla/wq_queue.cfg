SPECIFICATION FairSpec
CONSTANTS
    fast = fast
    slow = slow
    odd = odd
    w1 = w1
    w2 = w2
    Workers = {w1, w2}
    NoWorker = NoWorker
    Keys = {fast, slow, odd}
    NoKey = NoKey
    Types <- MCTypes
    TypeOf <- MCTypeOf
    Handled <- MCHandled
    Lanes <- MCLanes
    LaneOf <- MCLaneOf
    Concurrency <- MCConcurrency
    Priority <- MCPriority
    Hung = {"slow"}
    MaxAttempts = 2
    MaxRows = 2
    MaxClaims = 5
    MaxFaults = 1
INVARIANTS
    TypeOK
    OneLivePerKey
    SoleRunnerUnlessDisturbed
    OnceUnlessDisturbed
    OutcomeMatchesEffect
PROPERTIES
    ImplementsLease
    EveryJobSettles
CHECK_DEADLOCK FALSE
