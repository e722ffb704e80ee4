SPECIFICATION BatchSpec
CONSTANTS
    w1 = w1
    w2 = w2
    BatchKey = tick
    Workers = {w1, w2}
    NoWorker = NoWorker
    Keys = {tick}
    NoKey = NoKey
    Types <- MCTypes
    TypeOf <- MCTypeOf
    Handled <- MCTypes
    Lanes <- MCLanes
    LaneOf <- MCLaneOf
    Concurrency <- MCConcurrency
    Priority <- MCPriority
    Hung = {}
    MaxAttempts = 2
    MaxRows = 3
    MaxClaims = 2
    MaxFaults = 1
    Apps = {1, 2}
    Mismatched = {2}
    PoolLimit = 2
    MaxItems = 1
    MaxBatches = 2
    MaxErrors = 1
INVARIANTS
    LostRowsAreRepaired
SYMMETRY MCSymmetry
CHECK_DEADLOCK FALSE
