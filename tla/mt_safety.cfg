SPECIFICATION MatchingSpec
CONSTANTS
    w1 = w1
    w2 = w2
    w3 = w3
    MatchKey = match
    Workers = {w1, w2}
    NoWorker = NoWorker
    Keys = {match}
    NoKey = NoKey
    Types <- MCTypes
    TypeOf <- MCTypeOf
    Handled <- MCTypes
    Lanes <- MCLanes
    LaneOf <- MCLaneOf
    Concurrency <- MCConcurrency
    Priority <- MCPriority
    Hung = {}
    MaxAttempts = 1
    MaxRows = 3
    MaxClaims = 3
    MaxFaults = 1
    Mismatch = {2}
    MaxClicks = 3
INVARIANTS
    MatchingTypeOK
    RejectionMatchesScore
    ScoreIsCurrent
PROPERTIES
    DecisionStandsUnlessReadBefore
CHECK_DEADLOCK FALSE
