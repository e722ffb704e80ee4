SPECIFICATION FairCoverLetterSpec
CONSTANTS
    w1 = w1
    w2 = w2
    w3 = w3
    LetterKey = letter
    Workers = {w1, w2}
    NoWorker = NoWorker
    Keys = {letter}
    NoKey = NoKey
    Types <- MCTypes
    TypeOf <- MCTypeOf
    Handled <- MCTypes
    Lanes <- MCLanes
    LaneOf <- MCLaneOf
    Concurrency <- MCConcurrency
    Priority <- MCPriority
    Hung = {}
    MaxAttempts = 2
    MaxRows = 3
    MaxClaims = 7
    MaxFaults = 2
    MaxRequests = 2
PROPERTIES
    GenerationEnds
    OutcomeStands
INVARIANTS
    CoverLetterTypeOK
    ReadyAnswersNewest
    GeneratingHasRow
    FailedWasTried
CHECK_DEADLOCK FALSE
