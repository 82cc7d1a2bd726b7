SPECIFICATION FairSpec
CONSTANTS
    Net <- PatternsNet
    Start = "Start"
    MaxDepth = 10
    MaxResets = 0
    MaxCancels = 0
    MaxFaults = 0
INVARIANTS
    TypeOK
    OneFiringStands
    JoinHasInputs
    JoinNotLost
    CompletionSignalled
    JoinEndsRegion
    NotStuck
    DefiniteReachable
    FiringJoinSurvives
    PendingLive
    FutureIsReached
    ThreadsSeparate
    MutexProtects
PROPERTIES
    StatesGoForward
    Termination
