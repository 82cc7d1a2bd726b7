SPECIFICATION FairSpec
CONSTANTS
    Loops <- AllLoops
    Results = {"x", "y"}
    MaxInstances = 3
INVARIANTS
    AllItemsRun
    OutputFaithful
PROPERTIES
    ContractKept
    LoopEnds
CHECK_DEADLOCK FALSE
