SPECIFICATION Spec
CONSTANTS
    Net <- LateBranchNet
    Start = "Start"
    MaxDepth = 12
    MaxResets = 0
    MaxCancels = 0
    MaxFaults = 0
PROPERTIES
    JoinFiresOnce
CHECK_DEADLOCK FALSE
