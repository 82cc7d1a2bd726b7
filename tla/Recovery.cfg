SPECIFICATION RestartSpec
CONSTANTS
    Net <- RecoveryNet
    Start = "Start"
    MaxDepth = 10
    MaxResets = 1
    MaxCancels = 1
    MaxFaults = 1
INVARIANTS
    TreeClosed
    CancelIsFinal
