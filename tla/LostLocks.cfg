SPECIFICATION RestartSpec
CONSTANTS
    Net <- ConcurrencyNet
    Start = "Start"
    MaxDepth = 10
    MaxResets = 0
    MaxCancels = 0
    MaxFaults = 0
INVARIANTS
    MutexProtects
