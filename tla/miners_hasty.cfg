SPECIFICATION SafeSpec
CONSTANTS
    Miners <- GpuMiner
    Faults <- NoFaults
    HideChoices <- Shown
    Hasty <- GpuMiner
    MaxPending = 2
PROPERTY RestartRestarts
CHECK_DEADLOCK FALSE
