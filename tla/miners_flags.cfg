SPECIFICATION Spec
CONSTANTS
    Miners <- AllMiners
    Faults <- FaultKinds
    HideChoices <- Both
    Hasty <- Nobody
    MaxPending = 1
INVARIANTS
    TypeOK
    FlagMatchesTask
    ReadingMeansRunning
    WantedIsServed
    QuitLeavesNoMiner
PROPERTIES
    RestartRestarts
    SuddenStopRestarts
CHECK_DEADLOCK FALSE
