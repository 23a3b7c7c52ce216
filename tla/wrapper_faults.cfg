SPECIFICATION SafeSpec
CONSTANTS
    w1 = w1
    w2 = w2
    Wrappers <- TwoWrappers
    PipeCapacity = 2
    MaxOutput = 3
    Faults <- FaultKinds
SYMMETRY Interchangeable
INVARIANTS
    TypeOK
    FinishedByItself
    NothingSkipped
PROPERTY NothingAfterFinish
CHECK_DEADLOCK FALSE
