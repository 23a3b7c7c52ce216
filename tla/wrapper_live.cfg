SPECIFICATION Spec
CONSTANTS
    w1 = w1
    w2 = w2
    Wrappers <- TwoWrappers
    PipeCapacity = 1
    MaxOutput = 2
    Faults <- NoFaults
INVARIANT ReaderKeepsReading
PROPERTIES
    TaskEndIsReported
    FullPipeIsRead
    ImplementsContract
    ImplementsFairness
CHECK_DEADLOCK FALSE
