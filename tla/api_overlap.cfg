SPECIFICATION SafeSpec
CONSTANTS
    n1 = n1
    p1 = p1
    p2 = p2
    Locals <- GpuMiner
    Nets <- OneNet
    Pollers <- TwoPolls
    MaxFiles = 1
    MaxAddresses = 1
    MaxText = 3
    LosesNames = FALSE
SYMMETRY Interchangeable
INVARIANT AnswersInOrder
CHECK_DEADLOCK FALSE
