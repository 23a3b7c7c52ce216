SPECIFICATION Spec
CONSTANTS
    n1 = n1
    p1 = p1
    p2 = p2
    Locals <- TwoMiners
    Nets <- OneNet
    Pollers <- OnePoll
    MaxFiles = 2
    MaxAddresses = 1
    MaxText = 3
    LosesNames = TRUE
INVARIANTS
    TypeOK
    RangeErrorNeedsClear
PROPERTIES
    Monitored
    ForgottenInTheEnd
CHECK_DEADLOCK FALSE
