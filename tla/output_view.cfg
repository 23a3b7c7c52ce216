SPECIFICATION Spec
CONSTANTS
    Miners <- AllMiners
    Trim = 3
    Default = 9
    Limits <- SomeLimits
    Sizes <- SomeSizes
    MaxLog = 14
INVARIANTS
    TypeOK
    LogBounded
PROPERTIES
    LogComesDown
    WarnsWhenStopped
