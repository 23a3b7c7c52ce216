SPECIFICATION Spec
CONSTANTS
    Unset = Unset
    Miners <- AllMiners
    GpuAlgorithms <- SomeGpu
    CpuAlgorithms <- SomeCpu
    MaxWatched = 2
INVARIANT TypeOK
PROPERTIES
    AppliedIsKept
    SavedIsLaunched
    StartsAlike
