SPECIFICATION Spec
CONSTANTS
    Unset = Unset
    Miners <- TwoMiners
    Lengths <- TwoLengths
    Answers <- WithCentre
INVARIANT DockShowsRates
