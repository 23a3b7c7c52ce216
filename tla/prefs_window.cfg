SPECIFICATION Spec
CONSTANTS
    Unset = Unset
    Miners <- TwoMiners
    Lengths <- TwoLengths
    Answers <- AllAnswers
INVARIANTS
    TypeOK
    
PROPERTY SavingChangesOnlyBoxes
