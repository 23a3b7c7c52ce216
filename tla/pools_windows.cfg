SPECIFICATION Spec
CONSTANTS
    Coins <- ThreeCoins
    Pools <- OnePool
    Names <- OneName
    Passwords <- NoPassword
    Stripped <- Spaceless
    Lengths <- AnyLength
INVARIANTS
    TypeOK
    FileServesPrefs
    FormIsOwn
PROPERTY SavedIsShown
CHECK_DEADLOCK FALSE
