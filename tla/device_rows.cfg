SPECIFICATION Spec
CONSTANTS
    Texts <- SomeTexts
    MaxPlaces = 2
INVARIANTS
    TypeOK
    NoDeviceTwice
    AllDevicesShown
PROPERTY HandlerEnds
