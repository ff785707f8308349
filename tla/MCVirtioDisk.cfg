CONSTANTS
    NHart = 2
    NUM = 3
    IDX = 6
    Sectors = {s1}
    Values = {v1, v2}
    CanFail = TRUE
SPECIFICATION Spec
INVARIANTS
    TypeOK
    DescriptorsConserved
    HandlerCompletesInFlight
    HandlerKeepsUp
    OnlyDevicePanics
PROPERTIES
    ImplementsBlockDevice
    RequestReturns
