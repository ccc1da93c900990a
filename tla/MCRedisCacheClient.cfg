CONSTANTS
    Keys <- MCKeys
    SetKey = "k2"
    MaxExtWrites = 2
    ConnectMayFail = FALSE
SPECIFICATION Spec
INVARIANTS
    TypeOK
    CacheCoherentWhenQuiet
PROPERTIES
    AlwaysEventuallyFresh
CHECK_DEADLOCK FALSE
