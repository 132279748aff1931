SPECIFICATION Spec
CONSTANTS
    Caller = {"a", "b"}
    Seed <- Seeds
    Profile <- Profiles
    Crs <- BothCrs
    NoEpoch = NoEpoch
    GpkgFeature = TRUE
    MaxCalls = 4
    MaxFaults = 2
INVARIANTS
    OneEncoding
    AcknowledgedReads
PROPERTIES
    NothingReplaced
CHECK_DEADLOCK FALSE
