SPECIFICATION FairSpec
CONSTANTS
    A = A
    A2 = A2
    B = B
    C = C
    R = R
    V = V
    pA = pA
    pB = pB
    pC = pC
    pR = pR
    pV = pV
    b1 = b1
    b2 = b2
    s1 = s1
    s2 = s2
    Absent = Absent
    Dir = Dir
    Torn = Torn
    NoInstant = NoInstant
    NoState = NoState
    NoValue = NoValue
    NoRecord = NoRecord
    NoManifest = NoManifest
    Asset <- ApartAsset
    Place <- ApartPlace
    At <- ApartAt
    Above <- ApartAbove
    Seeds <- ApartSeeds
    Reserved = {}
    RecordName = {R}
    Bytes = {b1, b2}
    State = {s1, s2}
    Offered <- ApartOffered
    Instant = {1}
    SequenceMax = 5
    Gpkg = TRUE
    MaxFaults = 2
INVARIANTS
    NoLateFailure
    NothingLost
    ArchivesPriorContent
    RollbackRestores
    TailUndoable
PROPERTIES
    ImplementsHistory
    CallReturns
