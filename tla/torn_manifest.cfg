SPECIFICATION Spec
CONSTANTS
    A = A
    A2 = A2
    B = B
    C = C
    R = R
    V = V
    pA = pA
    pB = pB
    pC = pC
    pR = pR
    pV = pV
    b1 = b1
    b2 = b2
    s1 = s1
    s2 = s2
    Absent = Absent
    Dir = Dir
    Torn = Torn
    NoInstant = NoInstant
    NoState = NoState
    NoValue = NoValue
    NoRecord = NoRecord
    NoManifest = NoManifest
    Asset <- PathAsset
    Place <- PathPlace
    At <- PathAt
    Above <- PathAbove
    Seeds <- PathSeeds
    Reserved = {V}
    RecordName = {R}
    Bytes = {b1, b2}
    State = {s1}
    Instant = {1}
    Offered <- PathOneByOne
    SequenceMax = 2
    Gpkg = FALSE
    MaxFaults = 1
INVARIANT
    ManifestWhole
