SPECIFICATION Spec
CONSTANTS
    j1 = j1
    j2 = j2
    s1 = s1
    s2 = s2
    bad = bad
    dull = dull
    wrong = wrong
    v = v
    e = e
    w = w
    simJson = simJson
    simXml = simXml
    acme = acme
    simulation = simulation
    house = house
    Job = {j1, j2}
    Site = {s1, s2}
    Defect = {bad, dull, wrong}
    Sound = Sound
    Shall = {v, e}
    Should = {w}
    Mismatch = {e}
    Yardstick = {simJson, simXml, acme}
    Descriptor = {acme}
    NameOf <- MCNameOf
    Convicts <- MCConvicts
    Requests <- MCRequests
    NoFile = NoFile
    Empty = Empty
    Garbage = Garbage
    NoBaseline = NoBaseline
    MaxRuns = 3
    MaxEdits = 1
SYMMETRY Interchangeable
INVARIANTS
    NothingNewAbsorbed
    CodeIsExplained
CHECK_DEADLOCK FALSE
