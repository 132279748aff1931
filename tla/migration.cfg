SPECIFICATION FairSpec
CONSTANTS
    f1 = f1
    f2 = f2
    d0 = d0
    d1 = d1
    d2 = d2
    m1 = m1
    m2 = m2
    old = old
    new = new
    Migrator = {m1, m2}
    File = {f1, f2}
    Directory = {d0, d1, d2}
    Top = d0
    Above <- MCAbove
    WalkOrder <- MCWalkOrder
    CopyOrder <- MCCopyOrder
    Bytes = {old, new}
    NoFile = NoFile
    Torn = Torn
    Outsider = Outsider
    Circumstances <- MCCircumstances
INVARIANTS
    ReportIsLast
PROPERTIES
    KeepsPromise
    NeverReplaced
    OneWriter
    SomeReport
CHECK_DEADLOCK FALSE
