SPECIFICATION Spec
CONSTANTS
    Start <- MCStart
    Token <- MCToken
    Character <- MCCharacter
    Trees <- MCTrees
    DatePart <- MCDatePart
    Leaf <- MCLeaf
    RenameTarget <- MCRenameTarget
    ControlEvent <- MCControlEvent
    Path <- MCPath
    RecordText <- MCRecordText
    Date <- MCDate
    Float <- MCFloat
    IdText <- MCIdText
    Argument <- MCArgument
    NamePart <- MCNamePart
    Absent = Absent
    NaN = NaN
    One = One
    Zero = Zero
    Z = Z
    M = M
    Unit = Unit
INVARIANTS
    ReadsBack
    NothingOverlooked
    PathsHold
    GeometryKept
CHECK_DEADLOCK FALSE
