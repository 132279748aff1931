SPECIFICATION Spec
CONSTANTS
    LodMin <- MCLodMin
    LodMax = 1
    Per <- MCPer
    LevelMax = 4
    Scale <- MCScale
    RowField = 32
    ColField = 64
    Norths <- MCNorths
    Easts <- MCEasts
    Keys <- MCKeys
INVARIANTS
    WalkAgrees
    ChildrenPartition
    NamedOneToOne
