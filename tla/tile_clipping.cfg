SPECIFICATION Spec
CONSTANTS
    Lines <- MCLines
    Tiles <- MCTiles
INVARIANTS
    PiecesTrue
    ClipsOnce
    OrderIrrelevant
CHECK_DEADLOCK FALSE
