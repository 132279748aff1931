SPECIFICATION Spec
CONSTANTS
    MaxId = 8
    NoPos = NoPos
    NoGeo = NoGeo
    NoPosition = NoPos
    NoGeometry = NoGeo
    NoLine = NoLin
    NoLin = NoLin
    FaceId <- MCFaceId
    Position <- MCPosition
    Finite <- MCFinite
    Lines <- MCLines
    Tile <- MCTile
    Splitting <- MCSplitting
    OfferedNodes <- MCNodes
    OfferedEdges <- MCEdges
    OfferedFaces <- MCFaces
INVARIANTS
    AdjacencyMirrors
    FacesRing
    NoTornClip
    RoutesChain
PROPERTIES
    ReloadKeeps
