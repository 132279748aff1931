CONSTANTS
    Validation <- MCValidation
    Stores <- MCStores
    Profiles <- MCProfiles
    NoScheme = NoScheme
    NoModel = NoModel
    SchemeA = SchemeA
    SchemeB = SchemeB
    Admitted = {}
    Deviations = 2
SPECIFICATION Spec
INVARIANTS
    NoSilentPass
    CheckedMeansJudged
    LessIsNotGreener
    FaultsAnswered
CHECK_DEADLOCK FALSE
