SPECIFICATION Spec
CONSTANTS
    ua = ua
    ub = ub
    uc = uc
    A = A
    B = B
    C = C
    None = None
    Units = {ua, ub, uc}
    Plans = {A, B, C}
    PlanUnits <- ChainUnits
    Deps <- ChainDeps
    Digest <- ChainDigest
    Upstream <- ChainUpstream
    PriorRows = {r1, r2}
    MaxToken = 3
    MaxAttempts <- FirstUnitTwice
    MaxFinalizations = 1
SYMMETRY RowPermutations
INVARIANTS
    TypeOK
    DependencyClosed
    AcceptedOnCurrentInputs
    LineageExact
    AttemptIsCurrent
    CheckpointOwned
    FinalizationCoversAcceptance
    NothingWedged
    AcceptanceAuthorizable
    BlockDependentsLegal
PROPERTIES
    NoRevival
    BuildsIncrementally
