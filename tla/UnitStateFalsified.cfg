SPECIFICATION Spec
CONSTANTS
    ua = ua
    ub = ub
    uc = uc
    A = A
    B = B
    C = C
    None = None
    Units = {ua, ub, uc}
    Plans = {A, B, C}
    PlanUnits <- ChainUnits
    Deps <- ChainDeps
    Digest <- ChainDigest
    Upstream <- ChainUpstream
    PriorRows = {r1, r2}
    MaxToken = 1
    MaxAttempts <- OnceEach
    MaxFinalizations = 1
PROPERTY
    FalsifiedWaitsForAuthority
