SPECIFICATION Spec
CONSTANTS
    None = None
    Builders = {b1, b2}
    Roots = {r1, r2}
    Probes = 2
    MaxOperations = 2
SYMMETRY BuilderPermutations
INVARIANTS
    OneBuilderPerRoot
    FenceRecovers
