\* Two runs of one shot; two causes on one layer, one on another; two deaths.
CONSTANTS
    None = None
    r1 = r1
    r2 = r2
    c1 = c1
    c2 = c2
    c3 = c3
    one = one
    two = two
    Runs = {r1, r2}
    Causes = {c1, c2, c3}
    Layers = {one, two}
    LayerOf <- LayerOfCause
    Evidence = {e1}
    MaxDispatches = 2
    MaxReplansPerLayer = 1
    MaxAuthority = 3
    MaxCrashes = 2
SYMMETRY InterchangeableRuns
SPECIFICATION Spec
INVARIANTS
    SpentIsProven
    NeverConflicting
    StagesWithinCaps
    EnvelopeConsumed
PROPERTIES
    DecidedOnce
CHECK_DEADLOCK FALSE
