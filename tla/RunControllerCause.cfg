\* Two runs of one shot, one cause, one death.
CONSTANTS
    None = None
    r1 = r1
    r2 = r2
    c1 = c1
    c2 = c2
    c3 = c3
    one = one
    two = two
    Runs = {r1, r2}
    Causes = {c1}
    Layers = {one}
    LayerOf <- LayerOfCause
    Evidence = {e1}
    MaxDispatches = 2
    MaxReplansPerLayer = 1
    MaxAuthority = 2
    MaxCrashes = 1
SPECIFICATION Spec
INVARIANT CauseDispatchedOnce
CHECK_DEADLOCK FALSE
