\* Two executors of one key, two passing results, one failing one and one of a
\* changed probe; two deaths.
CONSTANTS
    None = None
    p1 = p1
    p2 = p2
    good1 = good1
    good2 = good2
    bad = bad
    other = other
    Executors = {p1, p2}
    Good = {good1, good2}
    Bad = {bad}
    Foreign = {other}
    MaxCrashes = 2
SPECIFICATION Spec
INVARIANTS
    RecoveryProven
    NeverConflicting
PROPERTIES
    RepairRecognised
