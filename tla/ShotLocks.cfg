SPECIFICATION Spec
CONSTANTS
    t1 = t1
    t2 = t2
    t3 = t3
    p1 = p1
    p2 = p2
    None = None
    Threads = {t1, t2, t3}
    ProcessOf <- TwoInOne
    LayerCount = 2
SYMMETRY Siblings
INVARIANTS
    SelectionExclusive
    NoCircularWait
