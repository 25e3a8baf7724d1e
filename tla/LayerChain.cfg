\* Three layers; two deaths, failed verdicts, invalidations or publications
\* in any mixture.
CONSTANTS
    None = None
    N = 3
    Descendants <- MCDescendants
    MaxFaults = 2
SPECIFICATION Spec
INVARIANTS
    RowsStandOnEachOther
PROPERTIES
    TransitionLeavesComparable
    ChainCompletes
