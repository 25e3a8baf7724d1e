\* Three writers, four files created and one death; the run stops when every
\* writer is done or the files are used up.
CONSTANTS
    w1 = w1
    w2 = w2
    w3 = w3
    Writers = {w1, w2, w3}
    MaxInodes = 4
    MaxCrashes = 1
SPECIFICATION FileSpec
SYMMETRY WriterSymmetry
CHECK_DEADLOCK FALSE
INVARIANTS
    StagedOwned
PROPERTIES
    MergesAtomically
