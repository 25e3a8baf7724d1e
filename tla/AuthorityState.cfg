SPECIFICATION FairSpec
CONSTANTS
    l1 = l1
    l2 = l2
    p1 = p1
    p2 = p2
    None = None
    Layers = {l1, l2}
    Publishers = {p1, p2}
    Views <- MCViews
    Digests <- MCDigests
    Digest <- MCDigest
    MaxRevision = 2
    MaxStateRevision = 2
    MaxCrashes = 2
    MaxInputChanges = 1
INVARIANTS
    CoherentWhenReadable
    RecoveryNeverGuesses
PROPERTIES
    SoleSuccessor
    NoLostMutation
    RefinesAtomicSwitch
    IndexCatchesUp
