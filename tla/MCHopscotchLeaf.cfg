CONSTANTS
    Span = 4
    H = 2
    ISpan = 4
    Keys = {1, 2, 3, 4}
    Ghost = 9
    Hash <- MCHash4
    Vals = {1, 2}
    VALock = FALSE
    MaxOps = 5
    Readers = {r1}
    ReadKeys = {3}
    MaxReads = 1
    SpecRead = FALSE
    Fp <- MCFp
    CacheCap = 0
    EvictDelay = 0
SPECIFICATION Spec
INVARIANTS TypeOK HopscotchInvariant MapMatchesReference SearchRegular
PROPERTIES SearchTerminates
