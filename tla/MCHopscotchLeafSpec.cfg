CONSTANTS
    Span = 4
    H = 2
    ISpan = 4
    Keys = {1, 2, 3, 4}
    Ghost = 9
    Hash <- MCHash4
    Vals = {1, 2}
    VALock = FALSE
    MaxOps = 4
    Readers = {r1}
    ReadKeys = {3}
    MaxReads = 2
    SpecRead = TRUE
    Fp <- MCFp
    CacheCap = 1
    EvictDelay = 1
SPECIFICATION Spec
INVARIANTS SearchRegular MapMatchesReference
