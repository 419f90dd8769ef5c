CONSTANTS
    Span = 5
    H = 3
    ISpan = 3
    Keys = {1, 2, 3, 4, 5}
    Ghost = 9
    Hash <- MCHash
    Vals = {1, 2}
    VALock = TRUE
    MaxOps = 8
    Readers = {}
    ReadKeys = {}
    MaxReads = 1
    SpecRead = FALSE
    Fp <- MCFp
    CacheCap = 0
    EvictDelay = 0
SPECIFICATION Spec
INVARIANTS HopscotchInvariant AssertionsHold VacancySound
