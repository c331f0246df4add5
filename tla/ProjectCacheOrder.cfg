\* Out-of-order fetch answers: an older plain answer replaces a no_cache one.
CONSTANTS
    e1 = e1
    e2 = e2
    r1 = r1
    s1 = s1
    None = None
    Envelopes <- MCOneEnvelope
    Receivers <- MCReceivers
    Samplings <- MCNoSamplings
    MaxVersion = 2
    MaxPrefetches = 1
    ProjectCanBeMissing = FALSE
    MaxBuckets = 0
    FetchCanFail = FALSE
SPECIFICATION Spec
PROPERTY HeldVersionNeverDecreases
CHECK_DEADLOCK FALSE
