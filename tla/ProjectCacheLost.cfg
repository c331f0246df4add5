\* A fetch that times out without an answer strands the envelopes queued on it.
CONSTANTS
    e1 = e1
    e2 = e2
    r1 = r1
    s1 = s1
    None = None
    Envelopes <- MCOneEnvelope
    Receivers <- MCReceivers
    Samplings <- MCNoSamplings
    MaxVersion = 1
    MaxPrefetches = 1
    ProjectCanBeMissing = FALSE
    MaxBuckets = 0
    FetchCanFail = FALSE
SPECIFICATION SpecLossy
PROPERTY WaitersEventuallyServed
CHECK_DEADLOCK FALSE
