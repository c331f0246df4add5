\* Safety of the project actor: fetches always complete, possibly with err().
CONSTANTS
    e1 = e1
    e2 = e2
    r1 = r1
    s1 = s1
    None = None
    Envelopes <- MCOneEnvelope
    Receivers <- MCReceivers
    Samplings <- MCNoSamplings
    MaxVersion = 2
    MaxPrefetches = 1
    ProjectCanBeMissing = FALSE
    MaxBuckets = 1
    FetchCanFail = TRUE
SPECIFICATION Spec
INVARIANT TypeOK
INVARIANT WaitersHaveFetch
INVARIANT ForwardedWithUsableState
PROPERTY NeverDowngradedToErr OutdatedBucketsAwaitFetch
\* The cache may go idle: every envelope handled, no fetch left to run.
CHECK_DEADLOCK FALSE
