\* The project actor refines FetchCoalescing, and every waiter (an envelope,
\* an AddSamplingState message and a get_state caller) is served once
\* fetches complete (possibly with err()).  No prefetches keeps the
\* liveness check short.
CONSTANTS
    e1 = e1
    e2 = e2
    r1 = r1
    s1 = s1
    None = None
    Envelopes <- MCOneEnvelope
    Receivers <- MCReceivers
    Samplings <- MCSamplings
    MaxVersion = 2
    MaxPrefetches = 0
    ProjectCanBeMissing = FALSE
    MaxBuckets = 0
    FetchCanFail = TRUE
SPECIFICATION Spec
INVARIANT WaitersHaveFetch
PROPERTY FetchCoalescingRefined WaitersEventuallyServed
\* The cache may go idle: every envelope handled, no fetch left to run.
CHECK_DEADLOCK FALSE
