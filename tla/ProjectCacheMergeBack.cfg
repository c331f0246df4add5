\* Buckets of a project that upstream no longer knows: the held missing()
\* state has no project_id, and flush_buckets merges the buckets back with
\* no fetch scheduled.
CONSTANTS
    e1 = e1
    e2 = e2
    r1 = r1
    s1 = s1
    None = None
    Envelopes <- MCOneEnvelope
    Receivers <- MCReceivers
    Samplings <- MCNoSamplings
    MaxVersion = 2
    MaxPrefetches = 0
    ProjectCanBeMissing = TRUE
    MaxBuckets = 1
    FetchCanFail = FALSE
SPECIFICATION Spec
PROPERTY MergedBackAwaitsFetch
CHECK_DEADLOCK FALSE
