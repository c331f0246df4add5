\* max_rate_limit configured as 0 seconds: retry_after clamps REJECT_ALL_SECS to 0.
CONSTANTS
    c1 = c1
    c2 = c2
    None = None
    NoMax = NoMax
    Callers <- MCCallers
    QuotaSets <- MCQuotaSets
    ScopeIds <- MCScopeIds
    Quantities = {0, 1, 2}
    OrgId = 1
    GRACE = 1
    REJECT_ALL_SECS = 60
    MaxLimit = 0
    MaxSkew = 1
    Epoch = 2
    MaxTime = 5
    MaxCalls = 3
    MaxRefunds = 1
    RedisCanFail = FALSE
SPECIFICATION Spec
INVARIANT ZeroQuotaNoScript
\* The call and time bounds end every behaviour.
CHECK_DEADLOCK FALSE
