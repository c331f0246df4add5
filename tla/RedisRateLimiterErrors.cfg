\* Two workers share one Redis; a caller's timestamp lags by up to GRACE,
\* and pool.client or invoke may fail before or after the script has run.
CONSTANTS
    c1 = c1
    c2 = c2
    None = None
    NoMax = NoMax
    Callers <- MCCallers
    QuotaSets <- MCQuotaSets
    ScopeIds <- MCScopeIds
    Quantities = {0, 1, 2}
    OrgId = 1
    GRACE = 1
    REJECT_ALL_SECS = 60
    MaxLimit = NoMax
    MaxSkew = 1
    Epoch = 2
    MaxTime = 4
    MaxCalls = 3
    MaxRefunds = 1
    RedisCanFail = TRUE
SPECIFICATION Spec
INVARIANT TypeOK WindowConsumptionBounded
\* The call and time bounds end every behaviour.
CHECK_DEADLOCK FALSE
