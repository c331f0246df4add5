\* One is_rate_limited call with up to two quotas; ids over letters, digits
\* and ":", every scope, a window or none.
CONSTANTS
    None = None
    IdChars <- MCIdChars
    MaxIdLen = 3
    Orgs = {69420, 5}
    ProjectIds = {42}
    KeyIds = {None, 7}
    Timestamps = {123123123}
    Windows = {2, None}
    MaxQuotas = 2
SPECIFICATION Spec
INVARIANT TypeOK KeysRoundTrip SameHashTag
CHECK_DEADLOCK FALSE
