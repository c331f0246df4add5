\* Quota ids that contain the braces of a Redis hash tag.
CONSTANTS
    None = None
    IdChars <- MCBraceIdChars
    MaxIdLen = 2
    Orgs = {69420, 5}
    ProjectIds = {42}
    KeyIds = {None, 7}
    Timestamps = {123123123}
    Windows = {2, None}
    MaxQuotas = 2
SPECIFICATION Spec
INVARIANT SameHashTag
CHECK_DEADLOCK FALSE
