\* A statement fails behind the insert of the user.
CONSTANTS
    p1 = p1
    p2 = p2
    k1 = k1
    k2 = k2
    k0 = k0
    kx = kx
    c1 = c1
    c2 = c2
    e1 = e1
    Null = Null
    Malformed = Malformed
    Partner = {p1, p2}
    Key = {k1, k2, k0, kx}
    KeyPartner <- MCKeyPartner
    Scoped = {k1, k2, k0}
    Call = {c1, c2}
    ExternalId = {e1}
    MaxRetries = 1
    MaxDelay = 1
    Window = 2
    Limit = 1
    Count = 2
    Step = 1
    Top = 1
    Asks <- MCAsks
    MaxTime = 1
    MaxFaults = 1
SPECIFICATION Spec
CHECK_DEADLOCK FALSE
INVARIANT RetriedCreateReplays
