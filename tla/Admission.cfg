\* Two requests in flight, a limit of one batch and a half, more than one window.
SPECIFICATION AdmissionSpec
CONSTANTS
    Requests = {r1, r2}
    Limit = 3
    Window = 2
    MaxCost = 2
    MaxDelay = 1
    MaxTime = 3
    k1 = k1
    k2 = k2
    p = p
    q = q
    Keys = {k1, k2}
    Projects = {p, q}
    Issued = {k1}
    Project <- MCProject
    Scopes <- MCScopes
    Expires <- MCExpires
    Refresh = 2
    MaxStay = 1
    Never = Never
    Free = Free
    Traffic <- MCTraffic
SYMMETRY Symmetry
INVARIANTS OvershootBounded LastUseIsKnown
PROPERTIES RefusedOnlyAtLimit RevokedStays
CHECK_DEADLOCK FALSE
