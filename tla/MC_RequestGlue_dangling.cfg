\* Two requests of one session; the guest may read a header or a session
\* item again while it still holds the pointer from the first read.
CONSTANTS
    r1 = r1
    r2 = r2
    h1 = h1
    h2 = h2
    k1 = k1
    v1 = v1
    v2 = v2
    Reqs = {r1, r2}
    Headers = {h1, h2}
    Present = {h1, h2}
    Keys = {k1}
    Cookies = {c1}
    Fields = {uri}
    Vals = {v1}
    Null = Null
    WithSession = {r1, r2}
    MaxAlloc = 2
    MaxIters = 1
    MaxHeld = 2
    GuestRefetches = TRUE
SYMMETRY ReqSymmetry
SPECIFICATION Spec
INVARIANT PointersLiveForInvocation
