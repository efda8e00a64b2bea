\* Two requests of one session, a guest that does not re-read a name while
\* it holds the pointer from the previous read of that name.
CONSTANTS
    r1 = r1
    r2 = r2
    h1 = h1
    h2 = h2
    k1 = k1
    v1 = v1
    v2 = v2
    Reqs = {r1, r2}
    Headers = {h1}
    Present = {h1}
    Keys = {k1}
    Cookies = {c1}
    Fields = {uri}
    Vals = {v1}
    Null = Null
    WithSession = {r1, r2}
    MaxAlloc = 2
    MaxIters = 1
    MaxHeld = 2
    GuestRefetches = FALSE
SYMMETRY ReqSymmetry
SPECIFICATION Spec
INVARIANT TypeOK
