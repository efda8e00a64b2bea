\* One name of the guest's and the two the host sets, one UTF-8 text and one that is not, two rendered strings, statuses on both sides of hyper's range; a guest
\* that may both stream and serve a file.
CONSTANTS
    n1 = n1
    t1 = t1
    b1 = b1
    Names = {n1, xpb, sck}
    PoweredBy = xpb
    SetCookie = sck
    Texts = {t1, b1}
    NonUtf8 = {b1}
    Empty = Empty
    NullPtr = NullPtr
    None = None
    Statuses = {0, 404}
    MaxChunks = 2
    MaxRendered = 2
    GuestMixesSources = TRUE
SPECIFICATION Spec
INVARIANT TypeOK
\* The request is answered and its body fully sent: nothing is left to do.
CHECK_DEADLOCK FALSE
