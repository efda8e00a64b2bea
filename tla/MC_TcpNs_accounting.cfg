\* Unrestricted network and guest: I/O errors, destroy of a busy stream,
\* a second listen on one address and negative read lengths are explored.
CONSTANTS
    c1 = c1
    c2 = c2
    Conns = {c1, c2}
    Addrs = {a1, a2}
    Permitted = {a1}
    None = None
    MaxLen = 1
    MemSize = 1
    MaxBuffers = 2
    IoFail = TRUE
    GuestDestroysBusy = TRUE
    GuestRelistens = TRUE
    AppTeardown = TRUE
    NegativeLens = TRUE
SYMMETRY ConnSymmetry
SPECIFICATION Spec
INVARIANT ResourceAccounting
\* A panic ends the reactor thread: the application really stops there.
CHECK_DEADLOCK FALSE
