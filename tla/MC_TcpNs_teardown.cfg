\* Well-behaved network and guest, but the application may be torn down
\* while an accept loop or an I/O future is still pending.
CONSTANTS
    c1 = c1
    c2 = c2
    Conns = {c1, c2}
    Addrs = {a1, a2}
    Permitted = {a1}
    None = None
    MaxLen = 1
    MemSize = 1
    MaxBuffers = 2
    IoFail = FALSE
    GuestDestroysBusy = FALSE
    GuestRelistens = FALSE
    AppTeardown = TRUE
    NegativeLens = FALSE
SYMMETRY ConnSymmetry
SPECIFICATION Spec
INVARIANT NoHostPanic
\* A panic ends the reactor thread: the application really stops there.
CHECK_DEADLOCK FALSE
