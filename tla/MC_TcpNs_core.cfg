\* Well-behaved network and guest: no I/O errors, no destroy of a busy
\* stream, no second listen on one address.  Guest errors are explored.
CONSTANTS
    c1 = c1
    c2 = c2
    Conns = {c1, c2}
    Addrs = {a1, a2}
    Permitted = {a1}
    None = None
    MaxLen = 1
    MemSize = 1
    MaxBuffers = 2
    IoFail = FALSE
    GuestDestroysBusy = FALSE
    GuestRelistens = FALSE
    AppTeardown = FALSE
    NegativeLens = FALSE
SYMMETRY ConnSymmetry
SPECIFICATION Spec
INVARIANT TypeOK NoHostPanic HandleIntegrity
\* A panic ends the reactor thread: the application really stops there.
CHECK_DEADLOCK FALSE
