\* A guest that may destroy a stream while a read or write on it is in flight.
CONSTANTS
    c1 = c1
    c2 = c2
    Conns = {c1, c2}
    Addrs = {a1, a2}
    Permitted = {a1}
    None = None
    MaxLen = 1
    MemSize = 1
    MaxBuffers = 2
    IoFail = FALSE
    GuestDestroysBusy = TRUE
    GuestRelistens = FALSE
    AppTeardown = FALSE
    NegativeLens = FALSE
SYMMETRY ConnSymmetry
SPECIFICATION Spec
INVARIANT HandleIntegrity
\* A panic ends the reactor thread: the application really stops there.
CHECK_DEADLOCK FALSE
