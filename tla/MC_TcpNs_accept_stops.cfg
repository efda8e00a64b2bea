\* A well-behaved guest and a network whose accept may fail; the accept
\* loop is polled fairly while the reactor lives.  spec 8: a listen
\* delivers one callback per connection until destroy.
CONSTANTS
    c1 = c1
    c2 = c2
    Conns = {c1, c2}
    Addrs = {a1, a2}
    Permitted = {a1}
    None = None
    MaxLen = 1
    MemSize = 1
    MaxBuffers = 2
    IoFail = TRUE
    GuestDestroysBusy = FALSE
    GuestRelistens = FALSE
    AppTeardown = FALSE
    NegativeLens = FALSE
\* No symmetry: TLC's liveness checking is not sound under it.
SPECIFICATION FairSpec
PROPERTY ConnectionsAccepted
\* A guest that stops calling is a real end of the behaviour.
CHECK_DEADLOCK FALSE
