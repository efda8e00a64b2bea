\* A caller that waits for each op, on a backend whose commands may fail.
CONSTANTS
    k1 = k1
    k2 = k2
    m1 = m1
    v1 = v1
    v2 = v2
    StrKeys = {k1}
    HashKeys = {k2}
    MapKeys = {m1}
    Vals = {v1, v2}
    Nil = Nil
    Stop = Stop
    MaxOps = 3
    Threads = 2
    Conns = 1
    BackendFail = TRUE
    Sequential = TRUE
SPECIFICATION Spec
INVARIANT AckedValueVisible
\* The only states with no successor are the end of the system: the
\* storage dropped, the worker returned and every op answered.
CHECK_DEADLOCK FALSE
