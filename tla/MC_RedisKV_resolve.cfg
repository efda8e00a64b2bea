\* Everything the caller and the backend may do: pipelined ops, one key
\* used both as a string and as a hash, failing connections and commands.
CONSTANTS
    k1 = k1
    k2 = k2
    m1 = m1
    v1 = v1
    v2 = v2
    StrKeys = {k1}
    HashKeys = {k1}
    MapKeys = {m1}
    Vals = {v1, v2}
    Nil = Nil
    Stop = Stop
    MaxOps = 3
    Threads = 2
    Conns = 1
    BackendFail = TRUE
    Sequential = FALSE
SPECIFICATION Spec
INVARIANT TypeOK
PROPERTY AllOpsResolve
\* The only states with no successor are the end of the system: the
\* storage dropped, the worker returned and every op answered.
CHECK_DEADLOCK FALSE
