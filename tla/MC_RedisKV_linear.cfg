\* Pipelined ops on a string key and a hash key, dropped storage, a Redis
\* server that answers every command.
CONSTANTS
    k1 = k1
    k2 = k2
    m1 = m1
    v1 = v1
    v2 = v2
    StrKeys = {k1}
    HashKeys = {k2}
    MapKeys = {m1}
    Vals = {v1, v2}
    Nil = Nil
    Stop = Stop
    MaxOps = 3
    Threads = 2
    Conns = 1
    BackendFail = FALSE
    Sequential = FALSE
SPECIFICATION Spec
PROPERTY KVRefinement
\* The only states with no successor are the end of the system: the
\* storage dropped, the worker returned and every op answered.
CHECK_DEADLOCK FALSE
