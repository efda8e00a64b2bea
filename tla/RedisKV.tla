------------------------------ MODULE RedisKV ------------------------------
(***************************************************************************)
(* The Redis key-value backend, RedisStorage and RedisHashMapExt in        *)
(* src/src/storage/backend/redis.rs.                                       *)
(*                                                                         *)
(* A caller (the application's KV capability) turns each get/set/remove   *)
(* and hash get/set/remove into an Op carrying a oneshot reply channel and *)
(* sends it down an mpsc channel (Op::run).  One worker thread receives    *)
(* ops in FIFO order and queues each as a job of a 16-thread pool; a free  *)
(* thread takes the oldest job, which waits for one of the r2d2 pool's     *)
(* connections (10 by default), runs the Redis command and sends the       *)
(* OpResult back.  Dropping RedisStorage sends Command::Stop, on which the *)
(* worker returns.  The KVStorage methods then map the reply to what the   *)
(* caller sees: Ok(Some v), Ok(None), Ok(()) or Err.                       *)
(*                                                                         *)
(* The Redis server is modelled by its keyspace: a key is absent, a string *)
(* or a hash, and commands of the wrong type answer WRONGTYPE.             *)
(***************************************************************************)
EXTENDS Naturals, Sequences, FiniteSets, Functions, TLC

CONSTANTS
    StrKeys,     \* keys the caller uses with get/set/remove
    HashKeys,    \* keys the caller uses with hget/hset/hremove
    MapKeys,     \* hash fields
    Vals,        \* string values
    Nil,         \* Redis nil / Option::None (model value)
    Stop,        \* the Command::Stop message in the channel (model value)
    MaxOps,      \* bound: ops the caller issues
    Threads,     \* threads of the job pool (ThreadPool::new(16))
    Conns,       \* connections of the r2d2 pool (max_size, 10 by default)
    BackendFail, \* may a connection checkout or a command fail?
    Sequential   \* does the caller wait for each op on a key before the next?

Keys == StrKeys \cup HashKeys
Cmds == {"get", "set", "remove", "hget", "hset", "hremove"}
StrCmds == {"get", "set", "remove"}
Reads == {"get", "hget"}
Ids == 1 .. MaxOps

ASSUME /\ Nil \notin Vals /\ MaxOps \in Nat
       /\ Threads \in Nat \ {0} /\ Conns \in Nat \ {0}
       /\ BackendFail \in BOOLEAN /\ Sequential \in BOOLEAN

VARIABLES
    chan,     \* the mpsc channel: op ids and Stop, in send order
    worker,   \* "running", or "stopped" once it has received Stop
    jobs,     \* the thread pool's job queue: op ids, oldest first
    dropped,  \* RedisStorage has been dropped (Stop sent)
    ops,      \* id -> the op, its progress and the reply the caller sees
    store,    \* the Redis keyspace
    expS,     \* ghost: key -> value of the last acknowledged set/remove
    expH      \* ghost: key -> field -> value of the last acknowledged hset/hremove

vars == <<chan, worker, jobs, dropped, ops, store, expS, expH>>

Absent == [t |-> "none"]
StrVal(v) == [t |-> "str", v |-> v]
HashVal(h) == [t |-> "hash", h |-> h]
NoFields == [m \in MapKeys |-> Nil]

\* An op: command and arguments, state "queued" (in the channel), "pool"
\* (a job waiting for a thread), "wait" (on a thread, waiting for a
\* connection), "run" (its command sent on a connection) or "done", the
\* caller's reply, and the value the caller expects a read to return,
\* fixed when it is issued.
Op == [cmd : Cmds, key : Keys, mk : MapKeys, val : Vals,
       st : {"queued", "pool", "wait", "run", "done"},
       res : [ok : BOOLEAN, v : Vals \cup {Nil}],
       exp : Vals \cup {Nil}]

Issued == DOMAIN ops
Unresolved(k) == \E i \in Issued : ops[i].key = k /\ ops[i].st # "done"

\* Jobs a pool thread is running, and those holding a connection.
OnThread == {i \in Issued : ops[i].st \in {"wait", "run"}}
OnConn == {i \in Issued : ops[i].st = "run"}

-----------------------------------------------------------------------------
(* The Redis commands the pool threads run (redis.rs:106-144): the          *)
(* OpResult, as [err, v], and the key's value afterwards.                   *)

HashAfter(h) == IF \A m \in MapKeys : h[m] = Nil THEN Absent ELSE HashVal(h)

\* Mutant: Command::Hget runs conn.get(k), a copy of the Get arm.
RedisExecHgetAsGet(o, cur) ==
    CASE o.cmd \in {"get", "hget"} ->
           IF cur.t = "hash" THEN [err |-> TRUE, v |-> Nil, new |-> cur]
           ELSE [err |-> FALSE, v |-> IF cur.t = "str" THEN cur.v ELSE Nil,
                 new |-> cur]
      [] o.cmd = "set"    -> [err |-> FALSE, v |-> Nil, new |-> StrVal(o.val)]
      [] o.cmd = "remove" -> [err |-> FALSE, v |-> Nil, new |-> Absent]
      [] cur.t = "str"    -> [err |-> TRUE, v |-> Nil, new |-> cur]
      [] o.cmd = "hset" ->
           [err |-> FALSE, v |-> Nil,
            new |-> HashVal([IF cur.t = "hash" THEN cur.h ELSE NoFields
                               EXCEPT ![o.mk] = o.val])]
      [] o.cmd = "hremove" ->
           [err |-> FALSE, v |-> Nil,
            new |-> IF cur.t = "hash"
                    THEN HashAfter([cur.h EXCEPT ![o.mk] = Nil]) ELSE cur]

RedisExec(o, cur) ==
    CASE o.cmd = "get" ->
           IF cur.t = "hash" THEN [err |-> TRUE, v |-> Nil, new |-> cur]
           ELSE [err |-> FALSE, v |-> IF cur.t = "str" THEN cur.v ELSE Nil,
                 new |-> cur]
      [] o.cmd = "set"    -> [err |-> FALSE, v |-> Nil, new |-> StrVal(o.val)]
      [] o.cmd = "remove" -> [err |-> FALSE, v |-> Nil, new |-> Absent]
      [] cur.t = "str"    -> [err |-> TRUE, v |-> Nil, new |-> cur]
      [] o.cmd = "hget" ->
           [err |-> FALSE, v |-> IF cur.t = "hash" THEN cur.h[o.mk] ELSE Nil,
            new |-> cur]
      [] o.cmd = "hset" ->
           [err |-> FALSE, v |-> Nil,
            new |-> HashVal([IF cur.t = "hash" THEN cur.h ELSE NoFields
                               EXCEPT ![o.mk] = o.val])]
      [] o.cmd = "hremove" ->
           [err |-> FALSE, v |-> Nil,
            new |-> IF cur.t = "hash"
                    THEN HashAfter([cur.h EXCEPT ![o.mk] = Nil]) ELSE cur]

\* Mutant: a read maps OpResult::Error(e) to Some(e), the error text.
CallerResultErrText(o, r) ==
    [ok |-> TRUE, v |-> IF o.cmd \in Reads
                        THEN IF r.err THEN "error text" ELSE r.v
                        ELSE Nil]

\* KVStorage::get and HashMapExt::get map OpResult::Error to Ok(None)
\* (redis.rs:163-169, 207-213); every other method maps any OpResult to
\* Ok(()) (redis.rs:175, 181, 219, 225).  A cancelled oneshot is Err.
CallerResult(o, r) ==
    [ok |-> TRUE, v |-> IF o.cmd \in Reads /\ ~r.err THEN r.v ELSE Nil]

\* No reply yet, or the oneshot sender was dropped: Err(Canceled).
NoReply == [ok |-> FALSE, v |-> Nil]

-----------------------------------------------------------------------------
Init ==
    /\ chan = <<>>
    /\ worker = "running"
    /\ jobs = <<>>
    /\ dropped = FALSE
    /\ ops = [i \in {} |-> {}]
    /\ store = [k \in Keys |-> Absent]
    /\ expS = [k \in Keys |-> Nil]
    /\ expH = [k \in Keys |-> NoFields]

-----------------------------------------------------------------------------
(* The caller.                                                             *)

\* KVStorage::get/set/remove or HashMapExt::get/set/remove, through Op::run:
\* a oneshot channel is made and the Op sent (redis.rs:37-50, 161-227).
\* Arguments a command does not take are fixed to one value.
Issue(cmd, k, m, v) ==
    /\ ~dropped
    /\ Cardinality(Issued) < MaxOps
    /\ k \in IF cmd \in StrCmds THEN StrKeys ELSE HashKeys
    /\ Sequential => ~Unresolved(k)
    /\ LET id == Cardinality(Issued) + 1
       IN  /\ ops' = ops @@ (id :> [cmd |-> cmd, key |-> k, mk |-> m,
                                     val |-> v, st |-> "queued",
                                     res |-> NoReply,
                                     exp |-> CASE cmd = "get"  -> expS[k]
                                               [] cmd = "hget" -> expH[k][m]
                                               [] OTHER        -> Nil])
           /\ chan' = Append(chan, id)
    /\ UNCHANGED <<worker, jobs, dropped, store, expS, expH>>

\* Drop for RedisStorage sends Command::Stop (redis.rs:151-158).
Drop ==
    /\ ~dropped
    /\ dropped' = TRUE
    /\ chan' = Append(chan, Stop)
    /\ UNCHANGED <<worker, jobs, ops, store, expS, expH>>

-----------------------------------------------------------------------------
(* The worker thread and the thread pool.                                  *)

\* RedisStorage::worker: recv one message; return on Stop, else queue the
\* op as a pool job (redis.rs:91-103).  Returning drops the receiver, and
\* with it every op still in the channel: their callers get Err(Canceled).
\* It also drops the ThreadPool handle, which lets its threads finish the
\* jobs already queued.
\* (Nothing follows Stop in the channel while the only senders are fields
\* of the RedisStorage being dropped, so that set is empty in this code.)
Recv ==
    /\ worker = "running"
    /\ chan # <<>>
    /\ chan' = Tail(chan)
    /\ IF Head(chan) = Stop
       THEN /\ worker' = "stopped"
            /\ ops' = [i \in Issued |->
                         IF i \in Range(Tail(chan))
                         THEN [ops[i] EXCEPT !.st = "done", !.res = NoReply]
                         ELSE ops[i]]
            /\ UNCHANGED jobs
       ELSE /\ ops' = [ops EXCEPT ![Head(chan)].st = "pool"]
            /\ jobs' = Append(jobs, Head(chan))
            /\ UNCHANGED worker
    /\ UNCHANGED <<dropped, store, expS, expH>>

\* The caller's view of an acknowledged write.
Ack(o, res) ==
    /\ expS' = IF res.ok /\ o.cmd \in {"set", "remove"}
               THEN [expS EXCEPT ![o.key] = IF o.cmd = "set" THEN o.val ELSE Nil]
               ELSE expS
    /\ expH' = IF res.ok /\ o.cmd \in {"hset", "hremove"}
               THEN [expH EXCEPT ![o.key][o.mk] =
                       IF o.cmd = "hset" THEN o.val ELSE Nil]
               ELSE expH

Finish(i, res) ==
    /\ ops' = [ops EXCEPT ![i].st = "done", ![i].res = res]
    /\ Ack(ops[i], res)

\* A thread of the pool that is not running a job takes the oldest one
\* (ThreadPool::new(16) and execute, redis.rs:89, 103): with every thread
\* busy, later jobs wait in the queue.
Start ==
    /\ jobs # <<>>
    /\ Cardinality(OnThread) < Threads
    /\ ops' = [ops EXCEPT ![Head(jobs)].st = "wait"]
    /\ jobs' = Tail(jobs)
    /\ UNCHANGED <<chan, worker, dropped, store, expS, expH>>

\* Mutant: a job whose checkout fails sends its op back to the channel to
\* be retried instead of failing.
CheckoutRetry(i) ==
    /\ i \in Issued
    /\ ops[i].st = "wait"
    /\ \/ /\ Cardinality(OnConn) < Conns
          /\ ops' = [ops EXCEPT ![i].st = "run"]
          /\ UNCHANGED <<chan, expS, expH>>
       \/ /\ BackendFail
          /\ ops' = [ops EXCEPT ![i].st = "queued"]
          /\ chan' = Append(chan, i)
          /\ UNCHANGED <<expS, expH>>
    /\ UNCHANGED <<worker, jobs, dropped, store>>

\* conn_pool.get().unwrap() (redis.rs:104): the job blocks until one of the
\* pool's Conns connections is idle.  When the backend fails (Redis is
\* unreachable, or every connection is held past r2d2's connection
\* timeout) get() returns Err and unwrap panics: the job and its oneshot
\* sender are dropped, the caller gets Err, and the pool replaces the
\* thread.
Checkout(i) ==
    /\ i \in Issued
    /\ ops[i].st = "wait"
    /\ \/ /\ Cardinality(OnConn) < Conns
          /\ ops' = [ops EXCEPT ![i].st = "run"]
          /\ UNCHANGED <<expS, expH>>
       \/ /\ BackendFail
          /\ Finish(i, NoReply)
    /\ UNCHANGED <<chan, worker, jobs, dropped, store>>

\* The command runs on the connection and the reply is sent
\* (redis.rs:106-145); the connection goes back to the pool when the job
\* ends.  The command may answer an error, after or without taking
\* effect; the reply is then OpResult::Error.  Otherwise the command runs
\* on the keyspace.
Exec(i) ==
    /\ i \in Issued
    /\ ops[i].st = "run"
    /\ LET o == ops[i]
           r == RedisExec(o, store[o.key])
       IN  \/ /\ BackendFail
              /\ \E applied \in BOOLEAN :
                    store' = IF applied THEN [store EXCEPT ![o.key] = r.new]
                                        ELSE store
              /\ Finish(i, CallerResult(o, [err |-> TRUE, v |-> Nil]))
           \/ /\ store' = [store EXCEPT ![o.key] = r.new]
              /\ Finish(i, CallerResult(o, r))
    /\ UNCHANGED <<chan, worker, jobs, dropped>>

\* The field and value arguments a command takes; the others are fixed.
Args(c) ==
    (IF c \in {"hget", "hset", "hremove"} THEN MapKeys
                                          ELSE {CHOOSE m \in MapKeys : TRUE})
    \X (IF c \in {"set", "hset"} THEN Vals ELSE {CHOOSE v \in Vals : TRUE})

Next ==
    \/ \E c \in Cmds, k \in Keys : \E a \in Args(c) : Issue(c, k, a[1], a[2])
    \/ Drop
    \/ Recv
    \/ Start
    \/ \E i \in Ids : Checkout(i)
    \/ \E i \in Ids : Exec(i)

\* The worker and pool threads are scheduled by the OS, r2d2 wakes a job
\* waiting for a connection when one is returned, and the Redis server
\* answers every command (an assumption about the environment).
Fairness ==
    /\ WF_vars(Recv) /\ WF_vars(Start)
    /\ \A i \in Ids : WF_vars(Checkout(i)) /\ WF_vars(Exec(i))

Spec == Init /\ [][Next]_vars /\ Fairness

-----------------------------------------------------------------------------
(* Properties.                                                             *)

TypeOK ==
    /\ chan \in Seq(Ids \cup {Stop})
    /\ worker \in {"running", "stopped"}
    /\ jobs \in Seq(Ids)
    /\ Cardinality(OnConn) <= Conns /\ Cardinality(OnThread) <= Threads
    /\ dropped \in BOOLEAN
    /\ Issued \subseteq Ids /\ \A i \in Issued : ops[i] \in Op
    /\ \A k \in Keys : store[k] \in {Absent} \cup {StrVal(v) : v \in Vals}
                                   \cup {HashVal(h) : h \in [MapKeys -> Vals \cup {Nil}]}
    /\ expS \in [Keys -> Vals \cup {Nil}]
    /\ expH \in [Keys -> [MapKeys -> Vals \cup {Nil}]]

\* Read your acknowledged writes (spec 8: set(k,v); get(k) == v, for the
\* top-level and the hash store): when the caller waits for each op on a
\* key, a get or hget that succeeds returns the value of the last set or
\* hset the caller was told succeeded, or nil after a remove.  Errors of
\* the pool jobs and the result mapping of redis.rs:161-227 are what can
\* break it.
AckedValueVisible ==
    \A i \in Issued :
        (ops[i].cmd \in Reads /\ ops[i].st = "done" /\ ops[i].res.ok)
            => ops[i].res.v = ops[i].exp

\* Every op the caller issues is eventually answered, Ok or Err, also when
\* the storage is dropped with ops in flight: no caller waits forever on
\* its oneshot receiver.
AllOpsResolve ==
    \A i \in Ids : (i \in Issued) ~> (i \in Issued /\ ops[i].st = "done")

-----------------------------------------------------------------------------
(* Refinement of KVStore.  The keyspace maps to the two abstract maps (a  *)
(* key of the wrong type reads as absent); an op is pending until it is   *)
(* done, and keeps its caller-visible reply.                              *)

AbsStrs == [k \in StrKeys |-> IF store[k].t = "str" THEN store[k].v ELSE Nil]
AbsHashes == [k \in HashKeys |-> IF store[k].t = "hash" THEN store[k].h ELSE NoFields]
AbsOps == [i \in Issued |->
             [cmd |-> ops[i].cmd, key |-> ops[i].key, mk |-> ops[i].mk,
              val |-> ops[i].val, res |-> ops[i].res,
              st |-> IF ops[i].st = "done" THEN "done" ELSE "pending"]]

KV == INSTANCE KVStore WITH strs <- AbsStrs, hashes <- AbsHashes, aops <- AbsOps

\* The backend is a linearizable KV store: every op, pipelined or not, takes
\* effect atomically once, between Op::run and its reply, with the reply
\* the store gives at that instant, or is answered Err with no effect (a
\* job whose connection checkout panics, ops cancelled by Drop).  The pool
\* may run ops out of issue order (redis.rs:103) only where the caller did
\* not wait for one before issuing the next.
KVRefinement == KV!Spec
=============================================================================
