------------------------------- MODULE TcpNs -------------------------------
(***************************************************************************)
(* The "tcp" capability namespace, TcpImpl in src/src/lssa/ns/tcp.rs.      *)
(*                                                                         *)
(* TcpImpl owns two slabs on the application's reactor thread: `streams`,  *)
(* slot -> Option<TcpStream>, and `buffers`, slot -> Box<[u8]>.  The guest *)
(* calls six imports; listen, read and write spawn futures on the          *)
(* current-thread executor whose continuations re-enter the guest through  *)
(* invoke2.  read and write take the stream out of its slot (leaving None) *)
(* for the duration of the I/O and the continuation puts it back.          *)
(*                                                                         *)
(* Each guest import and each future continuation is one atomic action:   *)
(* the reactor is single-threaded and a continuation runs to completion.  *)
(* Byte contents are abstracted to lengths; a connection is a model value. *)
(* Every `unwrap`, slab index or remove of a key that is not occupied, and *)
(* slice out of guest memory is a panic that kills the reactor thread:    *)
(* `panicked` becomes TRUE and nothing runs afterwards.                   *)
(*                                                                         *)
(* Two ghost variables record the guest's side of the ABI: the handles it  *)
(* has been given (sHandles, bHandles) and whether it ever made a call the *)
(* spec calls a guest error (misused).                                    *)
(***************************************************************************)
EXTENDS Naturals, Integers, FiniteSets, Sequences

CONSTANTS
    Conns,             \* peer connections that may arrive (model values)
    Addrs,             \* addresses the guest may pass to listen
    Permitted,         \* addresses with an AppPermission::TcpListen
    None,              \* Option::None in a stream slot (model value)
    MaxLen,            \* largest read length, write length and max_len
    MemSize,           \* bytes of guest linear memory
    MaxBuffers,        \* bound: buffers held plus reads in flight
    IoFail,            \* may accept, read and write fail with an I/O error?
    GuestDestroysBusy, \* may the guest destroy a stream with I/O in flight?
    GuestRelistens,    \* may the guest listen twice on one address?
    AppTeardown,       \* may the application be torn down with I/O pending?
    NegativeLens       \* may the guest pass a negative read length?

ASSUME /\ Permitted \subseteq Addrs
       /\ None \notin Conns
       /\ MaxLen \in Nat /\ MemSize \in Nat /\ MaxBuffers \in Nat \ {0}
       /\ {IoFail, GuestDestroysBusy, GuestRelistens, AppTeardown,
           NegativeLens} \subseteq BOOLEAN

VARIABLES
    streams,    \* Slab of Conns \cup {None}                    (tcp.rs:32)
    buffers,    \* Slab of buffer lengths                        (tcp.rs:33)
    pending,    \* read and write futures spawned and not yet resolved
    listening,  \* addresses with a live accept loop
    backlog,    \* <<addr, conn>>: connections the kernel queued for accept
    accepted,   \* connections the environment has delivered
    sHandles,   \* ghost: <<stream id, conn>> the guest holds
    bHandles,   \* ghost: buffer ids the guest holds
    misused,    \* ghost: the guest made a call that is a guest error
    panicked,   \* the reactor thread has panicked
    appAlive    \* the Application behind ctx.app's Weak still exists

vars == <<streams, buffers, pending, listening, backlog, accepted,
          sHandles, bHandles, misused, panicked, appAlive>>

S == INSTANCE Slab WITH NoVal <- None
B == INSTANCE Slab WITH NoVal <- 0

\* Integer arguments the guest may pass as ids; -1 is what a failed
\* callback delivers, and `as usize` makes it an out-of-range key.
StreamIds == -1 .. Cardinality(Conns)
BufferIds == -1 .. MaxBuffers
Lens == 0 .. MaxLen
\* The read lengths the guest passes: i32, so possibly negative.
ReadLens == IF NegativeLens THEN -1 .. MaxLen ELSE Lens
Ptrs == 0 .. MemSize

Task == [op : {"read", "write"}, sid : Nat, conn : Conns, len : Lens]

LiveIds == {h[1] : h \in sHandles}
\* The handle id has a read or write of its own connection in flight.
Busy(id) == \E h \in sHandles, t \in pending :
                h[1] = id /\ t.sid = id /\ t.conn = h[2]

\* [ptr .. ptr + len] lies inside linear memory (extract_bytes, tcp.rs:105).
InMem(ptr, len) == ptr + len <= MemSize

\* The reactor thread panics.  `legal` says whether the call that panicked
\* was one the spec allows the guest to make.
Panic(legal) ==
    /\ panicked' = TRUE
    /\ misused' = (misused \/ ~legal)

\* app_weak.upgrade().unwrap() before invoke2 in every continuation: it
\* panics once the application has been dropped.
Upgrade ==
    IF appAlive THEN UNCHANGED <<misused, panicked>> ELSE Panic(TRUE)

-----------------------------------------------------------------------------
Init ==
    /\ streams = S!Empty
    /\ buffers = B!Empty
    /\ pending = {}
    /\ listening = {}
    /\ backlog = {}
    /\ accepted = {}
    /\ sHandles = {}
    /\ bHandles = {}
    /\ misused = FALSE
    /\ panicked = FALSE
    /\ appAlive = TRUE

-----------------------------------------------------------------------------
(* Guest imports.                                                          *)

\* listen: the permission check returns -1; bind(..).unwrap() panics when
\* the address is already bound; otherwise the accept loop is spawned.
listen(a) ==
    /\ GuestRelistens \/ a \notin listening
    /\ \/ /\ a \notin Permitted
          /\ UNCHANGED vars
       \/ /\ a \in Permitted
          /\ a \in listening
          /\ Panic(TRUE)
          /\ UNCHANGED <<streams, buffers, pending, listening, backlog, accepted,
                         sHandles, bHandles>>
       \/ /\ a \in Permitted
          /\ a \notin listening
          /\ listening' = listening \cup {a}
          /\ UNCHANGED <<streams, buffers, pending, backlog, accepted, sHandles,
                         bHandles, misused, panicked>>

\* Mutant: destroy empties the slot with take() instead of removing it.
destroyByTake(id) ==
    /\ GuestDestroysBusy \/ ~Busy(id)
    /\ \/ /\ ~S!Occupied(streams, id)
          /\ Panic(id \in LiveIds)
          /\ UNCHANGED <<streams, buffers, pending, listening, backlog, accepted,
                         sHandles, bHandles>>
       \/ /\ S!Occupied(streams, id)
          /\ streams' = S!Put(streams, id, None)
          /\ sHandles' = {h \in sHandles : h[1] # id}
          /\ UNCHANGED <<buffers, pending, listening, backlog, accepted, bHandles,
                         misused, panicked>>

\* destroy: streams.remove(id), dropping (closing) the stream if present.
destroy(id) ==
    /\ GuestDestroysBusy \/ ~Busy(id)
    /\ \/ /\ ~S!Occupied(streams, id)
          /\ Panic(id \in LiveIds)
          /\ UNCHANGED <<streams, buffers, pending, listening, backlog, accepted,
                         sHandles, bHandles>>
       \/ /\ S!Occupied(streams, id)
          /\ streams' = S!Remove(streams, id)
          /\ sHandles' = {h \in sHandles : h[1] # id}
          /\ UNCHANGED <<buffers, pending, listening, backlog, accepted, bHandles,
                         misused, panicked>>

\* release_buffer: buffers.remove(id).
release_buffer(id) ==
    \/ /\ ~B!Occupied(buffers, id)
       /\ Panic(id \in bHandles)
       /\ UNCHANGED <<streams, buffers, pending, listening, backlog, accepted,
                      sHandles, bHandles>>
    \/ /\ B!Occupied(buffers, id)
       /\ buffers' = B!Remove(buffers, id)
       /\ bHandles' = bHandles \ {id}
       /\ UNCHANGED <<streams, pending, listening, backlog, accepted, sHandles,
                      misused, panicked>>

\* take_buffer: the buffer is removed first, then its length is checked
\* against max_len, then it is copied to guest memory at ptr.
take_buffer(id, ptr, max) ==
    \/ /\ ~B!Occupied(buffers, id)
       /\ Panic(id \in bHandles)
       /\ UNCHANGED <<streams, buffers, pending, listening, backlog, accepted,
                      sHandles, bHandles>>
    \/ /\ B!Occupied(buffers, id)
       /\ LET len == B!At(buffers, id)
              ok  == len <= max /\ InMem(ptr, len)
          IN  /\ buffers' = B!Remove(buffers, id)
              /\ bHandles' = bHandles \ {id}
              /\ IF ok THEN UNCHANGED <<misused, panicked>>
                       ELSE Panic(FALSE)
       /\ UNCHANGED <<streams, pending, listening, backlog, accepted, sHandles>>

\* Mutant: the stream is cloned (try_clone) instead of taken out of its slot.
TakeStreamCloned(op, id, len) ==
    \/ /\ ~S!Occupied(streams, id)
       /\ Panic(id \in LiveIds /\ ~Busy(id))
       /\ UNCHANGED <<streams, pending>>
    \/ /\ S!Occupied(streams, id)
       /\ S!At(streams, id) = None
       /\ Panic(id \in LiveIds /\ ~Busy(id))
       /\ UNCHANGED <<streams, pending>>
    \/ /\ S!Occupied(streams, id)
       /\ S!At(streams, id) # None
       /\ pending' = pending \cup {[op |-> op, sid |-> id, len |-> len,
                                   conn |-> S!At(streams, id)]}
       /\ UNCHANGED <<streams, misused, panicked>>

\* The common part of read and write: streams[id].take().unwrap() and the
\* spawn of a future that owns the connection.  For read the future is
\* built by AsyncReadFuture::new, whose vec![0; len] (tcp.rs:196) gets
\* `read_len as usize`: a negative i32 becomes at least 2^64 - 2^31, above
\* isize::MAX, and the allocation panics with "capacity overflow" after
\* the stream has been taken.
TakeStream(op, id, len) ==
    \/ /\ ~S!Occupied(streams, id)
       /\ Panic(id \in LiveIds /\ ~Busy(id))
       /\ UNCHANGED <<streams, pending>>
    \/ /\ S!Occupied(streams, id)
       /\ S!At(streams, id) = None
       /\ Panic(id \in LiveIds /\ ~Busy(id))
       /\ UNCHANGED <<streams, pending>>
    \/ /\ S!Occupied(streams, id)
       /\ S!At(streams, id) # None
       /\ streams' = S!Put(streams, id, None)
       /\ \/ /\ len >= 0
             /\ pending' = pending \cup {[op |-> op, sid |-> id, len |-> len,
                                         conn |-> S!At(streams, id)]}
             /\ UNCHANGED <<misused, panicked>>
          \/ /\ len < 0
             /\ Panic(TRUE)
             /\ UNCHANGED pending

\* read: bounded by MaxBuffers so that the buffer slab stays finite.
read(id, len) ==
    /\ B!Count(buffers) + Cardinality({t \in pending : t.op = "read"})
         < MaxBuffers
    /\ TakeStream("read", id, len)
    /\ UNCHANGED <<buffers, listening, backlog, accepted, sHandles, bHandles>>

\* write: extract_bytes(1, 2) slices guest memory before the stream is taken.
write(id, ptr, len) ==
    /\ \/ /\ ~InMem(ptr, len)
          /\ Panic(FALSE)
          /\ UNCHANGED <<streams, pending>>
       \/ /\ InMem(ptr, len)
          /\ TakeStream("write", id, len)
    /\ UNCHANGED <<buffers, listening, backlog, accepted, sHandles, bHandles>>

-----------------------------------------------------------------------------
(* Future continuations, run by the current-thread executor.              *)

\* A peer connects to an address with a live listener; the kernel queues
\* the connection until the accept loop takes it.  A connection that was
\* reset may connect again.
Connect(a, c) ==
    /\ a \in listening
    /\ c \notin accepted
    /\ \A p \in backlog : p[2] # c
    /\ backlog' = backlog \cup {<<a, c>>}
    /\ UNCHANGED <<streams, buffers, pending, listening, accepted, sHandles,
                   bHandles, misused, panicked>>

\* Mutant: the accept loop handles one connection and ends (take(1)),
\* dropping the listener and resetting the connections still queued.
AcceptOnce(a, c) ==
    /\ <<a, c>> \in backlog
    /\ a \in listening
    /\ streams' = S!Insert(streams, c)
    /\ sHandles' = sHandles \cup {<<S!NextKey(streams), c>>}
    /\ accepted' = accepted \cup {c}
    /\ listening' = listening \ {a}
    /\ backlog' = {p \in backlog : p[1] # a}
    /\ Upgrade
    /\ UNCHANGED <<buffers, pending, bHandles>>

\* listener.incoming().for_each: insert Some(s), invoke2(stream_id)
\* (tcp.rs:65-73); the loop then waits for the next connection.
Accept(a, c) ==
    /\ <<a, c>> \in backlog
    /\ a \in listening
    /\ streams' = S!Insert(streams, c)
    /\ sHandles' = sHandles \cup {<<S!NextKey(streams), c>>}
    /\ accepted' = accepted \cup {c}
    /\ backlog' = backlog \ {<<a, c>>}
    /\ Upgrade
    /\ UNCHANGED <<buffers, pending, listening, bHandles>>

\* An accept error ends for_each; map_err only logs it (tcp.rs:74-76).  The
\* future completes, the listener is dropped and the connections still
\* queued on it are reset.  No callback tells the guest.
AcceptFail(a) ==
    /\ IoFail
    /\ a \in listening
    /\ listening' = listening \ {a}
    /\ backlog' = {p \in backlog : p[1] # a}
    /\ UNCHANGED <<streams, buffers, pending, accepted, sHandles, bHandles,
                   misused, panicked>>

\* Mutant: the continuation forgets to put the stream back into its slot.
CompleteNoReinstall(t, n) ==
    /\ pending' = pending \ {t}
    /\ \/ /\ ~S!Occupied(streams, t.sid)
          /\ Panic(TRUE)
          /\ UNCHANGED <<streams, buffers, bHandles>>
       \/ /\ S!Occupied(streams, t.sid)
          /\ IF t.op = "read"
             THEN /\ buffers' = B!Insert(buffers, n)
                  /\ bHandles' = bHandles \cup {B!NextKey(buffers)}
             ELSE UNCHANGED <<buffers, bHandles>>
          /\ Upgrade
          /\ UNCHANGED streams
    /\ UNCHANGED <<listening, backlog, accepted, sHandles>>

\* Mutant: the buffer keeps one byte more than was read (buf[0..n + 1]).
CompleteOffByOne(t, n) ==
    /\ pending' = pending \ {t}
    /\ \/ /\ ~S!Occupied(streams, t.sid)
          /\ Panic(TRUE)
          /\ UNCHANGED <<streams, buffers, bHandles>>
       \/ /\ S!Occupied(streams, t.sid)
          /\ streams' = S!Put(streams, t.sid, t.conn)
          /\ IF t.op = "read"
             THEN /\ buffers' = B!Insert(buffers, n + 1)
                  /\ bHandles' = bHandles \cup {B!NextKey(buffers)}
             ELSE UNCHANGED <<buffers, bHandles>>
          /\ Upgrade
    /\ UNCHANGED <<listening, backlog, accepted, sHandles>>

\* Success continuation of read and write: streams[stream_id] = Some(stream)
\* (IndexMut panics on a vacant key); a read then inserts the n bytes read
\* as a buffer and passes its id to the guest.
Complete(t, n) ==
    /\ pending' = pending \ {t}
    /\ \/ /\ ~S!Occupied(streams, t.sid)
          /\ Panic(TRUE)
          /\ UNCHANGED <<streams, buffers, bHandles>>
       \/ /\ S!Occupied(streams, t.sid)
          /\ streams' = S!Put(streams, t.sid, t.conn)
          /\ IF t.op = "read"
             THEN /\ buffers' = B!Insert(buffers, n)
                  /\ bHandles' = bHandles \cup {B!NextKey(buffers)}
             ELSE UNCHANGED <<buffers, bHandles>>
          /\ Upgrade
    /\ UNCHANGED <<listening, backlog, accepted, sHandles>>

ReadDone(t, n) == t.op = "read" /\ n <= t.len /\ Complete(t, n)

WriteDone(t) == t.op = "write" /\ Complete(t, t.len)

\* Error continuation of read and write: invoke2(-1).  The future, and the
\* stream it owns, is dropped; the slot keeps the None left by take().
Fail(t) ==
    /\ IoFail
    /\ pending' = pending \ {t}
    /\ Upgrade
    /\ UNCHANGED <<streams, buffers, listening, backlog, accepted, sHandles, bHandles>>

ReadFail(t) == t.op = "read" /\ Fail(t)

WriteFail(t) == t.op = "write" /\ Fail(t)

-----------------------------------------------------------------------------
\* The application is dropped (supervisor teardown, spec 5): the guest makes
\* no more calls, but the spawned accept loops and I/O futures hold Rc
\* clones of the slabs and keep running on the executor.
Teardown ==
    /\ AppTeardown
    /\ appAlive
    /\ appAlive' = FALSE
    /\ UNCHANGED <<streams, buffers, pending, listening, backlog, accepted,
                   sHandles, bHandles, misused, panicked>>

GuestCall ==
    /\ appAlive
    /\ \/ \E a \in Addrs : listen(a)
       \/ \E id \in StreamIds : destroy(id)
       \/ \E id \in BufferIds : release_buffer(id)
       \/ \E id \in BufferIds, p \in Ptrs, m \in Lens : take_buffer(id, p, m)
       \/ \E id \in StreamIds, l \in ReadLens : read(id, l)
       \/ \E id \in StreamIds, p \in Ptrs, l \in Lens : write(id, p, l)

Continuation ==
    \/ \E a \in Addrs, c \in Conns : Connect(a, c)
    \/ \E a \in Addrs, c \in Conns : Accept(a, c)
    \/ \E a \in Addrs : AcceptFail(a)
    \/ \E t \in pending, n \in Lens : ReadDone(t, n)
    \/ \E t \in pending : WriteDone(t)
    \/ \E t \in pending : ReadFail(t)
    \/ \E t \in pending : WriteFail(t)

Next ==
    /\ ~panicked
    /\ \/ (GuestCall \/ Continuation) /\ UNCHANGED appAlive
       \/ Teardown

Spec == Init /\ [][Next]_vars

\* The current-thread executor polls the accept loop whenever its listener
\* is readable, between guest invocations: a queued connection cannot wait
\* forever while the reactor lives.  Guest calls and peers get no fairness.
AcceptFairness ==
    \A a \in Addrs, c \in Conns :
        WF_vars(~panicked /\ Accept(a, c) /\ UNCHANGED appAlive)

FairSpec == Spec /\ AcceptFairness

-----------------------------------------------------------------------------
(* Properties.                                                             *)

TypeOK ==
    /\ S!Keys(streams) \subseteq 0 .. Cardinality(Conns) - 1
    /\ \A k \in S!Keys(streams) : S!At(streams, k) \in Conns \cup {None}
    /\ \A k \in B!Keys(buffers) : B!At(buffers, k) \in Lens
    /\ pending \subseteq Task
    /\ listening \subseteq Permitted
    /\ backlog \subseteq listening \X Conns
    /\ accepted \subseteq Conns
    /\ sHandles \subseteq (Nat \X Conns)
    /\ bHandles \subseteq Nat
    /\ misused \in BOOLEAN /\ panicked \in BOOLEAN /\ appAlive \in BOOLEAN

\* The reactor only panics on a guest error (spec 7: kind 3); a guest that
\* keeps to the ABI never brings the application down through the unwraps
\* of listen, read, write and their continuations (tcp.rs:60, 117, 127,
\* 155, 165), and a continuation that outlives the application drops
\* silently instead of unwrapping the failed upgrade (spec 4; tcp.rs:68,
\* 130, 137, 167, 174).
NoHostPanic == panicked => misused

\* Every stream handle the guest holds names a slot that holds that very
\* connection, or None while that connection's read or write is in flight:
\* a continuation never puts a stream back into a slot that was freed and
\* reused (tcp.rs:127, 165), and a finished I/O never leaves the slot empty.
HandleIntegrity ==
    \A h \in sHandles :
        /\ S!Occupied(streams, h[1])
        /\ S!At(streams, h[1]) =
             IF \E t \in pending : t.sid = h[1] /\ t.conn = h[2]
             THEN None ELSE h[2]

\* Slots and handles agree: every occupied stream and buffer slot is held
\* by the guest and every handle the guest holds is occupied, so no slot
\* is leaked and no id is handed out twice (spec 8, first invariant).
ResourceAccounting ==
    /\ S!Keys(streams) = LiveIds
    /\ B!Keys(buffers) = bHandles
    /\ Cardinality(sHandles) = Cardinality(LiveIds)

\* spec 8: a listen that returned 0 delivers one callback per accepted
\* connection until destroy.  Every connection that reaches a listening
\* address is eventually handed to the guest's callback with a stream id,
\* unless the reactor has died.  The accept loop (tcp.rs:64-77) must keep
\* running through accept errors for this to hold.
ConnectionsAccepted ==
    \A a \in Addrs, c \in Conns :
        (<<a, c>> \in backlog) ~> (c \in accepted \/ panicked)
=============================================================================
