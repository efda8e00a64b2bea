# TLA+ models of IceCore's guest runtime

This directory holds TLA+ models of the parts of IceCore in `src/`. Each model is
checked with TLC. The models follow the code line by line where it changes state.
`PROJECT.json` maps every definition to the source lines it translates, and lists
the runs, mutants, findings and hazards.

## 1. Inventory

The repository's `src/` holds five files. They belong to a larger server, and the
spec (`spec.md`) describes that whole server.

| Component | Source | State it keeps | Operations |
|---|---|---|---|
| Resource tables | slab crate, used in `lssa/ns/tcp.rs` | a vector of Occupied/Vacant entries and a free-list head `next` | insert, remove, index, index-assign |
| TCP capability (`TcpImpl`) | `lssa/ns/tcp.rs` | `streams: Slab<Option<TcpStream>>`, `buffers: Slab<Box<[u8]>>`, the spawned accept loops and I/O futures | guest imports `listen`, `destroy`, `read`, `write`, `take_buffer`, `release_buffer`; continuations for accept, read done/failed, write done/failed |
| Redis KV backend | `storage/backend/redis.rs` | the mpsc op channel, the worker thread, a 16-thread pool, one oneshot reply per op, the Redis keyspace | `get/set/remove`, `hget/hset/hremove` (via `Op::run`), worker `recv`, pool job, `Drop` (Stop) |
| HTTP request glue | `glue/request.rs` | the request fields, a `RequestCache` of CStrings whose pointers go to the guest, a session shared through `Arc<Mutex<..>>` | `get_uri/method/remote_addr/body/cookie`, `get_header`, `get_stats`, `get/set_session_item`, the header iterator, template rendering |
| HTTP response glue | `glue/response.rs` | body, file, status, headers, cookies, optional stream receiver | `add_header`, `set_cookie`, `set_body`, `set_file`, `set_status`, `stream`, `into_hyper_response` |
| Configuration | `config.rs` | plain serde data | none (a `Default`) |

These parts of the spec have no code in `src/`: the permission oracle, the memory
bridge, the namespace registry, the application reactor, the callback scheduler and
the supervisor. The TCP model still shows two of them, as guards. The `TcpListen`
permission check is the first guard of `listen`. The bounds of guest-memory slices
are the `InMem` checks of `write` and `take_buffer`.

### How the components interact

- **Guest to TCP.** The guest calls TCP imports on the application's reactor
  thread. `listen`, `read` and `write` spawn futures on the current-thread
  executor. Each future's continuation later re-enters the guest with
  `invoke2(cb_target, cb_data, result)`. `read` and `write` take the stream out of
  its slot (`Option::take`) and the continuation puts it back. So between the call
  and the continuation, the slot holds `None`.
- **Guest to KV.** A KV call sends an `Op` down an mpsc channel and returns a
  future on a oneshot receiver. The worker thread hands each op to a thread pool.
  A pool thread checks out an r2d2 connection, runs one Redis command and sends the
  result on the oneshot. These are real OS threads, so pool jobs run concurrently.
- **Request and response.** The HTTP front end builds these objects. Guests read
  them, and write to them, through raw-pointer glue functions.

### What makes it hard

- **TCP.** Everything runs on one thread, but the futures' continuations
  interleave with guest calls in any order. Slab keys are reused at once, last
  freed first. Any `unwrap`, slab index or memory slice on bad input panics the
  reactor.
- **KV.** Commands run concurrently on a pool behind a FIFO channel. Failures come
  at two places: the connection checkout and the command itself. Dropping the
  storage while ops are in flight is another source of trouble.
- **Request glue.** Cached CStrings are replaced while the guest still holds
  pointers to them. Requests of one session interleave on different threads.
- **Response glue.** The body source is chosen only at conversion. A stream
  provider keeps running after its receiver may have been dropped.
- **Teardown.** Futures hold `Rc` clones of the slabs, so they outlive the
  application whose `Weak` they upgrade.

### What makes each component correct

- **TCP:** only guest errors may panic the reactor. Every stream handle names the
  slot of its own connection. Slots and handles agree, so nothing leaks and no id
  is handed out twice.
- **KV:** a caller that waits reads back what it was told it wrote. Every op
  takes effect atomically once, or fails with Err and no effect (linearizability
  against `KVStore`). Every op is answered, also across `Drop`.
- **Request:** a pointer handed to the guest stays valid until the end of the
  invocation.
- **Response:** everything streamed reaches the client, and the client only ever
  sees a valid status.

## 2. Plan

The modules, in the order they were written:

1. `Slab`: pure operators for the slab crate.
2. `TcpNs`: the TCP capability, with application teardown. Its checks are in
   `MC_TcpNs` and its cfgs.
3. `RedisKV`: the KV backend, with `MC_RedisKV` and its cfgs.
4. `KVStore`: the abstract KV contract. `RedisKV` is shown to refine it with
   `KV == INSTANCE KVStore WITH ...`, and the refinement is checked as the
   property `KVRefinement`.
5. `RequestGlue`: the request cache, and the session shared by two requests.
6. `ResponseGlue`: staging and converting a response, the template hand-off
   and the stream provider.

Done after the first version:

- **Liveness of the accept loop** (`tcp.rs:74`), as `ConnectionsAccepted`,
  which TLC finds violated in `tcp_accept_stops`.
- **Rendered-string ownership** in `ResponseGlue`.

No abstract handle table: its guest-facing half is `ResourceAccounting` and
`HandleIntegrity`, and the slab's own free-list invariant belongs to the
crate, not to this code.

Not done: a spec-modelled `Reactor` holding the mailbox and running one
invocation at a time (see section 5).

## 3. Modules

### Slab (slab crate 0.4)

A slab is `[entries, next]`. An entry is `[occ, val, nxt]`, and keys are 0-based,
as in Rust.

- `Insert` fills the head of the free list, or appends a new entry.
- `Remove` pushes the removed key onto the free list.
- `Put` is `slab[k] = v`.

Callers test `Occupied` first, because the crate panics on a key that is not
occupied. `Count` is not in `tcp.rs`; it serves only the `MaxBuffers`
bound of the model.

### TcpNs (`lssa/ns/tcp.rs`)

| Variable | Code |
|---|---|
| `streams`, `buffers` | `TcpImpl.streams`, `TcpImpl.buffers` |
| `pending` | spawned read/write futures: op, stream key, the connection they own, length |
| `listening` | addresses with a spawned accept loop |
| `backlog` | environment: `<<address, connection>>` pairs a peer has connected and the loop has not yet accepted |
| `accepted` | environment: connections already delivered |
| `sHandles`, `bHandles`, `misused` | ghost: what the guest was told, and whether it broke the ABI |
| `panicked` | the reactor thread panicked; no action runs afterwards |

The table below maps actions to code. Line numbers are for `tcp.rs`.

| Action | Code |
|---|---|
| `listen` | `listen`, lines 44-80: permission check, bind unwrap, spawn |
| `destroy` | lines 82-86 |
| `release_buffer` | lines 88-92 |
| `take_buffer` | lines 94-109: remove, then check length, then slice memory |
| `read` / `write` | lines 111-184; `TakeStream` is `streams[id].take().unwrap()` |
| `Connect` | environment: a peer connects to a listening address |
| `Accept` / `AcceptFail` | the `for_each` body and its `map_err`, lines 64-77; an accept error ends the loop, and the backlog of that address with it |
| `ReadDone` / `WriteDone` | the success continuations; both use `Complete`, which panics on a vacant key |
| `ReadFail` / `WriteFail` | the error continuations: -1, the stream is dropped, the slot keeps `None` |

The guest is arbitrary, because the spec calls it untrusted. It may pass any id in
`-1..N` and any length or pointer in the small sets. `misused` records calls the
spec calls guest errors:

- an id the guest does not hold;
- I/O on a stream whose I/O is in flight;
- a memory range outside linear memory;
- `max_len` below the buffer's length.

Three constants restrict the environment and the guest, so that each way the code
goes wrong can be seen on its own:

- `IoFail`: accept, read and write may fail;
- `GuestDestroysBusy`: the guest may destroy a stream with I/O in flight;
- `GuestRelistens`: the guest may listen twice on one address;
- `AppTeardown`: the application may be dropped while futures are pending;
- `NegativeLens`: the guest may pass a negative `i32` length to `read`.
  `read_len as usize` (line 113) then asks `vec![0; len]` for an enormous
  buffer, which panics with a capacity overflow after the stream was taken.

`appAlive` is the `Application` behind `ctx.app`. The environment action
`Teardown` (modelled from the spec) clears it. After that the guest makes no
calls, but continuations still run. `Upgrade` is their
`app_weak.upgrade().unwrap()`, and it panics once `appAlive` is false.
`GuestCall` groups the imports and `Continuation` groups the future callbacks.

### RedisKV (`storage/backend/redis.rs`)

| Variable | Code |
|---|---|
| `chan` | the mpsc channel, holding op ids and `Stop` |
| `worker` | the worker thread |
| `dropped` | `Drop` has run |
| `ops[i]` | the op, whether it is queued, in the pool or done, and the reply the caller sees |
| `store` | the Redis keyspace: absent, string or hash |
| `expS`, `expH` | ghost: the last write the caller was told succeeded, for each key or field |

The table below maps actions to code. Line numbers are for `redis.rs`.

| Action | Code |
|---|---|
| `Issue` | `Op::run` |
| `Drop` | `Drop for RedisStorage` |
| `Recv` | the worker loop. On Stop it returns, and dropping the receiver cancels whatever is left in the channel. |
| `jobs` | the thread pool's FIFO job queue |
| `Start` | an idle pool thread (at most `Threads`) takes the job at the head of the queue |
| `Checkout(i)` | `conn_pool.get().unwrap()`: a connection is taken if fewer than `Conns` are in use; with a failing backend it may time out and panic, so the caller gets `Err` (the pool respawns the thread) |
| `Exec(i)` | the command on the connection: it answers an error, with or without taking effect, or it runs |

`RedisExec` gives Redis's answer to each command, including WRONGTYPE.
`CallerResult` is the mapping in lines 160-227.

### KVStore (abstract)

There are two maps: top-level keys, and hash keys to fields. Each op is
pending until one of two things happens:

- `Apply(i)`: it takes effect atomically and is answered with the map's
  value at that instant;
- `Cancel(C)`: a set of pending ops is answered Err with no effect.

The refinement mapping in `RedisKV` is:

- `AbsStrs` and `AbsHashes` read the Redis keyspace. A key of the other type
  reads as absent.
- `AbsOps` maps every state but "done" to "pending", and keeps each op's reply.

Every step of `RedisKV` is then either a stutter of `KVStore` or one of its
steps:

- `Issue` is `Invoke`; `Recv` and `Drop` are stutters.
- A successful `Exec` is `Apply`.
- `Start` and a successful `Checkout` are stutters.
- A failed checkout is `Cancel({i})`.
- `Recv` of Stop is `Cancel` of the ops left in the channel.

### RequestGlue (`glue/request.rs`)

| Variable | Code |
|---|---|
| `session` | `Session.data`, shared behind a Mutex by requests of one session |
| `cache[r][slot]` | the generation of the CString in each `RequestCache` slot: stats, one per header name, one per session key |
| `running[r]` | a guest invocation for `r` is executing |
| `held[r]` | ghost: the pointers, as `<<slot, generation>>`, that `r`'s current invocation was given |
| `custom` | the custom entries of the server `Context`'s stats, shared by every request |
| `iters[r]` | the positions of the header iterators created for `r` (each a leaked `Box`) |

Buffers the `Request` owns (uri, method, remote address, each cookie, the
body) are slots whose generation is 1 from the start and never changes; an
iterator's name copies get generation 1 when it is created.

The actions map to code as follows:

- `get_stats`, `get_header` and `get_session_item` each call `Refill`: a new
  CString replaces the slot's old one, and its pointer is returned.
- `set_session_item` covers both cases: a null value removes the key, and any
  other value inserts it.
- `get_field`, `get_cookie` and `get_body` call `Borrow`: a pointer into a
  buffer the `Request` owns, with no allocation.
- `set_custom_stat` writes the shared `Context`'s stats.
- `create_header_iterator` copies the header names into a new iterator at
  position 0; `header_iterator_next` returns a pointer to the current name
  and advances, or returns null past the end.
- `Enter` and `Leave` are invocation boundaries, modelled from the spec.

Missing headers and missing session keys return null and change nothing. They
are stutter steps.

The constant `GuestRefetches` controls whether the guest may call a getter
again for a name whose pointer it still holds.

### ResponseGlue (`glue/response.rs`)

`resp` is the staged `Response`. The action `into_hyper_response` computes
`reply`:

- the status, with anything outside 100..599 replaced by 500;
- the headers, as `FinalHeaders`: `X-Powered-By` is set to `Ice Core`, and
  `Set-Cookie` is replaced by one line per cookie, whatever the guest put
  under those two names;
- the body source chosen by `BodyOf`: the file, else the stream, else the
  bytes.

`owned` counts the rendered strings that `render_template_to_owned` leaked
to the guest with `into_raw`. `consume_rendered_template(mine)` is given one
of them (`mine`), or a pointer the guest has already handed back (a double
free); `CString::from_raw` frees it either way. Freeing memory that no live
CString owns is undefined behaviour; the model takes the allocator's abort.

The setters' glue unwraps `CStr::to_str`, so a text in `NonUtf8` passed to
`add_header`, `set_cookie` or `set_file` panics (`WithStr`). A second
`stream`, a non-UTF-8 string and a double free are guest errors (`GuestFault`):
the setters return nothing, so they have no -1 with which to reject a bad
argument.

`streaming.rs` is not in `src/`, so two things are modelled from spec 6:

- the provider (`ProviderWrite`, `ProviderClose`);
- the HTTP collaborator that drains it (`Deliver`).

The constant `GuestMixesSources` controls whether the guest may both stream
and set a file.

## 4. Runs

| Run | Expect | Shows |
|---|---|---|
| `tcp_core` | pass | No I/O errors, no destroy of a busy stream, no second listen, no teardown, no negative length. Only guest errors panic, and every handle names its own connection through take, put-back and LIFO key reuse (`TypeOK`, `NoHostPanic`, `HandleIntegrity`). These runs check the success-path bookkeeping; the failures they switch off are shown by the violation runs. |
| `tcp_accept_stops` | violation | listen, two peers connect, one is accepted, then an accept error ends the `for_each` (`tcp.rs:74`): the listener is dropped and the other connection is never delivered, though `Accept` is weakly fair (`ConnectionsAccepted`, under `FairSpec`). Spec 8 says a listen delivers a callback per connection until destroy. |
| `tcp_accounting` | pass | Every failure, every call sequence, negative lengths, and teardown allowed. Slots and handles always agree (`ResourceAccounting`). |
| `tcp_read_error` | violation | listen, accept, read, the read fails, read again: the reactor panics at `tcp.rs:117`. |
| `tcp_destroy_busy` | violation | c1 is accepted as id 0, then read(0), destroy(0), c2 accepted as id 0, and the read completes: slot 0 holds c1 again. |
| `tcp_teardown` | violation | listen, then teardown, then accept: the continuation panics in `upgrade().unwrap()`. The spec says it should drop silently. |
| `kv_resolve` | pass | Pipelining, mixed key types, every failure, and `Drop` at any time. Every op is eventually answered (`AllOpsResolve`, `TypeOK`). |
| `kv_linear` | pass | Pipelined ops, `Drop`, and a Redis that answers every command. `RedisKV` refines `KVStore` (`KVRefinement`). |
| `kv_set_error` | violation | A SET whose command fails is acknowledged, and the GET that follows returns nil. |
| `req_core` | pass | Two interleaving requests share one session, and the guest mixes cached getters, in-place getters, a header iterator and custom-stat writes. Caches, held pointers and iterators keep their types (`TypeOK`). `PointersLiveForInvocation` is checked only where it can fail, in `req_dangling`: with a guest that never re-reads a name, `Refill`'s guard alone would make it hold. |
| `req_dangling` | violation | `get_stats` called twice in one invocation frees the string the first call returned. |
| `resp_core` | pass | Any staging, a file and a stream together, non-UTF-8 strings and rendered templates included. The client only sees a status hyper accepts: invalid ones become 500 (`TypeOK`). |

Four disagreements are in hazard notes instead of runs (there are at most
twelve runs):

- **`tcp.rs:60`.** Two `listen` calls on one address panic. Any run with
  `GuestRelistens = TRUE` shows it.
- **`redis.rs:132`.** A key used both as a string and as a hash: an `hset`
  answered WRONGTYPE is still acknowledged.
- **`tcp.rs:113`.** With `NegativeLens = TRUE`, `read(id, -1, ...)` panics in
  `vec![0; len]` after the take, where spec 4.6 asks for -1 (`NoHostPanic`).
- **`response.rs:61`.** A file plus a stream loses the streamed chunks:
  `into_hyper_response` picks the file and drops the receiver.

Each property of a passing run has a mutant in `PROJECT.json`. A mutant is a
plausible bug, such as a forgotten re-install, `try_clone` instead of `take`,
`take` instead of `remove`, an off-by-one slice, an `Hget` arm copied from `Get`,
`Error(e)` mapped to `Some(e)`, a connection checkout retried instead of
failing, a stale cached pointer for a missing key, or a status check without
its floor. TLC finds the property violated
under each mutant.

### Bounds

**TCP.** Two connections are enough for a freed key to be reused by a new one.
Two addresses give one with a permission and one without. Lengths and memory run
over `0..1`, which covers a zero-length I/O, a one-byte I/O and the edge of memory.
At most two buffers are held or being read at once. Ids run over `-1..2`, which
covers `-1`, every real key and one key out of range.

**KV.** Two pool threads and one Redis connection make threads wait for a
connection and jobs wait in the queue, which is the part of the pool that
can starve an op. Three or four ops are enough for set, hset and get on one key to
interleave, and for two writes and a read. The model uses one string key and one
hash key, or a single key used both ways. There are two values and one field. `kv_linear` uses three pipelined ops on
disjoint string and hash keys, and two values, so a read can observe either write.

**Request.** Two requests share one session. `req_core` has one header name
(a clearing bug is caught through the stats and session slots);
`req_dangling` has two. There is one field, one cookie, at most one iterator per
request, and the guest holds at most two pointers at once (`MaxHeld`), which
is enough for a held pointer to sit beside a second call. There is one session key and one
value, and at most two CStrings per slot. That is enough for a re-read, and for
another request's session write to fall between two reads.

**Response.** One name of the guest's, plus the two header names the host
sets, one UTF-8 text and one that is not cover the setters. Two rendered
strings may be outstanding at once (`MaxRendered`), so one can be handed
back while the other is held. Statuses 0 and 404 lie
on both sides of hyper's range, beside the default 200. Two chunks give an
order to delivery.

### Fairness

- **TCP:** `tcp_accept_stops` assumes weak fairness of `Accept` for each
  address and connection, while the reactor has not panicked
  (`AcceptFairness`). The accept loop is a future on tokio's current-thread
  reactor, which polls it whenever the listener is ready. Nothing is assumed
  about the guest, the peers or reads and writes. The violation is therefore
  not a starved loop: the loop itself has ended. That run has no `SYMMETRY`,
  because symmetry is not sound with liveness. The safety runs need no
  fairness.
- **KV:** weak fairness on `Recv`, `Start`, and every `Checkout(i)` and
  `Exec(i)`. The worker and the pool threads are OS threads; the pool's queue
  is FIFO and a job on a thread holds its connection only until its command
  answers. The one assumption about the environment is that Redis answers
  every command.
- **Request:** only safety is checked, so no fairness is needed.
- **Response:** only safety is checked, so no fairness is needed.

## 5. Not modelled

- **Configuration** (`config.rs`). It is plain data with serde derives and one
  `Default`; no code in `src/` reads or changes it, so there is no operation
  to model. Note that its default memory limits are byte counts, while the
  spec's are page counts.
- **Template rendering, statistics serialisation, header name lowercasing.**
  These are formatting with no state that matters.
- **`streaming.rs` and static-file serving.** They are not in `src/`. The
  provider is modelled from the spec, as counts of chunks.
- **The byte contents of buffers and values.** They are abstracted to lengths and
  model values.
- **The reactor's mailbox, scheduler and fault handling.** Their code is not
  in `src/`, so a module of them would be written from the spec alone and
  would check the spec rather than this code. Only what the code in `src/`
  depends on is modelled: teardown (in `TcpNs`, where the continuations'
  `upgrade().unwrap()` meets it) and invocation boundaries (`Enter` and
  `Leave` in `RequestGlue`).
- **Freeing the header iterator and unconsumed rendered strings.** Nothing in
  `src/` frees them; whether code outside `src/` does is not visible here. The
  model keeps iterator pointers live, which is what the code in `src/` does.
