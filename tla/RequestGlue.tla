---------------------------- MODULE RequestGlue ----------------------------
(***************************************************************************)
(* The request side of the HTTP glue, src/src/glue/request.rs.             *)
(*                                                                         *)
(* A guest reads request fields through getters that return raw pointers  *)
(* into host-owned C strings.  Fields that never change (uri, method,      *)
(* remote address, cookies, body) point into the Request itself.  Three    *)
(* getters instead build a fresh CString and park it in the request's      *)
(* RequestCache, replacing (and so freeing) whatever that cache slot held: *)
(* get_stats (one slot), get_header (one slot per header name) and         *)
(* get_session_item (one slot per session key).  Session items live in a   *)
(* Session shared, behind a Mutex, by every request of the same session;   *)
(* custom stats live in the server Context shared by every request.  A     *)
(* header iterator is a leaked Box holding a copy of the header names.     *)
(*                                                                         *)
(* A host buffer is identified by its cache slot and an allocation number *)
(* (its generation); a pointer handed to the guest is <<slot, gen>>, and  *)
(* it is live while the slot still holds that generation.  Requests run   *)
(* on different reactor threads and interleave; each glue call is atomic  *)
(* (it takes the session Mutex for its whole access to the session).      *)
(***************************************************************************)
EXTENDS Naturals, FiniteSets, Sequences

CONSTANTS
    Reqs,           \* requests in flight (model values)
    Headers,        \* header names the guest may ask for
    Present,        \* header names with exactly one UTF-8 value
    Cookies,        \* cookie names the request carries
    Fields,         \* CString fields read in place: uri, method, remote_addr
    Keys,           \* session keys
    Vals,           \* session values
    Null,           \* a null value pointer / an absent session entry
    WithSession,    \* requests carrying Some(session); they share one
    MaxAlloc,       \* bound: CStrings allocated per cache slot
    MaxIters,       \* bound: header iterators created per request
    MaxHeld,        \* bound: pointers the guest holds at once per request
    GuestRefetches  \* may the guest re-read a name whose pointer it holds?

ASSUME /\ Present \subseteq Headers /\ WithSession \subseteq Reqs
       /\ Null \notin Vals /\ MaxAlloc \in Nat \ {0} /\ MaxIters \in Nat
       /\ MaxHeld \in Nat \ {0}
       /\ GuestRefetches \in BOOLEAN

VARIABLES
    session,  \* Session.data: key -> value, Null when absent
    cache,    \* cache[r][slot]: generation of the CString in the slot, 0 if none
    running,  \* running[r]: a guest invocation for r is executing
    held,     \* ghost: pointers returned to the guest in r's invocation
    custom,   \* Context.stats custom entries: key -> value, Null when unset
    iters     \* iters[r]: positions of the header iterators made for r

vars == <<session, cache, running, held, custom, iters>>

\* The slots of a RequestCache (request.rs:26-30).
StatsSlot == <<"stats", "stats">>
HeaderSlot(h) == <<"header", h>>
SessionSlot(k) == <<"session", k>>
\* Buffers owned by the Request itself (request.rs:14-19), live as long
\* as it is, and the name copies of the n-th header iterator.
FieldSlot(f) == <<"field", f>>
BodySlot == <<"body", "body">>
CookieSlot(c) == <<"cookie", c>>
IterSlot(n) == <<"iter", n>>
Fixed == {FieldSlot(f) : f \in Fields} \cup {CookieSlot(c) : c \in Cookies}
                                       \cup {BodySlot}
Slots == {StatsSlot} \cup {HeaderSlot(h) : h \in Headers}
                     \cup {SessionSlot(k) : k \in Keys}
                     \cup Fixed \cup {IterSlot(n) : n \in 1 .. MaxIters}

Ptr == [slot : Slots, gen : 1 .. MaxAlloc]

-----------------------------------------------------------------------------
Init ==
    /\ session = [k \in Keys |-> Null]
    /\ cache = [r \in Reqs |-> [s \in Slots |-> IF s \in Fixed THEN 1 ELSE 0]]
    /\ running = [r \in Reqs |-> FALSE]
    /\ held = [r \in Reqs |-> {}]
    /\ custom = [k \in Keys |-> Null]
    /\ iters = [r \in Reqs |-> <<>>]

\* The guest is re-entered for request r (a handler or a callback).
Enter(r) ==
    /\ ~running[r]
    /\ running' = [running EXCEPT ![r] = TRUE]
    /\ UNCHANGED <<session, cache, held, custom, iters>>

\* The invocation returns: the guest may no longer use what it was given.
Leave(r) ==
    /\ running[r]
    /\ running' = [running EXCEPT ![r] = FALSE]
    /\ held' = [held EXCEPT ![r] = {}]
    /\ UNCHANGED <<session, cache, custom, iters>>

\* Mutant: the RequestCache is reset (RequestCache::default()) before each
\* insert, to bound it; the buffers the Request owns are kept.
RefillClearing(r, s) ==
    /\ GuestRefetches \/ \A p \in held[r] : p.slot # s
    /\ cache[r][s] < MaxAlloc /\ Cardinality(held[r]) < MaxHeld
    /\ cache' = [cache EXCEPT ![r] =
                   [x \in Slots |-> IF x = s THEN @[s] + 1
                                    ELSE IF x \in Fixed THEN @[x] ELSE 0]]
    /\ held' = [held EXCEPT ![r] = @ \cup {[slot |-> s, gen |-> cache[r][s] + 1]}]

\* `cache.<slot>.insert(k, CString::new(v))` followed by `.as_ptr()`: the
\* new CString replaces, and drops, the one the slot held.
Refill(r, s) ==
    /\ GuestRefetches \/ \A p \in held[r] : p.slot # s
    /\ cache[r][s] < MaxAlloc /\ Cardinality(held[r]) < MaxHeld
    /\ cache' = [cache EXCEPT ![r][s] = @ + 1]
    /\ held' = [held EXCEPT ![r] = @ \cup {[slot |-> s, gen |-> cache[r][s] + 1]}]

\* ice_glue_request_get_stats: always rebuilds the serialized stats.
get_stats(r) ==
    /\ running[r]
    /\ Refill(r, StatsSlot)
    /\ UNCHANGED <<session, running, custom, iters>>

\* ice_glue_request_get_header: a header that is missing, repeated or not
\* UTF-8 gives null and changes nothing; otherwise the value is cached.
get_header(r, h) ==
    /\ running[r]
    /\ h \in Present
    /\ Refill(r, HeaderSlot(h))
    /\ UNCHANGED <<session, running, custom, iters>>

\* Mutant: a key absent from the session returns the CString cached for it
\* by an earlier call instead of null.
get_session_itemStale(r, k) ==
    /\ running[r]
    /\ r \in WithSession
    /\ \/ /\ session[k] # Null
          /\ Refill(r, SessionSlot(k))
       \/ /\ session[k] = Null
          /\ held' = [held EXCEPT ![r] =
                        @ \cup {[slot |-> SessionSlot(k),
                                 gen |-> cache[r][SessionSlot(k)]]}]
          /\ UNCHANGED cache
    /\ UNCHANGED <<session, running, custom, iters>>

\* ice_glue_request_get_session_item: with no session, or no such key, null;
\* otherwise the value is copied out under the lock and cached.
get_session_item(r, k) ==
    /\ running[r]
    /\ r \in WithSession
    /\ session[k] # Null
    /\ Refill(r, SessionSlot(k))
    /\ UNCHANGED <<session, running, custom, iters>>

\* ice_glue_request_set_session_item: a null value removes the key; the
\* request's own cache is left alone.
set_session_item(r, k, v) ==
    /\ running[r]
    /\ r \in WithSession
    /\ session' = [session EXCEPT ![k] = v]
    /\ UNCHANGED <<cache, running, held, custom, iters>>

\* The guest is handed a pointer to the buffer slot s currently holds.
Borrow(r, s) ==
    /\ Cardinality(held[r]) < MaxHeld
    /\ held' = [held EXCEPT ![r] = @ \cup {[slot |-> s, gen |-> cache[r][s]]}]

\* get_uri, get_method, get_remote_addr: `req.<field>.as_ptr()`.
get_field(r, f) ==
    /\ running[r]
    /\ Borrow(r, FieldSlot(f))
    /\ UNCHANGED <<session, cache, running, custom, iters>>

\* ice_glue_request_get_body: the data pointer of `req.body.borrow()`, its
\* length written to len_out; the Ref is dropped on return.
get_body(r) ==
    /\ running[r]
    /\ Borrow(r, BodySlot)
    /\ UNCHANGED <<session, cache, running, custom, iters>>

\* ice_glue_request_get_cookie: a pointer into req.cookies; a cookie the
\* request does not carry gives null and changes nothing.
get_cookie(r, c) ==
    /\ running[r]
    /\ c \in Cookies
    /\ Borrow(r, CookieSlot(c))
    /\ UNCHANGED <<session, cache, running, custom, iters>>

\* ice_glue_request_set_custom_stat: context.stats.set_custom(k, v), on the
\* Context every request shares.
set_custom_stat(r, k, v) ==
    /\ running[r]
    /\ custom' = [custom EXCEPT ![k] = v]
    /\ UNCHANGED <<session, cache, running, held, iters>>

\* ice_glue_request_create_header_iterator: copies every header name (and
\* value) into a new HeaderIterator at position 0 and leaks it to the
\* guest with Box::into_raw; nothing in the glue frees it.
create_header_iterator(r) ==
    /\ running[r]
    /\ Len(iters[r]) < MaxIters
    /\ iters' = [iters EXCEPT ![r] = Append(@, 0)]
    /\ cache' = [cache EXCEPT ![r][IterSlot(Len(iters[r]) + 1)] = 1]
    /\ UNCHANGED <<session, running, held, custom>>

\* ice_glue_request_header_iterator_next: past the last header, null and
\* no change; otherwise a pointer to the current name, and pos + 1.
header_iterator_next(r, n) ==
    /\ running[r]
    /\ n \in 1 .. Len(iters[r])
    /\ iters[r][n] < Cardinality(Present)
    /\ iters' = [iters EXCEPT ![r][n] = @ + 1]
    /\ Borrow(r, IterSlot(n))
    /\ UNCHANGED <<session, cache, running, custom>>

Next ==
    \E r \in Reqs :
        \/ Enter(r)
        \/ Leave(r)
        \/ get_stats(r)
        \/ \E h \in Headers : get_header(r, h)
        \/ \E k \in Keys : get_session_item(r, k)
        \/ \E k \in Keys, v \in Vals \cup {Null} : set_session_item(r, k, v)
        \/ \E f \in Fields : get_field(r, f)
        \/ get_body(r)
        \/ \E c \in Cookies : get_cookie(r, c)
        \/ \E k \in Keys, v \in Vals : set_custom_stat(r, k, v)
        \/ create_header_iterator(r)
        \/ \E n \in 1 .. MaxIters : header_iterator_next(r, n)

Spec == Init /\ [][Next]_vars

-----------------------------------------------------------------------------
TypeOK ==
    /\ session \in [Keys -> Vals \cup {Null}]
    /\ cache \in [Reqs -> [Slots -> 0 .. MaxAlloc]]
    /\ running \in [Reqs -> BOOLEAN]
    /\ held \in [Reqs -> SUBSET Ptr]
    /\ custom \in [Keys -> Vals \cup {Null}]
    /\ \A r \in Reqs : /\ Len(iters[r]) <= MaxIters
                       /\ \A n \in 1 .. Len(iters[r]) :
                             iters[r][n] \in 0 .. Cardinality(Present)

\* spec 6 (HTTP Request/Response): a pointer a getter returns stays valid at
\* least until the end of the current guest invocation.  The getters that
\* cache (request.rs:42, 114, 159) free the previous CString of their slot;
\* a call for another name, another request's calls and session writes
\* must leave the buffers this request holds alone.
PointersLiveForInvocation ==
    \A r \in Reqs : \A p \in held[r] : cache[r][p.slot] = p.gen
=============================================================================
