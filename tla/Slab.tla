-------------------------------- MODULE Slab --------------------------------
(***************************************************************************)
(* The slab allocator (crate slab 0.4) behind TcpImpl's two resource      *)
(* tables, `streams` and `buffers` (src/src/lssa/ns/tcp.rs).  A slab is a  *)
(* vector of entries, each Occupied(value) or Vacant(next), and a `next`   *)
(* key.  Vacant entries form a LIFO free list threaded through `next`:     *)
(* remove(k) pushes k, insert pops it, so the key just removed is the key  *)
(* the next insert returns.  Keys are 0-based as in Rust; entry k is at    *)
(* position k+1 of the sequence.  Every operation whose precondition       *)
(* fails (remove or index of a key that is not occupied) panics in the    *)
(* crate; callers test Occupied(s, k) first and model the panic.          *)
(***************************************************************************)
EXTENDS Naturals, Sequences

CONSTANT NoVal    \* filler for the value field of a vacant entry

VacantEntry(n) == [occ |-> FALSE, val |-> NoVal, nxt |-> n]
OccupiedEntry(v) == [occ |-> TRUE, val |-> v, nxt |-> 0]

Empty == [entries |-> <<>>, next |-> 0]

\* The keys whose entry is occupied.
Keys(s) == {k \in 0 .. Len(s.entries) - 1 : s.entries[k + 1].occ}

Occupied(s, k) == k \in Keys(s)

\* slab[k] on an occupied key.
At(s, k) == s.entries[k + 1].val

\* The key the next insert will return.
NextKey(s) == s.next

\* slab.insert(v): fill the head of the free list, or push a new entry.
Insert(s, v) ==
    IF s.next = Len(s.entries)
    THEN [entries |-> Append(s.entries, OccupiedEntry(v)), next |-> s.next + 1]
    ELSE [entries |-> [s.entries EXCEPT ![s.next + 1] = OccupiedEntry(v)],
          next    |-> s.entries[s.next + 1].nxt]

\* slab.remove(k) on an occupied key: k becomes the head of the free list.
Remove(s, k) ==
    [entries |-> [s.entries EXCEPT ![k + 1] = VacantEntry(s.next)], next |-> k]

\* slab[k] = v through IndexMut on an occupied key.
Put(s, k, v) == [s EXCEPT !.entries[k + 1] = OccupiedEntry(v)]

\* The number of occupied entries (slab.len()).
Count(s) == Len(SelectSeq(s.entries, LAMBDA e : e.occ))

=============================================================================
