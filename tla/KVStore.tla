------------------------------ MODULE KVStore ------------------------------
(***************************************************************************)
(* What the KV storage capability promises its callers (spec 6, Key-value *)
(* storage; spec 8: set(k, v); get(k) == v): a map of top-level keys and a *)
(* map of hash keys to fields.  Each op the caller issues is pending until *)
(* it is answered; it is answered either by taking effect atomically, at  *)
(* one instant between its issue and its answer, with the reply that the  *)
(* map gives at that instant, or by failing with Err and no effect.  Ops   *)
(* that are pending together may take effect in any order.                *)
(***************************************************************************)
EXTENDS Naturals, FiniteSets, TLC

CONSTANTS StrKeys, HashKeys, MapKeys, Vals, Nil, Ids

VARIABLES
    strs,    \* top-level key -> value, Nil when absent
    hashes,  \* hash key -> field -> value, Nil when absent
    aops     \* id -> [cmd, key, mk, val, st : {"pending", "done"}, res]

vars == <<strs, hashes, aops>>

Cmds == {"get", "set", "remove", "hget", "hset", "hremove"}
Pending == {i \in DOMAIN aops : aops[i].st = "pending"}

Init ==
    /\ strs = [k \in StrKeys |-> Nil]
    /\ hashes = [k \in HashKeys |-> [m \in MapKeys |-> Nil]]
    /\ aops = [i \in {} |-> {}]

\* The caller issues an op with the next id.
Invoke(cmd, k, m, v) ==
    /\ Cardinality(DOMAIN aops) + 1 \in Ids
    /\ k \in IF cmd \in {"get", "set", "remove"} THEN StrKeys ELSE HashKeys
    /\ aops' = aops @@ ((Cardinality(DOMAIN aops) + 1) :>
                 [cmd |-> cmd, key |-> k, mk |-> m, val |-> v,
                  st |-> "pending", res |-> [ok |-> FALSE, v |-> Nil]])
    /\ UNCHANGED <<strs, hashes>>

\* A pending op takes effect and is answered Ok.
Apply(i) ==
    /\ i \in Pending
    /\ LET o == aops[i]
       IN  /\ strs' = CASE o.cmd = "set"    -> [strs EXCEPT ![o.key] = o.val]
                        [] o.cmd = "remove" -> [strs EXCEPT ![o.key] = Nil]
                        [] OTHER            -> strs
           /\ hashes' = CASE o.cmd = "hset"    -> [hashes EXCEPT ![o.key][o.mk] = o.val]
                          [] o.cmd = "hremove" -> [hashes EXCEPT ![o.key][o.mk] = Nil]
                          [] OTHER             -> hashes
           /\ aops' = [aops EXCEPT ![i].st = "done",
                         ![i].res = [ok |-> TRUE,
                                     v |-> CASE o.cmd = "get"  -> strs[o.key]
                                             [] o.cmd = "hget" -> hashes[o.key][o.mk]
                                             [] OTHER          -> Nil]]

\* Some pending ops fail together with Err and no effect (a lost backend,
\* a dropped storage).
Cancel(C) ==
    /\ C # {} /\ C \subseteq Pending
    /\ aops' = [i \in DOMAIN aops |->
                  IF i \in C THEN [aops[i] EXCEPT !.st = "done",
                                                  !.res = [ok |-> FALSE, v |-> Nil]]
                  ELSE aops[i]]
    /\ UNCHANGED <<strs, hashes>>

Next ==
    \/ \E c \in Cmds, k \in StrKeys \cup HashKeys, m \in MapKeys, v \in Vals :
          Invoke(c, k, m, v)
    \/ \E i \in Pending : Apply(i)
    \/ \E C \in SUBSET Pending : Cancel(C)

Spec == Init /\ [][Next]_vars
=============================================================================
