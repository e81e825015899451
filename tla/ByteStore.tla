----------------------------- MODULE ByteStore -----------------------------
(***************************************************************************)
(* What an allocator of any size promises its client: an allocation is new *)
(* and has the length asked for, it keeps what its holder wrote until it   *)
(* is given back, and moving it to another length keeps the bytes that     *)
(* both lengths have.                                                      *)
(***************************************************************************)
EXTENDS Naturals

CONSTANTS Length,   \* the lengths a client asks for
          Data      \* what a client fills its bytes with

VARIABLE store      \* the contents of the allocations now held, by address

Init == store = [h \in {} |-> 0]

Others(h) == \A g \in DOMAIN store \ {h} : store'[g] = store[g]

Alloc(h, n) ==
    /\ h \notin DOMAIN store
    /\ DOMAIN store' = DOMAIN store \cup {h}
    /\ DOMAIN store'[h] = 0..(n - 1)
    /\ Others(h)

Write(h, v) ==
    /\ h \in DOMAIN store
    /\ store' = [store EXCEPT ![h] = [i \in DOMAIN store[h] |-> v]]

Free(h) ==
    /\ h \in DOMAIN store
    /\ store' = [g \in DOMAIN store \ {h} |-> store[g]]

\* The allocation at h becomes one of n bytes at g, h itself or a new address.
Move(h, g, n) ==
    /\ h \in DOMAIN store
    /\ g = h \/ g \notin DOMAIN store
    /\ DOMAIN store' = (DOMAIN store \ {h}) \cup {g}
    /\ DOMAIN store'[g] = 0..(n - 1)
    /\ \A i \in DOMAIN store[h] \cap 0..(n - 1) : store'[g][i] = store[h][i]
    /\ \A f \in DOMAIN store \ {h} : store'[f] = store[f]

Reset == store' = [h \in {} |-> 0]

Next ==
    \/ \E h \in DOMAIN store', n \in Length : Alloc(h, n)
    \/ \E h \in DOMAIN store, v \in Data : Write(h, v)
    \/ \E h \in DOMAIN store : Free(h)
    \/ \E h \in DOMAIN store, g \in DOMAIN store', n \in Length : Move(h, g, n)
    \/ Reset

Spec == Init /\ [][Next]_store
=============================================================================
