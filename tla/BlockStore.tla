---------------------------- MODULE BlockStore ----------------------------
(***************************************************************************)
(* What a fixed-block allocator promises its client, with no word said of  *)
(* chunks or free lists: a block handed out is fresh (nobody else holds    *)
(* it) and zeroed, it keeps what its holder wrote until the holder gives   *)
(* it back, and emptying the allocator takes every block back at once.     *)
(***************************************************************************)
EXTENDS Naturals

CONSTANTS Handle,   \* the blocks that can ever be handed out
          Word,     \* the word indices of a block
          Data      \* what a client may write in a word

VARIABLE store      \* the contents of the blocks now held, by handle

Zeroed == [w \in Word |-> 0]

Empty == [h \in {} |-> Zeroed]

Init == store = Empty

Alloc(h) ==
    /\ h \notin DOMAIN store
    /\ store' = [g \in DOMAIN store \cup {h} |-> IF g = h THEN Zeroed ELSE store[g]]

Write(h, w, v) ==
    /\ h \in DOMAIN store
    /\ store' = [store EXCEPT ![h][w] = v]

Free(h) ==
    /\ h \in DOMAIN store
    /\ store' = [g \in DOMAIN store \ {h} |-> store[g]]

Reset == store' = Empty

Next ==
    \/ \E h \in Handle : Alloc(h) \/ Free(h)
    \/ \E h \in Handle, w \in Word, v \in Data : Write(h, w, v)
    \/ Reset

Spec == Init /\ [][Next]_store
=============================================================================
