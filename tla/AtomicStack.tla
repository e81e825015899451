---------------------------- MODULE AtomicStack ----------------------------
(***************************************************************************)
(* What an arena promises: a stack of bytes that grows by atomic pieces.   *)
(* A client opens a piece, adds to it, and commits or drops it; a piece    *)
(* of which one addition failed is dropped whole by its commit.            *)
(***************************************************************************)
EXTENDS Naturals, Sequences

CONSTANTS Payload,  \* the byte strings a client adds
          Unset     \* how many bytes it adds without setting them

VARIABLES committed,  \* the visible bytes
          staged,     \* the bytes of the open piece
          open,       \* a piece is open
          failed      \* one of its additions failed

vars == <<committed, staged, open, failed>>

Init ==
    /\ committed = <<>>
    /\ staged = <<>>
    /\ open = FALSE
    /\ failed = FALSE

Begin ==
    /\ ~open
    /\ open' = TRUE
    /\ UNCHANGED <<committed, staged, failed>>

Add(s) ==
    /\ open /\ ~failed
    /\ staged' = staged \o s
    /\ UNCHANGED <<committed, open, failed>>

\* Room is made for bytes nobody has set.
AddUnset(n) ==
    /\ open /\ ~failed
    /\ Len(staged') = Len(staged) + n
    /\ \A i \in 1..Len(staged) : staged'[i] = staged[i]
    /\ UNCHANGED <<committed, open, failed>>

AddFails ==
    /\ open
    /\ failed' = TRUE
    /\ UNCHANGED <<committed, staged, open>>

Close ==
    /\ open
    /\ open' = FALSE
    /\ failed' = FALSE
    /\ staged' = <<>>

Commit ==
    /\ Close
    /\ committed' = IF failed THEN committed ELSE committed \o staged

Dismiss == Close /\ UNCHANGED committed

\* Only the most recent bytes are given up, and only between pieces.
Pop ==
    /\ ~open
    /\ Len(committed') <= Len(committed)
    /\ \A i \in 1..Len(committed') : committed'[i] = committed[i]
    /\ UNCHANGED <<staged, open, failed>>

Delete ==
    /\ committed' = <<>>
    /\ staged' = <<>>
    /\ open' = FALSE
    /\ failed' = FALSE

Next ==
    \/ Begin \/ AddFails \/ Commit \/ Dismiss \/ Pop \/ Delete
    \/ \E s \in Payload : Add(s)
    \/ \E n \in Unset : AddUnset(n)

Spec == Init /\ [][Next]_vars
=============================================================================
