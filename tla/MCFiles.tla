-------------------------------- MODULE MCFiles --------------------------------
(***************************************************************************)
(* What the platform layer does with files beside opening and reading      *)
(* them: watches, or comparisons of times, which share nothing.  The       *)
(* requests of two watches hold every other flag each, so that a flag      *)
(* converted to a neighbour is one that was not asked for.                 *)
(***************************************************************************)
EXTENDS PalWatch, FileTime

VARIABLE part  \* which of the two is in use

vars == <<watchVars, timeVars, part>>

EveryOther == {{0, 2, 4, 6, 8, 10}, {1, 3, 5, 7, 9, 11}}

Zero == [tv_sec |-> 0, tv_nsec |-> 0]

Init ==
    /\ part \in {"watches", "times"}
    /\ WatchInit /\ TimeInit
    /\ part = "watches" => x = Zero /\ y = Zero

Next ==
    \/ part = "watches" /\ WatchNext /\ UNCHANGED <<timeVars, part>>
    \/ part = "times" /\ TimeNext /\ UNCHANGED <<watchVars, part>>

Spec == Init /\ [][Next]_vars
=============================================================================
