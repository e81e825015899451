----------------------------- MODULE TokenStream -----------------------------
(***************************************************************************)
(* What a lexer promises whatever its recognisers are: it goes through the *)
(* input once, front to back, and each token is a stretch of it that       *)
(* begins where the one before it ended, or later, and is not empty.       *)
(***************************************************************************)
EXTENDS Naturals, Sequences

VARIABLES pos,   \* how much of the input is behind
          spans  \* where the tokens produced begin and end

vars == <<pos, spans>>

Init == pos = 0 /\ spans = <<>>

Behind == IF spans = <<>> THEN 0 ELSE spans[Len(spans)].to

Skip == pos' > pos /\ UNCHANGED spans

Produce ==
    /\ UNCHANGED pos
    /\ \E i \in Behind..(pos - 1) : spans' = Append(spans, [from |-> i, to |-> pos])

Next == Skip \/ Produce

Spec == Init /\ [][Next]_vars
=============================================================================
