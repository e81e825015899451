----------------------------- MODULE MCPalProcess -----------------------------
(***************************************************************************)
(* Two children, and pipes for both, or for one and for a call whose fork  *)
(* failed; a pipe holds less than a child may have to write.               *)
(***************************************************************************)
EXTENDS PalProcess

TwoChildren == {"a", "b"}
=============================================================================
