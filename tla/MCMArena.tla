------------------------------ MODULE MCMArena ------------------------------
(***************************************************************************)
(* The arena with one reserved byte, a first buffer of three and a U32 of  *)
(* three bits: it grows from three to five to seven bytes and no more.     *)
(***************************************************************************)
EXTENDS MArena

SmallPayload == {<<1>>, <<0, 1>>}
=============================================================================
