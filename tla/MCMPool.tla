------------------------------ MODULE MCMPool ------------------------------
(***************************************************************************)
(* The pool on two chunks of eight words, two of which are the header.     *)
(***************************************************************************)
EXTENDS MPool

\* Two page-aligned addresses, a page being eight words.
TwoChunks == {8, 16}
=============================================================================
