------------------------------ MODULE MCIStream ------------------------------
(***************************************************************************)
(* The input stream with a cache of two bytes on files of up to five: one, *)
(* two and three refills, short ones included.                             *)
(***************************************************************************)
EXTENDS IStream

SmallFiles == {<<>>, <<1>>, <<1, 2, 3>>, <<3, 1, 2, 1, 2>>}
=============================================================================
