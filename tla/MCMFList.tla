------------------------------ MODULE MCMFList ------------------------------
(***************************************************************************)
(* The free list with one category of chunks of a page, and requests that  *)
(* fit in one, or need a chunk of two pages of their own.                  *)
(***************************************************************************)
EXTENDS MFList

\* Three pages of twenty-three words, one after the other.  The first block of
\* the middle one is where its header ends, that of the last is aligned a word
\* further, and that of the first two words: its end overhangs both links of a
\* chunk on the middle page.
ThreeChunks == {69, 92, 115}

OneCategory == <<23>>
=============================================================================
