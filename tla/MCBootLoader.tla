---------------------------- MODULE MCBootLoader ---------------------------
(***************************************************************************)
(* An instance of BootLoader for TLC, with words of two bits: a slot of    *)
(* three words, each a page, and LOAD blocks of two of them, so that the   *)
(* second block reaches over the end of the slot.                          *)
(***************************************************************************)
EXTENDS BootLoader

TwoBits == {0, 1}
Sps == {{1}}

\* A vector {0, 1} points at word 2, which only a longer image contains.
Entries == [w \in SUBSET TwoBits |-> IF w = {0, 1} THEN 2 ELSE 1]

\* Vectors of a short and of a long image, a short block, and one too long.
SomeBlocks == {<<{1}, {0}>>, <<{1}, {0, 1}>>, <<{0}>>, <<{1}, {1}, {1}>>}
=============================================================================
