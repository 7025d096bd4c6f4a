------------------------------- MODULE Concat -------------------------------
(***************************************************************************)
(* One sequence out of many.  The operator has the name and the meaning it *)
(* has in SequencesExt; it stands alone here because a proof carries every *)
(* definition its module extends, and those of that module are large.      *)
(***************************************************************************)
EXTENDS Integers, Sequences

\* The concatenation of a sequence of sequences, by recursion on how many of
\* them have been put together.
FlattenSeq(parts) ==
  LET joined[k \in 0 .. Len(parts)] == IF k = 0 THEN <<>> ELSE joined[k - 1] \o parts[k]
  IN joined[Len(parts)]
=============================================================================
