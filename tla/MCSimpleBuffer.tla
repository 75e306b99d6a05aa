---------------------------- MODULE MCSimpleBuffer ----------------------------
(* Instances of SimpleBuffer for TLC: chunks are interchangeable. *)
EXTENDS SimpleBuffer, TLC

Symmetry == Permutations(Chunk)
=============================================================================
