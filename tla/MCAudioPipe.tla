----------------------------- MODULE MCAudioPipe -----------------------------
(* Instances of AudioPipe for TLC: pipes are interchangeable. *)
EXTENDS AudioPipe, TLC

\* For instances of two pipes: nobody sends audio or asks for a graceful shutdown, which
\* concern one pipe alone and are checked with one.
ListsOnly == \A p \in Pipes : upc[p] # "audio" /\ ~asked[p]

Symmetry == Permutations(Pipes)
=============================================================================
