----------------------------- MODULE MCAudioFork -----------------------------
(* Instances of AudioFork for TLC: forks are interchangeable, and so are callers. *)
EXTENDS AudioFork, TLC

\* Nothing happens after a crash of the process.
Running == ~crashed

Symmetry == Permutations(Pipes) \cup Permutations(Callers)
=============================================================================
