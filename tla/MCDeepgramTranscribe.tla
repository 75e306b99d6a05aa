------------------------- MODULE MCDeepgramTranscribe -------------------------
(* An instance of DeepgramTranscribe for TLC: what two pipes never share is not *)
(* interleaved, since the pipes meet in the lists and in the glue only.         *)
EXTENDS DeepgramTranscribe

\* A frame is followed while no other pipe exists: the media thread touches one pipe, and two
\* of its locks.
FramesAlone == audioLock # NoBug => \A b \in Bugs \ {audioLock} : state[b] = "none"

\* A connection that failed is followed while every other pipe is not yet or no longer there.
FailsAlone ==
  \A b, c \in Bugs : state[b] = "failed" => b = c \/ state[c] \in {"none", "deleted"}
=============================================================================
