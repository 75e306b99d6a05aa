------------------------------ MODULE Prebuffer ------------------------------
(***************************************************************************)
(* The prebuffer of the sessions that wait for speech or for their         *)
(* connection, as its users see it: the drop-oldest queue ChunkQueue,      *)
(* which SimpleBuffer implements, fed with whole chunks; what is left of   *)
(* a frame waits in a staging area.  A piece of audio is the number under  *)
(* which it was read, a chunk or the staging area a set of pieces.         *)
(***************************************************************************)
EXTENDS Integers, Sequences, FiniteSets

CONSTANTS
  ChunkLen,     \* pieces in one chunk (CHUNKSIZE)
  PreChunks     \* chunks in the prebuffer

ASSUME PrebufferAssumption == ChunkLen \in Nat \ {0} /\ PreChunks \in Nat \ {0}

\* SimpleBuffer.add of the whole chunks in s.
WithChunks(q, s) ==
  LET least == CHOOSE p \in s : \A r \in s : p <= r
      chunk(i) == (least + (i - 1) * ChunkLen) .. (least + i * ChunkLen - 1)
      all == q \o [i \in 1 .. Cardinality(s) \div ChunkLen |-> chunk(i)]
      from == IF Len(all) > PreChunks THEN Len(all) - PreChunks + 1 ELSE 1
  IN SubSeq(all, from, Len(all))

\* What does not fill a chunk.
Remainder(s) == {p \in s : Cardinality({r \in s : r <= p}) > (Cardinality(s) \div ChunkLen) * ChunkLen}

\* The last piece of a set.
LastOf(s) == CHOOSE p \in s : \A q \in s : q <= p
=============================================================================
