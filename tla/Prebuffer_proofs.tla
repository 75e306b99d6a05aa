-------------------------- MODULE Prebuffer_proofs --------------------------
(***************************************************************************)
(* What the operators of the prebuffer do to audio that is in order, for   *)
(* every length of a chunk and every size of the prebuffer: the lemmas     *)
(* that the proofs about mod_aws_transcribe, mod_google_transcribe and     *)
(* mod_azure_transcribe rest on.                                           *)
(***************************************************************************)
EXTENDS Prebuffer, FiniteSetTheorems, SequenceTheorems, TLAPS

\* The chunks of q are the pieces after a, up to b, in order.
InChunks(q, a, b) ==
  /\ q \in Seq(SUBSET Nat) /\ b = a + Len(q) * ChunkLen
  /\ \A i \in 1 .. Len(q) : q[i] = (a + (i - 1) * ChunkLen + 1) .. (a + i * ChunkLen)

\* Products with the length of a chunk are natural, and grow with the other factor.
LEMMA ChunksGrow ==
  ASSUME NEW i \in Nat, NEW j \in Nat, i <= j
  PROVE  i * ChunkLen \in Nat /\ j * ChunkLen \in Nat /\ i * ChunkLen <= j * ChunkLen
<1>1. ChunkLen \in Nat
  BY PrebufferAssumption
<1> QED
  BY <1>1

\* The pieces after b up to c are c - b pieces: what the arithmetic of the buffers rests on.
LEMMA PiecesBetween ==
  ASSUME NEW b \in Nat, NEW c \in Nat, b <= c
  PROVE  Cardinality((b + 1) .. c) = c - b
<1>1. Cardinality((b + 1) .. c) = IF b + 1 > c THEN 0 ELSE c - (b + 1) + 1
  BY FS_Interval
<1> QED
  BY <1>1

\* SimpleBuffer.getNextChunk takes the oldest chunk, and the others follow it.
LEMMA HeadInChunks ==
  ASSUME NEW q, NEW a \in Nat, NEW b \in Nat, InChunks(q, a, b), q # <<>>
  PROVE  /\ Head(q) = (a + 1) .. (a + ChunkLen) /\ a + ChunkLen <= b
         /\ InChunks(Tail(q), a + ChunkLen, b)
<1> USE PrebufferAssumption
<1>1. q \in Seq(SUBSET Nat) /\ Len(q) \in Nat \ {0}
  BY DEF InChunks
<1>2. /\ Head(q) = q[1] /\ Tail(q) \in Seq(SUBSET Nat) /\ Len(Tail(q)) = Len(q) - 1
      /\ \A i \in 1 .. Len(Tail(q)) : Tail(q)[i] = q[i + 1]
  BY <1>1, HeadTailProperties
<1>3. q[1] = (a + 1) .. (a + ChunkLen)
  BY <1>1 DEF InChunks
<1>4. b = a + ChunkLen + Len(Tail(q)) * ChunkLen /\ a + ChunkLen <= b
  BY <1>1, <1>2 DEF InChunks
<1>5. ASSUME NEW i \in 1 .. Len(Tail(q))
      PROVE  Tail(q)[i] = (a + ChunkLen + (i - 1) * ChunkLen + 1) .. (a + ChunkLen + i * ChunkLen)
  <2>1. Tail(q)[i] = q[i + 1] /\ i + 1 \in 1 .. Len(q)
    BY <1>1, <1>2
  <2>2. q[i + 1] = (a + ((i + 1) - 1) * ChunkLen + 1) .. (a + (i + 1) * ChunkLen)
    BY <2>1 DEF InChunks
  <2>3. /\ a + ((i + 1) - 1) * ChunkLen + 1 = a + ChunkLen + (i - 1) * ChunkLen + 1
        /\ a + (i + 1) * ChunkLen = a + ChunkLen + i * ChunkLen
    BY <1>1
  <2> QED
    BY <2>1, <2>2, <2>3
<1> QED
  BY <1>1, <1>2, <1>3, <1>4, <1>5 DEF InChunks

\* Whole chunks put behind whole chunks that end where they begin are again whole chunks in order.
LEMMA ConcatInChunks ==
  ASSUME NEW q, NEW r, NEW a \in Nat, NEW b \in Nat, NEW c \in Nat,
         InChunks(q, a, b), InChunks(r, b, c)
  PROVE  InChunks(q \o r, a, c)
<1> USE PrebufferAssumption
<1>1. /\ q \in Seq(SUBSET Nat) /\ Len(q) \in Nat /\ b = a + Len(q) * ChunkLen
      /\ r \in Seq(SUBSET Nat) /\ Len(r) \in Nat /\ c = b + Len(r) * ChunkLen
  BY DEF InChunks
<1>2. /\ q \o r \in Seq(SUBSET Nat) /\ Len(q \o r) = Len(q) + Len(r)
      /\ \A i \in 1 .. Len(q) + Len(r) : (q \o r)[i] = IF i <= Len(q) THEN q[i] ELSE r[i - Len(q)]
  BY <1>1, ConcatProperties
<1>3. c = a + (Len(q) + Len(r)) * ChunkLen
  BY <1>1
<1>4. ASSUME NEW i \in 1 .. Len(q) + Len(r)
      PROVE  (q \o r)[i] = (a + (i - 1) * ChunkLen + 1) .. (a + i * ChunkLen)
  <2>1. CASE i <= Len(q)
    BY <1>1, <1>2, <2>1 DEF InChunks
  <2>2. CASE i > Len(q)
    <3> DEFINE j == i - Len(q)
    <3>1. j \in 1 .. Len(r) /\ (q \o r)[i] = r[j]
      BY <1>1, <1>2, <2>2
    <3>2. r[j] = (b + (j - 1) * ChunkLen + 1) .. (b + j * ChunkLen)
      BY <3>1 DEF InChunks
    <3>3. b + (j - 1) * ChunkLen = a + (i - 1) * ChunkLen /\ b + j * ChunkLen = a + i * ChunkLen
      BY <1>1
    <3> QED
      BY <3>1, <3>2, <3>3
  <2> QED
    BY <1>1, <2>1, <2>2
<1> QED
  BY <1>1, <1>2, <1>3, <1>4 DEF InChunks

\* What is left when SimpleBuffer.add has overwritten the k oldest chunks begins k chunks later.
LEMMA DropOldest ==
  ASSUME NEW q, NEW a \in Nat, NEW b \in Nat, InChunks(q, a, b), NEW k \in 0 .. Len(q)
  PROVE  LET p == SubSeq(q, k + 1, Len(q))
         IN  a + k * ChunkLen \in Nat /\ InChunks(p, a + k * ChunkLen, b)
<1> USE PrebufferAssumption
<1> DEFINE p == SubSeq(q, k + 1, Len(q))
<1>1. q \in Seq(SUBSET Nat) /\ Len(q) \in Nat /\ b = a + Len(q) * ChunkLen
  BY DEF InChunks
<1>2. \A i \in (k + 1) .. Len(q) : q[i] \in SUBSET Nat
  BY <1>1
<1>3. /\ p \in Seq(SUBSET Nat) /\ Len(p) = Len(q) - k
      /\ \A i \in 1 .. Len(q) - k : p[i] = q[k + i]
  <2>1. /\ p \in Seq(SUBSET Nat) /\ Len(p) = IF k + 1 <= Len(q) THEN Len(q) - (k + 1) + 1 ELSE 0
        /\ \A i \in 1 .. Len(q) - (k + 1) + 1 : p[i] = q[(k + 1) + i - 1]
    BY <1>1, <1>2, SubSeqProperties
  <2> QED
    BY <1>1, <2>1
<1>4. a + k * ChunkLen \in Nat /\ b = a + k * ChunkLen + (Len(q) - k) * ChunkLen
  BY <1>1
<1>5. ASSUME NEW i \in 1 .. Len(q) - k
      PROVE  p[i] = (a + k * ChunkLen + (i - 1) * ChunkLen + 1) .. (a + k * ChunkLen + i * ChunkLen)
  <2>1. k + i \in 1 .. Len(q) /\ p[i] = q[k + i]
    <3>1. k \in Nat /\ k <= Len(q) /\ i \in Nat /\ 1 <= i /\ i <= Len(q) - k
      BY <1>1
    <3>2. k + i \in 1 .. Len(q)
      BY <1>1, <3>1
    <3>3. p[i] = q[k + i]
      BY <1>3
    <3> QED
      BY <3>2, <3>3
  <2>2. q[k + i] = (a + ((k + i) - 1) * ChunkLen + 1) .. (a + (k + i) * ChunkLen)
    BY <2>1 DEF InChunks
  <2>3. /\ a + ((k + i) - 1) * ChunkLen + 1 = a + k * ChunkLen + (i - 1) * ChunkLen + 1
        /\ a + (k + i) * ChunkLen = a + k * ChunkLen + i * ChunkLen
    BY <1>1
  <2> QED
    BY <2>1, <2>2, <2>3
<1> HIDE DEF p
<1>6. InChunks(p, a + k * ChunkLen, b)
  BY <1>1, <1>3, <1>4, <1>5 DEF InChunks
<1> QED
  BY <1>4, <1>6 DEF p

\* SimpleBuffer.add of what is staged and a frame: whole chunks behind those that are there, the
\* oldest ones dropped, and what does not fill a chunk stays behind them.
LEMMA ChunksInOrder ==
  ASSUME NEW q, NEW a \in Nat, NEW b \in Nat, NEW c \in Nat, b <= c, InChunks(q, a, b)
  PROVE  \E d, e \in Nat : /\ a <= d /\ e <= c /\ InChunks(WithChunks(q, (b + 1) .. c), d, e)
                           /\ Remainder((b + 1) .. c) = (e + 1) .. c
<1> USE PrebufferAssumption
<1> DEFINE s == (b + 1) .. c
           n == (c - b) \div ChunkLen
           least == CHOOSE p \in s : \A r \in s : p <= r
           chunks == [i \in 1 .. n |-> (least + (i - 1) * ChunkLen) .. (least + i * ChunkLen - 1)]
           e == b + n * ChunkLen
           all == q \o chunks
           from == IF Len(all) > PreChunks THEN Len(all) - PreChunks + 1 ELSE 1
<1>1. Cardinality(s) = c - b
  BY PiecesBetween
<1>2. n \in Nat /\ n * ChunkLen <= c - b /\ e \in Nat /\ e <= c
  <2>1. c - b \in Nat
    OBVIOUS
  <2>2. n \in Nat /\ n * ChunkLen \in Nat /\ n * ChunkLen <= c - b
    BY <2>1
  <2> QED
    BY <2>2
<1>3. n > 0 => least = b + 1
  <2> SUFFICES ASSUME n > 0 PROVE least = b + 1
    OBVIOUS
  <2>1. n * ChunkLen > 0
    BY <1>2
  <2>2. b + 1 \in s /\ \A r \in s : b + 1 <= r
    BY <1>2, <2>1
  <2> QED
    BY <2>2
<1> HIDE DEF n, least
<1>4. InChunks(chunks, b, e)
  <2>1. ASSUME NEW i \in 1 .. n
        PROVE  /\ chunks[i] = (b + (i - 1) * ChunkLen + 1) .. (b + i * ChunkLen)
               /\ chunks[i] \in SUBSET Nat
    <3>1. chunks[i] = ((b + 1) + (i - 1) * ChunkLen) .. ((b + 1) + i * ChunkLen - 1)
      BY <1>2, <1>3
    <3>2. (i - 1) * ChunkLen \in Nat /\ i * ChunkLen \in Nat
      BY <1>2
    <3>3. \A x, y \in Nat : /\ ((b + 1) + x) .. ((b + 1) + y - 1) = (b + x + 1) .. (b + y)
                            /\ (b + x + 1) .. (b + y) \in SUBSET Nat
      OBVIOUS
    <3> HIDE DEF chunks
    <3> QED
      BY <3>1, <3>2, <3>3
  <2>2. chunks = [i \in 1 .. n |-> chunks[i]]
    OBVIOUS
  <2> HIDE DEF chunks
  <2>3. chunks \in [1 .. n -> SUBSET Nat]
    BY <2>1, <2>2
  <2>4. chunks \in Seq(SUBSET Nat) /\ Len(chunks) = n
    BY <1>2, <2>3
  <2> QED
    BY <1>2, <2>1, <2>4 DEF InChunks
<1>5. InChunks(all, a, e)
  BY <1>2, <1>4, ConcatInChunks
<1> HIDE DEF chunks, e, all
<1>6. Len(all) \in Nat /\ from \in Nat /\ from - 1 \in 0 .. Len(all)
  <2>1. Len(all) \in Nat
    BY <1>5 DEF InChunks
  <2> QED
    BY <2>1
<1> HIDE DEF from
<1>7. PICK d \in Nat : a <= d /\ InChunks(SubSeq(all, from, Len(all)), d, e)
  <2>1. from \in Int /\ SubSeq(all, (from - 1) + 1, Len(all)) = SubSeq(all, from, Len(all))
    BY <1>6
  <2>2. /\ a + (from - 1) * ChunkLen \in Nat
        /\ InChunks(SubSeq(all, (from - 1) + 1, Len(all)), a + (from - 1) * ChunkLen, e)
    BY <1>2, <1>5, <1>6, DropOldest
  <2>3. a <= a + (from - 1) * ChunkLen
    BY <1>6
  <2> QED
    BY <2>1, <2>2, <2>3
<1>8. WithChunks(q, s) = SubSeq(all, from, Len(all))
  BY <1>1 DEF WithChunks, all, from, chunks, n, least
<1>9. Remainder(s) = (e + 1) .. c
  <2>1. ASSUME NEW p \in s PROVE Cardinality({r \in s : r <= p}) = p - b
    <3>1. {r \in s : r <= p} = (b + 1) .. p /\ p \in Nat /\ b <= p
      OBVIOUS
    <3> QED
      BY <3>1, PiecesBetween
  <2>2. Remainder(s) = {p \in s : p - b > n * ChunkLen}
    BY <1>1, <2>1 DEF Remainder, n
  <2>3. n * ChunkLen \in Nat
    BY <1>2
  <2>4. \A p \in s : p - b > n * ChunkLen <=> p \in (b + n * ChunkLen + 1) .. c
    BY <2>3
  <2>5. (b + n * ChunkLen + 1) .. c \subseteq s
    BY <2>3
  <2> QED
    BY <2>2, <2>4, <2>5 DEF e
<1> QED
  BY <1>2, <1>7, <1>8, <1>9

\* No chunks are the pieces from anywhere to the same place.
LEMMA EmptyChunks ==
  ASSUME NEW a \in Nat
  PROVE  InChunks(<<>>, a, a)
<1>1. <<>> \in Seq(SUBSET Nat) /\ Len(<<>>) = 0 /\ ChunkLen \in Nat
  BY PrebufferAssumption
<1>2. a = a + 0 * ChunkLen
  BY <1>1
<1>3. 1 .. Len(<<>>) = {}
  BY <1>1
<1> QED
  BY <1>1, <1>2, <1>3 DEF InChunks

\* The last piece of an interval is its upper end.
LEMMA LastOfInterval ==
  ASSUME NEW x \in Nat, NEW y \in Nat, x < y
  PROVE  LastOf((x + 1) .. y) = y
<1>1. y \in (x + 1) .. y /\ \A q \in (x + 1) .. y : q <= y
  OBVIOUS
<1>2. \A p \in (x + 1) .. y : (\A q \in (x + 1) .. y : q <= p) => p = y
  BY <1>1
<1> QED
  BY <1>1, <1>2 DEF LastOf
=============================================================================
