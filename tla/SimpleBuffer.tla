---------------------------- MODULE SimpleBuffer -----------------------------
(***************************************************************************)
(* simple_buffer.h of the maintained transcribe modules (aws, azure,       *)
(* deepgram and google have the same file): a ring of NumChunks slots with *)
(* a write and a read cursor.  The cursors are slot numbers, not pointers. *)
(* add() copies one chunk after the other; its caller holds the lock of    *)
(* the buffer, so nothing is taken out while chunks are pending.           *)
(***************************************************************************)
EXTENDS Integers, Sequences

CONSTANTS
  Chunk,      \* the chunks of audio
  NoChunk,    \* nullptr, and the contents of a slot that was never written
  NumChunks,  \* m_numChunks
  MaxAdd      \* bound: chunks in one call of add()

ASSUME SimpleBufferAssumption == /\ NumChunks \in Nat \ {0}
                                 /\ MaxAdd \in Nat /\ NoChunk \notin Chunk

VARIABLES
  slots,      \* m_pData
  numItems,
  nextWrite, nextRead,   \* m_pNextWrite, m_pNextRead
  pending,    \* what the running add() has not copied yet
  got         \* what getNextChunk returned last

ringVars == <<slots, numItems, nextWrite, nextRead, pending, got>>

Slot == 0 .. NumChunks - 1

RingInit ==
  /\ slots = [i \in Slot |-> NoChunk] /\ numItems = 0
  /\ nextWrite = 0 /\ nextRead = 0
  /\ pending = <<>> /\ got = NoChunk

\* The cursor after i.
Following(i) == IF i >= NumChunks - 1 THEN 0 ELSE i + 1

\* A call of add() with whole chunks; any other length is ignored.
Add(cs) ==
  /\ pending = <<>>
  /\ pending' = cs
  /\ UNCHANGED <<slots, numItems, nextWrite, nextRead, got>>

\* One turn of add()'s loop.
AddChunk ==
  /\ pending # <<>>
  /\ pending' = Tail(pending)
  /\ slots' = [slots EXCEPT ![nextWrite] = Head(pending)]
  /\ nextWrite' = Following(nextWrite)
  /\ \/ numItems < NumChunks /\ numItems' = numItems + 1 /\ UNCHANGED nextRead
     \/ numItems >= NumChunks /\ nextRead' = Following(nextRead) /\ UNCHANGED numItems
  /\ UNCHANGED got

\* Mutant of GetNextChunk: the read starts at the write cursor, as in the inherited
\* modules (mod_nuance_transcribe/simple_buffer.h).
GetNextChunkAtWrite ==
  /\ pending = <<>>
  /\ \/ numItems = 0 /\ got' = NoChunk /\ UNCHANGED <<numItems, nextRead>>
     \/ /\ numItems # 0
        /\ numItems' = numItems - 1
        /\ got' = slots[nextWrite]
        /\ nextRead' = Following(nextRead)
  /\ UNCHANGED <<slots, nextWrite, pending>>

GetNextChunk ==
  /\ pending = <<>>
  /\ \/ numItems = 0 /\ got' = NoChunk /\ UNCHANGED <<numItems, nextRead>>
     \/ /\ numItems # 0
        /\ numItems' = numItems - 1
        /\ got' = slots[nextRead]
        /\ nextRead' = Following(nextRead)
  /\ UNCHANGED <<slots, nextWrite, pending>>

RingNext == (\E n \in 1 .. MaxAdd : \E cs \in [1 .. n -> Chunk] : Add(cs))
        \/ AddChunk \/ GetNextChunk
RingSpec == RingInit /\ [][RingNext]_ringVars

-----------------------------------------------------------------------------
\* Every variable has its type; the count stays within the slots and the cursors on them.
RingTypeOK ==
  /\ slots \in [Slot -> Chunk \cup {NoChunk}] /\ numItems \in 0 .. NumChunks
  /\ nextWrite \in Slot /\ nextRead \in Slot
  /\ pending \in Seq(Chunk) /\ got \in Chunk \cup {NoChunk}

\* The i-th of the chunks that are held, the oldest first, is in this slot.
SlotFrom(read, i) == IF read + i - 1 < NumChunks THEN read + i - 1
                                                 ELSE read + i - 1 - NumChunks
SlotOf(i) == SlotFrom(nextRead, i)

\* The cursors and the count agree, and no slot that is counted is unwritten: getNextChunk
\* never hands out memory that add() did not fill.
CursorsAgree ==
  /\ nextWrite = SlotOf(numItems + 1)
  /\ \A i \in 1 .. numItems : slots[SlotOf(i)] \in Chunk

\* The ring is a queue that forgets its oldest chunk (tests/test_simple_buffer.cpp).
Queue == INSTANCE ChunkQueue WITH queue <- [i \in 1 .. numItems |-> slots[SlotOf(i)]]
IsQueue == Queue!QueueSpec
=============================================================================
