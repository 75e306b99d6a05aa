----------------------------- MODULE ChunkQueue ------------------------------
(***************************************************************************)
(* What a SimpleBuffer promises to the transcribe modules that hold audio  *)
(* back until their stream is connected: a queue of at most NumChunks      *)
(* chunks that forgets the oldest chunk when it is full and gives the      *)
(* oldest one first.                                                       *)
(***************************************************************************)
EXTENDS Integers, Sequences

CONSTANTS
  Chunk,      \* the chunks of audio
  NoChunk,    \* nullptr
  NumChunks   \* m_numChunks

VARIABLES
  queue,      \* the chunks that are held, the oldest first
  got         \* what getNextChunk returned last

QueueInit == queue = <<>> /\ got = NoChunk

Put(c) ==
  /\ queue' = IF Len(queue) < NumChunks THEN Append(queue, c)
                                        ELSE Append(Tail(queue), c)
  /\ UNCHANGED got

Take ==
  \/ queue # <<>> /\ got' = Head(queue) /\ queue' = Tail(queue)
  \/ queue = <<>> /\ got' = NoChunk /\ UNCHANGED queue

QueueNext == (\E c \in Chunk : Put(c)) \/ Take
QueueSpec == QueueInit /\ [][QueueNext]_<<queue, got>>
=============================================================================
