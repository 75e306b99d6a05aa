----------------------------- MODULE RecvBuffer ------------------------------
(***************************************************************************)
(* CLIENT_RECEIVE of AudioPipe::lws_callback: a text message arrives as    *)
(* pieces of its frames and is put together in m_recv_buf, up to a cap.    *)
(* Only the service thread touches these variables, so one callback is one *)
(* step.  A byte is only counted: what matters is where it is written and  *)
(* whether the message that is delivered has all of them.  Binary messages *)
(* change nothing and are left out.                                        *)
(***************************************************************************)
EXTENDS Naturals

CONSTANTS
  MaxRecv,     \* MAX_RECV_BUF_SIZE
  Grow,        \* RECV_BUF_REALLOC_SIZE
  MaxPiece,    \* rx_buffer_size of the protocol: the most bytes in one callback
  MaxMessage   \* bound: bytes in one message

ASSUME RecvBufferAssumption ==
  /\ MaxRecv \in Nat /\ Grow \in Nat /\ MaxPiece \in Nat /\ MaxMessage \in Nat
  /\ MaxPiece <= Grow

VARIABLES
  alloc,       \* m_recv_buf # nullptr
  bufLen,      \* m_recv_buf_len
  recvOffset,  \* m_recv_buf_ptr - m_recv_buf
  discarding,  \* m_recv_buf_discarding
  busy,        \* lws: a message has begun and its final piece has not come
  rest,        \* lws_remaining_packet_payload, after the last piece
  lastFrame,   \* lws: the current frame ends the message
  seen,        \* history: bytes of the message so far
  verdict,     \* history: what became of the message: open, delivered, dropped
  size,        \* history: bytes that were delivered
  noMemory,    \* history: an allocation failed during the message
  overrun      \* history: a memcpy went past the end of the buffer

bufVars  == <<alloc, bufLen, recvOffset, discarding>>
lwsVars  == <<busy, rest, lastFrame>>
histVars == <<seen, verdict, size, noMemory, overrun>>
recvVars == <<bufVars, lwsVars, histVars>>

RecvInit ==
  /\ alloc = FALSE /\ bufLen = 0 /\ recvOffset = 0 /\ discarding = FALSE
  /\ busy = FALSE /\ rest = 0 /\ lastFrame = TRUE
  /\ seen = 0 /\ verdict = "dropped" /\ size = 0 /\ noMemory = FALSE /\ overrun = FALSE

\* lws brings n bytes of a frame of which r remain: the first piece of a message, another
\* piece of the frame, or the first piece of the message's next frame.
Arrives(n, r, fin) ==
  /\ n + r + (IF busy THEN seen ELSE 0) <= MaxMessage
  /\ \/ ~busy \/ rest = 0
     \/ busy /\ rest > 0 /\ n > 0 /\ n + r = rest /\ fin = lastFrame
  /\ rest' = r /\ lastFrame' = fin
  /\ busy' = ~(fin /\ r = 0)
  /\ seen' = IF busy THEN seen + n ELSE n
First == ~busy      \* lws_is_first_fragment
Final == ~busy'     \* lws_is_final_fragment

\* Mutant of Drop: a message that is given up is not remembered.
DropForgotten(outOfMemory) ==
  /\ alloc' = FALSE /\ bufLen' = 0 /\ discarding' = FALSE
  /\ recvOffset' = 0
  /\ verdict' = "dropped"
  /\ noMemory' = ((~First /\ noMemory) \/ outOfMemory)
  /\ UNCHANGED <<size, overrun>>

\* The message is given up; its other pieces will be skipped.  outOfMemory: because an
\* allocation failed.
Drop(outOfMemory) ==
  /\ alloc' = FALSE /\ bufLen' = 0 /\ discarding' = ~Final
  /\ recvOffset' = 0
  /\ verdict' = "dropped"
  /\ noMemory' = ((~First /\ noMemory) \/ outOfMemory)
  /\ UNCHANGED <<size, overrun>>

\* A piece of a message that was given up.
Skip ==
  /\ ~First /\ discarding
  /\ discarding' = ~Final
  /\ UNCHANGED <<alloc, bufLen, recvOffset, verdict, size, noMemory, overrun>>

\* memcpy of n bytes to place at of a buffer of len bytes, then the delivery if the
\* message is complete.
Copy(n, at, len) ==
  /\ overrun' = (overrun \/ at + n > len)
  /\ discarding' = FALSE
  /\ noMemory' = (~First /\ noMemory)
  /\ \/ /\ Final
        /\ alloc' = FALSE /\ bufLen' = 0 /\ recvOffset' = 0
        /\ verdict' = "delivered" /\ size' = at + n
     \/ /\ ~Final
        /\ alloc' = TRUE /\ bufLen' = len /\ recvOffset' = at + n
        /\ verdict' = "open" /\ UNCHANGED size

\* The first piece: a buffer for the whole frame, unless it exceeds the cap.
Open(n, r) ==
  /\ First
  /\ \/ n + r > MaxRecv /\ Drop(FALSE)
     \/ n + r <= MaxRecv /\ (Drop(TRUE) \/ Copy(n, 0, n + r))

\* Mutant of Continue: the buffer is not made larger.
ContinueUngrown(n) ==
  /\ ~First /\ ~discarding
  /\ Copy(n, recvOffset, bufLen)

\* Any other piece: the buffer grows, by a fixed amount and once, if there is no room.
Continue(n) ==
  /\ ~First /\ ~discarding
  /\ \/ bufLen - recvOffset >= n /\ Copy(n, recvOffset, bufLen)
     \/ /\ bufLen - recvOffset < n
        /\ \/ bufLen + Grow > MaxRecv /\ Drop(FALSE)
           \/ bufLen + Grow <= MaxRecv /\ (Drop(TRUE) \/ Copy(n, recvOffset, bufLen + Grow))

Receive == \E n \in 0 .. MaxPiece, r \in 0 .. MaxMessage, fin \in BOOLEAN :
             Arrives(n, r, fin) /\ (Open(n, r) \/ Skip \/ Continue(n))

RecvSpec == RecvInit /\ [][Receive]_recvVars

-----------------------------------------------------------------------------
\* Every variable has its type, and m_recv_buf_ptr points into the buffer or to its end.
RecvTypeOK ==
  /\ alloc \in BOOLEAN /\ bufLen \in Nat /\ recvOffset \in 0 .. bufLen /\ discarding \in BOOLEAN
  /\ busy \in BOOLEAN /\ rest \in Nat /\ lastFrame \in BOOLEAN
  /\ seen \in Nat /\ verdict \in {"open", "delivered", "dropped"} /\ size \in Nat
  /\ noMemory \in BOOLEAN /\ overrun \in BOOLEAN

\* No piece is copied past the end of the buffer, though it grows by a fixed amount that
\* does not look at the length of the piece (the realloc branch).
NoOverrun == ~overrun

\* A server cannot make the buffer larger than the cap, with a long frame or with many.
CapHolds == bufLen <= MaxRecv

\* The flags are consistent between callbacks: assert(nullptr == m_recv_buf) holds when
\* the next message begins, and only a message that was given up is skipped.
BufferIffOpen == /\ alloc <=> busy /\ ~discarding
                 /\ discarding => busy /\ verdict = "dropped"
                 /\ ~busy => verdict # "open"

\* A message is delivered whole or not at all: never a tail of one that was given up,
\* never with a hole.
WholeOrNothing == /\ verdict = "delivered" => ~busy /\ size = seen
                  /\ alloc => recvOffset = seen

\* A message is given up only for want of memory, or because its first frame alone exceeds the
\* cap, or because a later piece needs the buffer to grow and one growth would exceed it: then
\* what has come so far is within one growth of the cap, and may be less than the cap.
DroppedOnlyIfLarge ==
  [][verdict' = "dropped" /\ (verdict # "dropped" \/ ~busy) /\ ~noMemory' =>
       IF busy THEN seen' + Grow > MaxRecv ELSE seen' + rest' > MaxRecv]_recvVars
=============================================================================
