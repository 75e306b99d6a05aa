---------------------- MODULE DeepgramTranscribe_proofs ----------------------
(***************************************************************************)
(* What is proved of DeepgramTranscribe, and of the pipes of DeepgramPipe  *)
(* under it, for any number of bugs and of threads that start and stop.    *)
(***************************************************************************)
EXTENDS DeepgramTranscribe, TLAPS

-----------------------------------------------------------------------------
(* The inductive invariant.                                                *)

PipeState == {"none", "idle", "connecting", "connected", "failed", "disconnected", "deleted"}
ReaperPc  == {"none", "finish", "flag", "recheck", "exchange", "buffer", "push", "wait", "uncount", "done"}
AtUp      == {"graceful", "finish", "exchange", "buffer", "push", "notify"}
OwnerPc   == {"idle", "lookup", "lock", "verify", "clear", "reap", "remove",
              "init", "connect", "count", "add", "publish"}

PipeTypes ==
  /\ state \in [Bugs -> PipeState] /\ text \in [Bugs -> Nat] /\ sent \in [Bugs -> Nat]
  /\ net \in [Bugs -> {"none", "handshake", "open", "broken", "closed"}]
  /\ pc \in [Threads -> ReaperPc \cup {"poll", "adopt", "graceful", "notify", "setClosed"}]
  /\ current \in Bugs \cup {NoBug} /\ audioLock \in Bugs \cup {NoBug}

SetTypes ==
  /\ graceful \subseteq Bugs /\ finished \subseteq Bugs /\ closed \subseteq Bugs
  /\ connects \subseteq Bugs /\ writes \subseteq Bugs /\ adopting \subseteq Bugs
  /\ writable \subseteq Bugs /\ attached \subseteq Bugs /\ holds \subseteq Bugs /\ raced \subseteq Bugs

CallTypes ==
  /\ at \in [Owners -> OwnerPc] /\ bug \in [Owners -> Bugs \cup {NoBug}]
  /\ closing \in [Owners -> BOOLEAN] /\ resume \in [Owners -> {"idle", "init"}]
  /\ private \in Bugs \cup {NoBug} /\ mutex \in [Bugs -> Owners \cup {"free", "media"}]

TypeOK == PipeTypes /\ SetTypes /\ CallTypes

\* The one service thread: what it is in the middle of, and with which pipe.
ServiceInv ==
  /\ pc[Service] \in {"poll", "adopt", "setClosed"} \cup AtUp
  /\ pc[Service] \in {"poll", "adopt"} <=> current = NoBug
  /\ pc[Service] = "poll" => adopting = {}
  /\ pc[Service] \in AtUp => state[current] = "connected"
  /\ pc[Service] = "setClosed" => state[current] \in {"failed", "disconnected"} /\ current \notin closed
  /\ pc[Service] \in {"finish", "exchange", "buffer", "push"} => current \in graceful

\* The connection of a pipe, and who will take it further: the pending list, lws, or the
\* terminal callback that keeps the promise last.
Starting(o) == at[o] \in {"connect", "count", "add", "publish"}
Connection(b) ==
  /\ pc[b] \in ReaperPc
  /\ state[b] = "none" => b \notin connects
  /\ state[b] \in {"none", "idle"} => net[b] = "none"
  /\ state[b] = "idle" => b \in connects \/ (\E o \in Owners : at[o] = "connect" /\ bug[o] = b)
  /\ state[b] = "connecting" <=> b \in adopting \/ net[b] = "handshake"
  /\ b \in adopting => net[b] = "none"
  /\ state[b] = "connecting" => b \in connects
  /\ state[b] = "connected" <=> net[b] \in {"open", "broken"}
  /\ state[b] \in {"failed", "disconnected"} => b \in closed \/ (current = b /\ pc[Service] = "setClosed")
  /\ b \in closed => state[b] \in {"failed", "disconnected", "deleted"}
  /\ state[b] = "deleted" => pc[b] \in {"uncount", "done"}

\* Whoever comes to finish() first, the reaper or CLIENT_ESTABLISHED, leaves the CloseStream to
\* nobody else: the exchange gives it to one of them.
Buffers(t, b) == pc[t] = "buffer" /\ PipeOf(t) = b
Pushes(t, b)  == pc[t] = "push" /\ PipeOf(t) = b
Finish(b) ==
  /\ b \in finished \cup graceful => pc[b] # "none"
  /\ b \notin finished => sent[b] + text[b] = 0
  /\ sent[b] + text[b] <= 1
  /\ \A t \in {b, Service} : Buffers(t, b) => b \in finished /\ sent[b] + text[b] = 0
  /\ ~(Buffers(b, b) /\ Buffers(Service, b))
  /\ \A t \in {b, Service} : Pushes(t, b) => b \in finished

\* What the reaper asked for is on its way.
Asked(b) ==
  /\ b \in finished \/ pc[b] \in {"exchange", "buffer", "push"}
       => state[b] \notin {"none", "idle", "connecting"}
  /\ pc[b] \in {"recheck", "wait"} /\ state[b] \in {"idle", "connecting"}
       => b \in graceful
  /\ pc[b] = "wait" /\ state[b] = "connected"
       => \/ b \in finished
          \/ current = b /\ pc[Service] \in {"graceful", "finish", "exchange"} /\ b \in graceful
  /\ b \in finished /\ state[b] = "connected"
       => \/ \E t \in {b, Service} : Buffers(t, b)
          \/ text[b] > 0 /\ (b \in writes \cup writable \/ \E t \in {b, Service} : Pushes(t, b))
          \/ sent[b] > 0 \/ net[b] = "broken"

\* A bug belongs to its start until it is published, and then to the one who takes it from the
\* channel; it holds its pipe until its reaper is started.
Bug(b) ==
  /\ b \in holds => pc[b] = "none" /\ state[b] # "none"
  /\ state[b] = "none" => /\ pc[b] = "none" /\ b \notin attached /\ private # b
                          /\ \A o \in Owners : bug[o] # b

Owner(o) ==
  /\ Starting(o) => bug[o] \in holds /\ private # bug[o] /\ \A p \in Owners \ {o} : bug[p] # bug[o]
  /\ at[o] = "connect" => state[bug[o]] = "idle" /\ bug[o] \notin connects
  /\ at[o] \in {"lock", "verify", "clear", "reap", "remove"} => bug[o] \in Bugs
  /\ at[o] \in {"verify", "clear", "reap"} => mutex[bug[o]] = o
  /\ at[o] = "clear" => private = bug[o] \/ bug[o] \in raced
  /\ at[o] = "reap" => private # bug[o]
  /\ at[o] = "remove" => bug[o] \notin holds

\* Who takes the pipe of a bug that is not given up: its start, the stop that has it, or, while
\* it is published, a stop to come or the hangup that has closed it.
InGoodHands(b) ==
  \/ \E o \in Owners : bug[o] = b /\ (Starting(o) \/ at[o] = "reap")
  \/ private = b /\ b \in attached
  \/ /\ private = b
     /\ at[Hangup] = "lookup" \/ (at[Hangup] \in {"lock", "verify", "clear"} /\ bug[Hangup] = b)

\* What is published has its pipe, and who writes audio has the mutex of the bug.
Slots ==
  /\ private # NoBug => private \in holds
  /\ audioLock # NoBug => mutex[audioLock] = "media"

PipeInv == ServiceInv /\ \A b \in Bugs : Connection(b) /\ Finish(b) /\ Asked(b)
GlueInv == /\ Slots
           /\ \A b \in Bugs : Bug(b) /\ (b \in holds \ raced => InGoodHands(b))
           /\ \A o \in Owners : Owner(o)
IInv == TypeOK /\ PipeInv /\ GlueInv

-----------------------------------------------------------------------------
(* The sets of program counters and the helpers of the actions are expanded *)
(* everywhere; each action and the parts of the invariant only where used. *)

USE DeepgramPipeAssumption, DeepgramTranscribeAssumption
    DEF Service, Threads, PipeOf, Goes, Moves, Hangup, Callers, Owners, Starting, Returns, Polls, AfterFinish,
        FinishKeeps, PipeState, ReaperPc, AtUp, OwnerPc, flagVars, bufVars, listVars, netVars, pipeVars,
        callVars, fsVars, glueVars, Step

\* What a caller or the media thread does to a pipe.
Calls == \/ \E o \in Owners : Reap(o)
         \/ \E c \in Starters : ForkDataInit(c) \/ Connect(c) \/ BugAddFails(c)
         \/ \E b \in Bugs : Frame(b) \/ FrameWritten(b) \/ Uncount(b)

\* What leaves every pipe alone.
Elsewhere ==
  \/ \E o \in Owners : Lookup(o) \/ LockMutex(o) \/ Verify(o) \/ Clear(o) \/ Remove(o)
  \/ \E c \in Starters : StartCommand(c) \/ Refused(c) \/ Count(c) \/ BugAdd(c) \/ Publish(c)
  \/ \E c \in Stoppers : StopCommand(c)
  \/ SessionGone \/ Unload \/ \E b \in Bugs : CloseBug(b)

\* Every step of the service thread, of lws and of the reapers keeps the variables in their types.
LEMMA PipeTypesKept ==
  ASSUME TypeOK, ServiceInv, PipeStep, Step
  PROVE  TypeOK'
<1> USE DEF TypeOK, PipeTypes, SetTypes, CallTypes, ServiceInv
<1>1. CASE CollectConnects
  BY <1>1 DEF CollectConnects
<1>2. CASE CollectWrites
  BY <1>2 DEF CollectWrites
<1>3. CASE CompleteFinish
  BY <1>3 DEF CompleteFinish
<1>4. CASE Notify
  BY <1>4 DEF Notify
<1>5. CASE SetClosed
  BY <1>5 DEF SetClosed
<1>6. ASSUME NEW t \in Threads, FinishCheck(t) PROVE TypeOK'
  BY <1>6 DEF FinishCheck
<1>7. ASSUME NEW t \in Threads, FinishFlag(t) PROVE TypeOK'
  BY <1>7 DEF FinishFlag
<1>8. ASSUME NEW t \in Threads, FinishRecheck(t) PROVE TypeOK'
  BY <1>8 DEF FinishRecheck
<1>9. ASSUME NEW t \in Threads, FinishExchange(t) PROVE TypeOK'
  BY <1>9 DEF FinishExchange
<1>10. ASSUME NEW t \in Threads, BufferForSending(t) PROVE TypeOK'
  BY <1>10 DEF BufferForSending
<1>11. ASSUME NEW t \in Threads, AddPendingWrite(t) PROVE TypeOK'
  BY <1>11 DEF AddPendingWrite
<1>12. ASSUME NEW b \in Bugs, ConnectClient(b) PROVE TypeOK'
  BY <1>12 DEF ConnectClient
<1>13. ASSUME NEW b \in Bugs, WriteText(b) PROVE TypeOK'
  BY <1>13 DEF WriteText
<1>14. ASSUME NEW b \in Bugs, Established(b) PROVE TypeOK'
  BY <1>14 DEF Established, Remaining
<1>15. ASSUME NEW b \in Bugs, ConnectionError(b) PROVE TypeOK'
  BY <1>15 DEF ConnectionError, Remaining
<1>16. ASSUME NEW b \in Bugs, ConnectionClosed(b) PROVE TypeOK'
  BY <1>16 DEF ConnectionClosed
<1>17. ASSUME NEW b \in Bugs, Delete(b) PROVE TypeOK'
  BY <1>17 DEF Delete
<1> QED
  BY <1>1, <1>2, <1>3, <1>4, <1>5, <1>6, <1>7, <1>8, <1>9, <1>10, <1>11, <1>12, <1>13, <1>14, <1>15, <1>16, <1>17 DEF PipeStep, ServiceStep, HandshakeEnds, ReaperStep, FinishStep

\* A caller or the media thread that does something to a pipe keeps the variables in their types.
LEMMA CallTypesKept ==
  ASSUME TypeOK, GlueInv, Calls
  PROVE  TypeOK'
<1> USE DEF TypeOK, PipeTypes, SetTypes, CallTypes, GlueInv, Slots, Owner
<1>1. ASSUME NEW o \in Owners, Reap(o) PROVE TypeOK'
  <2> USE <1>1 DEF Reap, StartReaper
  <2>1. PipeTypes'
    OBVIOUS
  <2>2. SetTypes'
    OBVIOUS
  <2>3. CallTypes'
    <3>1. at' \in [Owners -> OwnerPc] /\ resume' \in [Owners -> {"idle", "init"}]
      OBVIOUS
    <3>2. bug' \in [Owners -> Bugs \cup {NoBug}] /\ private' \in Bugs \cup {NoBug}
      OBVIOUS
    <3>3. closing' \in [Owners -> BOOLEAN]
      <4>1. closing \in [Owners -> BOOLEAN] /\ TRUE \in BOOLEAN /\ FALSE \in BOOLEAN
        OBVIOUS
      <4>2. \/ closing' = closing
            \/ closing' = [closing EXCEPT ![o] = FALSE]
            \/ closing' = [closing EXCEPT ![o] = TRUE]
        OBVIOUS
      <4> QED
        BY ONLY <4>1, <4>2
    <3>4. mutex' \in [Bugs -> Owners \cup {"free", "media"}]
      OBVIOUS
    <3> QED
      BY <3>1, <3>2, <3>3, <3>4
  <2> QED
    BY <2>1, <2>2, <2>3
<1>2. ASSUME NEW c \in Starters, ForkDataInit(c) PROVE TypeOK'
  BY <1>2 DEF ForkDataInit, NewPipe
<1>3. ASSUME NEW c \in Starters, Connect(c) PROVE TypeOK'
  <2> USE <1>3 DEF Connect, ConnectPipe
  <2>1. PipeTypes'
    OBVIOUS
  <2>2. SetTypes'
    OBVIOUS
  <2>3. CallTypes'
    OBVIOUS
  <2> QED
    BY <2>1, <2>2, <2>3
<1>4. ASSUME NEW c \in Starters, BugAddFails(c) PROVE TypeOK'
  BY <1>4 DEF BugAddFails, StartReaper
<1>5. ASSUME NEW b \in Bugs, Frame(b) PROVE TypeOK'
  BY <1>5 DEF Frame, LockAudioBuffer
<1>6. ASSUME NEW b \in Bugs, FrameWritten(b) PROVE TypeOK'
  BY <1>6 DEF FrameWritten, UnlockAudioBuffer
<1>7. ASSUME NEW b \in Bugs, Uncount(b) PROVE TypeOK'
  BY <1>7 DEF Uncount
<1> QED
  BY <1>1, <1>2, <1>3, <1>4, <1>5, <1>6, <1>7 DEF Calls

\* So do the steps of the glue that do nothing to a pipe.
LEMMA OtherTypesKept ==
  ASSUME TypeOK, GlueInv, Elsewhere
  PROVE  TypeOK'
<1> USE DEF TypeOK, PipeTypes, SetTypes, CallTypes, GlueInv, Slots, Owner
<1>1. ASSUME NEW o \in Owners, Lookup(o) PROVE TypeOK'
  <2> USE <1>1 DEF Lookup
  <2>1. PipeTypes'
    OBVIOUS
  <2>2. SetTypes'
    OBVIOUS
  <2>3. CallTypes'
    <3>1. at' \in [Owners -> OwnerPc] /\ resume' \in [Owners -> {"idle", "init"}]
      OBVIOUS
    <3>2. bug' \in [Owners -> Bugs \cup {NoBug}] /\ private' \in Bugs \cup {NoBug}
      OBVIOUS
    <3>3. closing' \in [Owners -> BOOLEAN]
      <4>1. closing \in [Owners -> BOOLEAN] /\ TRUE \in BOOLEAN /\ FALSE \in BOOLEAN
        OBVIOUS
      <4>2. \/ closing' = closing
            \/ closing' = [closing EXCEPT ![o] = FALSE]
            \/ closing' = [closing EXCEPT ![o] = TRUE]
        OBVIOUS
      <4> QED
        BY ONLY <4>1, <4>2
    <3>4. mutex' \in [Bugs -> Owners \cup {"free", "media"}]
      OBVIOUS
    <3> QED
      BY <3>1, <3>2, <3>3, <3>4
  <2> QED
    BY <2>1, <2>2, <2>3
<1>2. ASSUME NEW o \in Owners, LockMutex(o) PROVE TypeOK'
  BY <1>2 DEF LockMutex
<1>3. ASSUME NEW o \in Owners, Verify(o) PROVE TypeOK'
  <2> USE <1>3 DEF Verify
  <2>1. PipeTypes'
    OBVIOUS
  <2>2. SetTypes'
    OBVIOUS
  <2>3. CallTypes'
    <3>1. at' \in [Owners -> OwnerPc] /\ resume' \in [Owners -> {"idle", "init"}]
      OBVIOUS
    <3>2. bug' \in [Owners -> Bugs \cup {NoBug}] /\ private' \in Bugs \cup {NoBug}
      OBVIOUS
    <3>3. closing' \in [Owners -> BOOLEAN]
      <4>1. closing \in [Owners -> BOOLEAN] /\ TRUE \in BOOLEAN /\ FALSE \in BOOLEAN
        OBVIOUS
      <4>2. \/ closing' = closing
            \/ closing' = [closing EXCEPT ![o] = FALSE]
            \/ closing' = [closing EXCEPT ![o] = TRUE]
        OBVIOUS
      <4> QED
        BY ONLY <4>1, <4>2
    <3>4. mutex' \in [Bugs -> Owners \cup {"free", "media"}]
      OBVIOUS
    <3> QED
      BY <3>1, <3>2, <3>3, <3>4
  <2> QED
    BY <2>1, <2>2, <2>3
<1>4. ASSUME NEW o \in Owners, Clear(o) PROVE TypeOK'
  BY <1>4 DEF Clear
<1>5. ASSUME NEW o \in Owners, Remove(o) PROVE TypeOK'
  <2> USE <1>5 DEF Remove
  <2>1. PipeTypes'
    OBVIOUS
  <2>2. SetTypes'
    OBVIOUS
  <2>3. CallTypes'
    <3>1. at' \in [Owners -> OwnerPc] /\ resume' \in [Owners -> {"idle", "init"}]
      OBVIOUS
    <3>2. bug' \in [Owners -> Bugs \cup {NoBug}] /\ private' \in Bugs \cup {NoBug}
      OBVIOUS
    <3>3. closing' \in [Owners -> BOOLEAN]
      <4>1. closing \in [Owners -> BOOLEAN] /\ TRUE \in BOOLEAN /\ FALSE \in BOOLEAN
        OBVIOUS
      <4>2. \/ closing' = closing
            \/ closing' = [closing EXCEPT ![o] = FALSE]
            \/ closing' = [closing EXCEPT ![o] = TRUE]
        OBVIOUS
      <4> QED
        BY ONLY <4>1, <4>2
    <3>4. mutex' \in [Bugs -> Owners \cup {"free", "media"}]
      OBVIOUS
    <3> QED
      BY <3>1, <3>2, <3>3, <3>4
  <2> QED
    BY <2>1, <2>2, <2>3
<1>6. ASSUME NEW c \in Starters, StartCommand(c) PROVE TypeOK'
  BY <1>6 DEF StartCommand
<1>7. ASSUME NEW c \in Starters, Refused(c) PROVE TypeOK'
  BY <1>7 DEF Refused
<1>8. ASSUME NEW c \in Starters, Count(c) PROVE TypeOK'
  BY <1>8 DEF Count
<1>9. ASSUME NEW c \in Starters, BugAdd(c) PROVE TypeOK'
  <2> USE <1>9 DEF BugAdd
  <2>1. PipeTypes'
    OBVIOUS
  <2>2. SetTypes'
    OBVIOUS
  <2>3. CallTypes'
    OBVIOUS
  <2> QED
    BY <2>1, <2>2, <2>3
<1>10. ASSUME NEW c \in Starters, Publish(c) PROVE TypeOK'
  <2> USE <1>10 DEF Publish
  <2>1. PipeTypes'
    OBVIOUS
  <2>2. SetTypes'
    OBVIOUS
  <2>3. CallTypes'
    OBVIOUS
  <2> QED
    BY <2>1, <2>2, <2>3
<1>11. ASSUME NEW c \in Stoppers, StopCommand(c) PROVE TypeOK'
  BY <1>11 DEF StopCommand
<1>12. CASE SessionGone
  BY <1>12 DEF SessionGone
<1>13. CASE Unload
  BY <1>13 DEF Unload
<1>14. ASSUME NEW b \in Bugs, CloseBug(b) PROVE TypeOK'
  BY <1>14 DEF CloseBug
<1> QED
  BY <1>1, <1>2, <1>3, <1>4, <1>5, <1>6, <1>7, <1>8, <1>9, <1>10, <1>11, <1>12, <1>13, <1>14 DEF Elsewhere

\* Every step of a pipe keeps the service thread consistent: the pipe whose callback it runs is in
\* the state that the callback is for, and stays in it until the callback has ended.
LEMMA ServiceKept ==
  ASSUME TypeOK, ServiceInv, \A b \in Bugs : Connection(b), PipeStep, Step
  PROVE  ServiceInv'
<1> USE DEF TypeOK, PipeTypes, SetTypes, CallTypes, ServiceInv, Connection
<1>1. CASE CollectConnects
  BY <1>1 DEF CollectConnects
<1>2. CASE CollectWrites
  BY <1>2 DEF CollectWrites
<1>3. CASE CompleteFinish
  BY <1>3 DEF CompleteFinish
<1>4. CASE Notify
  BY <1>4 DEF Notify
<1>5. CASE SetClosed
  BY <1>5 DEF SetClosed
<1>6. ASSUME NEW t \in Threads, FinishCheck(t) PROVE ServiceInv'
  BY <1>6 DEF FinishCheck
<1>7. ASSUME NEW t \in Threads, FinishFlag(t) PROVE ServiceInv'
  BY <1>7 DEF FinishFlag
<1>8. ASSUME NEW t \in Threads, FinishRecheck(t) PROVE ServiceInv'
  BY <1>8 DEF FinishRecheck
<1>9. ASSUME NEW t \in Threads, FinishExchange(t) PROVE ServiceInv'
  BY <1>9 DEF FinishExchange
<1>10. ASSUME NEW t \in Threads, BufferForSending(t) PROVE ServiceInv'
  BY <1>10 DEF BufferForSending
<1>11. ASSUME NEW t \in Threads, AddPendingWrite(t) PROVE ServiceInv'
  BY <1>11 DEF AddPendingWrite
<1>12. ASSUME NEW b \in Bugs, ConnectClient(b) PROVE ServiceInv'
  BY <1>12 DEF ConnectClient
<1>13. ASSUME NEW b \in Bugs, WriteText(b) PROVE ServiceInv'
  BY <1>13 DEF WriteText
<1>14. ASSUME NEW b \in Bugs, Established(b) PROVE ServiceInv'
  BY <1>14 DEF Established, Remaining
<1>15. ASSUME NEW b \in Bugs, ConnectionError(b) PROVE ServiceInv'
  BY <1>15 DEF ConnectionError, Remaining
<1>16. ASSUME NEW b \in Bugs, ConnectionClosed(b) PROVE ServiceInv'
  BY <1>16 DEF ConnectionClosed
<1>17. ASSUME NEW b \in Bugs, Delete(b) PROVE ServiceInv'
  BY <1>17 DEF Delete
<1> QED
  BY <1>1, <1>2, <1>3, <1>4, <1>5, <1>6, <1>7, <1>8, <1>9, <1>10, <1>11, <1>12, <1>13, <1>14, <1>15, <1>16, <1>17 DEF PipeStep, ServiceStep, HandshakeEnds, ReaperStep, FinishStep

\* A caller or the media thread does not disturb the callback that the service thread is in.
LEMMA ServiceUncalled ==
  ASSUME TypeOK, ServiceInv, GlueInv, Calls
  PROVE  ServiceInv'
<1> USE DEF TypeOK, PipeTypes, SetTypes, CallTypes, ServiceInv, GlueInv, Slots, Owner, Bug
<1>1. ASSUME NEW o \in Owners, Reap(o) PROVE ServiceInv'
  BY <1>1 DEF Reap, StartReaper
<1>2. ASSUME NEW c \in Starters, ForkDataInit(c) PROVE ServiceInv'
  BY <1>2 DEF ForkDataInit, NewPipe
<1>3. ASSUME NEW c \in Starters, Connect(c) PROVE ServiceInv'
  BY <1>3 DEF Connect, ConnectPipe
<1>4. ASSUME NEW c \in Starters, BugAddFails(c) PROVE ServiceInv'
  BY <1>4 DEF BugAddFails, StartReaper
<1>5. ASSUME NEW b \in Bugs, Frame(b) PROVE ServiceInv'
  BY <1>5 DEF Frame, LockAudioBuffer
<1>6. ASSUME NEW b \in Bugs, FrameWritten(b) PROVE ServiceInv'
  BY <1>6 DEF FrameWritten, UnlockAudioBuffer
<1>7. ASSUME NEW b \in Bugs, Uncount(b) PROVE ServiceInv'
  BY <1>7 DEF Uncount
<1> QED
  BY <1>1, <1>2, <1>3, <1>4, <1>5, <1>6, <1>7 DEF Calls

\* Every step of a pipe leaves its connection with someone who takes it further: the pending list,
\* lws, or the callback that keeps the promise.
LEMMA ConnectionKept ==
  ASSUME TypeOK, ServiceInv, \A b \in Bugs : Connection(b), PipeStep, Step, NEW q \in Bugs
  PROVE  Connection(q)'
<1> USE DEF TypeOK, PipeTypes, SetTypes, CallTypes, ServiceInv, Connection
<1>1. CASE CollectConnects
  BY <1>1 DEF CollectConnects
<1>2. CASE CollectWrites
  BY <1>2 DEF CollectWrites
<1>3. CASE CompleteFinish
  BY <1>3 DEF CompleteFinish
<1>4. CASE Notify
  BY <1>4 DEF Notify
<1>5. CASE SetClosed
  BY <1>5 DEF SetClosed
<1>6. ASSUME NEW t \in Threads, FinishCheck(t) PROVE Connection(q)'
  BY <1>6 DEF FinishCheck
<1>7. ASSUME NEW t \in Threads, FinishFlag(t) PROVE Connection(q)'
  BY <1>7 DEF FinishFlag
<1>8. ASSUME NEW t \in Threads, FinishRecheck(t) PROVE Connection(q)'
  BY <1>8 DEF FinishRecheck
<1>9. ASSUME NEW t \in Threads, FinishExchange(t) PROVE Connection(q)'
  BY <1>9 DEF FinishExchange
<1>10. ASSUME NEW t \in Threads, BufferForSending(t) PROVE Connection(q)'
  BY <1>10 DEF BufferForSending
<1>11. ASSUME NEW t \in Threads, AddPendingWrite(t) PROVE Connection(q)'
  BY <1>11 DEF AddPendingWrite
<1>12. ASSUME NEW b \in Bugs, ConnectClient(b) PROVE Connection(q)'
  BY <1>12 DEF ConnectClient
<1>13. ASSUME NEW b \in Bugs, WriteText(b) PROVE Connection(q)'
  BY <1>13 DEF WriteText
<1>14. ASSUME NEW b \in Bugs, Established(b) PROVE Connection(q)'
  BY <1>14 DEF Established, Remaining
<1>15. ASSUME NEW b \in Bugs, ConnectionError(b) PROVE Connection(q)'
  BY <1>15 DEF ConnectionError, Remaining
<1>16. ASSUME NEW b \in Bugs, ConnectionClosed(b) PROVE Connection(q)'
  BY <1>16 DEF ConnectionClosed
<1>17. ASSUME NEW b \in Bugs, Delete(b) PROVE Connection(q)'
  BY <1>17 DEF Delete
<1> QED
  BY <1>1, <1>2, <1>3, <1>4, <1>5, <1>6, <1>7, <1>8, <1>9, <1>10, <1>11, <1>12, <1>13, <1>14, <1>15, <1>16, <1>17 DEF PipeStep, ServiceStep, HandshakeEnds, ReaperStep, FinishStep

\* A caller or the media thread leaves it there too: connect() puts the pipe into the pending
\* list, and nothing else begins a connection.
LEMMA ConnectionCalled ==
  ASSUME TypeOK, ServiceInv, GlueInv, \A b \in Bugs : Connection(b), Calls, NEW q \in Bugs
  PROVE  Connection(q)'
<1> USE DEF TypeOK, PipeTypes, SetTypes, CallTypes, ServiceInv, Connection, GlueInv, Slots, Owner, Bug
<1>1. ASSUME NEW o \in Owners, Reap(o) PROVE Connection(q)'
  BY <1>1 DEF Reap, StartReaper
<1>2. ASSUME NEW c \in Starters, ForkDataInit(c) PROVE Connection(q)'
  BY <1>2 DEF ForkDataInit, NewPipe
<1>3. ASSUME NEW c \in Starters, Connect(c) PROVE Connection(q)'
  BY <1>3 DEF Connect, ConnectPipe
<1>4. ASSUME NEW c \in Starters, BugAddFails(c) PROVE Connection(q)'
  BY <1>4 DEF BugAddFails, StartReaper
<1>5. ASSUME NEW b \in Bugs, Frame(b) PROVE Connection(q)'
  BY <1>5 DEF Frame, LockAudioBuffer
<1>6. ASSUME NEW b \in Bugs, FrameWritten(b) PROVE Connection(q)'
  BY <1>6 DEF FrameWritten, UnlockAudioBuffer
<1>7. ASSUME NEW b \in Bugs, Uncount(b) PROVE Connection(q)'
  BY <1>7 DEF Uncount
<1> QED
  BY <1>1, <1>2, <1>3, <1>4, <1>5, <1>6, <1>7 DEF Calls

\* The exchange in finish() gives the CloseStream message to one of the reaper and the service
\* thread, and to it alone, whatever the pipe does.
LEMMA FinishKept ==
  ASSUME TypeOK, ServiceInv, \A b \in Bugs : Finish(b), PipeStep, Step, NEW q \in Bugs
  PROVE  Finish(q)'
<1> USE DEF TypeOK, PipeTypes, SetTypes, CallTypes, ServiceInv, Finish, Buffers, Pushes
<1>1. CASE CollectConnects
  BY <1>1 DEF CollectConnects
<1>2. CASE CollectWrites
  BY <1>2 DEF CollectWrites
<1>3. CASE CompleteFinish
  BY <1>3 DEF CompleteFinish
<1>4. CASE Notify
  BY <1>4 DEF Notify
<1>5. CASE SetClosed
  BY <1>5 DEF SetClosed
<1>6. ASSUME NEW t \in Threads, FinishCheck(t) PROVE Finish(q)'
  BY <1>6 DEF FinishCheck
<1>7. ASSUME NEW t \in Threads, FinishFlag(t) PROVE Finish(q)'
  BY <1>7 DEF FinishFlag
<1>8. ASSUME NEW t \in Threads, FinishRecheck(t) PROVE Finish(q)'
  BY <1>8 DEF FinishRecheck
<1>9. ASSUME NEW t \in Threads, FinishExchange(t) PROVE Finish(q)'
  BY <1>9 DEF FinishExchange
<1>10. ASSUME NEW t \in Threads, BufferForSending(t) PROVE Finish(q)'
  <2>1. CASE PipeOf(t) = q
    BY <1>10, <2>1 DEF BufferForSending
  <2>2. CASE PipeOf(t) # q
    <3>1. \A u \in {q, Service} : PipeOf(u)' = q => pc'[u] = pc[u] /\ PipeOf(u) = q
      BY <1>10, <2>2 DEF BufferForSending
    <3>2. text'[q] = text[q] /\ sent' = sent /\ finished' = finished /\ graceful' = graceful
      BY <1>10, <2>2 DEF BufferForSending
    <3>3. pc'[q] = pc[q]
      BY <3>1
    <3> QED
      BY <3>1, <3>2, <3>3
  <2> QED
    BY <2>1, <2>2
<1>11. ASSUME NEW t \in Threads, AddPendingWrite(t) PROVE Finish(q)'
  BY <1>11 DEF AddPendingWrite
<1>12. ASSUME NEW b \in Bugs, ConnectClient(b) PROVE Finish(q)'
  BY <1>12 DEF ConnectClient
<1>13. ASSUME NEW b \in Bugs, WriteText(b) PROVE Finish(q)'
  BY <1>13 DEF WriteText
<1>14. ASSUME NEW b \in Bugs, Established(b) PROVE Finish(q)'
  BY <1>14 DEF Established, Remaining
<1>15. ASSUME NEW b \in Bugs, ConnectionError(b) PROVE Finish(q)'
  BY <1>15 DEF ConnectionError, Remaining
<1>16. ASSUME NEW b \in Bugs, ConnectionClosed(b) PROVE Finish(q)'
  BY <1>16 DEF ConnectionClosed
<1>17. ASSUME NEW b \in Bugs, Delete(b) PROVE Finish(q)'
  BY <1>17 DEF Delete
<1> QED
  BY <1>1, <1>2, <1>3, <1>4, <1>5, <1>6, <1>7, <1>8, <1>9, <1>10, <1>11, <1>12, <1>13, <1>14, <1>15, <1>16, <1>17 DEF PipeStep, ServiceStep, HandshakeEnds, ReaperStep, FinishStep

\* A caller or the media thread sends no CloseStream message: only a reaper's start touches
\* finish(), and it is at its beginning.
LEMMA FinishCalled ==
  ASSUME TypeOK, ServiceInv, GlueInv, \A b \in Bugs : Finish(b), Calls, NEW q \in Bugs
  PROVE  Finish(q)'
<1> USE DEF TypeOK, PipeTypes, SetTypes, CallTypes, ServiceInv, Finish, Buffers, Pushes, GlueInv, Slots, Owner, Bug
<1>1. ASSUME NEW o \in Owners, Reap(o) PROVE Finish(q)'
  BY <1>1 DEF Reap, StartReaper
<1>2. ASSUME NEW c \in Starters, ForkDataInit(c) PROVE Finish(q)'
  BY <1>2 DEF ForkDataInit, NewPipe
<1>3. ASSUME NEW c \in Starters, Connect(c) PROVE Finish(q)'
  BY <1>3 DEF Connect, ConnectPipe
<1>4. ASSUME NEW c \in Starters, BugAddFails(c) PROVE Finish(q)'
  BY <1>4 DEF BugAddFails, StartReaper
<1>5. ASSUME NEW b \in Bugs, Frame(b) PROVE Finish(q)'
  BY <1>5 DEF Frame, LockAudioBuffer
<1>6. ASSUME NEW b \in Bugs, FrameWritten(b) PROVE Finish(q)'
  BY <1>6 DEF FrameWritten, UnlockAudioBuffer
<1>7. ASSUME NEW b \in Bugs, Uncount(b) PROVE Finish(q)'
  BY <1>7 DEF Uncount
<1> QED
  BY <1>1, <1>2, <1>3, <1>4, <1>5, <1>6, <1>7 DEF Calls

\* Once a reaper has asked for the end of its pipe, the request stays on its way: in the flag that
\* CLIENT_ESTABLISHED reads, in a thread that is inside finish(), in the text that is to be sent,
\* or at the far end.
LEMMA AskedKept ==
  ASSUME TypeOK, ServiceInv, \A b \in Bugs : Connection(b) /\ Finish(b) /\ Asked(b), PipeStep, Step, NEW q \in Bugs
  PROVE  Asked(q)'
<1> USE DEF TypeOK, PipeTypes, SetTypes, CallTypes, ServiceInv, Connection, Finish, Asked, Buffers, Pushes
<1>1. CASE CollectConnects
  BY <1>1 DEF CollectConnects
<1>2. CASE CollectWrites
  BY <1>2 DEF CollectWrites
<1>3. CASE CompleteFinish
  BY <1>3 DEF CompleteFinish
<1>4. CASE Notify
  BY <1>4 DEF Notify
<1>5. CASE SetClosed
  BY <1>5 DEF SetClosed
<1>6. ASSUME NEW t \in Threads, FinishCheck(t) PROVE Asked(q)'
  BY <1>6 DEF FinishCheck
<1>7. ASSUME NEW t \in Threads, FinishFlag(t) PROVE Asked(q)'
  BY <1>7 DEF FinishFlag
<1>8. ASSUME NEW t \in Threads, FinishRecheck(t) PROVE Asked(q)'
  BY <1>8 DEF FinishRecheck
<1>9. ASSUME NEW t \in Threads, FinishExchange(t) PROVE Asked(q)'
  BY <1>9 DEF FinishExchange
<1>10. ASSUME NEW t \in Threads, BufferForSending(t) PROVE Asked(q)'
  BY <1>10 DEF BufferForSending
<1>11. ASSUME NEW t \in Threads, AddPendingWrite(t) PROVE Asked(q)'
  BY <1>11 DEF AddPendingWrite
<1>12. ASSUME NEW b \in Bugs, ConnectClient(b) PROVE Asked(q)'
  BY <1>12 DEF ConnectClient
<1>13. ASSUME NEW b \in Bugs, WriteText(b) PROVE Asked(q)'
  BY <1>13 DEF WriteText
<1>14. ASSUME NEW b \in Bugs, Established(b) PROVE Asked(q)'
  <2>1. CASE q = b
    BY <1>14, <2>1 DEF Established, Remaining
  <2>2. CASE q # b
    BY <1>14, <2>2 DEF Established, Remaining
  <2> QED
    BY <1>14, <2>1, <2>2 DEF Established, Remaining
<1>15. ASSUME NEW b \in Bugs, ConnectionError(b) PROVE Asked(q)'
  BY <1>15 DEF ConnectionError, Remaining
<1>16. ASSUME NEW b \in Bugs, ConnectionClosed(b) PROVE Asked(q)'
  BY <1>16 DEF ConnectionClosed
<1>17. ASSUME NEW b \in Bugs, Delete(b) PROVE Asked(q)'
  BY <1>17 DEF Delete
<1> QED
  BY <1>1, <1>2, <1>3, <1>4, <1>5, <1>6, <1>7, <1>8, <1>9, <1>10, <1>11, <1>12, <1>13, <1>14, <1>15, <1>16, <1>17 DEF PipeStep, ServiceStep, HandshakeEnds, ReaperStep, FinishStep

\* A caller or the media thread does not take such a request back.
LEMMA AskedCalled ==
  ASSUME TypeOK, ServiceInv, GlueInv, \A b \in Bugs : Connection(b) /\ Finish(b) /\ Asked(b), Calls, NEW q \in Bugs
  PROVE  Asked(q)'
<1> USE DEF TypeOK, PipeTypes, SetTypes, CallTypes, ServiceInv, Connection, Finish, Asked, Buffers, Pushes, GlueInv, Slots, Owner, Bug
<1>1. ASSUME NEW o \in Owners, Reap(o) PROVE Asked(q)'
  BY <1>1 DEF Reap, StartReaper
<1>2. ASSUME NEW c \in Starters, ForkDataInit(c) PROVE Asked(q)'
  <2>1. PICK b \in Bugs : state[b] = "none" /\ NewPipe(b)
    BY <1>2 DEF ForkDataInit
  <2>2. UNCHANGED <<pc, graceful, finished, text, sent, net, writes, writable, current>>
    BY <2>1 DEF NewPipe
  <2>3. q # b => state'[q] = state[q]
    BY <2>1 DEF NewPipe
  <2>4. q = b => state'[q] = "idle" /\ pc[q] = "none"
    BY <2>1 DEF NewPipe
  <2> QED
    BY <2>2, <2>3, <2>4
<1>3. ASSUME NEW c \in Starters, Connect(c) PROVE Asked(q)'
  BY <1>3 DEF Connect, ConnectPipe
<1>4. ASSUME NEW c \in Starters, BugAddFails(c) PROVE Asked(q)'
  BY <1>4 DEF BugAddFails, StartReaper
<1>5. ASSUME NEW b \in Bugs, Frame(b) PROVE Asked(q)'
  BY <1>5 DEF Frame, LockAudioBuffer
<1>6. ASSUME NEW b \in Bugs, FrameWritten(b) PROVE Asked(q)'
  BY <1>6 DEF FrameWritten, UnlockAudioBuffer
<1>7. ASSUME NEW b \in Bugs, Uncount(b) PROVE Asked(q)'
  BY <1>7 DEF Uncount
<1> QED
  BY <1>1, <1>2, <1>3, <1>4, <1>5, <1>6, <1>7 DEF Calls

\* What leaves the pipes alone keeps all of this; only a start's own connect() ends its time before it.
LEMMA PipeElsewhere ==
  ASSUME TypeOK, PipeInv, Elsewhere
  PROVE  PipeInv'
<1> DEFINE Before(b) == \E o \in Owners : at[o] = "connect" /\ bug[o] = b
<1>1. UNCHANGED pipeVars /\ \A q \in Bugs : Before(q) => Before(q)'
  <2> USE DEF TypeOK, CallTypes
  <2>1. ASSUME NEW o \in Owners, Lookup(o) PROVE UNCHANGED pipeVars /\ \A q \in Bugs : Before(q) => Before(q)'
    BY <2>1 DEF Lookup
  <2>2. ASSUME NEW o \in Owners, LockMutex(o) PROVE UNCHANGED pipeVars /\ \A q \in Bugs : Before(q) => Before(q)'
    BY <2>2 DEF LockMutex
  <2>3. ASSUME NEW o \in Owners, Verify(o) PROVE UNCHANGED pipeVars /\ \A q \in Bugs : Before(q) => Before(q)'
    BY <2>3 DEF Verify
  <2>4. ASSUME NEW o \in Owners, Clear(o) PROVE UNCHANGED pipeVars /\ \A q \in Bugs : Before(q) => Before(q)'
    BY <2>4 DEF Clear
  <2>5. ASSUME NEW o \in Owners, Remove(o) PROVE UNCHANGED pipeVars /\ \A q \in Bugs : Before(q) => Before(q)'
    BY <2>5 DEF Remove
  <2>6. ASSUME NEW c \in Starters, StartCommand(c) PROVE UNCHANGED pipeVars /\ \A q \in Bugs : Before(q) => Before(q)'
    BY <2>6 DEF StartCommand
  <2>7. ASSUME NEW c \in Starters, Refused(c) PROVE UNCHANGED pipeVars /\ \A q \in Bugs : Before(q) => Before(q)'
    BY <2>7 DEF Refused
  <2>8. ASSUME NEW c \in Starters, Count(c) PROVE UNCHANGED pipeVars /\ \A q \in Bugs : Before(q) => Before(q)'
    BY <2>8 DEF Count
  <2>9. ASSUME NEW c \in Starters, BugAdd(c) PROVE UNCHANGED pipeVars /\ \A q \in Bugs : Before(q) => Before(q)'
    BY <2>9 DEF BugAdd
  <2>10. ASSUME NEW c \in Starters, Publish(c) PROVE UNCHANGED pipeVars /\ \A q \in Bugs : Before(q) => Before(q)'
    BY <2>10 DEF Publish
  <2>11. ASSUME NEW c \in Stoppers, StopCommand(c) PROVE UNCHANGED pipeVars /\ \A q \in Bugs : Before(q) => Before(q)'
    BY <2>11 DEF StopCommand
  <2>12. CASE SessionGone
    BY <2>12 DEF SessionGone
  <2>13. CASE Unload
    BY <2>13 DEF Unload
  <2>14. ASSUME NEW b \in Bugs, CloseBug(b) PROVE UNCHANGED pipeVars /\ \A q \in Bugs : Before(q) => Before(q)'
    BY <2>14 DEF CloseBug
  <2> QED
    BY <2>1, <2>2, <2>3, <2>4, <2>5, <2>6, <2>7, <2>8, <2>9, <2>10, <2>11, <2>12, <2>13, <2>14 DEF Elsewhere
<1> HIDE DEF Before
<1>2. ServiceInv'
  BY <1>1 DEF PipeInv, ServiceInv
<1>3. ASSUME NEW q \in Bugs PROVE Connection(q)'
  <2>1. Connection(q)
    BY DEF PipeInv
  <2>2. (\E o \in Owners : at[o] = "connect" /\ bug[o] = q) => (\E o \in Owners : at[o] = "connect" /\ bug[o] = q)'
    BY <1>1 DEF Before
  <2> QED
    BY <1>1, <2>1, <2>2 DEF Connection
<1>4. ASSUME NEW q \in Bugs PROVE Finish(q)' /\ Asked(q)'
  BY <1>1 DEF PipeInv, Finish, Asked, Buffers, Pushes
<1> QED
  BY <1>2, <1>3, <1>4 DEF PipeInv

\* What the pipe does of itself is nothing to the bugs and their owners, who look only at whether
\* a pipe was made, whether its start has connected it and whether it has a reaper.
LEMMA GlueUnderPipe ==
  ASSUME TypeOK, PipeInv, GlueInv, PipeStep, Step
  PROVE  GlueInv'
<1>1. ASSUME NEW q \in Bugs
      PROVE  /\ state'[q] = "none" <=> state[q] = "none"
             /\ pc'[q] = "none" <=> pc[q] = "none"
             /\ state[q] = "idle" /\ q \notin connects => state'[q] = "idle" /\ q \notin connects'
  <2> DEFINE G == /\ state'[q] = "none" <=> state[q] = "none"
                  /\ pc'[q] = "none" <=> pc[q] = "none"
                  /\ state[q] = "idle" /\ q \notin connects => state'[q] = "idle" /\ q \notin connects'
  <2> USE DEF TypeOK, PipeTypes, PipeInv, ServiceInv, Connection
  <2>1. CASE CollectConnects
    BY <2>1 DEF CollectConnects
  <2>2. CASE CollectWrites
    BY <2>2 DEF CollectWrites
  <2>3. CASE CompleteFinish
    BY <2>3 DEF CompleteFinish
  <2>4. CASE Notify
    BY <2>4 DEF Notify
  <2>5. CASE SetClosed
    BY <2>5 DEF SetClosed
  <2>6. ASSUME NEW t \in Threads, FinishCheck(t) PROVE G
    BY <2>6 DEF FinishCheck
  <2>7. ASSUME NEW t \in Threads, FinishFlag(t) PROVE G
    BY <2>7 DEF FinishFlag
  <2>8. ASSUME NEW t \in Threads, FinishRecheck(t) PROVE G
    BY <2>8 DEF FinishRecheck
  <2>9. ASSUME NEW t \in Threads, FinishExchange(t) PROVE G
    BY <2>9 DEF FinishExchange
  <2>10. ASSUME NEW t \in Threads, BufferForSending(t) PROVE G
    BY <2>10 DEF BufferForSending
  <2>11. ASSUME NEW t \in Threads, AddPendingWrite(t) PROVE G
    BY <2>11 DEF AddPendingWrite
  <2>12. ASSUME NEW b \in Bugs, ConnectClient(b) PROVE G
    BY <2>12 DEF ConnectClient
  <2>13. ASSUME NEW b \in Bugs, WriteText(b) PROVE G
    BY <2>13 DEF WriteText
  <2>14. ASSUME NEW b \in Bugs, Established(b) PROVE G
    BY <2>14 DEF Established, Remaining
  <2>15. ASSUME NEW b \in Bugs, ConnectionError(b) PROVE G
    BY <2>15 DEF ConnectionError, Remaining
  <2>16. ASSUME NEW b \in Bugs, ConnectionClosed(b) PROVE G
    BY <2>16 DEF ConnectionClosed
  <2>17. ASSUME NEW b \in Bugs, Delete(b) PROVE G
    BY <2>17 DEF Delete
  <2> QED
    BY <2>1, <2>2, <2>3, <2>4, <2>5, <2>6, <2>7, <2>8, <2>9, <2>10, <2>11, <2>12, <2>13, <2>14, <2>15, <2>16, <2>17 DEF PipeStep, ServiceStep, HandshakeEnds, ReaperStep, FinishStep
<1>2. UNCHANGED <<at, bug, private, attached, holds, raced, mutex>>
  OBVIOUS
<1>3. audioLock' = audioLock
  BY DEF PipeStep, ServiceStep, HandshakeEnds, ReaperStep, FinishStep, CollectConnects, CollectWrites,
         CompleteFinish, Notify, SetClosed, FinishCheck, FinishFlag, FinishRecheck, FinishExchange,
         BufferForSending, AddPendingWrite, ConnectClient, WriteText, Established, ConnectionError,
         ConnectionClosed, Delete
<1>4. ASSUME NEW q \in Bugs PROVE Bug(q)' /\ (q \in holds \ raced => InGoodHands(q))'
  BY <1>1, <1>2 DEF GlueInv, Slots, Bug, InGoodHands
<1>5. ASSUME NEW o \in Owners PROVE Owner(o)'
  <2>1. Owner(o) /\ (Starting(o) => bug[o] \in Bugs)
    BY DEF GlueInv, Slots, Owner, TypeOK, SetTypes
  <2> QED
    BY <1>1, <1>2, <2>1 DEF Owner
<1> QED
  BY <1>2, <1>3, <1>4, <1>5 DEF GlueInv, Slots

\* The published bug holds its pipe, since a caller clears the private before it starts a reaper;
LEMMA PrivateCalled ==
  ASSUME TypeOK, PipeInv, GlueInv, Calls
  PROVE  Slots'
<1> USE DEF TypeOK, PipeTypes, SetTypes, CallTypes, PipeInv, Connection, GlueInv, Slots, Bug, Owner
<1>1. ASSUME NEW o \in Owners, Reap(o) PROVE Slots'
  BY <1>1 DEF Reap, StartReaper
<1>2. ASSUME NEW c \in Starters, ForkDataInit(c) PROVE Slots'
  BY <1>2 DEF ForkDataInit, NewPipe
<1>3. ASSUME NEW c \in Starters, Connect(c) PROVE Slots'
  BY <1>3 DEF Connect, ConnectPipe
<1>4. ASSUME NEW c \in Starters, BugAddFails(c) PROVE Slots'
  BY <1>4 DEF BugAddFails, StartReaper
<1>5. ASSUME NEW b \in Bugs, Frame(b) PROVE Slots'
  BY <1>5 DEF Frame, LockAudioBuffer
<1>6. ASSUME NEW b \in Bugs, FrameWritten(b) PROVE Slots'
  BY <1>6 DEF FrameWritten, UnlockAudioBuffer
<1>7. ASSUME NEW b \in Bugs, Uncount(b) PROVE Slots'
  BY <1>7 DEF Uncount
<1> QED
  BY <1>1, <1>2, <1>3, <1>4, <1>5, <1>6, <1>7 DEF Calls

\* and since no other step of the glue releases a pipe.
LEMMA PrivateElsewhere ==
  ASSUME TypeOK, GlueInv, Elsewhere
  PROVE  Slots'
<1> USE DEF TypeOK, PipeTypes, SetTypes, CallTypes, GlueInv, Slots, Bug, Owner
<1>1. ASSUME NEW o \in Owners, Lookup(o) PROVE Slots'
  BY <1>1 DEF Lookup
<1>2. ASSUME NEW o \in Owners, LockMutex(o) PROVE Slots'
  BY <1>2 DEF LockMutex
<1>3. ASSUME NEW o \in Owners, Verify(o) PROVE Slots'
  BY <1>3 DEF Verify
<1>4. ASSUME NEW o \in Owners, Clear(o) PROVE Slots'
  BY <1>4 DEF Clear
<1>5. ASSUME NEW o \in Owners, Remove(o) PROVE Slots'
  BY <1>5 DEF Remove
<1>6. ASSUME NEW c \in Starters, StartCommand(c) PROVE Slots'
  BY <1>6 DEF StartCommand
<1>7. ASSUME NEW c \in Starters, Refused(c) PROVE Slots'
  BY <1>7 DEF Refused
<1>8. ASSUME NEW c \in Starters, Count(c) PROVE Slots'
  BY <1>8 DEF Count
<1>9. ASSUME NEW c \in Starters, BugAdd(c) PROVE Slots'
  BY <1>9 DEF BugAdd
<1>10. ASSUME NEW c \in Starters, Publish(c) PROVE Slots'
  BY <1>10 DEF Publish
<1>11. ASSUME NEW c \in Stoppers, StopCommand(c) PROVE Slots'
  BY <1>11 DEF StopCommand
<1>12. CASE SessionGone
  BY <1>12 DEF SessionGone
<1>13. CASE Unload
  BY <1>13 DEF Unload
<1>14. ASSUME NEW b \in Bugs, CloseBug(b) PROVE Slots'
  BY <1>14 DEF CloseBug
<1> QED
  BY <1>1, <1>2, <1>3, <1>4, <1>5, <1>6, <1>7, <1>8, <1>9, <1>10, <1>11, <1>12, <1>13, <1>14 DEF Elsewhere

\* A bug holds its pipe until its reaper is started, and one that is not yet used is unknown to
\* every thread: through the calls,
LEMMA BugCalled ==
  ASSUME TypeOK, PipeInv, GlueInv, Calls, NEW q \in Bugs
  PROVE  Bug(q)'
<1> USE DEF TypeOK, PipeTypes, SetTypes, CallTypes, PipeInv, Connection, GlueInv, Slots, Bug, Owner
<1>1. ASSUME NEW o \in Owners, Reap(o) PROVE Bug(q)'
  BY <1>1 DEF Reap, StartReaper
<1>2. ASSUME NEW c \in Starters, ForkDataInit(c) PROVE Bug(q)'
  BY <1>2 DEF ForkDataInit, NewPipe
<1>3. ASSUME NEW c \in Starters, Connect(c) PROVE Bug(q)'
  BY <1>3 DEF Connect, ConnectPipe
<1>4. ASSUME NEW c \in Starters, BugAddFails(c) PROVE Bug(q)'
  BY <1>4 DEF BugAddFails, StartReaper
<1>5. ASSUME NEW b \in Bugs, Frame(b) PROVE Bug(q)'
  BY <1>5 DEF Frame, LockAudioBuffer
<1>6. ASSUME NEW b \in Bugs, FrameWritten(b) PROVE Bug(q)'
  BY <1>6 DEF FrameWritten, UnlockAudioBuffer
<1>7. ASSUME NEW b \in Bugs, Uncount(b) PROVE Bug(q)'
  BY <1>7 DEF Uncount
<1> QED
  BY <1>1, <1>2, <1>3, <1>4, <1>5, <1>6, <1>7 DEF Calls

\* and through the other steps of the glue.
LEMMA BugElsewhere ==
  ASSUME TypeOK, GlueInv, Elsewhere, NEW q \in Bugs
  PROVE  Bug(q)'
<1> USE DEF TypeOK, PipeTypes, SetTypes, CallTypes, GlueInv, Slots, Bug, Owner
<1>1. ASSUME NEW o \in Owners, Lookup(o) PROVE Bug(q)'
  BY <1>1 DEF Lookup
<1>2. ASSUME NEW o \in Owners, LockMutex(o) PROVE Bug(q)'
  BY <1>2 DEF LockMutex
<1>3. ASSUME NEW o \in Owners, Verify(o) PROVE Bug(q)'
  BY <1>3 DEF Verify
<1>4. ASSUME NEW o \in Owners, Clear(o) PROVE Bug(q)'
  BY <1>4 DEF Clear
<1>5. ASSUME NEW o \in Owners, Remove(o) PROVE Bug(q)'
  BY <1>5 DEF Remove
<1>6. ASSUME NEW c \in Starters, StartCommand(c) PROVE Bug(q)'
  BY <1>6 DEF StartCommand
<1>7. ASSUME NEW c \in Starters, Refused(c) PROVE Bug(q)'
  BY <1>7 DEF Refused
<1>8. ASSUME NEW c \in Starters, Count(c) PROVE Bug(q)'
  BY <1>8 DEF Count
<1>9. ASSUME NEW c \in Starters, BugAdd(c) PROVE Bug(q)'
  BY <1>9 DEF BugAdd
<1>10. ASSUME NEW c \in Starters, Publish(c) PROVE Bug(q)'
  BY <1>10 DEF Publish
<1>11. ASSUME NEW c \in Stoppers, StopCommand(c) PROVE Bug(q)'
  BY <1>11 DEF StopCommand
<1>12. CASE SessionGone
  BY <1>12 DEF SessionGone
<1>13. CASE Unload
  BY <1>13 DEF Unload
<1>14. ASSUME NEW b \in Bugs, CloseBug(b) PROVE Bug(q)'
  BY <1>14 DEF CloseBug
<1> QED
  BY <1>1, <1>2, <1>3, <1>4, <1>5, <1>6, <1>7, <1>8, <1>9, <1>10, <1>11, <1>12, <1>13, <1>14 DEF Elsewhere

\* A start keeps its bug to itself until it publishes it, and a stop that has cleared the private
\* has its bug no longer published: through the calls,
LEMMA OwnerCalled ==
  ASSUME TypeOK, PipeInv, GlueInv, Calls, NEW p \in Owners
  PROVE  Owner(p)'
<1> USE DEF TypeOK, PipeTypes, SetTypes, CallTypes, PipeInv, Connection, GlueInv, Slots, Bug, Owner
<1>1. ASSUME NEW o \in Owners, Reap(o) PROVE Owner(p)'
  BY <1>1 DEF Reap, StartReaper
<1>2. ASSUME NEW c \in Starters, ForkDataInit(c) PROVE Owner(p)'
  BY <1>2 DEF ForkDataInit, NewPipe
<1>3. ASSUME NEW c \in Starters, Connect(c) PROVE Owner(p)'
  BY <1>3 DEF Connect, ConnectPipe
<1>4. ASSUME NEW c \in Starters, BugAddFails(c) PROVE Owner(p)'
  BY <1>4 DEF BugAddFails, StartReaper
<1>5. ASSUME NEW b \in Bugs, Frame(b) PROVE Owner(p)'
  BY <1>5 DEF Frame, LockAudioBuffer
<1>6. ASSUME NEW b \in Bugs, FrameWritten(b) PROVE Owner(p)'
  BY <1>6 DEF FrameWritten, UnlockAudioBuffer
<1>7. ASSUME NEW b \in Bugs, Uncount(b) PROVE Owner(p)'
  BY <1>7 DEF Uncount
<1> QED
  BY <1>1, <1>2, <1>3, <1>4, <1>5, <1>6, <1>7 DEF Calls

\* and through the other steps of the glue.
LEMMA OwnerElsewhere ==
  ASSUME TypeOK, GlueInv, Elsewhere, NEW p \in Owners
  PROVE  Owner(p)'
<1> USE DEF TypeOK, PipeTypes, SetTypes, CallTypes, GlueInv, Slots, Bug, Owner
<1>1. ASSUME NEW o \in Owners, Lookup(o) PROVE Owner(p)'
  BY <1>1 DEF Lookup
<1>2. ASSUME NEW o \in Owners, LockMutex(o) PROVE Owner(p)'
  BY <1>2 DEF LockMutex
<1>3. ASSUME NEW o \in Owners, Verify(o) PROVE Owner(p)'
  BY <1>3 DEF Verify
<1>4. ASSUME NEW o \in Owners, Clear(o) PROVE Owner(p)'
  BY <1>4 DEF Clear
<1>5. ASSUME NEW o \in Owners, Remove(o) PROVE Owner(p)'
  BY <1>5 DEF Remove
<1>6. ASSUME NEW c \in Starters, StartCommand(c) PROVE Owner(p)'
  BY <1>6 DEF StartCommand
<1>7. ASSUME NEW c \in Starters, Refused(c) PROVE Owner(p)'
  BY <1>7 DEF Refused
<1>8. ASSUME NEW c \in Starters, Count(c) PROVE Owner(p)'
  BY <1>8 DEF Count
<1>9. ASSUME NEW c \in Starters, BugAdd(c) PROVE Owner(p)'
  BY <1>9 DEF BugAdd
<1>10. ASSUME NEW c \in Starters, Publish(c) PROVE Owner(p)'
  BY <1>10 DEF Publish
<1>11. ASSUME NEW c \in Stoppers, StopCommand(c) PROVE Owner(p)'
  BY <1>11 DEF StopCommand
<1>12. CASE SessionGone
  BY <1>12 DEF SessionGone
<1>13. CASE Unload
  BY <1>13 DEF Unload
<1>14. ASSUME NEW b \in Bugs, CloseBug(b) PROVE Owner(p)'
  BY <1>14 DEF CloseBug
<1> QED
  BY <1>1, <1>2, <1>3, <1>4, <1>5, <1>6, <1>7, <1>8, <1>9, <1>10, <1>11, <1>12, <1>13, <1>14 DEF Elsewhere

\* A bug that was not raced for stays in the hands of its start, of the stop that took it, or on
\* the channel: through the calls,
LEMMA HandsCalled ==
  ASSUME TypeOK, PipeInv, GlueInv, Calls, NEW q \in Bugs
  PROVE  (q \in holds \ raced => InGoodHands(q))'
<1> USE DEF TypeOK, PipeTypes, SetTypes, CallTypes, PipeInv, Connection, GlueInv, Slots, Bug, Owner, InGoodHands
<1>1. ASSUME NEW o \in Owners, Reap(o) PROVE (q \in holds \ raced => InGoodHands(q))'
  BY <1>1 DEF Reap, StartReaper
<1>2. ASSUME NEW c \in Starters, ForkDataInit(c) PROVE (q \in holds \ raced => InGoodHands(q))'
  BY <1>2 DEF ForkDataInit, NewPipe
<1>3. ASSUME NEW c \in Starters, Connect(c) PROVE (q \in holds \ raced => InGoodHands(q))'
  BY <1>3 DEF Connect, ConnectPipe
<1>4. ASSUME NEW c \in Starters, BugAddFails(c) PROVE (q \in holds \ raced => InGoodHands(q))'
  BY <1>4 DEF BugAddFails, StartReaper
<1>5. ASSUME NEW b \in Bugs, Frame(b) PROVE (q \in holds \ raced => InGoodHands(q))'
  BY <1>5 DEF Frame, LockAudioBuffer
<1>6. ASSUME NEW b \in Bugs, FrameWritten(b) PROVE (q \in holds \ raced => InGoodHands(q))'
  BY <1>6 DEF FrameWritten, UnlockAudioBuffer
<1>7. ASSUME NEW b \in Bugs, Uncount(b) PROVE (q \in holds \ raced => InGoodHands(q))'
  BY <1>7 DEF Uncount
<1> QED
  BY <1>1, <1>2, <1>3, <1>4, <1>5, <1>6, <1>7 DEF Calls

\* and through the other steps of the glue.
LEMMA HandsElsewhere ==
  ASSUME TypeOK, GlueInv, Elsewhere, NEW q \in Bugs
  PROVE  (q \in holds \ raced => InGoodHands(q))'
<1> USE DEF TypeOK, PipeTypes, SetTypes, CallTypes, GlueInv, Slots, Bug, Owner, InGoodHands
<1>1. ASSUME NEW o \in Owners, Lookup(o) PROVE (q \in holds \ raced => InGoodHands(q))'
  BY <1>1 DEF Lookup
<1>2. ASSUME NEW o \in Owners, LockMutex(o) PROVE (q \in holds \ raced => InGoodHands(q))'
  BY <1>2 DEF LockMutex
<1>3. ASSUME NEW o \in Owners, Verify(o) PROVE (q \in holds \ raced => InGoodHands(q))'
  BY <1>3 DEF Verify
<1>4. ASSUME NEW o \in Owners, Clear(o) PROVE (q \in holds \ raced => InGoodHands(q))'
  BY <1>4 DEF Clear
<1>5. ASSUME NEW o \in Owners, Remove(o) PROVE (q \in holds \ raced => InGoodHands(q))'
  BY <1>5 DEF Remove
<1>6. ASSUME NEW c \in Starters, StartCommand(c) PROVE (q \in holds \ raced => InGoodHands(q))'
  BY <1>6 DEF StartCommand
<1>7. ASSUME NEW c \in Starters, Refused(c) PROVE (q \in holds \ raced => InGoodHands(q))'
  BY <1>7 DEF Refused
<1>8. ASSUME NEW c \in Starters, Count(c) PROVE (q \in holds \ raced => InGoodHands(q))'
  BY <1>8 DEF Count
<1>9. ASSUME NEW c \in Starters, BugAdd(c) PROVE (q \in holds \ raced => InGoodHands(q))'
  BY <1>9 DEF BugAdd
<1>10. ASSUME NEW c \in Starters, Publish(c) PROVE (q \in holds \ raced => InGoodHands(q))'
  BY <1>10 DEF Publish
<1>11. ASSUME NEW c \in Stoppers, StopCommand(c) PROVE (q \in holds \ raced => InGoodHands(q))'
  BY <1>11 DEF StopCommand
<1>12. CASE SessionGone
  BY <1>12 DEF SessionGone
<1>13. CASE Unload
  BY <1>13 DEF Unload
<1>14. ASSUME NEW b \in Bugs, CloseBug(b) PROVE (q \in holds \ raced => InGoodHands(q))'
  BY <1>14 DEF CloseBug
<1> QED
  BY <1>1, <1>2, <1>3, <1>4, <1>5, <1>6, <1>7, <1>8, <1>9, <1>10, <1>11, <1>12, <1>13, <1>14 DEF Elsewhere

-----------------------------------------------------------------------------
(* The theorems.                                                           *)

\* Before the first command there are no pipes, and the service thread is between two polls.
LEMMA InitHolds == Init => IInv
<1> SUFFICES ASSUME Init PROVE IInv
  OBVIOUS
<1> USE DEF Init, PipeInit
<1>1. TypeOK
  BY DEF TypeOK, PipeTypes, SetTypes, CallTypes
<1>2. PipeInv
  BY DEF PipeInv, ServiceInv, Connection, Finish, Asked, Buffers, Pushes
<1>3. GlueInv
  BY DEF GlueInv, Slots, Bug, Owner
<1> QED
  BY <1>1, <1>2, <1>3 DEF IInv

\* Every step keeps the invariant: the steps of the pipes disturb no part that is about the glue,
\* and those of the glue none that is about the connection.
LEMMA StepHolds == IInv /\ [Next]_vars => IInv'
<1> SUFFICES ASSUME IInv, [Next]_vars PROVE IInv'
  OBVIOUS
<1> USE DEF IInv
<1>1. CASE PipeStep /\ Step
  <2>1. TypeOK' /\ ServiceInv' /\ GlueInv'
    BY <1>1, PipeTypesKept, ServiceKept, GlueUnderPipe DEF PipeInv
  <2>2. ASSUME NEW q \in Bugs PROVE Connection(q)' /\ Finish(q)' /\ Asked(q)'
    BY <1>1, ConnectionKept, FinishKept, AskedKept DEF PipeInv
  <2> QED
    BY <2>1, <2>2 DEF PipeInv
<1>2. CASE Calls
  <2>1. TypeOK' /\ ServiceInv' /\ Slots'
    BY <1>2, CallTypesKept, ServiceUncalled, PrivateCalled DEF PipeInv
  <2>2. ASSUME NEW q \in Bugs PROVE Connection(q)' /\ Finish(q)' /\ Asked(q)'
    BY <1>2, ConnectionCalled, FinishCalled, AskedCalled DEF PipeInv
  <2>3. ASSUME NEW q \in Bugs PROVE Bug(q)' /\ (q \in holds \ raced => InGoodHands(q))'
    BY <1>2, BugCalled, HandsCalled
  <2>4. ASSUME NEW o \in Owners PROVE Owner(o)'
    BY <1>2, OwnerCalled
  <2> QED
    BY <2>1, <2>2, <2>3, <2>4 DEF PipeInv, GlueInv, Slots
<1>3. CASE Elsewhere
  <2>1. TypeOK' /\ PipeInv' /\ Slots'
    BY <1>3, OtherTypesKept, PipeElsewhere, PrivateElsewhere
  <2>2. ASSUME NEW q \in Bugs PROVE Bug(q)' /\ (q \in holds \ raced => InGoodHands(q))'
    BY <1>3, BugElsewhere, HandsElsewhere
  <2>3. ASSUME NEW o \in Owners PROVE Owner(o)'
    BY <1>3, OwnerElsewhere
  <2> QED
    BY <2>1, <2>2, <2>3 DEF GlueInv, Slots
<1>4. CASE UNCHANGED vars
  <2> USE <1>4 DEF vars
  <2>1. TypeOK'
    BY DEF TypeOK, PipeTypes, SetTypes, CallTypes
  <2>2. PipeInv'
    BY DEF PipeInv, ServiceInv, Connection, Finish, Asked, Buffers, Pushes
  <2>3. GlueInv'
    BY DEF GlueInv, Slots, Bug, Owner, InGoodHands
  <2> QED
    BY <2>1, <2>2, <2>3
<1> QED
  BY <1>1, <1>2, <1>3, <1>4 DEF Next, OwnerStep, StartStep, Calls, Elsewhere

\* Every state of the glue and its pipes satisfies the invariant, for any number of bugs and of
\* threads that start and stop.
THEOREM Inductive == Spec => []IInv
  BY InitHolds, StepHolds, PTL DEF Spec

\* The variables stay in their types, and each reaper, owner and the service thread in its own
\* program.
THEOREM TypeCorrect == Spec => []TypeOK
<1>1. IInv => TypeOK
  BY DEF IInv
<1> QED
  BY <1>1, Inductive, PTL

\* CloseStream goes out once and not before it is asked for, whichever of the reaper's finish()
\* and CLIENT_ESTABLISHED's comes first, for any number of pipes.
THEOREM FinishIsOnce == Spec => []FinishOnce
<1>1. ASSUME IInv, NEW b \in Bugs
      PROVE  sent[b] + text[b] <= IF pc[b] = "none" THEN 0 ELSE 1
  <2>1. Finish(b)
    BY <1>1 DEF IInv, PipeInv
  <2>2. CASE pc[b] = "none"
    <3>1. sent[b] + text[b] = 0
      BY <2>1, <2>2 DEF Finish
    <3> QED
      BY <2>2, <3>1
  <2>3. CASE pc[b] # "none"
    BY <2>1, <2>3 DEF Finish
  <2> QED
    BY <2>2, <2>3
<1>2. IInv => FinishOnce
  BY <1>1 DEF FinishOnce
<1> QED
  BY <1>2, Inductive, PTL

\* A reaper that waits for its promise waits for something that is on its way.
THEOREM ReaperIsNotStranded == Spec => []NoStrandedReaper
<1>1. ASSUME IInv, NEW b \in Bugs, pc[b] = "wait", b \notin closed, current # b
      PROVE  \/ state[b] = "idle" /\ b \in connects \cap graceful
             \/ state[b] = "connecting" /\ b \in graceful /\ (b \in adopting \/ net[b] = "handshake")
             \/ text[b] > 0 /\ b \in writes \cup writable
             \/ sent[b] > 0 \/ net[b] = "broken"
  <2>1. Connection(b) /\ Asked(b) /\ state[b] \in PipeState
    BY <1>1 DEF IInv, TypeOK, PipeTypes, PipeInv
  <2>2. CASE state[b] \in {"none", "idle"}
    <3>1. b \notin holds /\ (state[b] = "none" => pc[b] = "none")
      BY <1>1 DEF IInv, GlueInv, Slots, Bug
    <3>2. ~ \E o \in Owners : at[o] = "connect" /\ bug[o] = b
      BY <1>1, <3>1 DEF IInv, GlueInv, Slots, Owner
    <3> QED
      BY <1>1, <2>1, <2>2, <3>1, <3>2 DEF Connection, Asked
  <2>3. CASE state[b] = "connecting"
    BY <1>1, <2>1, <2>3 DEF Connection, Asked
  <2>4. CASE state[b] = "connected"
    BY <1>1, <2>1, <2>4 DEF Asked, Buffers, Pushes
  <2>5. CASE state[b] \in {"failed", "disconnected", "deleted"}
    BY <1>1, <2>1, <2>5 DEF Connection
  <2> QED
    BY <2>1, <2>2, <2>3, <2>4, <2>5
<1>2. IInv => NoStrandedReaper
  BY <1>1 DEF NoStrandedReaper
<1> QED
  BY <1>2, Inductive, PTL

\* The bug that is published has its pipe, which was not asked to finish, and is attached, but
\* for the hangup on its way and for races at its publication.
THEOREM PublishedIsAlwaysLive == Spec => []PublishedIsLive
<1>1. ASSUME IInv, private # NoBug
      PROVE  /\ private \in holds /\ private \notin graceful \cup finished
             /\ private \in attached \cup raced \/ HangupTakes(private)
  <2>1. private \in Bugs /\ private \in holds
    BY <1>1 DEF IInv, TypeOK, CallTypes, GlueInv, Slots
  <2>2. pc[private] = "none" /\ private \notin graceful \cup finished
    BY <1>1, <2>1 DEF IInv, PipeInv, GlueInv, Bug, Finish
  <2>3. ASSUME private \notin raced
        PROVE  private \in attached \/ HangupTakes(private)
    <3>1. InGoodHands(private)
      BY <1>1, <2>1, <2>3 DEF IInv, GlueInv
    <3>2. ~(\E o \in Owners : bug[o] = private /\ (Starting(o) \/ at[o] = "reap"))
      BY <1>1 DEF IInv, GlueInv, Owner
    <3> QED
      BY <3>1, <3>2 DEF InGoodHands, HangupTakes
  <2> QED
    BY <2>1, <2>2, <2>3
<1>2. IInv => PublishedIsLive
  BY <1>1 DEF PublishedIsLive
<1> QED
  BY <1>2, Inductive, PTL

\* After the call every pipe was given to its reaper, but those of three kinds of bugs: two
\* published one over the other, one that the hangup had closed before it was published, and
\* one that was published when the stop of such a bug cleared the private.
THEOREM NothingIsLeft == Spec => []NothingLeft
<1>1. IInv => NothingLeft
  BY DEF IInv, GlueInv, Slots, InGoodHands, TypeOK, SetTypes, NothingLeft
<1> QED
  BY <1>1, Inductive, PTL
=============================================================================
