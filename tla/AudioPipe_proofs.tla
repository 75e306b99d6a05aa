--------------------------- MODULE AudioPipe_proofs ---------------------------
(***************************************************************************)
(* What is proved of AudioPipe for every set of pipes: an inductive        *)
(* invariant IInv, and from it the type invariant, the safety invariants   *)
(* and the order of the connection events.                                 *)
(*                                                                         *)
(* None of the invariants is inductive by itself.  That a close() is never *)
(* stranded, say, needs to know where m_state can be while the reaper is at*)
(* each of its steps; that nothing is used after it is freed needs to know *)
(* that the promise is fulfilled by the last callback of a pipe.  So IInv  *)
(* says, for one pipe, what its owner, its user, its reaper, the service   *)
(* thread and m_state know of each other.                                  *)
(*                                                                         *)
(* After that come the three buffers of raw memory.  They share no state   *)
(* with the pipes or with each other; each has its part of this module.    *)
(*                                                                         *)
(* RecvBuffer, for every cap, growth and piece length with                 *)
(* MaxPiece <= Grow: the conjunction of its invariants is inductive.       *)
(*                                                                         *)
(* FrameBuffer, for every length of the buffer and of a packet: the bounds *)
(* need two facts more: available is the free space while fork_frame holds *)
(* the mutex, and every offset is a whole number of sample frames after    *)
(* LWS_PRE.                                                                *)
(*                                                                         *)
(* SimpleBuffer, for every number of slots: the cursors and the count      *)
(* agree, and the ring implements ChunkQueue, a queue that forgets its     *)
(* oldest chunk.                                                           *)
(***************************************************************************)
EXTENDS AudioPipe, RecvBuffer, FrameBuffer, SimpleBuffer, SequenceTheorems, TLAPS

\* The user is inside an operation that needs tech_pvt->mutex ...
Operating == {"text", "audio", "push", "wake", "audioPush", "audioWake",
              "gracefulFlag", "gracefulRecheck"}
\* ... or has not yet got to connect()'s push, or to its failure.
Fresh == {"new", "connect", "noContext"}
Unlinking == {"unlinkConnects", "unlinkDisconnects", "unlinkWrites", "free", "done"}
AtEstablished == {"estClose", "estGraceful", "estNotify"}
Closing == {"wrText", "wrRest", "cls1", "cls2", "clsState"}
OpenStates == {"CONNECTED", "DISCONNECTING"}

\* Who owns the pipe, and what that thread may be doing.
Owner(p) ==
  /\ own[p] = "unborn" => upc[p] = "new" /\ rpc[p] = "none"
  /\ own[p] = "user" => rpc[p] = "none"
  /\ own[p] = "reaper" => rpc[p] \notin {"none", "done"} /\ upc[p] # "new"
  /\ own[p] = "freed" => \/ rpc[p] = "none" /\ upc[p] = "new"
                         \/ rpc[p] = "done" /\ upc[p] # "new"
  /\ upc[p] \in Operating => own[p] = "user"
  /\ closePending[p] => own[p] \notin {"unborn", "user"}

\* What a user knows that has not connected yet, or failed to; what it knows when it
\* queues a write.
User(p) ==
  /\ upc[p] \in Fresh => state[p] = "IDLE" /\ p \notin connects
  /\ upc[p] \in {"noContextNotify", "noContextSignal"} =>
       state[p] = "FAILED" /\ ~vhd[p] /\ ~signaled[p] /\ p \notin connects
  /\ upc[p] = "noContextNotify" => note[p] = "none"
  /\ upc[p] = "noContextSignal" => note[p] = "fail"
  /\ upc[p] \in Operating \ {"gracefulFlag", "gracefulRecheck"} => vhd[p]
  /\ ~vhd[p] => p \notin disconnects \cup writes

\* What the reaper knows at each of its steps.
Reaper(p) ==
  /\ rpc[p] = "recheck" => closePending[p]
  /\ rpc[p] = "cas" => state[p] \in OpenStates \cup {"DISCONNECTED"}
  /\ rpc[p] \in {"push", "wake"} => state[p] \in {"DISCONNECTING", "DISCONNECTED"}
  /\ rpc[p] = "wait" /\ state[p] \in {"IDLE", "CONNECTING"} => closePending[p]
  /\ rpc[p] \in Unlinking => signaled[p]
  /\ rpc[p] \in Unlinking \ {"unlinkConnects"} => p \notin connects
  /\ rpc[p] \in {"unlinkWrites", "free", "done"} => p \notin disconnects
  /\ rpc[p] \in {"free", "done"} => p \notin writes

\* What the service thread knows of the pipe whose callback it runs.
Callback(p) == cur = p =>
  /\ vhd[p] /\ ~signaled[p] /\ p \notin todo
  /\ spc \in {"fail", "failNotify", "failSignal"} => wsi[p] = "none"
  /\ spc \in {"error", "errorNotify", "errorSignal"} => wsi[p] = "freed"
  /\ spc \in {"fail", "error"} => state[p] = "CONNECTING"
  /\ spc \in {"failNotify", "errorNotify"} => state[p] = "FAILED" /\ note[p] = "none"
  /\ spc \in {"failSignal", "errorSignal"} => state[p] = "FAILED" /\ note[p] = "fail"
  /\ spc \in AtEstablished => state[p] \in OpenStates /\ note[p] = "none"
  /\ spc \in Closing => state[p] \in OpenStates
  /\ spc \in Closing \ {"clsState"} => note[p] = "success"
  /\ spc = "clsSignal" => state[p] = "DISCONNECTED" /\ wsi[p] = "open"
  /\ spc \in {"clsState", "clsSignal"} /\ own[p] = "user" => note[p] = "dropped"

\* What it knows of the pipes it remembered.
Todo(p) == p \in todo =>
  /\ spc \in Connecting \cup {"disconnect", "write"}
  /\ spc \in Connecting => /\ state[p] = "CONNECTING" /\ wsi[p] = "none" /\ ~vhd[p]
                           /\ p \in connects
  /\ spc \in {"disconnect", "write"} => state[p] \in OpenStates

\* What each value of m_state says about the rest of the pipe.
Idle(p) == state[p] = "IDLE" =>
  /\ ~vhd[p] /\ wsi[p] = "none" /\ ~signaled[p] /\ note[p] = "none"
  /\ upc[p] \notin Fresh => p \in connects /\ (wake \/ upc[p] = "connectWake")
Handshaking(p) == state[p] = "CONNECTING" =>
  /\ ~signaled[p] /\ note[p] = "none"
  /\ \/ wsi[p] = "none" /\ (p \in todo \/ cur = p)
     \/ wsi[p] = "handshake" /\ vhd[p] /\ p \in connects /\ cur # p
     \/ wsi[p] = "freed" /\ vhd[p] /\ cur = p
Up(p) == state[p] \in OpenStates =>
  /\ vhd[p] /\ wsi[p] = "open" /\ ~signaled[p]
  /\ cur = p \/ note[p] = "success"
Failed(p) == state[p] = "FAILED" =>
  /\ wsi[p] \in {"none", "freed"}
  /\ ~signaled[p] => cur = p \/ upc[p] \in {"noContextNotify", "noContextSignal"}
Down(p) == state[p] = "DISCONNECTED" =>
  /\ vhd[p]
  /\ IF signaled[p] THEN wsi[p] = "freed" ELSE cur = p

\* A close that was begun is on its way, and so no fork that is attached is closing.
OnItsWay(p) == state[p] = "DISCONNECTING" =>
  /\ own[p] = "reaper"
  /\ \/ graceful[p] \/ rpc[p] = "push" \/ writable[p]
     \/ cur = p /\ spc \in Closing
     \/ p \in disconnects /\ (wake \/ rpc[p] = "wake" \/ spc \in Connecting)
     \/ p \in todo /\ spc = "disconnect"

\* A reaper that waits on a connected pipe, and what the application was told.
Waits(p) == rpc[p] = "wait" /\ state[p] = "CONNECTED" =>
               closePending[p] /\ spc = "estClose" /\ cur = p
Told(p) == own[p] = "user" /\ signaled[p] => note[p] \in {"fail", "dropped"}

PipeInv(p) == /\ Owner(p) /\ User(p) /\ Reaper(p) /\ Callback(p) /\ Todo(p)
              /\ Idle(p) /\ Handshaking(p) /\ Up(p) /\ Failed(p) /\ Down(p)
              /\ OnItsWay(p) /\ Waits(p) /\ Told(p)
IInv == TypeOK /\ \A p \in Pipes : PipeInv(p)

-----------------------------------------------------------------------------
(* The sets of program counters and the helpers of the actions are expanded *)
(* everywhere; each action and the parts of the invariant only where used. *)

USE NoPipeAssumption
    DEF LwsState_t, Terminal, UserPc, ReaperPc, InCallback, Connecting, InList, SvcPc,
        Operating, Fresh, Unlinking, AtEstablished, Closing, OpenStates,
        UserAt, UserGoes, SetState, UserReady, ReaperAt, ReaperGoes, SvcAt, SvcGoes,
        ReturnToLoop, UnchangedThreads, pipeVars, listVars, svcVars

\* The constructor and the service thread's start: every pipe is as its owner left it.
LEMMA InitTypes == Init => TypeOK
<1> SUFFICES ASSUME Init PROVE TypeOK
  OBVIOUS
<1> USE DEF Init
<1>1. PipeTypes
  BY DEF PipeTypes
<1>2. FlagTypes
  BY DEF FlagTypes
<1>3. ServiceTypes
  BY DEF ServiceTypes
<1> QED
  BY <1>1, <1>2, <1>3 DEF TypeOK

\* And every part of the invariant holds of each pipe, none of which has been made.
LEMMA InitKeeps == Init => \A p \in Pipes : PipeInv(p)
  BY DEF Init, PipeInv, Owner, User, Reaper, Callback, Todo, Idle,
         Handshaking, Up, Failed, Down, OnItsWay, Waits, Told

\* Every step keeps the types.
LEMMA TypeKeeps == TypeOK /\ [Next]_vars => TypeOK'
<1> SUFFICES ASSUME TypeOK, [Next]_vars PROVE TypeOK'
  OBVIOUS
<1> USE DEF TypeOK, PipeTypes, FlagTypes, ServiceTypes
<1>1. ASSUME NEW p \in Pipes, UserStarts(p) PROVE TypeOK'
  <2>1. CASE Create(p)
    <3> USE <2>1 DEF Create
    <3>1. PipeTypes'
      OBVIOUS
    <3>2. FlagTypes'
      OBVIOUS
    <3>3. ServiceTypes'
      OBVIOUS
    <3> QED
      BY <3>1, <3>2, <3>3
  <2>2. CASE Discard(p)
    <3> USE <2>2 DEF Discard
    <3>1. PipeTypes'
      OBVIOUS
    <3>2. FlagTypes'
      OBVIOUS
    <3>3. ServiceTypes'
      OBVIOUS
    <3> QED
      BY <3>1, <3>2, <3>3
  <2>3. CASE Connect(p)
    <3> USE <2>3 DEF Connect
    <3>1. PipeTypes'
      OBVIOUS
    <3>2. FlagTypes'
      OBVIOUS
    <3>3. ServiceTypes'
      OBVIOUS
    <3> QED
      BY <3>1, <3>2, <3>3
  <2>4. CASE SendText(p)
    <3> USE <2>4 DEF SendText
    <3>1. PipeTypes'
      OBVIOUS
    <3>2. FlagTypes'
      OBVIOUS
    <3>3. ServiceTypes'
      OBVIOUS
    <3> QED
      BY <3>1, <3>2, <3>3
  <2>5. CASE SendAudio(p)
    <3> USE <2>5 DEF SendAudio
    <3>1. PipeTypes'
      OBVIOUS
    <3>2. FlagTypes'
      OBVIOUS
    <3>3. ServiceTypes'
      OBVIOUS
    <3> QED
      BY <3>1, <3>2, <3>3
  <2>6. CASE GracefulShutdown(p)
    <3> USE <2>6 DEF GracefulShutdown
    <3>1. PipeTypes'
      OBVIOUS
    <3>2. FlagTypes'
      OBVIOUS
    <3>3. ServiceTypes'
      OBVIOUS
    <3> QED
      BY <3>1, <3>2, <3>3
  <2>7. CASE HandOff(p)
    <3> USE <2>7 DEF HandOff
    <3>1. PipeTypes'
      OBVIOUS
    <3>2. FlagTypes'
      OBVIOUS
    <3>3. ServiceTypes'
      OBVIOUS
    <3> QED
      BY <3>1, <3>2, <3>3
  <2> QED
    BY <1>1, <2>1, <2>2, <2>3, <2>4, <2>5, <2>6, <2>7 DEF UserStarts
<1>2. ASSUME NEW p \in Pipes, UserContinues(p) PROVE TypeOK'
  <2>1. CASE PushConnect(p)
    BY <2>1 DEF PushConnect
  <2>2. CASE WakeConnect(p)
    BY <2>2 DEF WakeConnect
  <2>3. CASE NoContext(p)
    BY <2>3 DEF NoContext
  <2>4. CASE NoContextFail(p)
    BY <2>4 DEF NoContextFail
  <2>5. CASE NoContextNotify(p)
    BY <2>5 DEF NoContextNotify
  <2>6. CASE NoContextSignal(p)
    BY <2>6 DEF NoContextSignal
  <2>7. CASE AppendText(p)
    BY <2>7 DEF AppendText
  <2>8. CASE FillAudio(p)
    <3>1. FlagTypes' /\ ServiceTypes'
      BY <2>8 DEF FillAudio
    <3>2. PipeTypes'
      BY <2>8 DEF FillAudio
    <3> QED
      BY <3>1, <3>2
  <2>9. CASE PushWrite(p)
    BY <2>9 DEF PushWrite
  <2>10. CASE WakeWrite(p)
    BY <2>10 DEF WakeWrite
  <2>11. CASE GracefulFlag(p)
    BY <2>11 DEF GracefulFlag
  <2>12. CASE GracefulRecheck(p)
    BY <2>12 DEF GracefulRecheck
  <2> QED
    BY <1>2, <2>1, <2>2, <2>3, <2>4, <2>5, <2>6, <2>7, <2>8, <2>9, <2>10, <2>11, <2>12
       DEF UserContinues
<1>3. ASSUME NEW p \in Pipes, ReaperStep(p) PROVE TypeOK'
  <2>1. CASE CloseCheck(p)
    BY <2>1 DEF CloseCheck
  <2>2. CASE CloseFlag(p)
    BY <2>2 DEF CloseFlag
  <2>3. CASE CloseCas(p)
    BY <2>3 DEF CloseCas
  <2>4. CASE ClosePush(p)
    BY <2>4 DEF ClosePush
  <2>5. CASE CloseWake(p)
    BY <2>5 DEF CloseWake
  <2>6. CASE WaitForClose(p)
    BY <2>6 DEF WaitForClose
  <2>7. CASE Unlink(p)
    BY <2>7 DEF Unlink
  <2>8. CASE Free(p)
    BY <2>8 DEF Free
  <2> QED
    BY <1>3, <2>1, <2>2, <2>3, <2>4, <2>5, <2>6, <2>7, <2>8 DEF ReaperStep
<1>4. CASE CreateContext
  BY <1>4 DEF CreateContext
<1>5. ASSUME NEW p \in Pipes, ConnectClient(p) \/ RequestWriteable(p) PROVE TypeOK'
  <2>1. CASE ConnectClient(p)
    BY <2>1 DEF ConnectClient
  <2>2. CASE RequestWriteable(p)
    BY <2>2 DEF RequestWriteable
  <2> QED
    BY <1>5, <2>1, <2>2
<1>6. CASE CollectDisconnects \/ CollectWrites \/ EndCancelled
  BY <1>6 DEF CollectDisconnects, CollectWrites, EndCancelled
<1>7. CASE FailState \/ FailNotify \/ FailSignal
  <2>1. CASE FailState
    BY <2>1 DEF FailState
  <2>2. CASE FailNotify
    BY <2>2 DEF FailNotify
  <2>3. CASE FailSignal
    BY <2>3 DEF FailSignal
  <2> QED
    BY <1>7, <2>1, <2>2, <2>3
<1>8. CASE EstablishedClose
  <2> USE <1>8 DEF EstablishedClose
  <2>1. PipeTypes'
    OBVIOUS
  <2>2. FlagTypes'
    OBVIOUS
  <2>3. ServiceTypes'
    <3>1. CASE closePending[cur] /\ state[cur] = "CONNECTED"
      BY <3>1
    <3>2. CASE ~(closePending[cur] /\ state[cur] = "CONNECTED")
      BY <3>2
    <3> QED
      BY <3>1, <3>2
  <2> QED
    BY <2>1, <2>2, <2>3
<1>9. CASE EstablishedGraceful
  <2> USE <1>9 DEF EstablishedGraceful
  <2>1. PipeTypes'
    OBVIOUS
  <2>2. FlagTypes'
    OBVIOUS
  <2>3. ServiceTypes'
    <3>1. CASE graceful[cur] /\ state[cur] = "CONNECTED"
      BY <3>1
    <3>2. CASE ~(graceful[cur] /\ state[cur] = "CONNECTED")
      BY <3>2
    <3> QED
      BY <3>1, <3>2
  <2> QED
    BY <2>1, <2>2, <2>3
<1>10. CASE EstablishedNotify
  <2> USE <1>10 DEF EstablishedNotify
  <2>1. PipeTypes'
    OBVIOUS
  <2>2. FlagTypes'
    OBVIOUS
  <2>3. ServiceTypes'
    OBVIOUS
  <2> QED
    BY <2>1, <2>2, <2>3
<1>11. CASE WriteText
  <2> USE <1>11 DEF WriteText
  <2>1. PipeTypes'
    OBVIOUS
  <2>2. FlagTypes'
    <3>1. text' = text \/ text' = [text EXCEPT ![cur] = FALSE]
      OBVIOUS
    <3>2. writable' = writable \/ writable' = [writable EXCEPT ![cur] = TRUE]
      OBVIOUS
    <3>3. text' \in [Pipes -> BOOLEAN]
      BY <3>1
    <3>4. writable' \in [Pipes -> BOOLEAN]
      BY <3>2
    <3> QED
      BY <3>3, <3>4
  <2>3. ServiceTypes'
    OBVIOUS
  <2> QED
    BY <2>1, <2>2, <2>3
<1>12. CASE CloseOrWriteAudio
  <2> USE <1>12 DEF CloseOrWriteAudio
  <2>1. PipeTypes'
    OBVIOUS
  <2>2. FlagTypes'
    OBVIOUS
  <2>3. ServiceTypes'
    OBVIOUS
  <2> QED
    BY <2>1, <2>2, <2>3
<1>13. CASE ClosedByUs \/ ClosedByFarEnd
  <2> USE <1>13 DEF ClosedByUs, ClosedByFarEnd
  <2>1. PipeTypes'
    OBVIOUS
  <2>2. FlagTypes'
    OBVIOUS
  <2>3. ServiceTypes'
    OBVIOUS
  <2> QED
    BY <2>1, <2>2, <2>3
<1>14. CASE ClosedState \/ ClosedSignal
  <2>1. CASE ClosedState
    <3> USE <2>1 DEF ClosedState
    <3>1. PipeTypes'
      OBVIOUS
    <3>2. FlagTypes'
      OBVIOUS
    <3>3. ServiceTypes'
      OBVIOUS
    <3> QED
      BY <3>1, <3>2, <3>3
  <2>2. CASE ClosedSignal
    <3> USE <2>2 DEF ClosedSignal
    <3>1. PipeTypes'
      OBVIOUS
    <3>2. FlagTypes'
      OBVIOUS
    <3>3. ServiceTypes'
      OBVIOUS
    <3> QED
      BY <3>1, <3>2, <3>3
  <2> QED
    BY <1>14, <2>1, <2>2
<1>15. CASE CollectConnects
  BY <1>15 DEF CollectConnects
<1>16. ASSUME NEW p \in Pipes, Handshake(p) PROVE TypeOK'
  <2> USE <1>16 DEF Handshake, Established, ConnectionError,
                 FindAndRemovePendingConnect, FoundPendingConnect
  <2>1. PipeTypes'
    OBVIOUS
  <2>2. FlagTypes'
    OBVIOUS
  <2>3. ServiceTypes'
    OBVIOUS
  <2> QED
    BY <2>1, <2>2, <2>3
<1>17. ASSUME NEW p \in Pipes, Writeable(p) PROVE TypeOK'
  BY <1>17 DEF Writeable
<1>18. ASSUME NEW p \in Pipes, FarEndCloses(p) PROVE TypeOK'
  BY <1>18 DEF FarEndCloses
<1>19. CASE UNCHANGED vars
  BY <1>19 DEF vars
<1> QED
  BY <1>1, <1>2, <1>3, <1>4, <1>5, <1>6, <1>7, <1>8, <1>9, <1>10, <1>11, <1>12, <1>13, <1>14, <1>15, <1>16, <1>17, <1>18, <1>19 DEF Next, ServiceStep

\* A user that starts an operation: what it checks before holds afterwards as well.
LEMMA UserStartsKeeps ==
  ASSUME IInv, \E p \in Pipes : UserStarts(p)
  PROVE  \A q \in Pipes : PipeInv(q)'
<1> SUFFICES ASSUME NEW q \in Pipes PROVE PipeInv(q)'
  OBVIOUS
<1> USE DEF IInv, TypeOK, PipeTypes, FlagTypes, ServiceTypes, PipeInv, Owner, User,
            Reaper, Callback, Todo, Idle, Handshaking, Up, Failed, Down, OnItsWay,
            Waits, Told
<1>1. ASSUME NEW p \in Pipes, Create(p) PROVE PipeInv(q)'
  BY <1>1 DEF Create
<1>2. ASSUME NEW p \in Pipes, Discard(p) PROVE PipeInv(q)'
  BY <1>2 DEF Discard
<1>3. ASSUME NEW p \in Pipes, Connect(p) PROVE PipeInv(q)'
  BY <1>3 DEF Connect
<1>4. ASSUME NEW p \in Pipes, SendText(p) PROVE PipeInv(q)'
  BY <1>4 DEF SendText
<1>5. ASSUME NEW p \in Pipes, SendAudio(p) PROVE PipeInv(q)'
  BY <1>5 DEF SendAudio
<1>6. ASSUME NEW p \in Pipes, GracefulShutdown(p) PROVE PipeInv(q)'
  BY <1>6 DEF GracefulShutdown
<1>7. ASSUME NEW p \in Pipes, HandOff(p) PROVE PipeInv(q)'
  BY <1>7 DEF HandOff
<1> QED
  BY <1>1, <1>2, <1>3, <1>4, <1>5, <1>6, <1>7 DEF UserStarts

\* A user inside an operation: it still owns the pipe, and the pipe was adopted or failed.
LEMMA UserContinuesKeeps ==
  ASSUME IInv, \E p \in Pipes : UserContinues(p)
  PROVE  \A q \in Pipes : PipeInv(q)'
<1> SUFFICES ASSUME NEW q \in Pipes PROVE PipeInv(q)'
  OBVIOUS
<1> USE DEF IInv, TypeOK, PipeTypes, FlagTypes, ServiceTypes, PipeInv, Owner, User,
            Reaper, Callback, Todo, Idle, Handshaking, Up, Failed, Down, OnItsWay,
            Waits, Told
<1>1. ASSUME NEW p \in Pipes, PushConnect(p) PROVE PipeInv(q)'
  BY <1>1 DEF PushConnect
<1>2. ASSUME NEW p \in Pipes, WakeConnect(p) PROVE PipeInv(q)'
  BY <1>2 DEF WakeConnect
<1>3. ASSUME NEW p \in Pipes, NoContext(p) PROVE PipeInv(q)'
  BY <1>3 DEF NoContext
<1>4. ASSUME NEW p \in Pipes, NoContextFail(p) PROVE PipeInv(q)'
  BY <1>4 DEF NoContextFail
<1>5. ASSUME NEW p \in Pipes, NoContextNotify(p) PROVE PipeInv(q)'
  BY <1>5 DEF NoContextNotify
<1>6. ASSUME NEW p \in Pipes, NoContextSignal(p) PROVE PipeInv(q)'
  BY <1>6 DEF NoContextSignal
<1>7. ASSUME NEW p \in Pipes, AppendText(p) PROVE PipeInv(q)'
  BY <1>7 DEF AppendText
<1>8. ASSUME NEW p \in Pipes, FillAudio(p) PROVE PipeInv(q)'
  BY <1>8 DEF FillAudio
<1>9. ASSUME NEW p \in Pipes, PushWrite(p) PROVE PipeInv(q)'
  BY <1>9 DEF PushWrite
<1>10. ASSUME NEW p \in Pipes, WakeWrite(p) PROVE PipeInv(q)'
  BY <1>10 DEF WakeWrite
<1>11. ASSUME NEW p \in Pipes, GracefulFlag(p) PROVE PipeInv(q)'
  BY <1>11 DEF GracefulFlag
<1>12. ASSUME NEW p \in Pipes, GracefulRecheck(p) PROVE PipeInv(q)'
  BY <1>12 DEF GracefulRecheck
<1> QED
  BY <1>1, <1>2, <1>3, <1>4, <1>5, <1>6, <1>7, <1>8, <1>9, <1>10, <1>11, <1>12 DEF UserContinues

\* The reaper: close(), waitForClose() and the destructor.
LEMMA ReaperKeeps ==
  ASSUME IInv, \E p \in Pipes : ReaperStep(p)
  PROVE  \A q \in Pipes : PipeInv(q)'
<1> SUFFICES ASSUME NEW q \in Pipes PROVE PipeInv(q)'
  OBVIOUS
<1> USE DEF IInv, TypeOK, PipeTypes, FlagTypes, ServiceTypes, PipeInv, Owner, User,
            Reaper, Callback, Todo, Idle, Handshaking, Up, Failed, Down, OnItsWay,
            Waits, Told
<1>1. ASSUME NEW p \in Pipes, CloseCheck(p) PROVE PipeInv(q)'
  BY <1>1 DEF CloseCheck
<1>2. ASSUME NEW p \in Pipes, CloseFlag(p) PROVE PipeInv(q)'
  BY <1>2 DEF CloseFlag
<1>3. ASSUME NEW p \in Pipes, CloseCas(p) PROVE PipeInv(q)'
  BY <1>3 DEF CloseCas
<1>4. ASSUME NEW p \in Pipes, ClosePush(p) PROVE PipeInv(q)'
  BY <1>4 DEF ClosePush
<1>5. ASSUME NEW p \in Pipes, CloseWake(p) PROVE PipeInv(q)'
  BY <1>5 DEF CloseWake
<1>6. ASSUME NEW p \in Pipes, WaitForClose(p) PROVE PipeInv(q)'
  BY <1>6 DEF WaitForClose
<1>7. ASSUME NEW p \in Pipes, Unlink(p) PROVE PipeInv(q)'
  BY <1>7 DEF Unlink
<1>8. ASSUME NEW p \in Pipes, Free(p) PROVE PipeInv(q)'
  BY <1>8 DEF Free
<1> QED
  BY <1>1, <1>2, <1>3, <1>4, <1>5, <1>6, <1>7, <1>8 DEF ReaperStep

\* The service thread by itself: the three pending lists, and the callbacks that are open.
LEMMA ServiceKeeps ==
  ASSUME IInv, ServiceStep
  PROVE  \A q \in Pipes : PipeInv(q)'
<1> SUFFICES ASSUME NEW q \in Pipes PROVE PipeInv(q)'
  OBVIOUS
<1> USE DEF IInv, TypeOK, PipeTypes, FlagTypes, ServiceTypes, PipeInv, Owner, User,
            Reaper, Callback, Todo, Idle, Handshaking, Up, Failed, Down, OnItsWay,
            Waits, Told
<1>1. CASE CreateContext
  BY <1>1 DEF CreateContext
<1>2. ASSUME NEW p \in Pipes, ConnectClient(p) PROVE PipeInv(q)'
  BY <1>2 DEF ConnectClient
<1>3. ASSUME NEW p \in Pipes, RequestWriteable(p) PROVE PipeInv(q)'
  BY <1>3 DEF RequestWriteable
<1>4. CASE CollectDisconnects
  BY <1>4 DEF CollectDisconnects
<1>5. CASE CollectWrites
  BY <1>5 DEF CollectWrites
<1>6. CASE EndCancelled
  BY <1>6 DEF EndCancelled
<1>7. CASE FailState
  BY <1>7 DEF FailState
<1>8. CASE FailNotify
  BY <1>8 DEF FailNotify
<1>9. CASE FailSignal
  BY <1>9 DEF FailSignal
<1>10. CASE EstablishedClose
  BY <1>10 DEF EstablishedClose
<1>11. CASE EstablishedGraceful
  BY <1>11 DEF EstablishedGraceful
<1>12. CASE EstablishedNotify
  BY <1>12 DEF EstablishedNotify
<1>13. CASE WriteText
  BY <1>13 DEF WriteText
<1>14. CASE CloseOrWriteAudio
  BY <1>14 DEF CloseOrWriteAudio
<1>15. CASE ClosedByUs
  BY <1>15 DEF ClosedByUs
<1>16. CASE ClosedByFarEnd
  BY <1>16 DEF ClosedByFarEnd
<1>17. CASE ClosedState
  BY <1>17 DEF ClosedState
<1>18. CASE ClosedSignal
  BY <1>18 DEF ClosedSignal
<1> QED
  BY <1>1, <1>2, <1>3, <1>4, <1>5, <1>6, <1>7, <1>8, <1>9, <1>10, <1>11, <1>12, <1>13, <1>14, <1>15, <1>16, <1>17, <1>18 DEF ServiceStep

\* What lws calls: the wake-up, the end of a handshake, a WRITEABLE, a drop.
LEMMA LwsKeeps ==
  ASSUME IInv, CollectConnects \/ \E p \in Pipes : Handshake(p) \/ Writeable(p) \/ FarEndCloses(p)
  PROVE  \A q \in Pipes : PipeInv(q)'
<1> SUFFICES ASSUME NEW q \in Pipes PROVE PipeInv(q)'
  OBVIOUS
<1> USE DEF IInv, TypeOK, PipeTypes, FlagTypes, ServiceTypes, PipeInv, Owner, User,
            Reaper, Callback, Todo, Idle, Handshaking, Up, Failed, Down, OnItsWay,
            Waits, Told
<1>1. CASE CollectConnects
  BY <1>1 DEF CollectConnects
<1>2. ASSUME NEW p \in Pipes, Established(p) PROVE PipeInv(q)'
  BY <1>2 DEF Established, FindAndRemovePendingConnect, FoundPendingConnect
<1>3. ASSUME NEW p \in Pipes, ConnectionError(p) PROVE PipeInv(q)'
  BY <1>3 DEF ConnectionError, FindAndRemovePendingConnect, FoundPendingConnect
<1>4. ASSUME NEW p \in Pipes, Writeable(p) PROVE PipeInv(q)'
  BY <1>4 DEF Writeable, AudioLocked
<1>5. ASSUME NEW p \in Pipes, FarEndCloses(p) PROVE PipeInv(q)'
  BY <1>5 DEF FarEndCloses
<1> QED
  BY <1>1, <1>2, <1>3, <1>4, <1>5 DEF Handshake

\* A step that changes nothing.
LEMMA StutterKeeps ==
  ASSUME IInv, UNCHANGED vars
  PROVE  \A q \in Pipes : PipeInv(q)'
  BY DEF vars, IInv, PipeInv, Owner, User, Reaper, Callback, Todo, Idle,
         Handshaking, Up, Failed, Down, OnItsWay, Waits, Told

\* IInv is inductive: it holds in every reachable state, with any number of pipes.
THEOREM Invariance == Spec => []IInv
<1>1. IInv /\ [Next]_vars => IInv'
  BY TypeKeeps, UserStartsKeeps, UserContinuesKeeps, ReaperKeeps, ServiceKeeps, LwsKeeps,
     StutterKeeps DEF Next, IInv
<1> QED
  BY InitTypes, InitKeeps, <1>1, PTL DEF Spec, IInv

-----------------------------------------------------------------------------
(* What the properties of the module say, for every set of pipes.          *)

\* The type invariant.
THEOREM TypeCorrect == Spec => []TypeOK
  BY Invariance, PTL DEF IInv

\* close() never strands its reaper: when it waits on a connected pipe, CLIENT_ESTABLISHED
\* is about to read the request it recorded.
THEOREM NeverStranded == Spec => []NoStrandedReaper
<1>1. IInv => NoStrandedReaper
  BY DEF IInv, PipeInv, Waits, NoStrandedReaper
<1> QED
  BY <1>1, Invariance, PTL

\* addPendingWrite and addPendingDisconnect only read m_vhd after the service thread set it.
THEOREM VhdIsSet == Spec => []VhdBeforeWake
<1>1. IInv => VhdBeforeWake
  BY DEF IInv, PipeInv, User, Reaper, Up, Down, VhdBeforeWake
<1> QED
  BY <1>1, Invariance, PTL

\* While the fork is attached, the promise is fulfilled only after the event.
THEOREM AlwaysReported == Spec => []EndIsReported
<1>1. IInv => EndIsReported
  BY DEF IInv, PipeInv, Told, EndIsReported
<1> QED
  BY <1>1, Invariance, PTL

\* No list, callback or operation holds a pipe that its reaper, or the start that failed,
\* has deleted.
THEOREM NeverAfterFree == Spec => []NoUseAfterFree
<1>1. ASSUME IInv, NEW p \in Pipes, own[p] = "freed"
      PROVE  /\ p \notin connects \cup disconnects \cup writes \cup todo /\ p # cur
             /\ wsi[p] \notin {"handshake", "open"}
             /\ upc[p] \in {"new", "idle", "connectWake"}
  BY <1>1 DEF IInv, TypeOK, PipeTypes, PipeInv, Owner, User, Reaper, Callback, Todo,
              Idle, Handshaking, Up, Failed, Down
<1>2. IInv => NoUseAfterFree
  BY <1>1 DEF NoUseAfterFree
<1> QED
  BY <1>2, Invariance, PTL

\* lws_callback_on_writable finds an open wsi.
THEOREM WritableIsOpen == Spec => []WritableOnOpenWsi
<1>1. IInv => WritableOnOpenWsi
  BY DEF IInv, TypeOK, ServiceTypes, PipeInv, Todo, Up, WritableOnOpenWsi
<1> QED
  BY <1>1, Invariance, PTL

\* findAndRemovePendingConnect finds the pipe of every handshake.
THEOREM HandshakeIsFound == Spec => []HandshakeFound
<1>1. ASSUME IInv, NEW p \in Pipes, wsi[p] = "handshake"
      PROVE  FoundPendingConnect(p) /\ ~signaled[p] /\ own[p] # "freed"
  BY <1>1 DEF IInv, TypeOK, PipeTypes, ServiceTypes, PipeInv, Owner, User, Reaper,
              Callback, Idle, Handshaking, Up, Failed, Down, FoundPendingConnect
<1>2. IInv => HandshakeFound
  BY <1>1 DEF HandshakeFound
<1> QED
  BY <1>2, Invariance, PTL

\* A connect() is in the list, with a wake-up under way, until it is adopted.
THEOREM ConnectIsKept == Spec => []ConnectNotLost
<1>1. IInv => ConnectNotLost
  BY DEF IInv, PipeInv, Idle, ConnectNotLost
<1> QED
  BY <1>1, Invariance, PTL

\* A close() is on its way until CLIENT_CLOSED, if no graceful shutdown was asked for.
THEOREM CloseIsKept == Spec => []CloseNotLost
<1>1. IInv => CloseNotLost
  BY DEF IInv, PipeInv, OnItsWay, CloseNotLost
<1> QED
  BY <1>1, Invariance, PTL

-----------------------------------------------------------------------------
(* Properties of steps.                                                    *)

\* The events a step may give for a pipe.
Follows(old, new) ==
  new # old => <<old, new>> \in {<<"none", "fail">>, <<"none", "success">>,
                                 <<"success", "dropped">>, <<"success", "graceful">>}

\* The application hears one outcome of a connect and, after a success, at most one end.
THEOREM EventsInOrder == Spec => EventOrder
<1>1. ASSUME IInv, Next, NEW q \in Pipes PROVE Follows(note[q], note'[q])
  <2> USE <1>1 DEF Follows
  <2>1. ASSUME NEW p \in Pipes, UserStarts(p) \/ ReaperStep(p) PROVE note' = note
    BY <2>1 DEF UserStarts, Create, Discard, Connect, SendText, SendAudio,
                GracefulShutdown, HandOff, ReaperStep, CloseCheck, CloseFlag, CloseCas,
                ClosePush, CloseWake, WaitForClose, Unlink, Free
  <2>2. ASSUME NEW p \in Pipes, UserContinues(p), ~NoContextNotify(p) PROVE note' = note
    BY <2>2 DEF UserContinues, PushConnect, WakeConnect, NoContext, NoContextFail,
                NoContextSignal, AppendText, FillAudio, PushWrite, WakeWrite,
                GracefulFlag, GracefulRecheck
  <2>3. ASSUME NEW p \in Pipes, NoContextNotify(p) PROVE Follows(note[q], note'[q])
    BY <2>3 DEF NoContextNotify, IInv, TypeOK, PipeTypes, PipeInv, User
  <2>4. CASE FailNotify \/ EstablishedNotify \/ ClosedByUs \/ ClosedByFarEnd
    <3>1. cur \in Pipes /\ note \in [Pipes -> {"none", "fail", "success", "dropped", "graceful"}]
      BY <2>4 DEF IInv, TypeOK, PipeTypes, ServiceTypes, FailNotify, EstablishedNotify,
                  ClosedByUs, ClosedByFarEnd
    <3> QED
      BY <2>4, <3>1 DEF FailNotify, EstablishedNotify, ClosedByUs, ClosedByFarEnd, IInv,
                        PipeInv, Callback
  <2>5. CASE \/ ServiceStep
             \/ CollectConnects
             \/ \E p \in Pipes : Handshake(p) \/ Writeable(p) \/ FarEndCloses(p)
    <3>1. \/ FailNotify \/ EstablishedNotify \/ ClosedByUs \/ ClosedByFarEnd
          \/ note' = note
      BY <2>5 DEF ServiceStep, CreateContext, ConnectClient, RequestWriteable,
                  CollectDisconnects, CollectWrites, EndCancelled, FailState, FailSignal,
                  EstablishedClose, EstablishedGraceful, WriteText, CloseOrWriteAudio,
                  ClosedState, ClosedSignal, CollectConnects, Handshake, Established,
                  ConnectionError, Writeable, FarEndCloses
    <3> QED
      BY <3>1, <2>4
  <2> QED
    BY <2>1, <2>2, <2>3, <2>5 DEF Next
<1>2. IInv /\ [Next]_vars =>
        [\A p \in Pipes : note'[p] # note[p] =>
          <<note[p], note'[p]>> \in {<<"none", "fail">>, <<"none", "success">>,
                        <<"success", "dropped">>, <<"success", "graceful">>}]_vars
  BY <1>1 DEF Follows
<1> QED
  BY <1>2, Invariance, PTL DEF Spec, EventOrder

\* Every step of a pipe's threads is a step of its life, or none at all.
LEMMA LifeKeeps ==
  ASSUME IInv, Next
  PROVE  Life!LifeNext \/ UNCHANGED <<own, state, signaled>>
<1> USE DEF IInv, TypeOK, PipeTypes, ServiceTypes, PipeInv, Life!Alive, Life!Owner,
            Life!Becomes
<1>1. ASSUME NEW p \in Pipes,
             Life!LifeStep(p) \/ Life!Adopt \/ UNCHANGED <<own, state, signaled>>
      PROVE  Life!LifeNext \/ UNCHANGED <<own, state, signaled>>
  BY <1>1 DEF Life!LifeNext
<1>2. ASSUME NEW p \in Pipes, UserStarts(p)
      PROVE  Life!LifeStep(p) \/ UNCHANGED <<own, state, signaled>>
  <2>1. CASE Create(p)
    BY <2>1 DEF Create, Life!LifeStep, Life!Make
  <2>2. CASE Discard(p)
    BY <2>2 DEF Discard, User, Life!LifeStep, Life!Drop
  <2>3. CASE HandOff(p)
    BY <2>3 DEF HandOff, Life!LifeStep, Life!Hand
  <2> QED
    BY <1>2, <2>1, <2>2, <2>3 DEF UserStarts, Connect, SendText, SendAudio,
       GracefulShutdown
<1>3. ASSUME NEW p \in Pipes, UserContinues(p)
      PROVE  Life!LifeStep(p) \/ UNCHANGED <<own, state, signaled>>
  <2>1. CASE NoContextFail(p)
    BY <2>1 DEF NoContextFail, Owner, User, Reaper, Idle, Life!LifeStep, Life!Fails
  <2>2. CASE NoContextSignal(p)
    BY <2>2 DEF NoContextSignal, Owner, User, Reaper, Life!LifeStep, Life!Signals
  <2> QED
    BY <1>3, <2>1, <2>2 DEF UserContinues, PushConnect, WakeConnect, NoContext,
       NoContextNotify, AppendText, FillAudio, PushWrite, WakeWrite, GracefulFlag,
       GracefulRecheck
<1>4. ASSUME NEW p \in Pipes, ReaperStep(p)
      PROVE  Life!LifeStep(p) \/ UNCHANGED <<own, state, signaled>>
  <2>1. CASE CloseCas(p)
    BY <2>1 DEF CloseCas, Owner, Life!LifeStep, Life!Closes
  <2>2. CASE Free(p)
    BY <2>2 DEF Free, Owner, Reaper, Life!LifeStep, Life!Release
  <2> QED
    BY <1>4, <2>1, <2>2 DEF ReaperStep, CloseCheck, CloseFlag, ClosePush, CloseWake,
       WaitForClose, Unlink
\* A pipe in a callback is not deleted: its promise is not fulfilled yet.
<1>5. ASSUME NEW p \in Pipes, cur = p \/ wsi[p] \in {"handshake", "open"} \/ p \in connects
      PROVE  Life!Alive(p)
  BY <1>5 DEF Owner, User, Reaper, Callback, Idle, Handshaking, Up, Failed, Down
<1>6. CASE ServiceStep
  <2>1. CASE FailState
    BY <2>1, <1>5 DEF FailState, Callback, Life!LifeStep, Life!Fails, Life!LifeNext
  <2>2. CASE EstablishedClose
    BY <2>2, <1>5 DEF EstablishedClose, Owner, Reaper, Callback, Life!LifeStep,
       Life!Closes, Life!LifeNext
  <2>3. CASE ClosedState
    BY <2>3, <1>5 DEF ClosedState, Callback, Life!LifeStep, Life!Ends, Life!LifeNext
  <2>4. CASE FailSignal \/ ClosedSignal
    BY <2>4, <1>5 DEF FailSignal, ClosedSignal, Callback, Life!LifeStep, Life!Signals,
       Life!LifeNext
  <2> QED
    BY <1>6, <2>1, <2>2, <2>3, <2>4 DEF ServiceStep, CreateContext, ConnectClient,
       RequestWriteable, CollectDisconnects, CollectWrites, EndCancelled, FailNotify,
       EstablishedGraceful, EstablishedNotify, WriteText, CloseOrWriteAudio,
       ClosedByUs, ClosedByFarEnd
<1>7. CASE CollectConnects
  <2> DEFINE S == {p \in connects : state[p] = "IDLE"}
  <2>1. S \in SUBSET {p \in Pipes : Life!Alive(p) /\ state[p] = "IDLE"}
    BY <1>5
  <2>2. /\ state' = [p \in Pipes |-> IF p \in S THEN "CONNECTING" ELSE state[p]]
        /\ UNCHANGED <<own, signaled>>
    BY <1>7 DEF CollectConnects
  <2> QED
    BY <2>1, <2>2 DEF Life!Adopt, Life!LifeNext
<1>8. ASSUME NEW p \in Pipes, Handshake(p) \/ Writeable(p) \/ FarEndCloses(p)
      PROVE  Life!LifeStep(p) \/ UNCHANGED <<own, state, signaled>>
  <2>1. CASE Established(p)
    BY <2>1, <1>5 DEF Established, FoundPendingConnect, Life!LifeStep, Life!Up
  <2> QED
    BY <1>8, <2>1 DEF Handshake, ConnectionError, Writeable, FarEndCloses
<1> QED
  BY <1>1, <1>2, <1>3, <1>4, <1>6, <1>7, <1>8 DEF Next

\* AudioPipe implements PipeLife: m_state only moves forward, only the reaper closes, and a
\* pipe is deleted after its promise was fulfilled, or unconnected.
THEOREM Implements == Spec => Lives
<1>1. Init => Life!LifeInit
  BY DEF Init, Life!LifeInit
<1>2. IInv /\ [Next]_vars => [Life!LifeNext]_(Life!lifeVars)
  BY LifeKeeps DEF vars, pipeVars, Life!lifeVars
<1> QED
  BY <1>1, <1>2, Invariance, PTL DEF Spec, Lives, Life!LifeSpec

-----------------------------------------------------------------------------
(* RecvBuffer: the text that CLIENT_RECEIVE gathers.                       *)

BufferInv == RecvTypeOK /\ NoOverrun /\ CapHolds /\ BufferIffOpen /\ WholeOrNothing

USE RecvBufferAssumption DEF First, Final

\* What a piece of a message does to lws's variables and to the history of its length.
LEMMA PieceTypes ==
  ASSUME RecvTypeOK, NEW n \in 0 .. MaxPiece, NEW r \in 0 .. MaxMessage, NEW fin \in BOOLEAN,
         Arrives(n, r, fin)
  PROVE  busy' \in BOOLEAN /\ rest' \in Nat /\ lastFrame' \in BOOLEAN /\ seen' \in Nat
  BY DEF RecvTypeOK, Arrives

\* A message that is given up leaves no buffer; the flags stay flags.
LEMMA DropTypes ==
  ASSUME RecvTypeOK, Drop(FALSE) \/ Drop(TRUE)
  PROVE  /\ alloc' \in BOOLEAN /\ discarding' \in BOOLEAN /\ noMemory' \in BOOLEAN
         /\ overrun' \in BOOLEAN /\ verdict' = "dropped"
         /\ bufLen' = 0 /\ recvOffset' = 0 /\ size' = size /\ overrun' = overrun
  BY Zenon DEF Drop, RecvTypeOK

\* A copy within the buffer is no overrun.
LEMMA CopyTypes ==
  ASSUME RecvTypeOK, NEW n \in Nat, NEW at \in Nat, NEW len \in Nat, at + n <= len, ~overrun,
         Copy(n, at, len)
  PROVE  /\ alloc' \in BOOLEAN /\ discarding' \in BOOLEAN /\ noMemory' \in BOOLEAN
         /\ verdict' \in {"open", "delivered"} /\ ~overrun' /\ overrun' \in BOOLEAN
         /\ \/ bufLen' = 0 /\ recvOffset' = 0 /\ size' = at + n
            \/ bufLen' = len /\ recvOffset' = at + n /\ size' = size
<1>1. ~(at + n > len)
  OBVIOUS
<1>2. alloc' \in BOOLEAN /\ discarding' \in BOOLEAN /\ noMemory' \in BOOLEAN
  BY Zenon DEF Copy
<1>3. ~overrun' /\ overrun' \in BOOLEAN
  BY <1>1, Zenon DEF Copy
<1>4. /\ verdict' \in {"open", "delivered"}
      /\ \/ bufLen' = 0 /\ recvOffset' = 0 /\ size' = at + n
         \/ bufLen' = len /\ recvOffset' = at + n /\ size' = size
  BY DEF Copy
<1> QED
  BY <1>2, <1>3, <1>4

\* The first piece of a message: the buffer is as long as the frame.
LEMMA OpenKeeps ==
  ASSUME BufferInv, NEW n \in 0 .. MaxPiece, NEW r \in 0 .. MaxMessage,
         NEW fin \in BOOLEAN, Arrives(n, r, fin), Open(n, r)
  PROVE  BufferInv'
<1>1. n \in Nat /\ r \in Nat /\ n + r \in Nat /\ n <= n + r /\ ~busy /\ seen' = n
  BY DEF Arrives, Open
<1>2. CASE Drop(FALSE) \/ Drop(TRUE)
  <2> USE DEF BufferInv
  <2>0. /\ alloc' \in BOOLEAN /\ discarding' \in BOOLEAN /\ noMemory' \in BOOLEAN
        /\ overrun' \in BOOLEAN /\ verdict' = "dropped"
        /\ bufLen' = 0 /\ recvOffset' = 0 /\ size' = size /\ overrun' = overrun
    BY <1>2, DropTypes, Zenon
  <2>1. RecvTypeOK'
    BY <2>0, PieceTypes DEF RecvTypeOK
  <2>2. NoOverrun'
    BY <2>0 DEF NoOverrun
  <2>3. CapHolds'
    BY <2>0 DEF CapHolds
  <2>4. BufferIffOpen'
    BY <1>1, <1>2, PieceTypes DEF Drop, BufferIffOpen, RecvTypeOK
  <2>5. WholeOrNothing'
    BY <1>1, <1>2, PieceTypes DEF Drop, WholeOrNothing
  <2> QED
    BY <2>1, <2>2, <2>3, <2>4, <2>5
<1>3. CASE n + r <= MaxRecv /\ Copy(n, 0, n + r)
  <2> USE DEF BufferInv
  <2>0. /\ alloc' \in BOOLEAN /\ discarding' \in BOOLEAN /\ noMemory' \in BOOLEAN
        /\ verdict' \in {"open", "delivered"} /\ ~overrun' /\ overrun' \in BOOLEAN
        /\ \/ bufLen' = 0 /\ recvOffset' = 0 /\ size' = 0 + n
           \/ bufLen' = n + r /\ recvOffset' = 0 + n /\ size' = size
    BY <1>1, <1>3, CopyTypes DEF NoOverrun
  <2>1. RecvTypeOK'
    BY <1>1, <2>0, PieceTypes DEF RecvTypeOK
  <2>2. NoOverrun'
    BY <2>0 DEF NoOverrun
  <2>3. CapHolds'
    BY <1>3, <2>0 DEF CapHolds
  <2>4. BufferIffOpen'
    BY <1>1, <1>3, PieceTypes DEF Copy, BufferIffOpen, RecvTypeOK
  <2>5. WholeOrNothing'
    BY <1>1, <1>3, PieceTypes DEF Copy, WholeOrNothing
  <2> QED
    BY <2>1, <2>2, <2>3, <2>4, <2>5
<1> QED
  BY <1>2, <1>3 DEF Open

\* Any other piece of a message that is being put together.  One growth makes room for
\* it: a piece is no longer than MaxPiece, and MaxPiece is no more than Grow.
LEMMA ContinueKeeps ==
  ASSUME BufferInv, NEW n \in 0 .. MaxPiece, NEW r \in 0 .. MaxMessage,
         NEW fin \in BOOLEAN, Arrives(n, r, fin), Continue(n)
  PROVE  BufferInv'
<1>1. n \in Nat /\ busy /\ alloc /\ recvOffset = seen /\ seen' = seen + n /\ n <= Grow
  BY DEF BufferInv, RecvTypeOK, BufferIffOpen, WholeOrNothing, Arrives, Continue
<1>2. CASE Drop(FALSE) \/ Drop(TRUE)
  <2> USE DEF BufferInv
  <2>0. /\ alloc' \in BOOLEAN /\ discarding' \in BOOLEAN /\ noMemory' \in BOOLEAN
        /\ overrun' \in BOOLEAN /\ verdict' = "dropped"
        /\ bufLen' = 0 /\ recvOffset' = 0 /\ size' = size /\ overrun' = overrun
    BY <1>2, DropTypes, Zenon
  <2>1. RecvTypeOK'
    BY <2>0, PieceTypes DEF RecvTypeOK
  <2>2. NoOverrun'
    BY <2>0 DEF NoOverrun
  <2>3. CapHolds'
    BY <2>0 DEF CapHolds
  <2>4. BufferIffOpen'
    BY <1>1, <1>2, PieceTypes DEF Drop, BufferIffOpen, RecvTypeOK
  <2>5. WholeOrNothing'
    BY <1>1, <1>2, PieceTypes DEF Drop, WholeOrNothing
  <2> QED
    BY <2>1, <2>2, <2>3, <2>4, <2>5
<1>3. ASSUME NEW len \in Nat, Copy(n, recvOffset, len), recvOffset + n <= len, len <= MaxRecv
      PROVE  BufferInv'
  <2> USE DEF BufferInv
  <2>0. /\ alloc' \in BOOLEAN /\ discarding' \in BOOLEAN /\ noMemory' \in BOOLEAN
        /\ verdict' \in {"open", "delivered"} /\ ~overrun' /\ overrun' \in BOOLEAN
        /\ \/ bufLen' = 0 /\ recvOffset' = 0 /\ size' = recvOffset + n
           \/ bufLen' = len /\ recvOffset' = recvOffset + n /\ size' = size
    <3>1. recvOffset \in Nat
      BY DEF RecvTypeOK
    <3> QED
      BY <1>1, <1>3, <3>1, CopyTypes DEF NoOverrun
  <2>1. RecvTypeOK'
    BY <1>1, <1>3, <2>0, PieceTypes DEF RecvTypeOK
  <2>2. NoOverrun'
    BY <2>0 DEF NoOverrun
  <2>3. CapHolds'
    BY <1>3, <2>0 DEF CapHolds
  <2>4. BufferIffOpen'
    BY <1>1, <1>3, PieceTypes DEF Copy, BufferIffOpen, RecvTypeOK
  <2>5. WholeOrNothing'
    BY <1>1, <1>3, PieceTypes DEF Copy, WholeOrNothing
  <2> QED
    BY <2>1, <2>2, <2>3, <2>4, <2>5
<1>4. CASE bufLen - recvOffset >= n /\ Copy(n, recvOffset, bufLen)
  BY <1>1, <1>3, <1>4 DEF BufferInv, RecvTypeOK, CapHolds
<1>5. CASE /\ bufLen - recvOffset < n /\ bufLen + Grow <= MaxRecv
           /\ Copy(n, recvOffset, bufLen + Grow)
  <2>1. bufLen + Grow \in Nat /\ recvOffset + n <= bufLen + Grow
    BY <1>1 DEF BufferInv, RecvTypeOK
  <2> QED
    BY <1>3, <1>5, <2>1
<1> QED
  BY <1>2, <1>4, <1>5 DEF Continue

\* A piece of a message that was given up.
LEMMA SkipKeeps ==
  ASSUME BufferInv, NEW n \in 0 .. MaxPiece, NEW r \in 0 .. MaxMessage,
         NEW fin \in BOOLEAN, Arrives(n, r, fin), Skip
  PROVE  BufferInv'
  BY PieceTypes DEF Skip, Arrives, BufferInv, RecvTypeOK, NoOverrun, CapHolds, BufferIffOpen,
     WholeOrNothing

\* CLIENT_RECEIVE keeps the receive buffer consistent, whatever arrives.
THEOREM ReceiveInvariance == RecvSpec => []BufferInv
<1>1. RecvInit => BufferInv
  <2> SUFFICES ASSUME RecvInit PROVE BufferInv
    OBVIOUS
  <2> USE DEF RecvInit
  <2>1. RecvTypeOK
    <3>1. /\ alloc \in BOOLEAN /\ discarding \in BOOLEAN /\ busy \in BOOLEAN
          /\ lastFrame \in BOOLEAN /\ noMemory \in BOOLEAN /\ overrun \in BOOLEAN
      OBVIOUS
    <3>2. bufLen \in Nat /\ recvOffset \in 0 .. bufLen /\ rest \in Nat /\ seen \in Nat /\ size \in Nat
      OBVIOUS
    <3>3. verdict \in {"open", "delivered", "dropped"}
      OBVIOUS
    <3> QED
      BY <3>1, <3>2, <3>3 DEF RecvTypeOK
  <2>2. NoOverrun /\ CapHolds
    BY DEF NoOverrun, CapHolds
  <2>3. BufferIffOpen /\ WholeOrNothing
    BY DEF BufferIffOpen, WholeOrNothing
  <2> QED
    BY <2>1, <2>2, <2>3 DEF BufferInv
<1>2. BufferInv /\ [Receive]_recvVars => BufferInv'
  <2>1. CASE Receive
    BY <2>1, OpenKeeps, SkipKeeps, ContinueKeeps DEF Receive
  <2>2. CASE UNCHANGED recvVars
    BY <2>2 DEF recvVars, bufVars, lwsVars, histVars, BufferInv, RecvTypeOK, NoOverrun, CapHolds,
       BufferIffOpen, WholeOrNothing
  <2> QED
    BY <2>1, <2>2
<1> QED
  BY <1>1, <1>2, PTL DEF RecvSpec

\* The type invariant: m_recv_buf_ptr stays within the buffer.
THEOREM RecvTypes == RecvSpec => []RecvTypeOK
  BY ReceiveInvariance, PTL DEF BufferInv

\* memcpy never writes past the end of m_recv_buf.
THEOREM RecvInBounds == RecvSpec => []NoOverrun
  BY ReceiveInvariance, PTL DEF BufferInv

\* The buffer never exceeds MAX_RECV_BUF_SIZE.
THEOREM RecvCapped == RecvSpec => []CapHolds
  BY ReceiveInvariance, PTL DEF BufferInv

\* The assertion at the first piece of a message holds.
THEOREM RecvFlags == RecvSpec => []BufferIffOpen
  BY ReceiveInvariance, PTL DEF BufferInv

\* A message is delivered whole or not at all.
THEOREM RecvWhole == RecvSpec => []WholeOrNothing
  BY ReceiveInvariance, PTL DEF BufferInv

\* A message is only given up for want of memory, if its first frame exceeds the cap, or if
\* what has come of it is within one growth of the cap.
THEOREM RecvDropsLarge == RecvSpec => DroppedOnlyIfLarge
<1>1. ASSUME BufferInv, Receive, verdict' = "dropped", verdict # "dropped" \/ ~busy,
             ~noMemory'
      PROVE  IF busy THEN seen' + Grow > MaxRecv ELSE seen' + rest' > MaxRecv
  <2>1. PICK n \in 0 .. MaxPiece, r \in 0 .. MaxMessage, fin \in BOOLEAN :
               Arrives(n, r, fin) /\ (Open(n, r) \/ Skip \/ Continue(n))
    BY <1>1 DEF Receive
  <2>2. CASE Open(n, r)
    <3>1. ~Drop(TRUE)
      BY <1>1, Zenon DEF Drop
    <3>2. ~Copy(n, 0, n + r)
      BY <1>1 DEF Copy
    <3>3. n + r > MaxRecv /\ seen' = n /\ rest' = r /\ ~busy
      BY <2>1, <2>2, <3>1, <3>2 DEF Open, Arrives
    <3> QED
      BY <3>3
  <2>3. CASE Skip
    BY <1>1, <2>3 DEF Skip, BufferInv, BufferIffOpen
  <2>4. CASE Continue(n)
    <3>1. bufLen - recvOffset < n /\ bufLen + Grow > MaxRecv
      BY <1>1, <2>4 DEF Continue, Drop, Copy
    <3>2. recvOffset = seen /\ seen' = seen + n /\ busy
      BY <1>1, <2>1, <2>4 DEF Continue, Arrives, BufferInv, BufferIffOpen, WholeOrNothing
    <3> QED
      BY <1>1, <3>1, <3>2 DEF BufferInv, RecvTypeOK
  <2> QED
    BY <2>1, <2>2, <2>3, <2>4
<1>2. BufferInv /\ [Receive]_recvVars =>
        [verdict' = "dropped" /\ (verdict # "dropped" \/ ~busy) /\ ~noMemory' =>
           IF busy THEN seen' + Grow > MaxRecv ELSE seen' + rest' > MaxRecv]_recvVars
  BY <1>1
<1> QED
  BY <1>2, ReceiveInvariance, PTL DEF RecvSpec, DroppedOnlyIfLarge

HIDE RecvBufferAssumption DEF First, Final

-----------------------------------------------------------------------------
(* FrameBuffer: the audio that fork_frame leaves for CLIENT_WRITEABLE.     *)

\* fork_frame's local copy of the free space is right while it holds m_audio_mutex.
SpaceIsKnown == locked => available = Space
\* No event before it is noted.
CountsNotices == notices = IF notified THEN 1 ELSE 0
\* The offset is a whole number of sample frames behind LWS_PRE.
Whole == \E k \in Nat : offset = Pre + k * SampleFrame

FrameInv == /\ FrameTypeOK /\ InBounds /\ SpaceIsKnown /\ Whole
            /\ OverrunTold /\ CountsNotices

USE FrameBufferAssumption DEF Space, SampleFrame, Stored, MinSpace

\* A packet of all channels is a whole number of sample frames.
LEMMA PacketIsWhole == \E k \in Nat : Packet = 2 * k
<1> WITNESS Packet \div 2 \in Nat
<1> QED
  OBVIOUS

\* The event and the drop: what a step does to the three variables that record them.
NoticesKept == /\ notified' \in BOOLEAN /\ dropped' \in BOOLEAN
               /\ notices' \in Nat /\ CountsNotices'
               /\ OverrunTold'

\* A turn that notes the overrun, and may have dropped samples.
LEMMA NotifyKeeps ==
  ASSUME FrameInv, NotifyOverrun, NEW loses \in BOOLEAN, dropped' = (dropped \/ loses)
  PROVE  NoticesKept
<1>1. notified' \in BOOLEAN /\ notified' /\ notices' \in Nat /\ notices' = 1
  BY DEF FrameInv, FrameTypeOK, CountsNotices, NotifyOverrun
<1>2. dropped' \in BOOLEAN
  BY Zenon
<1> QED
  BY <1>1, <1>2 DEF NoticesKept, CountsNotices, OverrunTold

\* A turn that dropped nothing and noted nothing.
LEMMA QuietKeeps ==
  ASSUME FrameInv, UNCHANGED <<notified, notices>>, dropped' = (dropped \/ FALSE) \/ dropped' = dropped
  PROVE  NoticesKept
<1>1. dropped' = dropped
  BY Zenon DEF FrameInv, FrameTypeOK
<1> QED
  BY <1>1 DEF FrameInv, FrameTypeOK, CountsNotices, OverrunTold, NoticesKept

\* The offset may move to any whole number of sample frames within the buffer.
LEMMA OffsetMoves ==
  ASSUME FrameInv, NoticesKept, UNCHANGED <<channels, resampling, unsent>>, locked' \in BOOLEAN,
         offset' \in Nat, Pre <= offset', offset' <= MaxLen, Whole',
         available' = MaxLen - offset'
  PROVE  FrameInv'
<1>1. available' \in Int
  OBVIOUS
<1> QED
  BY <1>1 DEF FrameInv, NoticesKept, FrameTypeOK, InBounds, SpaceIsKnown

\* Without a resampler: a packet is read where there is room for all its channels.
LEMMA ReadNativeKeeps == ASSUME FrameInv, ReadNative PROVE FrameInv'
<1> DEFINE start == IF available < MinSpace THEN Pre ELSE offset
<1>1. /\ channels \in {1, 2} /\ offset \in Nat /\ offset >= Pre /\ offset <= MaxLen
      /\ available = MaxLen - offset
  BY DEF FrameInv, FrameTypeOK, InBounds, SpaceIsKnown, ReadNative
<1>2. offset' = start + Packet * channels /\ available' = MaxLen - offset' /\ channels' = channels
  BY DEF ReadNative
<1>3. start \in Nat /\ start >= Pre /\ start + Packet * channels <= MaxLen
  BY <1>1
<1>4. Whole'
  <2>1. PICK k \in Nat : offset = Pre + k * (2 * channels)
    BY DEF FrameInv, Whole
  <2>2. PICK j \in Nat : Packet = 2 * j
    BY PacketIsWhole
  <2>3. CASE available < MinSpace
    BY <1>1, <1>2, <2>2, <2>3 DEF Whole
  <2>4. CASE ~(available < MinSpace)
    <3>1. k + j \in Nat /\ offset' = Pre + (k + j) * (2 * channels)
      BY <1>1, <1>2, <2>1, <2>2, <2>4
    <3> QED
      BY <1>2, <3>1 DEF Whole
  <2> QED
    BY <2>3, <2>4
<1>5. NoticesKept
  <2>1. CASE available < MinSpace
    <3>1. NotifyOverrun /\ dropped' = (dropped \/ TRUE)
      BY <2>1, Zenon DEF ReadNative
    <3> QED
      BY <3>1, NotifyKeeps
  <2>2. CASE ~(available < MinSpace)
    <3>1. UNCHANGED <<notified, notices>> /\ dropped' = (dropped \/ FALSE)
      BY <2>2, Zenon DEF ReadNative
    <3> QED
      BY <3>1, QuietKeeps
  <2> QED
    BY <2>1, <2>2
<1>6. UNCHANGED <<channels, resampling, locked, unsent>> /\ locked' \in BOOLEAN
  BY DEF ReadNative, FrameInv, FrameTypeOK
<1>7. offset' \in Nat /\ Pre <= offset' /\ offset' <= MaxLen
  BY <1>1, <1>2, <1>3
<1> QED
  BY <1>2, <1>4, <1>5, <1>6, <1>7, OffsetMoves

\* Nothing more to read: a full buffer is thrown away.
LEMMA EndNativeKeeps == ASSUME FrameInv, EndNative PROVE FrameInv'
<1>1. CASE available < MinSpace
  <2>1. /\ NotifyOverrun /\ offset' = Pre /\ available' = MaxLen - Pre /\ dropped' = TRUE
        /\ UNCHANGED <<channels, resampling, unsent>> /\ locked' \in BOOLEAN
    BY <1>1 DEF EndNative
  <2>2. NoticesKept
    BY <2>1, NotifyKeeps
  <2>3. Whole'
    BY <2>1 DEF Whole, FrameInv, FrameTypeOK
  <2> QED
    BY <2>1, <2>2, <2>3, OffsetMoves
<1>2. CASE ~(available < MinSpace)
  BY <1>2 DEF EndNative, FrameInv, FrameTypeOK, InBounds, SpaceIsKnown, Whole, OverrunTold,
     CountsNotices
<1> QED
  BY <1>1, <1>2

\* With a resampler: no more sample frames than fit are stored, and if some were dropped
\* less than a packet of room is left.
LEMMA ReadResampledKeeps ==
  ASSUME FrameInv, NEW n \in 0 .. MaxFrames, ReadResampled(n)
  PROVE  FrameInv'
<1> DEFINE k == IF n <= OutLen THEN n ELSE OutLen
<1>1. /\ channels \in {1, 2} /\ offset \in Nat /\ offset >= Pre /\ offset <= MaxLen
      /\ available = MaxLen - offset /\ n \in Nat
  BY DEF FrameInv, FrameTypeOK, InBounds, SpaceIsKnown, ReadResampled
<1>2. /\ OutLen \in Nat /\ OutLen * (2 * channels) <= available
      /\ available - OutLen * (2 * channels) < 2 * channels
  <2>1. CASE channels = 1
    BY <1>1, <2>1 DEF OutLen
  <2>2. CASE channels = 2
    BY <1>1, <2>2 DEF OutLen
  <2> QED
    BY <1>1, <2>1, <2>2
<1>3. k \in Nat /\ k * (2 * channels) <= available
  <2>1. CASE channels = 1
    BY <1>1, <1>2, <2>1
  <2>2. CASE channels = 2
    BY <1>1, <1>2, <2>2
  <2> QED
    BY <1>1, <2>1, <2>2
<1>4. /\ offset' = offset + k * (2 * channels) /\ available' = MaxLen - offset'
      /\ UNCHANGED <<channels, resampling, unsent>> /\ dropped' = (dropped \/ k < n)
  BY DEF ReadResampled
<1> HIDE DEF k
<1>5. offset' \in Nat /\ Pre <= offset' /\ offset' <= MaxLen
  BY <1>1, <1>3, <1>4
<1>6. Whole'
  <2>1. PICK j \in Nat : offset = Pre + j * (2 * channels)
    BY DEF FrameInv, Whole
  <2>2. j + k \in Nat /\ offset' = Pre + (j + k) * (2 * channels)
    BY <1>1, <1>3, <1>4, <2>1
  <2> QED
    BY <1>4, <2>2 DEF Whole
<1>7. NoticesKept /\ locked' \in BOOLEAN
  <2>1. CASE available' < Packet
    <3>1. NotifyOverrun /\ locked' = FALSE
      BY <2>1, Zenon DEF ReadResampled
    <3>2. (k < n) \in BOOLEAN
      BY <1>1, <1>3
    <3> QED
      BY <1>4, <3>1, <3>2, NotifyKeeps
  <2>2. CASE ~(available' < Packet)
    <3>1. ~(k < n)
      BY <1>1, <1>2, <1>4, <2>2 DEF k
    <3>2. UNCHANGED <<notified, notices>> /\ locked' \in BOOLEAN
      BY <2>2 DEF ReadResampled, FrameInv, FrameTypeOK
    <3>3. dropped' = (dropped \/ FALSE)
      BY <1>4, <3>1, Zenon
    <3> QED
      BY <3>2, <3>3, QuietKeeps
  <2> QED
    BY <2>1, <2>2
<1> QED
  BY <1>4, <1>5, <1>6, <1>7, OffsetMoves

\* Every turn of fork_frame and of CLIENT_WRITEABLE keeps the buffer consistent.
THEOREM FrameInvariance == FrameSpec => []FrameInv
<1>1. FrameInit => FrameInv
  <2> SUFFICES ASSUME FrameInit PROVE FrameInv
    OBVIOUS
  <2>1. offset = Pre + 0 * SampleFrame
    BY DEF FrameInit
  <2>2. Whole
    BY <2>1 DEF Whole
  <2>3. FrameTypeOK
    <3>1. /\ resampling \in BOOLEAN /\ locked \in BOOLEAN /\ notified \in BOOLEAN
          /\ dropped \in BOOLEAN /\ unsent \in BOOLEAN
      BY DEF FrameInit
    <3>2. channels \in {1, 2} /\ offset \in Nat /\ offset >= Pre /\ available \in Int /\ notices \in Nat
      BY DEF FrameInit
    <3> QED
      BY <3>1, <3>2 DEF FrameTypeOK
  <2>4. InBounds /\ SpaceIsKnown /\ OverrunTold /\ CountsNotices
    BY DEF FrameInit, InBounds, SpaceIsKnown, OverrunTold, CountsNotices
  <2> QED
    BY <2>2, <2>3, <2>4 DEF FrameInv
<1>2. FrameInv /\ [FrameNext]_frameVars => FrameInv'
  <2> SUFFICES ASSUME FrameInv, [FrameNext]_frameVars PROVE FrameInv'
    OBVIOUS
  <2> USE DEF FrameInv, FrameTypeOK, InBounds, SpaceIsKnown, Whole, OverrunTold, CountsNotices
  <2>1. CASE Begin
    BY <2>1 DEF Begin
  <2>2. CASE WriteAudio
    <3>1. offset' = Pre + 0 * SampleFrame
      BY <2>2 DEF WriteAudio
    <3> QED
      BY <2>2, <3>1 DEF WriteAudio
  <2>3. CASE EndResampled
    <3>1. /\ locked' = FALSE
          /\ UNCHANGED <<channels, resampling, offset, available, notified, notices, dropped, unsent>>
      BY <2>3 DEF EndResampled
    <3> QED
      BY <3>1
  <2>4. CASE UNCHANGED frameVars
    BY <2>4 DEF frameVars
  <2> QED
    BY <2>1, <2>2, <2>3, <2>4, ReadNativeKeeps, EndNativeKeeps, ReadResampledKeeps DEF FrameNext
<1> QED
  BY <1>1, <1>2, PTL DEF FrameSpec

\* The type invariant: the data starts after LWS_PRE.
THEOREM FrameTypes == FrameSpec => []FrameTypeOK
  BY FrameInvariance, PTL DEF FrameInv

\* fork_frame never writes past the end of the audio buffer, mono or stereo.
THEOREM FrameInBounds == FrameSpec => []InBounds
  BY FrameInvariance, PTL DEF FrameInv

\* The channels of a stereo fork are never swapped by a partial sample frame.
THEOREM FrameWholeSamples == FrameSpec => []WholeSamples
<1>1. FrameInv => WholeSamples
  <2> SUFFICES ASSUME FrameInv PROVE WholeSamples
    OBVIOUS
  <2>1. PICK k \in Nat : offset = Pre + k * (2 * channels)
    BY DEF FrameInv, Whole
  <2>2. CASE channels = 1
    BY <2>1, <2>2 DEF WholeSamples
  <2>3. CASE channels = 2
    BY <2>1, <2>3 DEF WholeSamples
  <2> QED
    BY <2>2, <2>3 DEF FrameInv, FrameTypeOK
<1> QED
  BY <1>1, FrameInvariance, PTL

\* What finds no room is never given up without the event.
THEOREM FrameOverrunTold == FrameSpec => []OverrunTold
  BY FrameInvariance, PTL DEF FrameInv

\* The event is sent once.
THEOREM FrameOverrunOnce == FrameSpec => []OverrunOnce
<1>1. FrameInv => OverrunOnce
  BY DEF FrameInv, FrameTypeOK, CountsNotices, OverrunOnce
<1> QED
  BY <1>1, FrameInvariance, PTL

HIDE FrameBufferAssumption DEF Space, SampleFrame, Stored, MinSpace

-----------------------------------------------------------------------------
(* SimpleBuffer: the ring of chunks.                                       *)

RingInv == RingTypeOK /\ CursorsAgree

USE SimpleBufferAssumption DEF Slot

\* The slots of the chunks that are held are slots, and no two chunks share one.
LEMMA SlotsApart ==
  ASSUME NEW r \in Slot
  PROVE  /\ \A i \in 1 .. NumChunks + 1 : SlotFrom(r, i) \in Slot
         /\ \A i, j \in 1 .. NumChunks : SlotFrom(r, i) = SlotFrom(r, j) => i = j
         /\ SlotFrom(r, 1) = r /\ SlotFrom(r, NumChunks + 1) = r
         /\ \A i \in 1 .. NumChunks : Following(SlotFrom(r, i)) = SlotFrom(r, i + 1)
  BY DEF SlotFrom, Following

\* When the read cursor moves, the chunk that was the second is the first.
LEMMA ReadMoves ==
  ASSUME NEW r \in Slot
  PROVE  /\ Following(r) \in Slot
         /\ \A i \in 1 .. NumChunks : SlotFrom(Following(r), i) = SlotFrom(r, i + 1)
  BY DEF SlotFrom, Following

\* What is pending stays a sequence of chunks.
LEMMA PendingTypes ==
  ASSUME RingTypeOK, pending # <<>>
  PROVE  Head(pending) \in Chunk /\ Tail(pending) \in Seq(Chunk)
  BY HeadTailProperties DEF RingTypeOK

\* One turn of add()'s loop, with room and without.
LEMMA AddChunkKeeps == ASSUME RingInv, AddChunk PROVE RingInv'
<1>1. /\ slots \in [Slot -> Chunk \cup {NoChunk}] /\ numItems \in 0 .. NumChunks
      /\ nextWrite \in Slot /\ nextRead \in Slot
      /\ nextWrite = SlotFrom(nextRead, numItems + 1) /\ Head(pending) \in Chunk
      /\ \A i \in 1 .. numItems : slots[SlotFrom(nextRead, i)] \in Chunk
  BY PendingTypes DEF RingInv, RingTypeOK, CursorsAgree, SlotOf, AddChunk
<1>2. /\ slots' = [slots EXCEPT ![nextWrite] = Head(pending)]
      /\ nextWrite' = Following(nextWrite) /\ nextWrite' \in Slot
  BY <1>1 DEF AddChunk, Following
<1>3. CASE numItems < NumChunks /\ numItems' = numItems + 1 /\ UNCHANGED nextRead
  <2>1. RingTypeOK'
    BY <1>1, <1>2, <1>3, PendingTypes DEF RingInv, RingTypeOK, AddChunk
  <2>2. nextWrite' = SlotFrom(nextRead', numItems' + 1)
    BY <1>1, <1>2, <1>3, SlotsApart
  <2>3. ASSUME NEW i \in 1 .. numItems' PROVE slots'[SlotFrom(nextRead', i)] \in Chunk
    <3>1. CASE i = numItems + 1
      BY <1>1, <1>2, <1>3, <3>1
    <3>2. CASE i # numItems + 1
      <4>1. i \in 1 .. numItems /\ numItems + 1 \in 1 .. NumChunks /\ i \in 1 .. NumChunks
        BY <1>1, <1>3, <3>2
      <4>2. SlotFrom(nextRead, i) # nextWrite /\ SlotFrom(nextRead, i) \in Slot
        BY <1>1, <3>2, <4>1, SlotsApart
      <4> QED
        BY <1>1, <1>2, <1>3, <4>1, <4>2
    <3> QED
      BY <3>1, <3>2
  <2> QED
    BY <2>1, <2>2, <2>3 DEF RingInv, CursorsAgree, SlotOf
<1>4. CASE numItems >= NumChunks /\ nextRead' = Following(nextRead) /\ UNCHANGED numItems
  <2>1. /\ nextRead' \in Slot /\ numItems = NumChunks
        /\ \A i \in 1 .. NumChunks : SlotFrom(nextRead', i) = SlotFrom(nextRead, i + 1)
    <3>1. numItems = NumChunks
      BY <1>1, <1>4
    <3>2. nextRead' = Following(nextRead) /\ nextRead \in Slot
      BY <1>1, <1>4
    <3> QED
      BY <3>1, <3>2, ReadMoves, Zenon
  <2>2. RingTypeOK'
    BY <1>1, <1>2, <1>4, <2>1, PendingTypes DEF RingInv, RingTypeOK, AddChunk
  <2>3. nextWrite' = SlotFrom(nextRead', numItems' + 1)
    BY <1>1, <1>2, <1>4, <2>1, SlotsApart
  <2>4. ASSUME NEW i \in 1 .. numItems' PROVE slots'[SlotFrom(nextRead', i)] \in Chunk
    <3>1. CASE i = NumChunks
      BY <1>1, <1>2, <1>4, <2>1, <3>1, SlotsApart
    <3>2. CASE i # NumChunks
      <4>1. i \in 1 .. NumChunks /\ i + 1 \in 1 .. numItems /\ 1 \in 1 .. NumChunks /\ i + 1 # 1
        BY <1>1, <1>4, <2>1, <3>2
      <4>2. SlotFrom(nextRead, i + 1) # nextWrite /\ SlotFrom(nextRead, i + 1) \in Slot
        BY <1>1, <2>1, <4>1, SlotsApart
      <4> QED
        BY <1>1, <1>2, <2>1, <4>1, <4>2
    <3> QED
      BY <3>1, <3>2
  <2> QED
    BY <2>2, <2>3, <2>4 DEF RingInv, CursorsAgree, SlotOf
<1> QED
  BY <1>3, <1>4 DEF AddChunk

\* getNextChunk takes the chunk at the read cursor.
LEMMA GetNextChunkKeeps == ASSUME RingInv, GetNextChunk PROVE RingInv'
<1>1. CASE numItems = 0
  BY <1>1 DEF RingInv, RingTypeOK, CursorsAgree, GetNextChunk, SlotOf
<1>2. CASE numItems # 0
  <2>1. /\ nextRead \in Slot /\ numItems \in 1 .. NumChunks /\ numItems' = numItems - 1
        /\ nextRead' = Following(nextRead) /\ got' = slots[nextRead]
        /\ UNCHANGED <<slots, nextWrite, pending>>
    BY <1>2 DEF RingInv, RingTypeOK, GetNextChunk
  <2>2. /\ nextRead' \in Slot
        /\ \A i \in 1 .. NumChunks : SlotFrom(nextRead', i) = SlotFrom(nextRead, i + 1)
    BY <2>1, ReadMoves
  <2>3. RingTypeOK'
    BY <2>1, <2>2 DEF RingInv, RingTypeOK
  <2>4. CursorsAgree'
    BY <2>1, <2>2 DEF RingInv, CursorsAgree, SlotOf
  <2> QED
    BY <2>3, <2>4 DEF RingInv
<1> QED
  BY <1>1, <1>2

\* add() and getNextChunk() keep the cursors and the count in agreement.
THEOREM RingInvariance == RingSpec => []RingInv
<1>1. RingInit => RingInv
  BY EmptySeq DEF RingInit, RingInv, RingTypeOK, CursorsAgree, SlotOf, SlotFrom
<1>2. RingInv /\ [RingNext]_ringVars => RingInv'
  <2> SUFFICES ASSUME RingInv, [RingNext]_ringVars PROVE RingInv'
    OBVIOUS
  <2>1. ASSUME NEW n \in 1 .. MaxAdd, NEW cs \in [1 .. n -> Chunk], Add(cs)
        PROVE  RingInv'
    <3>1. cs \in Seq(Chunk)
      BY SeqDef
    <3> QED
      BY <2>1, <3>1 DEF Add, RingInv, RingTypeOK, CursorsAgree, SlotOf
  <2>2. CASE UNCHANGED ringVars
    BY <2>2 DEF ringVars, RingInv, RingTypeOK, CursorsAgree, SlotOf
  <2> QED
    BY <2>1, <2>2, AddChunkKeeps, GetNextChunkKeeps DEF RingNext
<1> QED
  BY <1>1, <1>2, PTL DEF RingSpec

\* The type invariant: the cursors stay on the slots.
THEOREM RingTypes == RingSpec => []RingTypeOK
  BY RingInvariance, PTL DEF RingInv

\* The cursors and the count agree, and only written chunks are counted.
THEOREM RingCursors == RingSpec => []CursorsAgree
  BY RingInvariance, PTL DEF RingInv

-----------------------------------------------------------------------------
(* The ring implements the queue.                                          *)

\* The queue that IsQueue maps the ring to.
Held == [i \in 1 .. numItems |-> slots[SlotFrom(nextRead, i)]]

\* It is a sequence of as many chunks as are counted.
LEMMA HeldIsSeq ==
  ASSUME RingInv
  PROVE  Held \in Seq(Chunk) /\ Len(Held) = numItems
<1>1. numItems \in Nat
  BY DEF RingInv, RingTypeOK
<1>2. Held \in [1 .. numItems -> Chunk]
  BY DEF RingInv, CursorsAgree, SlotOf, Held
<1>3. Held \in Seq(Chunk)
  BY <1>1, <1>2, SeqDef
<1>4. DOMAIN Held = 1 .. numItems /\ DOMAIN Held = 1 .. Len(Held) /\ Len(Held) \in Nat
  BY <1>3, LenProperties DEF Held
<1> QED
  BY <1>1, <1>3, <1>4

\* One chunk of add() is put at the end, and the oldest one is forgotten if the ring is full.
LEMMA AddChunkPuts ==
  ASSUME RingInv, RingInv', AddChunk
  PROVE  Queue!Put(Head(pending))
<1> DEFINE c == Head(pending)
<1>1. /\ slots \in [Slot -> Chunk \cup {NoChunk}] /\ numItems \in 0 .. NumChunks
      /\ nextWrite \in Slot /\ nextRead \in Slot
      /\ nextWrite = SlotFrom(nextRead, numItems + 1) /\ c \in Chunk
      /\ slots' = [slots EXCEPT ![nextWrite] = c] /\ UNCHANGED got
  BY PendingTypes DEF RingInv, RingTypeOK, CursorsAgree, SlotOf, AddChunk
<1>0. /\ nextRead \in Slot /\ nextWrite = SlotFrom(nextRead, numItems + 1)
      /\ numItems \in 0 .. NumChunks
  BY DEF RingInv, RingTypeOK, CursorsAgree, SlotOf
<1>2. /\ Held \in Seq(Chunk) /\ Len(Held) = numItems
      /\ Held' \in Seq(Chunk) /\ Len(Held') = numItems'
  <2>1. Held \in Seq(Chunk) /\ Len(Held) = numItems
    BY HeldIsSeq
  <2>2. (RingInv => Held \in Seq(Chunk) /\ Len(Held) = numItems)'
    BY HeldIsSeq, PTL
  <2> QED
    BY <2>1, <2>2
<1> HIDE DEF c
<1>3. CASE numItems < NumChunks /\ numItems' = numItems + 1 /\ UNCHANGED nextRead
  <2>1. /\ Append(Held, c) \in Seq(Chunk) /\ Len(Append(Held, c)) = numItems + 1
        /\ \A i \in 1 .. numItems : Append(Held, c)[i] = Held[i]
        /\ Append(Held, c)[numItems + 1] = c
    BY <1>1, <1>2, AppendProperties
  <2>2. ASSUME NEW i \in 1 .. numItems + 1 PROVE Held'[i] = Append(Held, c)[i]
    <3>1. CASE i = numItems + 1
      BY <1>1, <1>3, <2>1, <3>1 DEF Held
    <3>2. CASE i # numItems + 1
      <4>1. i \in 1 .. numItems /\ numItems + 1 \in 1 .. NumChunks /\ i \in 1 .. NumChunks
        BY <1>1, <1>3, <3>2
      <4>2. SlotFrom(nextRead, i) # nextWrite /\ SlotFrom(nextRead, i) \in Slot
        <5>1. /\ \A m \in 1 .. NumChunks + 1 : SlotFrom(nextRead, m) \in Slot
              /\ \A m, n \in 1 .. NumChunks : SlotFrom(nextRead, m) = SlotFrom(nextRead, n) => m = n
          BY ONLY <1>0, SlotsApart
        <5> QED
          BY <1>0, <3>2, <4>1, <5>1
      <4> QED
        BY <1>1, <1>3, <2>1, <4>1, <4>2 DEF Held
    <3> QED
      BY <3>1, <3>2
  <2>3. Held' = Append(Held, c)
    BY <1>2, <1>3, <2>1, <2>2, SeqEqual
  <2> QED
    BY <1>1, <1>2, <1>3, <2>3 DEF Queue!Put, Held, SlotOf, c
<1>4. CASE numItems >= NumChunks /\ nextRead' = Following(nextRead) /\ UNCHANGED numItems
  <2>1. /\ numItems = NumChunks /\ NumChunks \in Nat /\ NumChunks >= 1 /\ Held # <<>>
        /\ \A i \in 1 .. NumChunks : SlotFrom(nextRead', i) = SlotFrom(nextRead, i + 1)
    <3>1. numItems = NumChunks /\ NumChunks \in Nat /\ NumChunks >= 1
      BY <1>0, <1>4
    <3>2. Held # <<>>
      BY <1>2, <3>1, EmptySeq
    <3>3. \A i \in 1 .. NumChunks : SlotFrom(nextRead', i) = SlotFrom(nextRead, i + 1)
      BY <1>0, <1>4, ReadMoves
    <3> QED
      BY <3>1, <3>2, <3>3
  <2>2. /\ Tail(Held) \in Seq(Chunk) /\ Len(Tail(Held)) = NumChunks - 1
        /\ \A i \in 1 .. NumChunks - 1 : Tail(Held)[i] = Held[i + 1]
    BY <1>2, <2>1, HeadTailProperties
  <2>3. /\ Append(Tail(Held), c) \in Seq(Chunk) /\ Len(Append(Tail(Held), c)) = NumChunks
        /\ \A i \in 1 .. NumChunks - 1 : Append(Tail(Held), c)[i] = Held[i + 1]
        /\ Append(Tail(Held), c)[NumChunks] = c
    <3>1. NumChunks - 1 \in Nat /\ NumChunks - 1 + 1 = NumChunks
      BY <2>1
    <3> QED
      BY <1>1, <2>2, <3>1, AppendProperties
  <2>4. ASSUME NEW i \in 1 .. NumChunks PROVE Held'[i] = Append(Tail(Held), c)[i]
    <3>1. CASE i = NumChunks
      BY <1>1, <1>4, <2>1, <2>3, <3>1, SlotsApart DEF Held
    <3>2. CASE i # NumChunks
      <4>1. i \in 1 .. NumChunks /\ i \in 1 .. NumChunks - 1 /\ i + 1 \in 1 .. NumChunks
            /\ 1 \in 1 .. NumChunks /\ i + 1 # 1
        BY <2>1, <3>2
      <4>2. SlotFrom(nextRead, i + 1) # nextWrite /\ SlotFrom(nextRead, i + 1) \in Slot
        <5>1. nextWrite = nextRead /\ SlotFrom(nextRead, 1) = nextRead
          BY <1>0, <2>1, SlotsApart
        <5> QED
          BY <1>0, <4>1, <5>1, SlotsApart
      <4> QED
        BY <1>1, <1>4, <2>1, <2>3, <4>1, <4>2 DEF Held
    <3> QED
      BY <3>1, <3>2
  <2>5. Held' = Append(Tail(Held), c)
    BY <1>2, <1>4, <2>1, <2>3, <2>4, SeqEqual
  <2>6. Len(Held) = NumChunks /\ ~(Len(Held) < NumChunks)
    BY <1>2, <2>1
  <2>7. Held = [i \in 1 .. numItems |-> slots[SlotOf(i)]]
    BY DEF Held, SlotOf
  <2> QED
    BY <1>1, <2>5, <2>6, <2>7 DEF Queue!Put, Held, SlotOf, c
<1> QED
  BY <1>3, <1>4 DEF AddChunk

\* getNextChunk() takes the oldest chunk, or returns nullptr from an empty ring.
LEMMA GetNextChunkTakes ==
  ASSUME RingInv, RingInv', GetNextChunk
  PROVE  Queue!Take
<1>1. /\ Held \in Seq(Chunk) /\ Len(Held) = numItems
      /\ Held' \in Seq(Chunk) /\ Len(Held') = numItems'
  <2>1. Held \in Seq(Chunk) /\ Len(Held) = numItems
    BY HeldIsSeq
  <2>2. (RingInv => Held \in Seq(Chunk) /\ Len(Held) = numItems)'
    BY HeldIsSeq, PTL
  <2> QED
    BY <2>1, <2>2
<1>2. CASE numItems = 0
  <2>1. Held = <<>> /\ got' = NoChunk /\ UNCHANGED <<numItems, nextRead, slots>>
    BY <1>1, <1>2, EmptySeq DEF GetNextChunk
  <2> QED
    BY <2>1 DEF Queue!Take, Held, SlotOf, SlotFrom
<1>3. CASE numItems # 0
  <2>1. /\ nextRead \in Slot /\ numItems \in 1 .. NumChunks /\ numItems' = numItems - 1
        /\ nextRead' = Following(nextRead) /\ got' = slots[nextRead] /\ slots' = slots
        /\ Held # <<>>
    BY <1>1, <1>3, EmptySeq DEF RingInv, RingTypeOK, GetNextChunk
  <2>2. /\ Tail(Held) \in Seq(Chunk) /\ Len(Tail(Held)) = numItems - 1
        /\ \A i \in 1 .. numItems - 1 : Tail(Held)[i] = Held[i + 1]
    BY <1>1, <2>1, HeadTailProperties
  <2>3. \A i \in 1 .. numItems - 1 : Held'[i] = Held[i + 1]
    <3>1. \A i \in 1 .. NumChunks : SlotFrom(nextRead', i) = SlotFrom(nextRead, i + 1)
      BY <2>1, ReadMoves
    <3> QED
      BY <2>1, <3>1 DEF Held
  <2>4. Held' = Tail(Held)
    BY <1>1, <2>1, <2>2, <2>3, SeqEqual
  <2>5. Head(Held) = slots[nextRead]
    <3>1. Head(Held) = Held[1]
      BY <1>1, <2>1
    <3> QED
      BY <2>1, <3>1, SlotsApart DEF Held
  <2> QED
    BY <2>1, <2>4, <2>5 DEF Queue!Take, Held, SlotOf
<1> QED
  BY <1>2, <1>3

\* The ring of the maintained modules is a queue that forgets its oldest chunk.
THEOREM RingIsQueue == RingSpec => IsQueue
<1>1. RingInit => Queue!QueueInit
  <2> SUFFICES ASSUME RingInit PROVE Queue!QueueInit
    OBVIOUS
  <2>1. [i \in 1 .. numItems |-> slots[SlotOf(i)]] = <<>>
    BY DEF RingInit
  <2> QED
    BY <2>1 DEF RingInit, Queue!QueueInit
<1>2. RingInv /\ RingInv' /\ [RingNext]_ringVars =>
        [Queue!QueueNext]_<<[i \in 1 .. numItems |-> slots[SlotOf(i)]], got>>
  <2> SUFFICES ASSUME RingInv, RingInv', [RingNext]_ringVars
               PROVE  [Queue!QueueNext]_<<[i \in 1 .. numItems |-> slots[SlotOf(i)]], got>>
    OBVIOUS
  <2>1. CASE AddChunk
    BY <2>1, AddChunkPuts, PendingTypes DEF AddChunk, RingInv, Queue!QueueNext
  <2>2. CASE GetNextChunk
    BY <2>2, GetNextChunkTakes DEF Queue!QueueNext
  <2>3. ASSUME \/ UNCHANGED ringVars
               \/ \E n \in 1 .. MaxAdd : \E cs \in [1 .. n -> Chunk] : Add(cs)
        PROVE  UNCHANGED <<[i \in 1 .. numItems |-> slots[SlotOf(i)]], got>>
    BY <2>3 DEF ringVars, Add, SlotOf, SlotFrom
  <2> QED
    BY <2>1, <2>2, <2>3 DEF RingNext
<1> QED
  BY <1>1, <1>2, RingInvariance, PTL DEF RingSpec, IsQueue, Queue!QueueSpec
=============================================================================
