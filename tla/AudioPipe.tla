------------------------------ MODULE AudioPipe ------------------------------
(***************************************************************************)
(* The AudioPipe of mod_audio_fork (audio_pipe.cpp): one WebSocket         *)
(* connection per fork, all of them served by the one libwebsockets        *)
(* service thread that AudioPipe::initialize starts.                       *)
(*                                                                         *)
(* Three kinds of threads touch a pipe p:                                  *)
(*   - its user: the API, session and media threads.  They hold            *)
(*     tech_pvt->mutex while they use the pipe, so they are one process    *)
(*     with program counter upc[p]; connect() alone runs without the mutex;*)
(*   - its reaper: the detached thread that the glue starts when the fork  *)
(*     is cleaned up, with program counter rpc[p];                         *)
(*   - the service thread, one for all pipes, with program counter spc, the*)
(*     pipe cur whose callback it runs and the local list todo of the      *)
(*     processPending functions.                                           *)
(* m_state, m_closePending, m_gracefulShutdown and m_closeSignaled are     *)
(* std::atomic: each read and each write of them is a step of its own,     *)
(* except where the comment of an action says why two can be one.          *)
(*                                                                         *)
(* Received messages are in RecvBuffer, the layout of the audio buffer in  *)
(* FrameBuffer: here text and audio only say whether something is waiting. *)
(***************************************************************************)
EXTENDS Naturals, FiniteSets

CONSTANTS
  Pipes,   \* the AudioPipe objects
  NoPipe   \* the service thread is in no pipe's callback

ASSUME NoPipeAssumption == NoPipe \notin Pipes

VARIABLES
  own,          \* who may delete the pipe: unborn, user, reaper, freed
  upc,          \* program counter of the pipe's user
  rpc,          \* program counter of the pipe's reaper
  state,        \* m_state
  vhd,          \* m_vhd # nullptr
  wsi,          \* m_wsi: none (nullptr), handshake, open, freed
  writable,     \* lws owes this wsi a WRITEABLE callback
  graceful,     \* m_gracefulShutdown
  closePending, \* m_closePending
  signaled,     \* m_closeSignaled, and the promise with it
  text,         \* m_metadata is not empty
  audio,        \* m_audio_buffer_write_offset > LWS_PRE
  asked,        \* tech_pvt->graceful_shutdown: the API asked for the flush
  flushed,      \* history: a zero-length binary frame was written
  note,         \* history: the last connection event given to the glue
  connects,     \* pendingConnects
  disconnects,  \* pendingDisconnects
  writes,       \* pendingWrites
  wake,         \* an lws_cancel_service the service thread has not seen yet
  ctx,          \* contexts[0]: null, live, dead
  spc, cur, todo

pipeVars == <<state, vhd, wsi, writable, graceful, closePending, signaled, text,
              audio, asked, flushed, note>>
listVars == <<connects, disconnects, writes, wake>>
svcVars  == <<ctx, spc, cur, todo>>
vars     == <<own, upc, rpc, pipeVars, listVars, svcVars>>

LwsState_t == {"IDLE", "CONNECTING", "CONNECTED", "FAILED", "DISCONNECTING",
               "DISCONNECTED"}
Terminal == {"FAILED", "DISCONNECTED"}

UserPc == {"new", "connect", "connectWake", "noContext", "noContextNotify",
           "noContextSignal", "idle", "text", "audio", "push", "wake", "audioPush",
           "audioWake", "gracefulFlag", "gracefulRecheck"}
ReaperPc == {"none", "check", "flag", "recheck", "cas", "push", "wake", "wait",
             "unlinkConnects", "unlinkDisconnects", "unlinkWrites", "free", "done"}
\* fail...: a connect that failed inside connect_client; error...: the callback
\* CLIENT_CONNECTION_ERROR; est...: CLIENT_ESTABLISHED; wr...: CLIENT_WRITEABLE;
\* cls...: CLIENT_CLOSED
InCallback == {"fail", "failNotify", "failSignal", "error", "errorNotify",
               "errorSignal", "estClose", "estGraceful", "estNotify", "wrText",
               "wrRest", "cls1", "cls2", "clsState", "clsSignal"}
Connecting == {"connect", "fail", "failNotify", "failSignal"}
InList     == {"connect", "disconnect", "write"}
SvcPc      == {"create", "loop", "done"} \cup InList \cup InCallback

Init ==
  /\ own = [p \in Pipes |-> "unborn"]
  /\ upc = [p \in Pipes |-> "new"]
  /\ rpc = [p \in Pipes |-> "none"]
  /\ state = [p \in Pipes |-> "IDLE"]
  /\ wsi = [p \in Pipes |-> "none"]
  /\ note = [p \in Pipes |-> "none"]
  /\ vhd = [p \in Pipes |-> FALSE]
  /\ writable = [p \in Pipes |-> FALSE]
  /\ graceful = [p \in Pipes |-> FALSE]
  /\ closePending = [p \in Pipes |-> FALSE]
  /\ signaled = [p \in Pipes |-> FALSE]
  /\ text = [p \in Pipes |-> FALSE]
  /\ audio = [p \in Pipes |-> FALSE]
  /\ asked = [p \in Pipes |-> FALSE]
  /\ flushed = [p \in Pipes |-> FALSE]
  /\ connects = {} /\ disconnects = {} /\ writes = {} /\ wake = FALSE
  /\ ctx = "null" /\ spc = "create" /\ cur = NoPipe /\ todo = {}

-----------------------------------------------------------------------------
(* The user of a pipe.                                                     *)

UserAt(p, pc)       == upc[p] = pc
UserGoes(p, pc)     == upc' = [upc EXCEPT ![p] = pc]
SetState(p, s)      == state' = [state EXCEPT ![p] = s]

\* fork_data_init: new AudioPipe(...).
Create(p) ==
  /\ own[p] = "unborn"
  /\ own' = [own EXCEPT ![p] = "user"]
  /\ UNCHANGED <<upc, rpc, pipeVars, listVars, svcVars>>

\* fork_session_cleanup_unattached: the media bug could not be added, so the pipe
\* was never connected and is deleted on the spot.
Discard(p) ==
  /\ own[p] = "user" /\ UserAt(p, "new")
  /\ own' = [own EXCEPT ![p] = "freed"]
  /\ UNCHANGED <<upc, rpc, pipeVars, listVars, svcVars>>

\* fork_session_connect has read tech_pvt->pAudioPipe and calls connect().
Connect(p) ==
  /\ own[p] = "user" /\ UserAt(p, "new")
  /\ UserGoes(p, "connect")
  /\ UNCHANGED <<own, rpc, pipeVars, listVars, svcVars>>

\* addPendingConnect with a live context: the entry goes in under mutex_connects ...
PushConnect(p) ==
  /\ UserAt(p, "connect") /\ ctx = "live"
  /\ connects' = connects \cup {p}
  /\ UserGoes(p, "connectWake")
  /\ UNCHANGED <<own, rpc, pipeVars, disconnects, writes, wake, svcVars>>

\* ... and the context is woken after the mutex is released.
WakeConnect(p) ==
  /\ UserAt(p, "connectWake")
  /\ wake' = TRUE
  /\ UserGoes(p, "idle")
  /\ UNCHANGED <<own, rpc, pipeVars, connects, disconnects, writes, svcVars>>

\* addPendingConnect with no live context (the service thread has not published it
\* yet, or lws_create_context failed): fail, notify, signal, on the user's thread.
NoContext(p) ==
  /\ UserAt(p, "connect") /\ ctx # "live"
  /\ UserGoes(p, "noContext")
  /\ UNCHANGED <<own, rpc, pipeVars, listVars, svcVars>>

NoContextFail(p) ==
  /\ UserAt(p, "noContext")
  /\ SetState(p, "FAILED")
  /\ UserGoes(p, "noContextNotify")
  /\ UNCHANGED <<own, rpc, vhd, wsi, writable, graceful, closePending, signaled,
                 text, audio, asked, flushed, note, listVars, svcVars>>

NoContextNotify(p) ==
  /\ UserAt(p, "noContextNotify")
  /\ note' = [note EXCEPT ![p] = "fail"]
  /\ UserGoes(p, "noContextSignal")
  /\ UNCHANGED <<own, rpc, state, vhd, wsi, writable, graceful, closePending,
                 signaled, text, audio, asked, flushed, listVars, svcVars>>

NoContextSignal(p) ==
  /\ UserAt(p, "noContextSignal")
  /\ signaled' = [signaled EXCEPT ![p] = TRUE]
  /\ UserGoes(p, "idle")
  /\ UNCHANGED <<own, rpc, state, vhd, wsi, writable, graceful, closePending,
                 text, audio, asked, flushed, note, listVars, svcVars>>

\* The user may start an operation: it still owns the pipe, no other operation is
\* open.  (Only the wake-up of connect() can overlap one, and it commutes with all of
\* them.)  estNotify is atomic, so tech_pvt->mutex needs no variable of its own.
UserReady(p) == own[p] = "user" /\ UserAt(p, "idle")

\* bufferForSending: only a connected pipe takes the text ...
SendText(p) ==
  /\ UserReady(p) /\ state[p] = "CONNECTED"
  /\ UserGoes(p, "text")
  /\ UNCHANGED <<own, rpc, pipeVars, listVars, svcVars>>

AppendText(p) ==
  /\ UserAt(p, "text")
  /\ text' = [text EXCEPT ![p] = TRUE]
  /\ UserGoes(p, "push")
  /\ UNCHANGED <<own, rpc, state, vhd, wsi, writable, graceful, closePending,
                 signaled, audio, asked, flushed, note, listVars, svcVars>>

\* fork_frame: not after a graceful shutdown, and only a connected pipe takes audio.
\* From here to audioWake the user holds m_audio_mutex.
SendAudio(p) ==
  /\ UserReady(p) /\ ~asked[p] /\ state[p] = "CONNECTED"
  /\ UserGoes(p, "audio")
  /\ UNCHANGED <<own, rpc, pipeVars, listVars, svcVars>>

\* Either frames were read, and unlockAudioBuffer queues a write, or there were none.
FillAudio(p) ==
  /\ UserAt(p, "audio")
  /\ \/ /\ audio' = [audio EXCEPT ![p] = TRUE]
        /\ UserGoes(p, "audioPush")
     \/ /\ UserGoes(p, IF audio[p] THEN "audioPush" ELSE "idle")
        /\ UNCHANGED audio
  /\ UNCHANGED <<own, rpc, state, vhd, wsi, writable, graceful, closePending,
                 signaled, text, asked, flushed, note, listVars, svcVars>>

\* Mutant of WakeWrite: the context is not woken.
WakeWriteForgotten(p) ==
  /\ UserAt(p, "wake") \/ UserAt(p, "audioWake")
  /\ UserGoes(p, "idle")
  /\ UNCHANGED <<own, rpc, pipeVars, listVars, svcVars>>

\* addPendingWrite: the entry goes in under mutex_writes, then the context is woken.
PushWrite(p) ==
  /\ \/ UserAt(p, "push") /\ UserGoes(p, "wake")
     \/ UserAt(p, "audioPush") /\ UserGoes(p, "audioWake")
  /\ writes' = writes \cup {p}
  /\ UNCHANGED <<own, rpc, pipeVars, connects, disconnects, wake, svcVars>>

WakeWrite(p) ==
  /\ UserAt(p, "wake") \/ UserAt(p, "audioWake")
  /\ wake' = TRUE
  /\ UserGoes(p, "idle")
  /\ UNCHANGED <<own, rpc, pipeVars, connects, disconnects, writes, svcVars>>

\* fork_session_graceful_shutdown, then do_graceful_shutdown: a connected pipe gets a
\* write queued, any other remembers the request in m_gracefulShutdown.
GracefulShutdown(p) ==
  /\ UserReady(p) /\ ~asked[p]
  /\ asked' = [asked EXCEPT ![p] = TRUE]
  /\ UserGoes(p, IF state[p] = "CONNECTED" THEN "push" ELSE "gracefulFlag")
  /\ UNCHANGED <<own, rpc, state, vhd, wsi, writable, graceful, closePending,
                 signaled, text, audio, flushed, note, listVars, svcVars>>

GracefulFlag(p) ==
  /\ UserAt(p, "gracefulFlag")
  /\ graceful' = [graceful EXCEPT ![p] = TRUE]
  /\ UserGoes(p, "gracefulRecheck")
  /\ UNCHANGED <<own, rpc, state, vhd, wsi, writable, closePending, signaled,
                 text, audio, asked, flushed, note, listVars, svcVars>>

GracefulRecheck(p) ==
  /\ UserAt(p, "gracefulRecheck")
  /\ UserGoes(p, IF state[p] = "CONNECTED" THEN "push" ELSE "idle")
  /\ UNCHANGED <<own, rpc, pipeVars, listVars, svcVars>>

-----------------------------------------------------------------------------
(* The reaper of a pipe: close(), waitForClose(), delete.                  *)

ReaperAt(p, pc)   == rpc[p] = pc
ReaperGoes(p, pc) == rpc' = [rpc EXCEPT ![p] = pc]

\* reaper(), called by fork_session_cleanup with tech_pvt->mutex held: no operation is
\* open, except that connect() may still run on the thread that started the fork.
HandOff(p) ==
  /\ own[p] = "user"
  /\ upc[p] \in {"connect", "connectWake", "noContext", "noContextNotify",
                 "noContextSignal", "idle"}
  /\ own' = [own EXCEPT ![p] = "reaper"]
  /\ ReaperGoes(p, "check")
  /\ UNCHANGED <<upc, pipeVars, listVars, svcVars>>

\* Mutant of CloseCheck: the state is not read again after m_closePending is set.
CloseCheckOnce(p) ==
  /\ \/ ReaperAt(p, "check") /\ ReaperGoes(p, IF state[p] = "CONNECTED" THEN "cas" ELSE "flag")
     \/ ReaperAt(p, "recheck") /\ ReaperGoes(p, "wait")
  /\ UNCHANGED <<own, upc, pipeVars, listVars, svcVars>>

\* close(): a connected pipe is disconnected; for any other the request is recorded,
\* and the state is read a second time.
CloseCheck(p) ==
  /\ \/ /\ ReaperAt(p, "check")
        /\ ReaperGoes(p, IF state[p] = "CONNECTED" THEN "cas" ELSE "flag")
     \/ /\ ReaperAt(p, "recheck")
        /\ ReaperGoes(p, IF state[p] = "CONNECTED" THEN "cas" ELSE "wait")
  /\ UNCHANGED <<own, upc, pipeVars, listVars, svcVars>>

CloseFlag(p) ==
  /\ ReaperAt(p, "flag")
  /\ closePending' = [closePending EXCEPT ![p] = TRUE]
  /\ ReaperGoes(p, "recheck")
  /\ UNCHANGED <<own, upc, state, vhd, wsi, writable, graceful, signaled, text,
                 audio, asked, flushed, note, listVars, svcVars>>

\* Mutant of CloseCas: DISCONNECTING is stored whatever the state is.
CloseStore(p) ==
  /\ ReaperAt(p, "cas")
  /\ SetState(p, "DISCONNECTING") /\ ReaperGoes(p, "push")
  /\ UNCHANGED <<own, upc, vhd, wsi, writable, graceful, closePending, signaled,
                 text, audio, asked, flushed, note, listVars, svcVars>>

\* addPendingDisconnect: the compare-and-swap CONNECTED -> DISCONNECTING, ...
CloseCas(p) ==
  /\ ReaperAt(p, "cas")
  /\ IF state[p] = "CONNECTED"
     THEN SetState(p, "DISCONNECTING") /\ ReaperGoes(p, "push")
     ELSE UNCHANGED state /\ ReaperGoes(p, "wait")
  /\ UNCHANGED <<own, upc, vhd, wsi, writable, graceful, closePending, signaled,
                 text, audio, asked, flushed, note, listVars, svcVars>>

\* Mutant of ClosePush: the entry is not made when another one is waiting.
ClosePushIfEmpty(p) ==
  /\ ReaperAt(p, "push")
  /\ disconnects' = IF disconnects = {} THEN {p} ELSE disconnects
  /\ ReaperGoes(p, "wake")
  /\ UNCHANGED <<own, upc, pipeVars, connects, writes, wake, svcVars>>

\* ... the entry under mutex_disconnects, ...
ClosePush(p) ==
  /\ ReaperAt(p, "push")
  /\ disconnects' = disconnects \cup {p}
  /\ ReaperGoes(p, "wake")
  /\ UNCHANGED <<own, upc, pipeVars, connects, writes, wake, svcVars>>

\* ... and the wake-up.
CloseWake(p) ==
  /\ ReaperAt(p, "wake")
  /\ wake' = TRUE
  /\ ReaperGoes(p, "wait")
  /\ UNCHANGED <<own, upc, pipeVars, connects, disconnects, writes, svcVars>>

WaitForClose(p) ==
  /\ ReaperAt(p, "wait") /\ signaled[p]
  /\ ReaperGoes(p, "unlinkConnects")
  /\ UNCHANGED <<own, upc, pipeVars, listVars, svcVars>>

\* Mutant of Unlink: the destructor forgets the connect list.
UnlinkTwoLists(p) ==
  /\ \/ ReaperAt(p, "unlinkConnects") /\ ReaperGoes(p, "unlinkDisconnects")
        /\ UNCHANGED <<disconnects, writes>>
     \/ ReaperAt(p, "unlinkDisconnects") /\ ReaperGoes(p, "unlinkWrites")
        /\ disconnects' = disconnects \ {p} /\ UNCHANGED writes
     \/ ReaperAt(p, "unlinkWrites") /\ ReaperGoes(p, "free")
        /\ writes' = writes \ {p} /\ UNCHANGED disconnects
  /\ UNCHANGED <<own, upc, pipeVars, connects, wake, svcVars>>

\* ~AudioPipe: removeFromPending takes the three list mutexes one after the other;
\* then the memory is gone.
Unlink(p) ==
  /\ \/ /\ ReaperAt(p, "unlinkConnects") /\ ReaperGoes(p, "unlinkDisconnects")
        /\ connects' = connects \ {p} /\ UNCHANGED <<disconnects, writes>>
     \/ /\ ReaperAt(p, "unlinkDisconnects") /\ ReaperGoes(p, "unlinkWrites")
        /\ disconnects' = disconnects \ {p} /\ UNCHANGED <<connects, writes>>
     \/ /\ ReaperAt(p, "unlinkWrites") /\ ReaperGoes(p, "free")
        /\ writes' = writes \ {p} /\ UNCHANGED <<connects, disconnects>>
  /\ UNCHANGED <<own, upc, pipeVars, wake, svcVars>>

Free(p) ==
  /\ ReaperAt(p, "free")
  /\ own' = [own EXCEPT ![p] = "freed"]
  /\ ReaperGoes(p, "done")
  /\ UNCHANGED <<upc, pipeVars, listVars, svcVars>>

-----------------------------------------------------------------------------
(* The service thread: lws_service_thread and the callbacks lws makes in it. *)

SvcAt(pc)        == spc = pc
SvcGoes(pc, p)   == spc' = pc /\ cur' = p
ReturnToLoop     == SvcGoes("loop", NoPipe)
UnchangedThreads == UNCHANGED <<own, upc, rpc>>

\* lws_create_context publishes its result; on failure the thread ends.
CreateContext ==
  /\ SvcAt("create")
  /\ \/ ctx' = "live" /\ ReturnToLoop
     \/ ctx' = "dead" /\ SvcGoes("done", NoPipe)
  /\ UNCHANGED <<pipeVars, listVars, todo>> /\ UnchangedThreads

\* EVENT_WAIT_CANCELLED, processPendingConnects: under mutex_connects every IDLE pipe
\* becomes CONNECTING and is remembered.
CollectConnects ==
  /\ SvcAt("loop") /\ wake
  /\ wake' = FALSE
  /\ todo' = {p \in connects : state[p] = "IDLE"}
  /\ state' = [p \in Pipes |-> IF p \in todo' THEN "CONNECTING" ELSE state[p]]
  /\ SvcGoes("connect", NoPipe)
  /\ UNCHANGED <<vhd, wsi, writable, graceful, closePending, signaled, text, audio,
                 asked, flushed, note, connects, disconnects, writes, ctx>>
  /\ UnchangedThreads

\* connect_client: lws starts the handshake, or there is no wsi at all.
ConnectClient(p) ==
  /\ SvcAt("connect") /\ p \in todo
  /\ todo' = todo \ {p}
  /\ vhd' = [vhd EXCEPT ![p] = TRUE]
  /\ \/ wsi' = [wsi EXCEPT ![p] = "handshake"] /\ UNCHANGED <<spc, cur>>
     \/ SvcGoes("fail", p) /\ UNCHANGED wsi
  /\ UNCHANGED <<state, writable, graceful, closePending, signaled, text, audio,
                 asked, flushed, note, listVars, ctx>>
  /\ UnchangedThreads

\* processPendingDisconnects, under mutex_disconnects: entries of adopted pipes leave
\* the list, those still DISCONNECTING are remembered.
CollectDisconnects ==
  /\ SvcAt("connect") /\ todo = {}
  /\ todo' = {p \in disconnects : vhd[p] /\ state[p] = "DISCONNECTING"}
  /\ disconnects' = {p \in disconnects : ~vhd[p]}
  /\ SvcGoes("disconnect", NoPipe)
  /\ UNCHANGED <<pipeVars, connects, writes, wake, ctx>> /\ UnchangedThreads

\* processPendingWrites, under mutex_writes: the same with CONNECTED.
CollectWrites ==
  /\ SvcAt("disconnect") /\ todo = {}
  /\ todo' = {p \in writes : vhd[p] /\ state[p] = "CONNECTED"}
  /\ writes' = {p \in writes : ~vhd[p]}
  /\ SvcGoes("write", NoPipe)
  /\ UNCHANGED <<pipeVars, connects, disconnects, wake, ctx>> /\ UnchangedThreads

\* lws_callback_on_writable(ap->m_wsi), outside the mutex.
RequestWriteable(p) ==
  /\ SvcAt("disconnect") \/ SvcAt("write")
  /\ p \in todo
  /\ todo' = todo \ {p}
  /\ writable' = [writable EXCEPT ![p] = TRUE]
  /\ UNCHANGED <<state, vhd, wsi, graceful, closePending, signaled, text, audio,
                 asked, flushed, note, listVars, ctx, spc, cur>>
  /\ UnchangedThreads

EndCancelled ==
  /\ SvcAt("write") /\ todo = {}
  /\ ReturnToLoop
  /\ UNCHANGED <<pipeVars, listVars, ctx, todo>> /\ UnchangedThreads

\* Mutant of FindAndRemovePendingConnect: every entry without a wsi is purged.
FindAndPurgeAnyNull(p) ==
  \E purged \in SUBSET {q \in connects : wsi[q] = "none"} :
     connects' = connects \ (purged \cup {p})

\* findAndRemovePendingConnect, for a wsi in its handshake: p leaves the list, with any
\* of the connects that failed synchronously and stand before it.
FindAndRemovePendingConnect(p) ==
  \E purged \in SUBSET {q \in connects : wsi[q] = "none" /\ state[q] = "FAILED"} :
     connects' = connects \ (purged \cup {p})
FoundPendingConnect(p) == p \in connects /\ state[p] = "CONNECTING"

\* CLIENT_CONNECTION_ERROR, up to the store of m_state.
ConnectionError(p) ==
  /\ SvcAt("loop") /\ wsi[p] = "handshake"
  /\ FindAndRemovePendingConnect(p)
  /\ wsi' = [wsi EXCEPT ![p] = "freed"]
  /\ IF FoundPendingConnect(p) THEN SvcGoes("error", p) ELSE UNCHANGED <<spc, cur>>
  /\ UNCHANGED <<state, vhd, writable, graceful, closePending, signaled, text, audio,
                 asked, flushed, note, disconnects, writes, wake, ctx, todo>>
  /\ UnchangedThreads

\* The end of a failed connect, in processPendingConnects and in
\* CLIENT_CONNECTION_ERROR: m_state, the callback, setClosed.
FailState ==
  /\ SvcAt("fail") \/ SvcAt("error")
  /\ SetState(cur, "FAILED")
  /\ SvcGoes(IF SvcAt("fail") THEN "failNotify" ELSE "errorNotify", cur)
  /\ UNCHANGED <<vhd, wsi, writable, graceful, closePending, signaled, text, audio,
                 asked, flushed, note, listVars, ctx, todo>>
  /\ UnchangedThreads

FailNotify ==
  /\ SvcAt("failNotify") \/ SvcAt("errorNotify")
  /\ note' = [note EXCEPT ![cur] = "fail"]
  /\ SvcGoes(IF SvcAt("failNotify") THEN "failSignal" ELSE "errorSignal", cur)
  /\ UNCHANGED <<state, vhd, wsi, writable, graceful, closePending, signaled, text,
                 audio, asked, flushed, listVars, ctx, todo>>
  /\ UnchangedThreads

FailSignal ==
  /\ SvcAt("failSignal") \/ SvcAt("errorSignal")
  /\ signaled' = [signaled EXCEPT ![cur] = TRUE]
  /\ SvcGoes(IF SvcAt("failSignal") THEN "connect" ELSE "loop", NoPipe)
  /\ UNCHANGED <<state, vhd, wsi, writable, graceful, closePending, text, audio,
                 asked, flushed, note, listVars, ctx, todo>>
  /\ UnchangedThreads

\* CLIENT_ESTABLISHED.  Nothing but the list can be seen by another thread before the
\* store of m_state, so the search and the store are one step.
Established(p) ==
  /\ SvcAt("loop") /\ wsi[p] = "handshake"
  /\ FindAndRemovePendingConnect(p)
  /\ wsi' = [wsi EXCEPT ![p] = "open"]
  /\ IF FoundPendingConnect(p)
     THEN SetState(p, "CONNECTED") /\ SvcGoes("estClose", p)
     ELSE UNCHANGED <<state, spc, cur>>
  /\ UNCHANGED <<vhd, writable, graceful, closePending, signaled, text, audio,
                 asked, flushed, note, disconnects, writes, wake, ctx, todo>>
  /\ UnchangedThreads

\* Mutant of EstablishedClose: the recorded close() is forgotten.
EstablishedForgetsClose ==
  /\ SvcAt("estClose") /\ SvcGoes("estGraceful", cur)
  /\ UNCHANGED <<pipeVars, listVars, ctx, todo>> /\ UnchangedThreads

\* A recorded close() is completed.  addPendingDisconnect is one step here: until the
\* pipe is closed no other thread looks at the disconnect list.
EstablishedClose ==
  /\ SvcAt("estClose")
  /\ IF closePending[cur] /\ state[cur] = "CONNECTED"
     THEN /\ SetState(cur, "DISCONNECTING")
          /\ disconnects' = disconnects \cup {cur}
          /\ wake' = TRUE
     ELSE UNCHANGED <<state, disconnects, wake>>
  /\ SvcGoes("estGraceful", cur)
  /\ UNCHANGED <<vhd, wsi, writable, graceful, closePending, signaled, text, audio,
                 asked, flushed, note, connects, writes, ctx, todo>>
  /\ UnchangedThreads

\* A recorded graceful shutdown is completed, by queueing a write.
EstablishedGraceful ==
  /\ SvcAt("estGraceful")
  /\ IF graceful[cur] /\ state[cur] = "CONNECTED"
     THEN writes' = writes \cup {cur} /\ wake' = TRUE
     ELSE UNCHANGED <<writes, wake>>
  /\ SvcGoes("estNotify", cur)
  /\ UNCHANGED <<pipeVars, connects, disconnects, ctx, todo>> /\ UnchangedThreads

\* Mutant of EstablishedNotify: no CONNECT_SUCCESS for a fork that was stopped meanwhile.
EstablishedNotifyIfAttached ==
  /\ SvcAt("estNotify")
  /\ own[cur] = "user" => upc[cur] \in {"idle", "connectWake"}
  /\ note' = [note EXCEPT ![cur] = IF own[cur] = "user" THEN "success" ELSE @]
  /\ ReturnToLoop
  /\ UNCHANGED <<state, vhd, wsi, writable, graceful, closePending, signaled, text, audio,
                 asked, flushed, listVars, ctx, todo>>
  /\ UnchangedThreads

\* eventCallback(CONNECT_SUCCESS): if the fork is still attached, bufferForSending puts
\* the initial metadata, if there is any, in front of the first write.  It takes
\* tech_pvt->mutex, so it waits until no operation of the user is open.
EstablishedNotify ==
  /\ SvcAt("estNotify")
  /\ own[cur] = "user" => upc[cur] \in {"idle", "connectWake"}
  /\ note' = [note EXCEPT ![cur] = "success"]
  /\ \/ /\ own[cur] = "user" /\ state[cur] = "CONNECTED"
        /\ text' = [text EXCEPT ![cur] = TRUE]
        /\ writes' = writes \cup {cur} /\ wake' = TRUE
     \/ UNCHANGED <<text, writes, wake>>
  /\ ReturnToLoop
  /\ UNCHANGED <<state, vhd, wsi, writable, graceful, closePending, signaled, audio,
                 asked, flushed, connects, disconnects, ctx, todo>>
  /\ UnchangedThreads

\* m_audio_mutex is held from SendAudio to the end of unlockAudioBuffer.
AudioLocked(p) == upc[p] \in {"audio", "audioPush", "audioWake"}

\* CLIENT_WRITEABLE: in a graceful shutdown only the zero-length frame is written, or
\* the write fails and the connection is closed.
Writeable(p) ==
  /\ SvcAt("loop") /\ wsi[p] = "open" /\ writable[p]
  /\ writable' = [writable EXCEPT ![p] = FALSE]
  /\ \/ /\ graceful[p] /\ ~AudioLocked(p)
        /\ \/ flushed' = [flushed EXCEPT ![p] = TRUE] /\ UNCHANGED <<spc, cur>>
           \/ SvcGoes("cls1", p) /\ UNCHANGED flushed
     \/ ~graceful[p] /\ SvcGoes("wrText", p) /\ UNCHANGED flushed
  /\ UNCHANGED <<state, vhd, wsi, graceful, closePending, signaled, text, audio, asked,
                 note, listVars, ctx, todo>>
  /\ UnchangedThreads

\* Pending text is written and forgotten, and the rest waits for the next callback; a
\* short write closes the connection.
WriteText ==
  /\ SvcAt("wrText")
  /\ IF text[cur]
     THEN /\ text' = [text EXCEPT ![cur] = FALSE]
          /\ \/ writable' = [writable EXCEPT ![cur] = TRUE] /\ ReturnToLoop
             \/ SvcGoes("cls1", cur) /\ UNCHANGED writable
     ELSE SvcGoes("wrRest", cur) /\ UNCHANGED <<text, writable>>
  /\ UNCHANGED <<state, vhd, wsi, graceful, closePending, signaled, audio, asked,
                 flushed, note, listVars, ctx, todo>>
  /\ UnchangedThreads

\* Then a DISCONNECTING pipe closes; any other sends its audio, whatever lws_write says.
CloseOrWriteAudio ==
  /\ SvcAt("wrRest")
  /\ \/ state[cur] = "DISCONNECTING" /\ SvcGoes("cls1", cur) /\ UNCHANGED audio
     \/ /\ state[cur] # "DISCONNECTING" /\ ~AudioLocked(cur)
        /\ audio' = [audio EXCEPT ![cur] = FALSE]
        /\ ReturnToLoop
  /\ UNCHANGED <<state, vhd, wsi, writable, graceful, closePending, signaled, text,
                 asked, flushed, note, listVars, ctx, todo>>
  /\ UnchangedThreads

\* The far end, or the network, ends an open connection.
FarEndCloses(p) ==
  /\ SvcAt("loop") /\ wsi[p] = "open"
  /\ SvcGoes("cls1", p)
  /\ UNCHANGED <<pipeVars, listVars, ctx, todo>> /\ UnchangedThreads

\* CLIENT_CLOSED reads m_state up to two times, ...
ClosedByUs ==
  /\ SvcAt("cls1")
  /\ IF state[cur] = "DISCONNECTING"
     THEN note' = [note EXCEPT ![cur] = "graceful"] /\ SvcGoes("clsState", cur)
     ELSE UNCHANGED note /\ SvcGoes("cls2", cur)
  /\ UNCHANGED <<state, vhd, wsi, writable, graceful, closePending, signaled, text,
                 audio, asked, flushed, listVars, ctx, todo>>
  /\ UnchangedThreads

ClosedByFarEnd ==
  /\ SvcAt("cls2")
  /\ IF state[cur] = "CONNECTED" THEN note' = [note EXCEPT ![cur] = "dropped"]
                                 ELSE UNCHANGED note
  /\ SvcGoes("clsState", cur)
  /\ UNCHANGED <<state, vhd, wsi, writable, graceful, closePending, signaled, text,
                 audio, asked, flushed, listVars, ctx, todo>>
  /\ UnchangedThreads

\* ... stores DISCONNECTED, and fulfils the promise; then lws frees the wsi.
ClosedState ==
  /\ SvcAt("clsState")
  /\ SetState(cur, "DISCONNECTED")
  /\ SvcGoes("clsSignal", cur)
  /\ UNCHANGED <<vhd, wsi, writable, graceful, closePending, signaled, text, audio,
                 asked, flushed, note, listVars, ctx, todo>>
  /\ UnchangedThreads

ClosedSignal ==
  /\ SvcAt("clsSignal")
  /\ signaled' = [signaled EXCEPT ![cur] = TRUE]
  /\ wsi' = [wsi EXCEPT ![cur] = "freed"]
  /\ writable' = [writable EXCEPT ![cur] = FALSE]
  /\ ReturnToLoop
  /\ UNCHANGED <<state, vhd, graceful, closePending, text, audio, asked, flushed, note,
                 listVars, ctx, todo>>
  /\ UnchangedThreads

-----------------------------------------------------------------------------
UserStarts(p) == Create(p) \/ Discard(p) \/ Connect(p) \/ SendText(p) \/ SendAudio(p)
                 \/ GracefulShutdown(p) \/ HandOff(p)
UserContinues(p) == PushConnect(p) \/ WakeConnect(p) \/ NoContext(p) \/ NoContextFail(p)
                    \/ NoContextNotify(p) \/ NoContextSignal(p) \/ AppendText(p)
                    \/ FillAudio(p) \/ PushWrite(p) \/ WakeWrite(p) \/ GracefulFlag(p)
                    \/ GracefulRecheck(p)
ReaperStep(p) == CloseCheck(p) \/ CloseFlag(p) \/ CloseCas(p) \/ ClosePush(p)
                 \/ CloseWake(p) \/ WaitForClose(p) \/ Unlink(p) \/ Free(p)
\* What the service thread does by itself, once it runs, until it is back in its loop ...
ServiceStep == CreateContext \/ (\E p \in Pipes : ConnectClient(p) \/ RequestWriteable(p))
               \/ CollectDisconnects \/ CollectWrites \/ EndCancelled
               \/ FailState \/ FailNotify \/ FailSignal
               \/ EstablishedClose \/ EstablishedGraceful \/ EstablishedNotify
               \/ WriteText \/ CloseOrWriteAudio
               \/ ClosedByUs \/ ClosedByFarEnd \/ ClosedState \/ ClosedSignal
\* ... and what lws brings it to there.
Handshake(p) == Established(p) \/ ConnectionError(p)

Next == \/ \E p \in Pipes : UserStarts(p) \/ UserContinues(p) \/ ReaperStep(p)
        \/ ServiceStep \/ CollectConnects
        \/ \E p \in Pipes : Handshake(p) \/ Writeable(p) \/ FarEndCloses(p)

Spec == Init /\ [][Next]_vars

\* Threads run.  lws polls every socket and the wake-up pipe in each turn of its loop,
\* which gives strong fairness to a wake-up, to a WRITEABLE that is owed and to a
\* handshake: it ends, if only by the 10 second timeout_secs of the context.  A thread
\* that waits for tech_pvt->mutex or m_audio_mutex gets it at some time, though its
\* holders come and go.  Nobody is obliged to start an operation, and the far end need
\* not close.
FairSpec ==
  /\ Spec
  /\ WF_vars(ServiceStep) /\ SF_vars(CollectConnects)
  /\ SF_vars(EstablishedNotify) /\ SF_vars(CloseOrWriteAudio)
  /\ \A p \in Pipes : /\ WF_vars(UserContinues(p)) /\ WF_vars(ReaperStep(p))
                      /\ SF_vars(Handshake(p)) /\ SF_vars(Writeable(p))

-----------------------------------------------------------------------------
(* Correctness.                                                            *)

\* Every variable has its type; a callback has a pipe.
PipeTypes ==
  /\ own \in [Pipes -> {"unborn", "user", "reaper", "freed"}]
  /\ upc \in [Pipes -> UserPc] /\ rpc \in [Pipes -> ReaperPc]
  /\ state \in [Pipes -> LwsState_t]
  /\ wsi \in [Pipes -> {"none", "handshake", "open", "freed"}]
  /\ note \in [Pipes -> {"none", "fail", "success", "dropped", "graceful"}]
FlagTypes ==
  /\ vhd \in [Pipes -> BOOLEAN] /\ writable \in [Pipes -> BOOLEAN]
  /\ graceful \in [Pipes -> BOOLEAN] /\ closePending \in [Pipes -> BOOLEAN]
  /\ signaled \in [Pipes -> BOOLEAN]
  /\ text \in [Pipes -> BOOLEAN] /\ audio \in [Pipes -> BOOLEAN]
  /\ asked \in [Pipes -> BOOLEAN] /\ flushed \in [Pipes -> BOOLEAN]
ServiceTypes ==
  /\ connects \subseteq Pipes /\ disconnects \subseteq Pipes /\ writes \subseteq Pipes
  /\ wake \in BOOLEAN /\ ctx \in {"null", "live", "dead"} /\ spc \in SvcPc
  /\ cur \in Pipes \cup {NoPipe} /\ (spc \in InCallback <=> cur \in Pipes)
  /\ todo \subseteq Pipes
TypeOK == PipeTypes /\ FlagTypes /\ ServiceTypes

\* No use after free: whatever the service thread still holds or can reach through a
\* pending list, and whatever a user's or a socket's callback will touch, is not deleted
\* (audio_pipe.cpp ~AudioPipe and removeFromPending, lws_glue.cpp reaper).
NoUseAfterFree ==
  \A p \in Pipes : own[p] = "freed" =>
    /\ p \notin connects \cup disconnects \cup writes \cup todo /\ p # cur
    /\ wsi[p] \notin {"handshake", "open"}
    /\ upc[p] \in {"new", "idle", "connectWake"}

\* lws_callback_on_writable is only ever called on an open wsi, though the pipe was
\* taken off the list under a mutex that is released by then (processPendingDisconnects,
\* processPendingWrites).
WritableOnOpenWsi == spc \in {"disconnect", "write"} => \A p \in todo : wsi[p] = "open"

\* close() against the handshake: a reaper that waits on a connected pipe can only do
\* so in the moment before CLIENT_ESTABLISHED reads the recorded request.  If neither
\* side saw the other, the reaper would wait for ever.
NoStrandedReaper ==
  \A p \in Pipes : rpc[p] = "wait" /\ state[p] = "CONNECTED" =>
    closePending[p] /\ spc = "estClose" /\ cur = p

\* A handshake can always be resolved: its pipe is in the list, CONNECTING, so that
\* findAndRemovePendingConnect finds it, however lists were purged in between.
HandshakeFound == \A p \in Pipes : wsi[p] = "handshake" =>
                    FoundPendingConnect(p) /\ ~signaled[p] /\ own[p] # "freed"

\* A connect that was asked for is not lost: until it is adopted the pipe is in the list
\* and a wake-up is on its way.  A findAndRemovePendingConnect for another pipe, which
\* purges failed ones, must not take it out.
ConnectNotLost ==
  \A p \in Pipes : upc[p] \in {"connectWake", "idle"} /\ state[p] = "IDLE" =>
    p \in connects /\ (wake \/ upc[p] = "connectWake")

\* A close is not lost: from the compare-and-swap to CLIENT_CLOSED there is always an
\* entry with a wake-up, a remembered entry, or a WRITEABLE that is owed.  A graceful
\* shutdown is excepted: its branch of CLIENT_WRITEABLE uses the callback up.
CloseNotLost ==
  \A p \in Pipes : state[p] = "DISCONNECTING" /\ ~graceful[p] =>
    \/ rpc[p] = "push" \/ cur = p \/ writable[p]
    \/ p \in disconnects /\ (wake \/ rpc[p] = "wake" \/ spc \in Connecting)
    \/ p \in todo /\ spc = "disconnect"

\* addPendingWrite and addPendingDisconnect read m_vhd->context without a lock: by then
\* the service thread has adopted the pipe.
VhdBeforeWake == \A p \in Pipes :
                   upc[p] \in {"push", "wake", "audioPush", "audioWake"}
                   \/ rpc[p] \in {"push", "wake"} \/ p \in disconnects \cup writes => vhd[p]

\* While the fork is attached no connection ends silently: when the promise is
\* fulfilled, the application has been told of the failure or of the drop.
EndIsReported == \A p \in Pipes : own[p] = "user" /\ signaled[p] =>
                                     note[p] \in {"fail", "dropped"}

\* Connection events come in an order the application can follow: one outcome of the
\* connect, and at most one end, only after success.
EventOrder ==
  [][\A p \in Pipes : note'[p] # note[p] =>
        <<note[p], note'[p]>> \in {<<"none", "fail">>, <<"none", "success">>,
                                  <<"success", "dropped">>, <<"success", "graceful">>}]_vars

\* The pipe keeps what PipeLife promises: its state only moves forward and a closed pipe
\* never comes back (close() racing a drop), only its reaper closes it, and it is deleted
\* after its end was signalled, or before it was ever connected.
Life == INSTANCE PipeLife
Lives == Life!LifeSpec

\* Every reaper gets its pipe closed and deleted, if no graceful shutdown was asked for.
ReaperCompletes == \A p \in Pipes : rpc[p] = "check" ~> (rpc[p] = "done" \/ graceful[p])

\* Text that was accepted on a connected pipe leaves it or the connection ends.
TextLeaves == \A p \in Pipes : text[p] ~> (~text[p] \/ signaled[p] \/ graceful[p])
=============================================================================
