---------------------------- MODULE DeepgramPipe ----------------------------
(***************************************************************************)
(* The AudioPipe of mod_deepgram_transcribe, one for each bug b: a         *)
(* WebSocket connection that is ended with a CloseStream message (finish() *)
(* instead of the close() of mod_audio_fork), the pending lists, the one   *)
(* service thread of lws, and the reapers.                                 *)
(*                                                                         *)
(* pc[t] is where thread t is: the service thread, or the reaper of bug t. *)
(* Both run finish(), each of whose looks at a shared variable is a step.  *)
(* The audio itself is not followed here, nor how received text is put     *)
(* together: FrameBuffer and RecvBuffer do, for the same code.             *)
(***************************************************************************)
EXTENDS Naturals

CONSTANTS Bugs, NoBug

ASSUME DeepgramPipeAssumption == NoBug \notin Bugs /\ "service" \notin Bugs

VARIABLES
  state,      \* m_state of each pipe
  graceful, finished, closed,   \* those with m_gracefulShutdown, m_finished, the promise kept
  text,       \* CloseStream messages in m_metadata
  audioLock,  \* whose audio buffer the media thread has locked
  connects, writes,             \* pendingConnects, pendingWrites
  adopting,   \* the service thread's own list in processPendingConnects
  pc, current,                  \* the threads, and the pipe the service thread is at
  net,        \* the connection: none, handshake, open, broken (to be closed), closed
  writable,   \* connections lws was asked a CLIENT_WRITEABLE for
  sent        \* CloseStream messages sent

flagVars == <<graceful, finished, closed>>
bufVars  == <<text, audioLock>>
listVars == <<connects, writes, adopting>>
netVars  == <<net, writable, sent>>
pipeVars == <<state, flagVars, bufVars, listVars, pc, current, netVars>>

Service == "service"
Threads == Bugs \cup {Service}
PipeOf(t) == IF t = Service THEN current ELSE t

PipeInit ==
  /\ state = [b \in Bugs |-> "none"] /\ graceful = {} /\ finished = {} /\ closed = {}
  /\ text = [b \in Bugs |-> 0] /\ audioLock = NoBug
  /\ connects = {} /\ writes = {} /\ adopting = {}
  /\ pc = [t \in Threads |-> IF t = Service THEN "poll" ELSE "none"] /\ current = NoBug
  /\ net = [b \in Bugs |-> "none"] /\ writable = {}
  /\ sent = [b \in Bugs |-> 0]

Goes(t, from, to) == pc[t] = from /\ pc' = [pc EXCEPT ![t] = to]

-----------------------------------------------------------------------------
(* What the users of a pipe call.                                          *)

\* The constructor.
NewPipe(b) ==
  /\ state[b] = "none" /\ state' = [state EXCEPT ![b] = "idle"]
  /\ UNCHANGED <<flagVars, bufVars, listVars, pc, current, netVars>>

\* connect(), when lws_service_thread could create its context and when it could not.
ConnectPipe(b, context) ==
  /\ IF context
     THEN connects' = connects \cup {b} /\ UNCHANGED <<state, closed>>
     ELSE state' = [state EXCEPT ![b] = "failed"] /\ closed' = closed \cup {b} /\ UNCHANGED connects
  /\ UNCHANGED <<graceful, finished, bufVars, writes, adopting, pc, current, netVars>>

LockAudioBuffer(b) ==
  /\ audioLock = NoBug /\ audioLock' = b
  /\ UNCHANGED <<state, flagVars, text, listVars, pc, current, netVars>>

\* Audio was added; it is written soon.
UnlockAudioBuffer(b) ==
  /\ writes' = writes \cup {b} /\ audioLock' = NoBug
  /\ UNCHANGED <<state, flagVars, text, connects, adopting, pc, current, netVars>>

\* The reaper's thread is created.
StartReaper(b) ==
  /\ pc[b] = "none" /\ pc' = [pc EXCEPT ![b] = "finish"]
  /\ UNCHANGED <<state, flagVars, bufVars, listVars, current, netVars>>

-----------------------------------------------------------------------------
(* finish(), by the reaper or by CLIENT_ESTABLISHED.                       *)

\* Where thread t goes from finish().
AfterFinish(t) == IF t = Service THEN "notify" ELSE "wait"

FinishKeeps == UNCHANGED <<state, closed, audioLock, connects, adopting, current, netVars>>

FinishCheck(t) ==
  /\ Goes(t, "finish", IF state[PipeOf(t)] = "connected" THEN "exchange" ELSE "flag")
  /\ FinishKeeps /\ UNCHANGED <<graceful, finished, text, writes>>

FinishFlag(t) ==
  /\ Goes(t, "flag", "recheck") /\ graceful' = graceful \cup {PipeOf(t)}
  /\ FinishKeeps /\ UNCHANGED <<finished, text, writes>>

\* Mutant of FinishRecheck: it is left to CLIENT_ESTABLISHED.
FinishNoRecheck(t) ==
  /\ Goes(t, "recheck", AfterFinish(t))
  /\ FinishKeeps /\ UNCHANGED <<graceful, finished, text, writes>>

FinishRecheck(t) ==
  /\ Goes(t, "recheck", IF state[PipeOf(t)] = "connected" THEN "exchange" ELSE AfterFinish(t))
  /\ FinishKeeps /\ UNCHANGED <<graceful, finished, text, writes>>

\* Mutant of FinishExchange: the flag is set and not looked at.
FinishStore(t) ==
  /\ Goes(t, "exchange", "buffer") /\ finished' = finished \cup {PipeOf(t)}
  /\ FinishKeeps /\ UNCHANGED <<graceful, text, writes>>

FinishExchange(t) ==
  /\ Goes(t, "exchange", IF PipeOf(t) \in finished THEN AfterFinish(t) ELSE "buffer")
  /\ finished' = finished \cup {PipeOf(t)}
  /\ FinishKeeps /\ UNCHANGED <<graceful, text, writes>>

\* bufferForSending(), and addPendingWrite().
BufferForSending(t) ==
  /\ pc[t] = "buffer"
  /\ IF state[PipeOf(t)] = "connected"
     THEN Goes(t, "buffer", "push") /\ text' = [text EXCEPT ![PipeOf(t)] = @ + 1]
     ELSE Goes(t, "buffer", AfterFinish(t)) /\ UNCHANGED text
  /\ FinishKeeps /\ UNCHANGED <<graceful, finished, writes>>

AddPendingWrite(t) ==
  /\ Goes(t, "push", AfterFinish(t)) /\ writes' = writes \cup {PipeOf(t)}
  /\ FinishKeeps /\ UNCHANGED <<graceful, finished, text>>

FinishStep(t) ==
  FinishCheck(t) \/ FinishFlag(t) \/ FinishRecheck(t) \/ FinishExchange(t)
    \/ BufferForSending(t) \/ AddPendingWrite(t)

-----------------------------------------------------------------------------
(* The rest of the reaper.                                                 *)

\* waitForClose(), and the destructor, which takes the pipe out of the lists first.
Delete(b) ==
  /\ b \in closed /\ Goes(b, "wait", "uncount") /\ state' = [state EXCEPT ![b] = "deleted"]
  /\ connects' = connects \ {b} /\ writes' = writes \ {b}
  /\ UNCHANGED <<flagVars, bufVars, adopting, current, netVars>>

-----------------------------------------------------------------------------
(* The service thread.                                                     *)

\* The end of a callback, or of the turn of one pipe in processPendingConnects.
Polls == /\ current' = NoBug
         /\ pc' = [pc EXCEPT ![Service] = IF adopting = {} THEN "poll" ELSE "adopt"]

\* EVENT_WAIT_CANCELLED: processPendingConnects takes those that are idle,
CollectConnects ==
  /\ adopting' = {b \in connects : state[b] = "idle"} /\ adopting' # {}
  /\ Goes(Service, "poll", "adopt")
  /\ state' = [b \in Bugs |-> IF b \in adopting' THEN "connecting" ELSE state[b]]
  /\ UNCHANGED <<flagVars, bufVars, connects, writes, current, netVars>>

\* and connects each; it stays in the list.
ConnectClient(b) ==
  /\ pc[Service] = "adopt" /\ b \in adopting /\ adopting' = adopting \ {b}
  /\ \/ /\ net' = [net EXCEPT ![b] = "handshake"] /\ UNCHANGED <<state, current>>
        /\ pc' = [pc EXCEPT ![Service] = IF adopting' = {} THEN "poll" ELSE "adopt"]
     \/ /\ state' = [state EXCEPT ![b] = "failed"] /\ current' = b
        /\ Goes(Service, "adopt", "setClosed") /\ UNCHANGED net
  /\ UNCHANGED <<flagVars, bufVars, connects, writes, writable, sent>>

\* processPendingWrites empties the list; a CLIENT_WRITEABLE that finds only audio is not
\* followed.
CollectWrites ==
  /\ pc[Service] = "poll" /\ writes # {} /\ writes' = {}
  /\ writable' = writable \cup {b \in writes : state[b] = "connected" /\ text[b] > 0}
  /\ UNCHANGED <<state, flagVars, bufVars, connects, adopting, pc, current, net, sent>>

\* What findAndRemovePendingConnect leaves: connects that failed at once are purged, too.
Remaining(b) == {c \in connects \ {b} : ~(net[c] = "none" /\ state[c] = "failed")}

\* CLIENT_ESTABLISHED.
Established(b) ==
  /\ net[b] = "handshake" /\ b \in connects /\ connects' = Remaining(b)
  /\ Goes(Service, "poll", "graceful") /\ current' = b
  /\ state' = [state EXCEPT ![b] = "connected"] /\ net' = [net EXCEPT ![b] = "open"]
  /\ UNCHANGED <<flagVars, bufVars, writes, adopting, writable, sent>>

CompleteFinish ==
  /\ Goes(Service, "graceful", IF current \in graceful THEN "finish" ELSE "notify")
  /\ UNCHANGED <<state, flagVars, bufVars, listVars, current, netVars>>

Notify ==
  /\ pc[Service] = "notify" /\ Polls
  /\ UNCHANGED <<state, flagVars, bufVars, listVars, netVars>>

\* CLIENT_CONNECTION_ERROR; an API key too long for the header fails the handshake, too.
ConnectionError(b) ==
  /\ net[b] = "handshake" /\ b \in connects /\ connects' = Remaining(b)
  /\ Goes(Service, "poll", "setClosed") /\ current' = b
  /\ state' = [state EXCEPT ![b] = "failed"] /\ net' = [net EXCEPT ![b] = "closed"]
  /\ UNCHANGED <<flagVars, bufVars, writes, adopting, writable, sent>>

\* CLIENT_CLOSED, by the far end or after a failed write.
ConnectionClosed(b) ==
  /\ net[b] \in {"open", "broken"} /\ net' = [net EXCEPT ![b] = "closed"]
  /\ Goes(Service, "poll", "setClosed") /\ current' = b
  /\ state' = [state EXCEPT ![b] = "disconnected"] /\ writable' = writable \ {b}
  /\ UNCHANGED <<flagVars, bufVars, listVars, sent>>

\* The last thing that a terminal callback does with the pipe.
SetClosed ==
  /\ pc[Service] = "setClosed" /\ closed' = closed \cup {current} /\ Polls
  /\ UNCHANGED <<state, graceful, finished, bufVars, listVars, netVars>>


\* CLIENT_WRITEABLE: the text first; if that cannot be written the connection is closed.
WriteText(b) ==
  /\ pc[Service] = "poll" /\ net[b] = "open" /\ b \in writable /\ text[b] > 0
  /\ text' = [text EXCEPT ![b] = 0] /\ writable' = writable \ {b}
  /\ \/ sent' = [sent EXCEPT ![b] = @ + text[b]] /\ UNCHANGED net
     \/ net' = [net EXCEPT ![b] = "broken"] /\ UNCHANGED sent
  /\ UNCHANGED <<state, flagVars, audioLock, listVars, pc, current>>

\* What the service thread does of itself, what it is told of a handshake, and the rest.
ServiceStep ==
  \/ CollectConnects \/ CollectWrites \/ CompleteFinish \/ Notify \/ SetClosed
  \/ FinishStep(Service)
  \/ \E b \in Bugs : ConnectClient(b) \/ WriteText(b)
HandshakeEnds(b) == Established(b) \/ ConnectionError(b)
ReaperStep(b) == FinishStep(b) \/ Delete(b)

PipeStep ==
  \/ ServiceStep
  \/ \E b \in Bugs : HandshakeEnds(b) \/ ConnectionClosed(b) \/ ReaperStep(b)

-----------------------------------------------------------------------------
\* CloseStream goes out once, however the reaper meets CLIENT_ESTABLISHED, and never before
\* the reaper asks for it.
FinishOnce == \A b \in Bugs : sent[b] + text[b] <= IF pc[b] = "none" THEN 0 ELSE 1

\* A reaper that waits for the promise waits for something that is still going to happen: the
\* handshake, and then CLIENT_ESTABLISHED sees the flag; the CloseStream, which is on its way;
\* the far end, which was sent it; or lws, which closes what it could not write to.
NoStrandedReaper ==
  \A b \in Bugs : pc[b] = "wait" /\ b \notin closed =>
    \/ state[b] = "idle" /\ b \in connects \cap graceful
    \/ state[b] = "connecting" /\ b \in graceful /\ (b \in adopting \/ net[b] = "handshake")
    \/ current = b
    \/ text[b] > 0 /\ b \in writes \cup writable
    \/ sent[b] > 0 \/ net[b] = "broken"

=============================================================================
