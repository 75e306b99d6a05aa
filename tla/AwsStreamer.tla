----------------------------- MODULE AwsStreamer -----------------------------
(***************************************************************************)
(* One transcription session of mod_aws_transcribe: its cap_cb, its        *)
(* GStreamer, and the threads that meet in them.                           *)
(*   - the owners, at opc: "start" (start_capture), "api" (session_stop)   *)
(*     and "hangup" (the CLOSE of the bug, session_close); the last two    *)
(*     under cb->mutex, held by lock;                                      *)
(*   - the worker, aws_transcribe_thread, at wpc;                          *)
(*   - the media thread, aws_transcribe_frame, at mpc, under cb->mutex;    *)
(*   - the SDK: OnStreamReady at rpc, transcripts, and one final outcome.  *)
(*                                                                         *)
(* Audio is counted in pieces, numbered as they are read from the bug; a   *)
(* queue entry is the set of its pieces.  The prebuffer drops its oldest   *)
(* chunk when it is full (module Prebuffer).  m_mutex is only ever held    *)
(* within one step, m_audioBufferMutex during the drain (rpc = "drain").   *)
(***************************************************************************)
EXTENDS Prebuffer

CONSTANTS
  MaxBuffered,  \* m_maxBufferedFrames
  FrameLens,    \* pieces in one frame
  MaxPieces,    \* bound: pieces in a call
  MaxEvents     \* bound: TranscriptEvents in a call

ASSUME AwsStreamerAssumption ==
  /\ MaxBuffered \in Nat \ {0}
  /\ FrameLens \subseteq Nat \ {0} /\ MaxPieces \in Nat /\ MaxEvents \in Nat

VARIABLES
  vad,          \* cb->vad # NULL: the connection waits for speech
  alive,        \* the FreeSWITCH session can still be located
  attached,     \* the bug is in the session's list
  private,      \* the channel private names the bug
  lock,         \* the holder of cb->mutex
  opc, wpc, mpc, rpc,
  counted, accepting, active,     \* gate_counted, g_accepting, g_activeStreamers
  object,       \* the GStreamer: none, alive, deleted
  streamer,     \* cb->streamer # NULL
  stopRequested, finishing, finished, connected, connecting,
  stream,       \* m_pStream # nullptr
  staging, prebuf, deque,         \* m_prebufStaging, m_audioBuffer, m_deqAudio
  frame,        \* what the media thread has read and not passed on
  local,        \* the worker's local deque
  transcript,   \* m_transcript: the number of the event, 0 if none is set
  copied,       \* the worker's copy of it
  shutdown, aborted,   \* shutdownInitiated, requestAborted
  sdk,          \* the request: idle, starting, open, ended; or the API is down
  closed,       \* Close() was called on the stream
  pieces, sentTo, events, finals, outs, early
  \* history: pieces read, the last one written to the stream, events received, the final
  \* ones, those delivered, and whether finish() came before m_connected

cbVars     == <<vad, attached, private, counted, accepting, active, object, streamer,
                stopRequested>>
flagVars   == <<finishing, finished, connected, connecting, early>>
queueVars  == <<staging, prebuf, deque>>
eventVars  == <<transcript, events, finals>>
workerVars == <<wpc, shutdown, aborted, local, copied, outs, sentTo, closed>>
mediaVars  == <<mpc, frame, pieces>>
sdkVars    == <<sdk, rpc, stream>>
vars == <<cbVars, flagVars, queueVars, eventVars, workerVars, mediaVars, sdkVars, alive, lock, opc>>

Owners   == {"start", "api", "hangup"}
Closers  == {"api", "hangup"}

Init ==
  /\ vad \in BOOLEAN /\ alive = TRUE /\ attached = FALSE /\ private = FALSE
  /\ lock = "free" /\ opc = [o \in Owners |-> "idle"]
  /\ wpc = "none" /\ mpc = "idle" /\ rpc = "none"
  /\ counted = FALSE /\ accepting = TRUE /\ active = 0
  /\ object = "none" /\ streamer = FALSE /\ stopRequested = FALSE
  /\ finishing = FALSE /\ finished = FALSE /\ connected = FALSE /\ connecting = FALSE
  /\ stream = FALSE /\ sdk = "idle" /\ closed = FALSE
  /\ staging = {} /\ prebuf = <<>> /\ deque = <<>> /\ frame = {} /\ local = <<>>
  /\ transcript = 0 /\ copied = 0 /\ shutdown = FALSE /\ aborted = FALSE
  /\ pieces = 0 /\ sentTo = 0 /\ events = 0 /\ finals = {} /\ outs = {} /\ early = FALSE

-----------------------------------------------------------------------------
(* Steps that several threads take.                                        *)

\* m_cond.notify_one().
Notify == wpc' = IF wpc = "asleep" THEN "check" ELSE wpc

\* connect(): the SDK is asked once.
StartStream == /\ connecting' = (connecting \/ ~finished)
               /\ sdk' = IF connecting \/ finished THEN sdk ELSE "starting"

\* finish() sets m_finishing once.
SetFinishing == /\ finishing' = TRUE
                /\ early' = (early \/ (~finishing /\ ~connected))

\* killcb: the object goes, and the count if it was not given back before.
ReleaseCb == /\ object' = IF streamer THEN "deleted" ELSE object
             /\ streamer' = FALSE /\ counted' = FALSE
             /\ active' = IF counted THEN active - 1 ELSE active
             /\ UNCHANGED <<vad, accepting, stopRequested>>

-----------------------------------------------------------------------------
(* The owners.                                                             *)

Goes(o, from, to) == opc[o] = from /\ opc' = [opc EXCEPT ![o] = to]
OwnerKeeps == /\ UNCHANGED <<flagVars, queueVars, eventVars, workerVars, mediaVars, sdkVars, alive>>
CbKeeps    == UNCHANGED cbVars

\* session_init under g_gateMutex: refused, or counted.
Admit ==
  /\ Goes("start", "idle", IF accepting THEN "init" ELSE "done")
  /\ active' = active + (IF accepting THEN 1 ELSE 0) /\ counted' = accepting
  /\ UNCHANGED <<vad, attached, private, accepting, object, streamer, stopRequested>>
  /\ OwnerKeeps /\ UNCHANGED lock

\* The worker is created.
CreateThread ==
  /\ Goes("start", "init", "attach") /\ wpc' = "construct"
  /\ CbKeeps /\ UNCHANGED <<flagVars, queueVars, eventVars, mediaVars, sdkVars, alive, lock>>
  /\ UNCHANGED <<shutdown, aborted, local, copied, outs, sentTo, closed>>

\* Any failure before that gives the count back, through killcb or at done:.
InitFails ==
  /\ Goes("start", "init", "done")
  /\ ReleaseCb /\ UNCHANGED <<attached, private, lock>> /\ OwnerKeeps

\* bug_add succeeds, or session_cleanup follows, which takes no lock.
Attach ==
  /\ \/ Goes("start", "attach", "publish") /\ attached' = TRUE
     \/ Goes("start", "attach", "flag") /\ UNCHANGED attached
  /\ UNCHANGED <<vad, private, counted, accepting, active, object, streamer, stopRequested, lock>>
  /\ OwnerKeeps

Publish ==
  /\ Goes("start", "publish", "done") /\ private' = TRUE
  /\ UNCHANGED <<vad, attached, counted, accepting, active, object, streamer, stopRequested, lock>>
  /\ OwnerKeeps

\* session_stop finds the bug.
ApiStop ==
  /\ Goes("api", "idle", "lock") /\ private
  /\ CbKeeps /\ OwnerKeeps /\ UNCHANGED lock

\* The hangup: the session cannot be located any more.
SessionGone ==
  /\ alive /\ alive' = FALSE
  /\ CbKeeps /\ UNCHANGED <<flagVars, queueVars, eventVars, workerVars, mediaVars, sdkVars, lock, opc>>

\* Then its bugs are closed, under the write lock of their list.
CloseBug ==
  /\ ~alive /\ attached /\ attached' = FALSE /\ mpc = "idle"
  /\ Goes("hangup", "idle", "lock")
  /\ UNCHANGED <<vad, private, counted, accepting, active, object, streamer, stopRequested, lock>>
  /\ OwnerKeeps

\* cb->mutex; a stop then looks whether the private still names its bug.
Lock(o) ==
  /\ lock = "free"
  /\ \/ /\ o = "hangup" \/ private
        /\ Goes(o, "lock", "flag") /\ lock' = o
     \/ /\ o = "api" /\ ~private
        /\ Goes(o, "lock", "done") /\ UNCHANGED lock
  /\ CbKeeps /\ OwnerKeeps

RequestStop(o) ==
  /\ Goes(o, "flag", "finish") /\ stopRequested' = TRUE
  /\ UNCHANGED <<vad, attached, private, counted, accepting, active, object, streamer, lock>>
  /\ OwnerKeeps

\* What is published is finished.
Finish(o) ==
  /\ Goes(o, "finish", "join")
  /\ IF streamer /\ ~finishing THEN SetFinishing /\ Notify ELSE UNCHANGED <<finishing, early, wpc>>
  /\ CbKeeps /\ UNCHANGED <<finished, connected, connecting>>
  /\ UNCHANGED <<queueVars, eventVars, mediaVars, sdkVars, alive, lock>>
  /\ UNCHANGED <<shutdown, aborted, local, copied, outs, sentTo, closed>>

\* switch_thread_join, once.
Join(o) ==
  /\ Goes(o, "join", "kill") /\ wpc = "ended"
  /\ CbKeeps /\ OwnerKeeps /\ UNCHANGED lock

KillCb(o) ==
  /\ Goes(o, "kill", IF o = "api" THEN "remove" ELSE "done")
  /\ ReleaseCb
  /\ private' = IF o = "api" THEN FALSE ELSE private
  /\ lock' = IF lock = o THEN "free" ELSE lock
  /\ UNCHANGED attached /\ OwnerKeeps

\* bug_remove.  Its CLOSE calls session_close again, which finds no worker, no streamer
\* and no count.
RemoveBug ==
  /\ Goes("api", "remove", "done") /\ mpc = "idle" /\ lock = "free"
  /\ opc["hangup"] \in {"idle", "done"}
  /\ attached' = FALSE
  /\ UNCHANGED <<vad, private, counted, accepting, active, object, streamer, stopRequested, lock>>
  /\ OwnerKeeps

\* The module's shutdown: no more sessions; refused if there is one, else the SDK's API goes.
Unload ==
  /\ sdk # "down" /\ accepting' = FALSE
  /\ sdk' = IF active = 0 THEN "down" ELSE sdk
  /\ UNCHANGED <<vad, attached, private, counted, active, object, streamer, stopRequested>>
  /\ UNCHANGED <<flagVars, queueVars, eventVars, workerVars, mediaVars, rpc, stream, alive, lock, opc>>

-----------------------------------------------------------------------------
(* The worker.                                                             *)

WorkerKeeps == UNCHANGED <<vad, attached, private, counted, accepting, active, stopRequested,
                           mediaVars, alive, lock, opc>>
LoopKeeps   == WorkerKeeps /\ UNCHANGED <<object, streamer, flagVars>>

\* The constructor, which may throw, and connect().
Construct ==
  /\ wpc = "construct"
  /\ \/ /\ wpc' = "publish" /\ object' = "alive"
        /\ IF vad THEN UNCHANGED <<connecting, sdk>> ELSE StartStream
     \/ wpc' = "ended" /\ UNCHANGED <<object, connecting, sdk>>
  /\ WorkerKeeps /\ UNCHANGED <<streamer, finishing, finished, connected, early>>
  /\ UNCHANGED <<queueVars, eventVars, rpc, stream>>
  /\ UNCHANGED <<shutdown, aborted, local, copied, outs, sentTo, closed>>

PublishStreamer ==
  /\ wpc = "publish" /\ wpc' = "recheck"
  /\ streamer' = TRUE
  /\ WorkerKeeps /\ UNCHANGED <<object, flagVars, queueVars, eventVars, sdkVars>>
  /\ UNCHANGED <<shutdown, aborted, local, copied, outs, sentTo, closed>>

\* Mutant of Recheck: a stop is left to its owner.
RecheckNothing ==
  /\ wpc = "recheck" /\ wpc' = "check"
  /\ LoopKeeps /\ UNCHANGED <<queueVars, eventVars, sdkVars>>
  /\ UNCHANGED <<shutdown, aborted, local, copied, outs, sentTo, closed>>

\* A stop that came before the streamer was published.
Recheck ==
  /\ wpc = "recheck" /\ wpc' = "check"
  /\ IF stopRequested THEN SetFinishing ELSE UNCHANGED <<finishing, early>>
  /\ WorkerKeeps /\ UNCHANGED <<object, streamer, finished, connected, connecting>>
  /\ UNCHANGED <<queueVars, eventVars, sdkVars>>
  /\ UNCHANGED <<shutdown, aborted, local, copied, outs, sentTo, closed>>

\* The predicate the worker waits for.
Ready ==
  \/ deque # <<>> /\ ~finishing
  \/ transcript # 0 \/ finished
  \/ finishing /\ (~shutdown \/ stream)

\* The wait; before a shutdown it has no time limit.
Sleep ==
  /\ wpc = "check" /\ ~Ready /\ wpc' = "asleep"
  /\ LoopKeeps /\ UNCHANGED <<queueVars, eventVars, sdkVars>>
  /\ UNCHANGED <<shutdown, aborted, local, copied, outs, sentTo, closed>>

SpuriousWake ==
  /\ wpc = "asleep" /\ wpc' = "check"
  /\ LoopKeeps /\ UNCHANGED <<queueVars, eventVars, sdkVars>>
  /\ UNCHANGED <<shutdown, aborted, local, copied, outs, sentTo, closed>>

\* The final response is overdue: DisableRequestProcessing().
Overdue ==
  /\ wpc = "asleep" /\ shutdown /\ wpc' = "check"
  /\ aborted' = (aborted \/ ~Ready)
  /\ LoopKeeps /\ UNCHANGED <<queueVars, eventVars, sdkVars>>
  /\ UNCHANGED <<shutdown, local, copied, outs, sentTo, closed>>

\* The transcript is copied out of its slot, to be delivered without m_mutex.
TakeTranscript(l) ==
  /\ copied' = transcript /\ transcript' = 0 /\ wpc' = l
  /\ UNCHANGED <<events, finals, queueVars, stream, shutdown, aborted, local, outs, sentTo, closed>>

\* Mutant of Branch: a shutdown closes the stream without the queue.
BranchUnflushed ==
  LET taken == IF finishing THEN stream ELSE stream /\ deque # <<>>
  IN /\ shutdown' = (shutdown \/ finishing)
     /\ wpc' = IF ~taken THEN "check" ELSE IF finishing THEN "flush" ELSE "send"
     /\ local' = (IF taken /\ ~finishing THEN deque ELSE <<>>)
     /\ deque' = IF taken /\ ~finishing THEN <<>> ELSE deque
     /\ UNCHANGED <<staging, prebuf, eventVars, stream, aborted, copied, outs, sentTo, closed>>

\* The rest of a turn: swap the queue out, for sending or for the shutdown.
Branch ==
  LET taken == IF finishing THEN stream ELSE stream /\ deque # <<>>
  IN /\ shutdown' = (shutdown \/ finishing)
     /\ wpc' = IF ~taken THEN "check" ELSE IF finishing THEN "flush" ELSE "send"
     /\ local' = (IF taken THEN deque ELSE <<>>)
     /\ deque' = IF taken THEN <<>> ELSE deque
     /\ UNCHANGED <<staging, prebuf, eventVars, stream, aborted, copied, outs, sentTo, closed>>

\* Mutant of Turn: a worker that is not connected ends, though a request may be under way.
TurnEndsUnconnected ==
  /\ wpc = "check" /\ Ready
  /\ \/ finished /\ transcript # 0 /\ TakeTranscript("deliverLast")
     \/ /\ (finished /\ transcript = 0) \/ (~finished /\ ~connected)
        /\ wpc' = "ended"
        /\ UNCHANGED <<queueVars, eventVars, stream, shutdown, aborted, local, copied, outs, sentTo, closed>>
     \/ ~finished /\ connected /\ transcript # 0 /\ TakeTranscript("deliver")
     \/ ~finished /\ connected /\ transcript = 0 /\ Branch
  /\ LoopKeeps /\ UNCHANGED <<sdk, rpc>>

\* One turn of processData, under m_mutex: the outcome came, or nothing was ever asked, or
\* there is a transcript, or audio, or a shutdown.
Turn ==
  /\ wpc = "check" /\ Ready
  /\ \/ finished /\ transcript # 0 /\ TakeTranscript("deliverLast")
     \/ /\ IF finished THEN transcript = 0 ELSE ~connected /\ ~connecting
        /\ wpc' = "ended"
        /\ UNCHANGED <<queueVars, eventVars, stream, shutdown, aborted, local, copied, outs, sentTo, closed>>
     \/ ~finished /\ (connected \/ connecting) /\ transcript # 0 /\ TakeTranscript("deliver")
     \/ ~finished /\ (connected \/ connecting) /\ transcript = 0 /\ Branch
  /\ LoopKeeps /\ UNCHANGED <<sdk, rpc>>

\* Mutant of Deliver: transcripts are only for live sessions (as before issue #241).
DeliverIfAlive ==
  /\ wpc \in {"deliver", "deliverLast"}
  /\ wpc' = IF wpc = "deliver" THEN "branch" ELSE "ended"
  /\ outs' = IF copied \in finals /\ alive THEN outs \cup {copied} ELSE outs
  /\ copied' = 0
  /\ LoopKeeps /\ UNCHANGED <<queueVars, eventVars, sdkVars, shutdown, aborted, local, sentTo, closed>>

\* deliverTranscript: a final one goes out with or without the session.  (Interim ones are
\* not followed.)
Deliver ==
  /\ wpc \in {"deliver", "deliverLast"}
  /\ wpc' = IF wpc = "deliver" THEN "branch" ELSE "ended"
  /\ outs' = outs \cup ({copied} \cap finals)
  /\ copied' = 0
  /\ LoopKeeps /\ UNCHANGED <<queueVars, eventVars, sdkVars, shutdown, aborted, local, sentTo, closed>>

\* m_mutex again, and the rest of the turn.
AfterDeliver ==
  /\ wpc = "branch" /\ Branch
  /\ LoopKeeps /\ UNCHANGED <<sdk, rpc>>

\* WriteAudioEvent, without m_mutex.
Send ==
  /\ wpc \in {"send", "flush"} /\ local # <<>>
  /\ sentTo' = LastOf(Head(local))
  /\ local' = Tail(local)
  /\ LoopKeeps /\ UNCHANGED <<queueVars, eventVars, sdkVars, wpc, shutdown, aborted, copied, outs, closed>>

Sent ==
  /\ wpc = "send" /\ local = <<>> /\ wpc' = "check"
  /\ LoopKeeps /\ UNCHANGED <<queueVars, eventVars, sdkVars>>
  /\ UNCHANGED <<shutdown, aborted, local, copied, outs, sentTo, closed>>

\* The end of the stream, and Close().
CloseStream ==
  /\ wpc = "flush" /\ local = <<>> /\ wpc' = "check"
  /\ closed' = TRUE /\ stream' = FALSE
  /\ LoopKeeps /\ UNCHANGED <<queueVars, eventVars, sdk, rpc>>
  /\ UNCHANGED <<shutdown, aborted, local, copied, outs, sentTo>>

-----------------------------------------------------------------------------
(* The media thread.                                                       *)

MediaKeeps == UNCHANGED <<vad, attached, private, counted, accepting, active, object, streamer,
                          stopRequested, finishing, finished, connected, early, eventVars,
                          shutdown, aborted, local, copied, outs, sentTo, closed, rpc, stream,
                          alive, opc>>

\* A trylock; without a streamer nothing is done.
FrameLock ==
  /\ mpc = "idle" /\ attached /\ streamer /\ lock = "free"
  /\ mpc' = "read" /\ lock' = "media"
  /\ MediaKeeps /\ UNCHANGED <<connecting, sdk, queueVars, wpc, frame, pieces>>

\* media_bug_read; the first speech starts the connection.
ReadBug(n) ==
  /\ mpc = "read" /\ pieces + n <= MaxPieces
  /\ mpc' = "write" /\ pieces' = pieces + n /\ frame' = (pieces + 1) .. (pieces + n)
  /\ \/ UNCHANGED <<connecting, sdk>>
     \/ vad /\ ~connecting /\ StartStream
  /\ MediaKeeps /\ UNCHANGED <<queueVars, wpc, lock>>

FrameEnd ==
  /\ mpc = "read" /\ mpc' = "idle" /\ lock' = "free"
  /\ MediaKeeps /\ UNCHANGED <<connecting, sdk, queueVars, wpc, frame, pieces>>

\* write(): what becomes of the frame.
Write ==
  /\ mpc = "write"
  /\ IF finishing \/ finished THEN mpc' = "read" /\ frame' = {}
     ELSE mpc' = (IF connected THEN "push" ELSE "prebuf") /\ UNCHANGED frame
  /\ MediaKeeps /\ UNCHANGED <<connecting, sdk, queueVars, wpc, pieces, lock>>

\* Under m_audioBufferMutex m_connected is looked at again.
Prebuffer ==
  /\ mpc = "prebuf" /\ rpc # "drain"
  /\ IF connected
     THEN mpc' = "push" /\ UNCHANGED <<prebuf, staging, frame>>
     ELSE /\ LET s == staging \cup frame
             IN prebuf' = WithChunks(prebuf, s) /\ staging' = Remainder(s)
          /\ mpc' = "read" /\ frame' = {}
  /\ MediaKeeps /\ UNCHANGED <<connecting, sdk, deque, wpc, pieces, lock>>

\* The queue makes room at its old end.
Push ==
  /\ mpc = "push" /\ mpc' = "read" /\ frame' = {}
  /\ LET over == Len(deque) - MaxBuffered + 1
     IN deque' = Append(IF over > 0 THEN SubSeq(deque, over + 1, Len(deque)) ELSE deque, frame)
  /\ Notify
  /\ MediaKeeps /\ UNCHANGED <<connecting, sdk, staging, prebuf, pieces, lock>>

-----------------------------------------------------------------------------
(* The SDK.                                                                *)

SdkKeeps == /\ CbKeeps
            /\ UNCHANGED <<finishing, connecting, early, mediaVars, shutdown, aborted, local,
                           copied, outs, sentTo, closed, alive, lock, opc>>

\* Mutant of StreamReady: the connection is published before the drain.
StreamReadyConnected ==
  /\ sdk = "starting" /\ sdk' = "open" /\ stream' = TRUE
  /\ rpc' = IF alive THEN "drain" ELSE "wake"
  /\ connected' = alive
  /\ SdkKeeps /\ UNCHANGED <<finished, queueVars, eventVars, wpc>>

\* OnStreamReady: without a session only the stream is published.
StreamReady ==
  /\ sdk = "starting" /\ sdk' = "open" /\ stream' = TRUE
  /\ rpc' = IF alive THEN "drain" ELSE "wake"
  /\ SdkKeeps /\ UNCHANGED <<connected, finished, queueVars, eventVars, wpc>>

\* Under m_audioBufferMutex the prebuffer goes to the queue,
DrainChunk ==
  /\ rpc = "drain" /\ prebuf # <<>>
  /\ deque' = Append(deque, Head(prebuf)) /\ prebuf' = Tail(prebuf)
  /\ SdkKeeps /\ UNCHANGED <<connected, finished, staging, eventVars, wpc, sdkVars>>

\* then the remainder, and only then the connection is published.
DrainEnd ==
  /\ rpc = "drain" /\ prebuf = <<>> /\ rpc' = "wake"
  /\ deque' = (IF staging = {} THEN deque ELSE Append(deque, staging)) /\ staging' = {}
  /\ connected' = TRUE
  /\ SdkKeeps /\ UNCHANGED <<finished, prebuf, eventVars, wpc, sdk, stream>>

ReadyWake ==
  /\ rpc = "wake" /\ rpc' = "back" /\ Notify
  /\ SdkKeeps /\ UNCHANGED <<connected, finished, queueVars, eventVars, sdk, stream>>

\* A TranscriptEvent, interim or final.
Transcript ==
  /\ sdk = "open" /\ events < MaxEvents
  /\ events' = events + 1 /\ transcript' = events + 1
  /\ finals' \in {finals, finals \cup {events + 1}}
  /\ Notify
  /\ SdkKeeps /\ UNCHANGED <<connected, finished, queueVars, sdkVars>>

\* OnResponseCallback, the last callback of the request.
Outcome ==
  /\ sdk \in {"starting", "open"} /\ rpc \in {"none", "back"}
  /\ sdk' = "ended" /\ finished' = TRUE /\ Notify
  /\ SdkKeeps /\ UNCHANGED <<connected, queueVars, eventVars, rpc, stream>>

-----------------------------------------------------------------------------
StartStep == Admit \/ CreateThread \/ InitFails \/ Attach \/ Publish
StopStep(o) == RequestStop(o) \/ Finish(o) \/ Join(o) \/ KillCb(o)
WorkerStep ==
  \/ Construct \/ PublishStreamer \/ Recheck \/ Sleep \/ Overdue \/ Turn \/ Deliver
  \/ AfterDeliver \/ Send \/ Sent \/ CloseStream
WriteStep == Write \/ Prebuffer \/ Push
ReadyStep == DrainChunk \/ DrainEnd \/ ReadyWake

Next ==
  \/ StartStep \/ ApiStop \/ SessionGone \/ CloseBug \/ RemoveBug \/ Unload
  \/ \E o \in Closers : Lock(o)
  \/ \E o \in Owners : StopStep(o)
  \/ WorkerStep \/ SpuriousWake
  \/ FrameLock \/ (\E n \in FrameLens : ReadBug(n)) \/ FrameEnd \/ WriteStep
  \/ StreamReady \/ ReadyStep \/ Transcript \/ Outcome

\* Threads run.  The deadline of a shutdown is one point in time, so a worker that waits again
\* and again meets it.  The media thread holds cb->mutex for a
\* part of each 20 ms, so a lock is got in the end.  Of the SDK only what the code counts
\* on: OnStreamReady returns, and an aborted request has an outcome.
Fairness ==
  /\ WF_vars(StartStep) /\ WF_vars(RemoveBug) /\ WF_vars(WorkerStep) /\ SF_vars(Overdue)
  /\ \A o \in Owners : WF_vars(StopStep(o))
  /\ \A o \in Closers : SF_vars(Lock(o))
  /\ WF_vars(WriteStep) /\ WF_vars(FrameEnd) /\ WF_vars(ReadyStep)
  /\ WF_vars(aborted /\ Outcome)

Spec == Init /\ [][Next]_vars /\ Fairness

-----------------------------------------------------------------------------

\* What has been read and is still to be sent, in the order in which it will be sent.
Audio == local \o deque \o prebuf \o <<staging, frame>>

\* Audio reaches the stream in the order it was read: the drain of the prebuffer, frames of
\* the media thread and the worker's swaps never overtake one another, nor send twice.
InOrder ==
  /\ \A i, j \in DOMAIN Audio : i < j => \A p \in Audio[i], q \in Audio[j] : p < q
  /\ \A i \in DOMAIN Audio, p \in {sentTo} : \A q \in Audio[i] : p < q

\* When the stream is closed by a stop of a connected session, all that was captured has
\* been written to it (README.md of the module, Limits).
TailSent == closed /\ ~early => \A i \in DOMAIN Audio : Audio[i] = {}

\* The streamer is not deleted under the media thread, the worker, or a callback of the SDK
\* that is still to come.
NoUseAfterDelete ==
  object = "deleted" => /\ mpc = "idle" /\ wpc = "ended" /\ rpc \in {"none", "back"}
                        /\ sdk \notin {"starting", "open"}

\* When the worker is done, the last transcript has gone out if it was final, even though it
\* came after the hangup or raced the outcome (issue #241).
LastTranscriptOut == wpc = "ended" /\ events \in finals => events \in outs

\* Every stop completes, on a dead network too: again and again there is none under way.
StopCompletes == []<>(\A o \in Owners : opc[o] \in {"idle", "init", "attach", "publish", "done"})
=============================================================================
