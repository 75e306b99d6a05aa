-------------------------- MODULE AzureTranscribe --------------------------
(***************************************************************************)
(* One channel under mod_azure_transcribe: start and stop commands, the    *)
(* hangup, the media thread, the threads on which the Speech SDK calls     *)
(* back, the reapers and the unload.  Every start makes a cap_cb b with a  *)
(* recognizer (GStreamer) of its own; at most one is named by the channel  *)
(* private.                                                                *)
(*                                                                         *)
(* A piece of audio is the number under which b read it; module Prebuffer  *)
(* holds what is written before SessionStarted.  A callback that is under  *)
(* way when its recognizer is deleted is not followed any further.         *)
(***************************************************************************)
EXTENDS Prebuffer, Functions

CONSTANTS
  Cbs, NoCb,
  Callers,    \* threads of API commands
  MaxFrames,  \* bound: frames read from the channel
  MaxCalls    \* bound: commands

ASSUME AzureAssumption ==
  NoCb \notin Cbs /\ {MaxFrames, MaxCalls} \subseteq Nat /\ {"free", "media"} \cap Callers = {}

VARIABLES
  state,      \* of each recognizer: none, live, deleted
  holds,      \* those with cb->streamer
  vad,        \* START_RECOGNIZING_ON_VAD: recognizers connect on speech
  finished, connected, connecting,   \* the flags m_...
  handlers,   \* those with the handlers of the constructor
  sdk,        \* recognition: idle, starting, running, ended (by itself), stopped (by finish)
  callback,   \* where the SDK's thread is
  chunks, staging,   \* m_audioBuffer, m_prebufStaging
  pushed,     \* the last piece that the push stream got
  told,       \* history: those of which an event said that the session is finished
  reaperAt,   \* where the reaper of each is
  frames, media, frame,   \* pieces that each read; where the media thread is, and with which cb
  calls, at, cb,   \* commands made; where each caller and the hangup are, and with which cb
  resume,     \* what follows a stop: nothing, or the rest of a start
  alive, private, attached, bugs,   \* the session, its private, its bugs and their lock
  mutex,      \* cb->mutex of each
  active, loaded   \* g_activeStreamers, and whether the module is

flagVars   == <<finished, connected, connecting>>
bufferVars == <<chunks, staging, pushed>>
sdkVars    == <<handlers, sdk, callback>>
mediaVars  == <<frames, media, frame>>
callVars   == <<calls, at, cb, resume>>
fsVars     == <<alive, private, attached, bugs>>
lifeVars   == <<state, active, loaded>>
vars == <<lifeVars, holds, vad, flagVars, sdkVars, bufferVars, told, reaperAt, mediaVars,
          callVars, fsVars, mutex>>
streamVars == <<flagVars, sdkVars, bufferVars, told>>

Hangup == "hangup"
Owners == Callers \cup {Hangup}

Init ==
  /\ state = [b \in Cbs |-> "none"] /\ active = 0 /\ loaded = TRUE
  /\ holds = {} /\ vad \in BOOLEAN
  /\ finished = {} /\ connected = {} /\ connecting = {}
  /\ handlers = {} /\ sdk = [b \in Cbs |-> "idle"] /\ callback = [b \in Cbs |-> "none"]
  /\ chunks = [b \in Cbs |-> <<>>]
  /\ staging = [b \in Cbs |-> {}] /\ pushed = [b \in Cbs |-> 0]
  /\ told = {} /\ reaperAt = [b \in Cbs |-> "none"]
  /\ frames = [b \in Cbs |-> 0] /\ media = "idle" /\ frame = NoCb
  /\ calls = 0 /\ at = [o \in Owners |-> "idle"] /\ cb = [o \in Owners |-> NoCb]
  /\ resume = [o \in Owners |-> "idle"]
  /\ alive = TRUE /\ private = NoCb /\ attached = {} /\ bugs = "free"
  /\ mutex = [b \in Cbs |-> "free"]

Goes(f, o, from, to) == f[o] = from /\ f' = [f EXCEPT ![o] = to]

-----------------------------------------------------------------------------
(* The recognizer: finish(), and what every thread does with it.           *)

\* finish() has no effect on one that finished by itself.
FinishCheck(b, f, o) == Goes(f, o, "finish", IF b \in finished THEN "delete" ELSE "disconnect")

\* DisconnectAll() of every event, and StopContinuousRecognitionAsync().
Disconnect(b, f, o) ==
  /\ Goes(f, o, "disconnect", "stop") /\ finished' = finished \cup {b} /\ handlers' = handlers \ {b}
  /\ sdk' = [sdk EXCEPT ![b] = "stopped"]
  /\ UNCHANGED <<connected, connecting, callback, bufferVars, told>>

\* The destructor: with the recognizer its buffers, flags and handlers are gone.
Destroy(b) ==
  /\ state' = [state EXCEPT ![b] = "deleted"] /\ active' = active - 1 /\ UNCHANGED loaded
  /\ finished' = finished \ {b} /\ connected' = connected \ {b} /\ connecting' = connecting \ {b}
  /\ handlers' = handlers \ {b} /\ sdk' = [sdk EXCEPT ![b] = "idle"] /\ told' = told \ {b}
  /\ callback' = [callback EXCEPT ![b] = "none"]
  /\ pushed' = [pushed EXCEPT ![b] = 0]
  /\ chunks' = [chunks EXCEPT ![b] = <<>>] /\ staging' = [staging EXCEPT ![b] = {}]

\* finish() returned at once, or StopContinuousRecognitionAsync().get() has returned, which may
\* throw, and the callbacks with it.
Finished(b, f, o) == f[o] = "delete" \/ (f[o] = "stop" /\ callback[b] = "none")

\* notifyWriteFailure(), or the event of a handler: only a session that is there is told.
Tell(b) == told' = IF alive THEN told \cup {b} ELSE told

\* connect(): dispatched, or it throws at once.
Dispatch(b) == sdk' = [sdk EXCEPT ![b] = "starting"]

-----------------------------------------------------------------------------
(* The callbacks of the SDK.                                               *)

CallbackKeeps ==
  UNCHANGED <<lifeVars, holds, vad, reaperAt, mediaVars, callVars, fsVars, mutex>>

\* Mutant of SessionStarted: m_connected is published before the drain.
SessionStartedConnected(b) ==
  /\ b \in handlers /\ callback[b] = "none" /\ Goes(sdk, b, "starting", "running")
  /\ IF b \notin finished /\ alive
     THEN callback' = [callback EXCEPT ![b] = "drain"] /\ connected' = connected \cup {b}
     ELSE UNCHANGED <<callback, connected>>
  /\ CallbackKeeps /\ UNCHANGED <<finished, connecting, handlers, bufferVars, told>>

\* SessionStarted. Its handler has m_audioBufferMutex from now on.
SessionStarted(b) ==
  /\ b \in handlers /\ callback[b] = "none" /\ Goes(sdk, b, "starting", "running")
  /\ callback' = [callback EXCEPT ![b] =
       IF b \notin finished /\ alive THEN "drain" ELSE "none"]
  /\ CallbackKeeps /\ UNCHANGED <<flagVars, handlers, bufferVars, told>>

\* The push stream throws.
DrainFails(b) ==
  /\ chunks[b] # <<>> \/ (staging[b] # {} /\ b \notin finished)
  /\ Goes(callback, b, "drain", "tellDrain") /\ finished' = finished \cup {b}
  /\ CallbackKeeps /\ UNCHANGED <<connected, connecting, handlers, sdk, bufferVars, told>>

\* Mutant of TellDrain: no event.
TellDrainNobody(b) ==
  /\ Goes(callback, b, "tellDrain", "none") /\ UNCHANGED told
  /\ staging' = [staging EXCEPT ![b] = {}] /\ connected' = connected \cup {b}
  /\ CallbackKeeps /\ UNCHANGED <<finished, connecting, handlers, sdk, chunks, pushed>>

\* It is told, and the rest of the prebuffer is given up.
TellDrain(b) ==
  /\ Goes(callback, b, "tellDrain", "none") /\ Tell(b)
  /\ staging' = [staging EXCEPT ![b] = {}] /\ connected' = connected \cup {b}
  /\ CallbackKeeps /\ UNCHANGED <<finished, connecting, handlers, sdk, chunks, pushed>>

\* One chunk of the prebuffer, in order.
DrainChunk(b) ==
  /\ callback[b] = "drain" /\ chunks[b] # <<>> /\ chunks' = [chunks EXCEPT ![b] = Tail(@)]
  /\ pushed' = [pushed EXCEPT ![b] = LastOf(Head(chunks[b]))]
  /\ CallbackKeeps /\ UNCHANGED <<flagVars, sdkVars, staging, told>>

\* What is staged, and only then m_connected; the mutex is released.
DrainEnd(b) ==
  /\ chunks[b] = <<>> /\ Goes(callback, b, "drain", "none") /\ staging' = [staging EXCEPT ![b] = {}]
  /\ pushed' = IF b \in finished \/ staging[b] = {} THEN pushed
               ELSE [pushed EXCEPT ![b] = LastOf(staging[b])]
  /\ connected' = connected \cup {b}
  /\ CallbackKeeps /\ UNCHANGED <<finished, connecting, handlers, sdk, chunks, told>>

\* The service ends the recognition, and a handler is called that finds the flag clear.
Ended(b) ==
  /\ b \in handlers \ finished /\ Goes(callback, b, "none", "tell")
  /\ sdk[b] \in {"starting", "running"} /\ sdk' = [sdk EXCEPT ![b] = "ended"]

\* Canceled.
Canceled(b) ==
  /\ Ended(b) /\ finished' = finished \cup {b}
  /\ CallbackKeeps /\ UNCHANGED <<connected, connecting, handlers, bufferVars, told>>

\* SessionStopped. After Canceled it finds the recognizer finished, so that m_canceled makes
\* no difference.
SessionStopped(b) ==
  /\ Ended(b)
  /\ CallbackKeeps /\ UNCHANGED <<flagVars, handlers, bufferVars, told>>

TellEnd(b) ==
  /\ Goes(callback, b, "tell", "none") /\ Tell(b)
  /\ CallbackKeeps /\ UNCHANGED <<flagVars, handlers, sdk, bufferVars>>

CallbackStep(b) ==
  \/ SessionStarted(b) \/ DrainFails(b) \/ TellDrain(b) \/ DrainChunk(b) \/ DrainEnd(b)
  \/ Canceled(b) \/ SessionStopped(b) \/ TellEnd(b)

-----------------------------------------------------------------------------
(* The reaper's thread.                                                    *)

ReaperFinish(b) ==
  /\ UNCHANGED <<holds, vad, mediaVars, callVars, fsVars, mutex>>
  /\ \/ /\ UNCHANGED lifeVars
        /\ \/ FinishCheck(b, reaperAt, b) /\ UNCHANGED streamVars
           \/ Disconnect(b, reaperAt, b)
     \/ Finished(b, reaperAt, b) /\ Destroy(b) /\ reaperAt' = [reaperAt EXCEPT ![b] = "done"]

-----------------------------------------------------------------------------
(* start_capture and azure_transcribe_session_init.                        *)

\* The end of a call; the hangup lets go of the bugs.
Returns(o) ==
  /\ at' = [at EXCEPT ![o] = resume[o]] /\ cb' = [cb EXCEPT ![o] = NoCb]
  /\ resume' = [resume EXCEPT ![o] = "idle"] /\ bugs' = IF bugs = o THEN "free" ELSE bugs

CallKeeps == UNCHANGED <<vad, reaperAt, mediaVars, calls>>

\* azure_transcribe_function: a command finds the session.
Command(c) == alive /\ at[c] = "idle" /\ calls < MaxCalls /\ calls' = calls + 1

StartCommand(c) ==
  /\ Command(c)
  /\ \/ private = NoCb /\ Goes(at, c, "idle", "init") /\ UNCHANGED <<cb, resume>>
     \/ /\ private # NoCb /\ Goes(at, c, "idle", "lock") /\ cb' = [cb EXCEPT ![c] = private]
        /\ resume' = [resume EXCEPT ![c] = "init"]
  /\ UNCHANGED <<lifeVars, holds, vad, streamVars, reaperAt, mediaVars, fsVars, mutex>>

\* No codec, no pre_answer, no resampler, or the constructor throws.
Refused(c) ==
  /\ Goes(at, c, "init", "idle")
  /\ CallKeeps /\ UNCHANGED <<lifeVars, holds, streamVars, cb, resume, fsVars, mutex>>

\* The constructor, which connects the handlers of its own events.
NewGStreamer(b) ==
  /\ state[b] = "none" /\ state' = [state EXCEPT ![b] = "live"]
  /\ active' = active + 1 /\ UNCHANGED loaded
  /\ handlers' = handlers \cup {b}

\* A recognizer is made; without a VAD connect() follows, and if that throws, before or after
\* it has dispatched recognition, killcb.
Construct(c) == \E b \in Cbs :
  /\ NewGStreamer(b) /\ cb' = [cb EXCEPT ![c] = b] /\ holds' = holds \cup {b}
  /\ \/ vad /\ Goes(at, c, "init", "add") /\ UNCHANGED <<connecting, sdk>>
     \/ /\ ~vad /\ connecting' = connecting \cup {b}
        /\ \/ Goes(at, c, "init", "add") /\ Dispatch(b)
           \/ Goes(at, c, "init", "finish") /\ (Dispatch(b) \/ UNCHANGED sdk)
  /\ CallKeeps
  /\ UNCHANGED <<finished, connected, callback, bufferVars, told, resume, fsVars, mutex>>

\* killcb of a cap_cb that nobody else knows.
KillCb(c) ==
  /\ CallKeeps /\ UNCHANGED mutex
  /\ \/ /\ UNCHANGED <<lifeVars, holds, cb, resume, fsVars>>
        /\ \/ FinishCheck(cb[c], at, c) /\ UNCHANGED streamVars
           \/ Disconnect(cb[c], at, c)
     \/ /\ Finished(cb[c], at, c) /\ Destroy(cb[c]) /\ holds' = holds \ {cb[c]} /\ Returns(c)
        /\ UNCHANGED <<alive, private, attached>>

\* bug_add, or azure_transcribe_session_cleanup.
BugAdd(c) ==
  /\ bugs = "free"
  /\ \/ Goes(at, c, "add", "publish") /\ attached' = attached \cup {cb[c]}
     \/ Goes(at, c, "add", "finish") /\ UNCHANGED attached
  /\ CallKeeps
  /\ UNCHANGED <<lifeVars, holds, streamVars, cb, resume, alive, private, bugs, mutex>>

Publish(c) ==
  /\ at[c] = "publish" /\ private' = cb[c] /\ Returns(c)
  /\ CallKeeps /\ UNCHANGED <<lifeVars, holds, streamVars, alive, attached, mutex>>

-----------------------------------------------------------------------------
(* azure_transcribe_session_stop and azure_transcribe_session_close.       *)

StopKeeps == CallKeeps /\ UNCHANGED <<lifeVars, streamVars>>

StopCommand(c) ==
  /\ Command(c)
  /\ private # NoCb /\ Goes(at, c, "idle", "lock") /\ cb' = [cb EXCEPT ![c] = private]
  /\ UNCHANGED <<lifeVars, holds, vad, streamVars, reaperAt, mediaVars, resume, fsVars, mutex>>

\* A stop that was overtaken returns.
LockAndVerify(o) ==
  /\ at[o] = "lock" /\ mutex[cb[o]] = "free"
  /\ \/ /\ private = cb[o] /\ Goes(at, o, "lock", "reap") /\ mutex' = [mutex EXCEPT ![cb[o]] = o]
        /\ UNCHANGED <<cb, resume, bugs>>
     \/ private # cb[o] /\ Returns(o) /\ UNCHANGED mutex
  /\ StopKeeps /\ UNCHANGED <<holds, alive, private, attached>>

\* reaper() takes the streamer; killcb frees the resampler and the VAD.
ReapAndUnlock(o) ==
  /\ mutex' = [mutex EXCEPT ![cb[o]] = "free"] /\ holds' = holds \ {cb[o]}
  /\ reaperAt' = IF cb[o] \in holds THEN [reaperAt EXCEPT ![cb[o]] = "finish"] ELSE reaperAt
  /\ UNCHANGED <<lifeVars, vad, mediaVars, streamVars, calls>>

\* The private is cleared, whosever it is by now.
Reap(o) ==
  /\ Goes(at, o, "reap", "remove") /\ private' = NoCb /\ ReapAndUnlock(o)
  /\ UNCHANGED <<cb, resume, alive, attached, bugs>>

\* bug_remove fires the CLOSE of a bug that is still there.
Remove(o) ==
  /\ at[o] = "remove" /\ bugs = "free"
  /\ \/ /\ cb[o] \in attached /\ attached' = attached \ {cb[o]} /\ Goes(at, o, "remove", "close")
        /\ UNCHANGED <<cb, resume, bugs>>
     \/ cb[o] \notin attached /\ Returns(o) /\ UNCHANGED attached
  /\ StopKeeps /\ UNCHANGED <<holds, alive, private, mutex>>

SessionGone ==
  /\ alive /\ alive' = FALSE
  /\ UNCHANGED <<lifeVars, holds, vad, streamVars, reaperAt, mediaVars, callVars, private, attached,
                 bugs, mutex>>

\* Mutant of CloseBug: CLOSE resolves the bugname through the channel private.
CloseBugByName(b) ==
  /\ ~alive /\ b \in attached /\ attached' = attached \ {b} /\ bugs = "free"
  /\ IF private = NoCb THEN UNCHANGED <<at, cb, bugs>>
     ELSE bugs' = Hangup /\ Goes(at, Hangup, "idle", "close") /\ cb' = [cb EXCEPT ![Hangup] = private]
  /\ StopKeeps /\ UNCHANGED <<holds, resume, alive, private, mutex>>

\* The hangup closes the bugs under the write lock, each with its own cap_cb.
CloseBug(b) ==
  /\ ~alive /\ b \in attached /\ attached' = attached \ {b} /\ bugs = "free" /\ bugs' = Hangup
  /\ Goes(at, Hangup, "idle", "close") /\ cb' = [cb EXCEPT ![Hangup] = b]
  /\ StopKeeps /\ UNCHANGED <<holds, resume, alive, private, mutex>>

\* The CLOSE callback; the private stays.
Close(o) ==
  /\ at[o] = "close" /\ mutex[cb[o]] = "free" /\ ReapAndUnlock(o) /\ Returns(o)
  /\ UNCHANGED <<alive, private, attached>>

-----------------------------------------------------------------------------
(* The media thread, azure_transcribe_frame, and the unload.               *)

MediaKeeps == UNCHANGED <<lifeVars, holds, vad, reaperAt, callVars, alive, private, attached>>

\* The media thread has cb->mutex, under the lock of the bugs, until a frame is written.
MediaHas(b, to) ==
  media' = to /\ frame' = b /\ bugs' = "media" /\ mutex' = [mutex EXCEPT ![b] = "media"]
MediaDone ==
  media' = "idle" /\ frame' = NoCb /\ bugs' = "free" /\ mutex' = [mutex EXCEPT ![frame] = "free"]

\* A piece is read. write() looks at the flags, without a lock.
WriteCheck(b) ==
  IF b \in finished THEN UNCHANGED <<media, frame, bugs, mutex>>
                    ELSE MediaHas(b, IF b \in connected THEN "push" ELSE "buffer")

\* Speech is detected, or not: connect(), which may throw.
Frame(b) ==
  /\ b \in attached \cap holds /\ bugs = "free" /\ mutex[b] = "free" /\ media = "idle"
  /\ SumFunction(frames) < MaxFrames /\ frames' = [frames EXCEPT ![b] = @ + 1]
  /\ \/ WriteCheck(b) /\ UNCHANGED <<connecting, sdk, finished>>
     \/ /\ vad /\ b \notin connecting \cup finished /\ connecting' = connecting \cup {b}
        /\ \/ WriteCheck(b) /\ Dispatch(b) /\ UNCHANGED finished
           \/ MediaHas(b, "tell") /\ finished' = finished \cup {b} /\ UNCHANGED sdk
  /\ MediaKeeps /\ UNCHANGED <<connected, handlers, callback, bufferVars, told>>

\* The prebuffer with a piece p more.
Staged(p) == LET s == staging[frame] \cup {p} IN
  /\ chunks' = [chunks EXCEPT ![frame] = WithChunks(@, s)]
  /\ staging' = [staging EXCEPT ![frame] = Remainder(s)]

\* The handler of SessionStarted has m_audioBufferMutex.
Draining(b) == callback[b] \in {"drain", "tellDrain"}

\* What was not connected yet may be by now: the flag is looked at again under the mutex.
Buffer ==
  /\ media = "buffer" /\ ~Draining(frame)
  /\ \/ frame \notin connected /\ Staged(frames[frame]) /\ MediaDone
     \/ frame \in connected /\ MediaHas(frame, "push") /\ UNCHANGED <<chunks, staging>>
  /\ MediaKeeps /\ UNCHANGED <<frames, flagVars, sdkVars, pushed, told>>

\* The push stream takes it, or throws.
Push ==
  /\ media = "push"
  /\ \/ MediaDone /\ pushed' = [pushed EXCEPT ![frame] = frames[frame]] /\ UNCHANGED finished
     \/ MediaHas(frame, "tell") /\ finished' = finished \cup {frame} /\ UNCHANGED pushed
  /\ MediaKeeps /\ UNCHANGED <<frames, connected, connecting, sdkVars, chunks, staging, told>>

\* notifyWriteFailure().
MediaTell ==
  /\ media = "tell" /\ Tell(frame) /\ MediaDone
  /\ MediaKeeps /\ UNCHANGED <<frames, flagVars, sdkVars, bufferVars>>

\* The shutdown function of the module.
Unload ==
  /\ loaded /\ active = 0 /\ loaded' = FALSE
  /\ UNCHANGED <<state, active, holds, vad, streamVars, reaperAt, mediaVars, callVars, fsVars, mutex>>

CallerStep(c) ==
  \/ StartCommand(c) \/ Refused(c) \/ Construct(c) \/ KillCb(c)
  \/ BugAdd(c) \/ Publish(c) \/ StopCommand(c)
StopStep(o) == LockAndVerify(o) \/ Reap(o) \/ Remove(o) \/ Close(o)
MediaStep == Buffer \/ Push \/ MediaTell

\* Nothing runs in a module that was unloaded.
Next ==
  loaded /\ (
  \/ \E c \in Callers : CallerStep(c)
  \/ \E o \in Owners : StopStep(o)
  \/ \E b \in Cbs : CallbackStep(b) \/ ReaperFinish(b) \/ CloseBug(b) \/ Frame(b)
  \/ MediaStep \/ SessionGone \/ Unload)

Spec == Init /\ [][Next]_vars

-----------------------------------------------------------------------------
\* Until a recognizer is finished, what waits in its prebuffer is never overtaken by a frame that
\* was read later, whatever SessionStarted and write() do at once, and nothing is left in the
\* prebuffer once it was drained.
AudioInOrder ==
  \A b \in Cbs \ finished :
    /\ \A p \in staging[b] \cup UNION {chunks[b][i] : i \in DOMAIN chunks[b]} : pushed[b] < p
    /\ b \in connected /\ ~Draining(b) => chunks[b] = <<>> /\ staging[b] = {}

\* When the call is over and all has returned, every recognizer is deleted or with its reaper,
\* even if two starts at once published one over the other, or the hangup came first.
NothingLeft ==
  ~alive /\ attached = {} /\ (\A o \in Owners : at[o] = "idle") =>
    \A b \in Cbs : state[b] = "live" => reaperAt[b] # "none"

\* Nobody waits for a recognizer that ended by itself: an event said so, unless the session
\* is gone, or a stop takes over.
EndIsTold ==
  \A b \in Cbs :
    /\ alive /\ b \in holds /\ (b \in finished \/ sdk[b] = "ended")
    /\ callback[b] \notin {"tell", "tellDrain"} /\ ~(media = "tell" /\ frame = b)
    /\ (\A c \in Callers : cb[c] = b => at[c] \notin {"finish", "disconnect", "stop", "delete"})
    => b \in told
=============================================================================
