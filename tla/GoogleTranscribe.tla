-------------------------- MODULE GoogleTranscribe --------------------------
(***************************************************************************)
(* One transcription session of mod_google_transcribe: its cap_cb, its     *)
(* GStreamer (a gRPC bidirectional stream), and the threads that meet      *)
(* there.                                                                  *)
(*   - the owners, at opc: "start" (start_capture), "api" (do_stop) and    *)
(*     "hangup" (the CLOSE of the bug);                                    *)
(*   - the media thread, google_speech_frame, at mpc;                      *)
(*   - the read thread, grpc_read_thread, at rpc;                          *)
(*   - a rival: a second start under the same bugname, of which only what  *)
(*     it does to the channel private is followed.                         *)
(* lock is the holder of cb->mutex, bugs of the rwlock of the session's    *)
(* bugs: the media callbacks run under its read lock, the hangup closes    *)
(* and bug_remove removes under its write lock.  m_write_mutex is held for *)
(* one operation of the stream at a time, so each of these is one step.    *)
(***************************************************************************)
EXTENDS Prebuffer

CONSTANTS
  FrameLens,    \* pieces in one frame
  MaxPieces,    \* bound: pieces in a call
  MaxResponses  \* bound: responses in a call

ASSUME GoogleAssumption ==
  FrameLens \subseteq Nat \ {0} /\ MaxPieces \in Nat /\ MaxResponses \in Nat

VARIABLES
  vad,          \* cb->vad # NULL: the connection waits for speech
  single,       \* cb->wants_single_utterance
  alive,        \* the FreeSWITCH session can still be located
  attached,     \* the bug is in the session's list
  private,      \* whose bug the channel private names
  rival,        \* how far the rival start is
  lock, bugs,
  opc, mpc, rpc,
  cleared,      \* the api's cleanup found the private and cleared it
  active,       \* g_activeSessions
  unloaded,     \* the module's shutdown went through
  object,       \* the GStreamer: none, alive, deleted
  streamer,     \* cb->streamer # NULL
  utterance,    \* cb->got_end_of_utterance
  connected, promised, writesDone,  \* m_connected, m_promise has its value, m_writesDone
  net,          \* the stream: none, open, half-closed by us, or over
  failed,       \* the status with which it ended was not OK
  responses,    \* responses read
  staging, prebuf,                  \* m_prebufStaging, m_audioBuffer
  frame,        \* what the media thread has read and not passed on
  pieces, sent, \* history: pieces read, and those written to the stream
  fired,        \* history: events of the read thread
  broken        \* history: rules of gRPC and of std::promise that were broken

fsVars     == <<alive, attached, private, rival>>
cbVars     == <<vad, single, cleared, active, unloaded, object, streamer>>
streamVars == <<connected, promised, writesDone, net, failed, broken>>
readVars   == <<rpc, responses, fired, utterance>>
audioVars  == <<staging, prebuf, frame, pieces, sent>>
vars == <<fsVars, cbVars, streamVars, readVars, audioVars, lock, bugs, opc, mpc>>

Owners  == {"start", "api", "hangup"}
Closers == {"api", "hangup"}

Init ==
  /\ vad \in BOOLEAN /\ single \in BOOLEAN
  /\ alive = TRUE /\ attached = FALSE /\ private = "none" /\ rival = "none"
  /\ lock = "free" /\ bugs = "free" /\ opc = [o \in Owners |-> "idle"]
  /\ mpc = "idle" /\ rpc = "none" /\ cleared = FALSE
  /\ active = 0 /\ unloaded = FALSE /\ object = "none" /\ streamer = FALSE /\ utterance = FALSE
  /\ connected = FALSE /\ promised = FALSE /\ writesDone = FALSE
  /\ net = "none" /\ failed = FALSE /\ responses = 0
  /\ staging = {} /\ prebuf = <<>> /\ frame = {} /\ pieces = 0 /\ sent = {}
  /\ fired = {} /\ broken = {}

-----------------------------------------------------------------------------
(* The operations of the GStreamer.                                        *)

\* What breaks a rule is remembered.
Breaks(rule, if) == broken' = IF if THEN broken \cup {rule} ELSE broken

\* m_promise.set_value(), which throws the second time.
SetPromise == promised' = TRUE /\ Breaks("two values", promised)

\* connect(): the stream, m_connected, and the read thread may go.
Connect == /\ net' = "open" /\ connected' = TRUE /\ SetPromise
           /\ UNCHANGED <<writesDone, failed>>

\* writesDone(): half-close once, or cancelConnect().
HalfClose ==
  IF connected
  THEN /\ writesDone' = TRUE /\ net' = IF ~writesDone /\ net = "open" THEN "half" ELSE net
       /\ UNCHANGED <<connected, promised, failed, broken>>
  ELSE SetPromise /\ UNCHANGED <<connected, writesDone, net, failed>>

\* write() on a connected stream.
WritePieces(s) ==
  /\ sent' = IF writesDone THEN sent ELSE sent \cup s
  /\ UNCHANGED streamVars

-----------------------------------------------------------------------------
(* The owners.  A start:                                                   *)

Goes(o, from, to) == opc[o] = from /\ opc' = [opc EXCEPT ![o] = to]
LocksKeep  == UNCHANGED <<lock, bugs>>
OwnerKeeps == UNCHANGED <<readVars, audioVars, mpc>>

\* transcribe_function: a command finds the session.
Command(o) == alive /\ ~unloaded /\ opc[o] = "idle"

\* start_capture: refused (the name, the codec, pre_answer), or on.  It has stopped what it
\* found under its name before.
Start ==
  /\ Command("start") /\ private = "none"
  /\ \E to \in {"allocate", "done"} : Goes("start", "idle", to)
  /\ OwnerKeeps /\ LocksKeep /\ UNCHANGED <<fsVars, cbVars, streamVars>>

\* The resampler and the VAD, or no session.
Allocate ==
  /\ \E to \in {"construct", "done"} : Goes("start", "allocate", to)
  /\ OwnerKeeps /\ LocksKeep /\ UNCHANGED <<fsVars, cbVars, streamVars>>

\* The constructor,
Construct ==
  /\ Goes("start", "construct", IF vad THEN "thread" ELSE "connect")
  /\ object' = "alive" /\ streamer' = TRUE
  /\ OwnerKeeps /\ LocksKeep /\ UNCHANGED <<fsVars, streamVars, vad, single, cleared, active, unloaded>>

\* which throws when there are no credentials.
ConstructFails ==
  /\ Goes("start", "construct", "done")
  /\ OwnerKeeps /\ LocksKeep /\ UNCHANGED <<fsVars, cbVars, streamVars>>

\* Without VAD the stream is connected, and configured, before anyone else knows of it.
StartConnect ==
  /\ Goes("start", "connect", "thread") /\ Connect
  /\ OwnerKeeps /\ LocksKeep /\ UNCHANGED <<fsVars, cbVars>>

CreateThread ==
  /\ Goes("start", "thread", "count") /\ rpc' = "wait"
  /\ LocksKeep /\ UNCHANGED <<fsVars, cbVars, streamVars, responses, fired, utterance, audioVars, mpc>>

\* Without the thread the streamer is deleted at once.
ThreadFails ==
  /\ Goes("start", "thread", "done") /\ object' = "deleted" /\ streamer' = FALSE
  /\ OwnerKeeps /\ LocksKeep /\ UNCHANGED <<fsVars, streamVars, vad, single, cleared, active, unloaded>>

\* ++g_activeSessions.
Count ==
  /\ Goes("start", "count", "attach") /\ active' = active + 1
  /\ OwnerKeeps /\ LocksKeep
  /\ UNCHANGED <<fsVars, streamVars, vad, single, cleared, unloaded, object, streamer>>

\* bug_add, or orphan_cleanup.
Attach ==
  /\ bugs = "free"
  /\ \/ Goes("start", "attach", "publish") /\ attached' = TRUE
     \/ Goes("start", "attach", "lock") /\ UNCHANGED attached
  /\ OwnerKeeps /\ LocksKeep /\ UNCHANGED <<alive, private, rival, cbVars, streamVars>>

Publish ==
  /\ Goes("start", "publish", "done") /\ private' = "own"
  /\ OwnerKeeps /\ LocksKeep /\ UNCHANGED <<alive, attached, rival, cbVars, streamVars>>

-----------------------------------------------------------------------------
(* Its teardown, by a stop, the hangup or a failed start.                  *)

\* do_stop finds the bug.
ApiStop ==
  /\ Command("api") /\ private = "own" /\ Goes("api", "idle", "lock")
  /\ OwnerKeeps /\ LocksKeep /\ UNCHANGED <<fsVars, cbVars, streamVars>>

\* The hangup: the session cannot be located any more.
SessionGone ==
  /\ alive /\ alive' = FALSE
  /\ OwnerKeeps /\ LocksKeep /\ UNCHANGED <<attached, private, rival, cbVars, streamVars, opc>>

\* Then the bugs are closed, under the write lock of their list.
CloseBug ==
  /\ ~alive /\ attached /\ bugs = "free" /\ attached' = FALSE /\ bugs' = "hangup"
  /\ Goes("hangup", "idle", "lock")
  /\ OwnerKeeps /\ UNCHANGED <<alive, private, rival, cbVars, streamVars, lock>>

Lock(o) ==
  /\ lock = "free" /\ lock' = o
  /\ Goes(o, "lock", IF o = "start" THEN "halfclose" ELSE "private")
  /\ OwnerKeeps /\ UNCHANGED <<fsVars, cbVars, streamVars, bugs>>

\* Mutant of Clear: without a private there is nothing to clean up.
ClearOrReturn(o) ==
  /\ Goes(o, "private", IF private = "none" THEN "unlock" ELSE "halfclose") /\ private' = "none"
  /\ cleared' = IF o = "api" THEN private # "none" ELSE cleared
  /\ OwnerKeeps /\ LocksKeep
  /\ UNCHANGED <<alive, attached, rival, streamVars, vad, single, active, unloaded, object, streamer>>

\* The private, whoever put it there, is cleared; with or without one the session is reaped.
Clear(o) ==
  /\ Goes(o, "private", "halfclose") /\ private' = "none"
  /\ cleared' = IF o = "api" THEN private # "none" ELSE cleared
  /\ OwnerKeeps /\ LocksKeep
  /\ UNCHANGED <<alive, attached, rival, streamVars, vad, single, active, unloaded, object, streamer>>

\* reap_streamer: half-close what there is,
ReapHalfClose(o) ==
  /\ Goes(o, "halfclose", "join")
  /\ IF streamer THEN HalfClose ELSE UNCHANGED streamVars
  /\ OwnerKeeps /\ LocksKeep /\ UNCHANGED <<fsVars, cbVars>>

\* join the read thread, once,
ReapJoin(o) ==
  /\ Goes(o, "join", "release") /\ rpc \in {"none", "ended"}
  /\ OwnerKeeps /\ LocksKeep /\ UNCHANGED <<fsVars, cbVars, streamVars>>

\* delete the streamer, and give its count back.
ReapDelete(o) ==
  /\ Goes(o, "release", "unlock")
  /\ object' = IF streamer THEN "deleted" ELSE object
  /\ streamer' = FALSE
  /\ active' = IF streamer THEN active - 1 ELSE active
  /\ OwnerKeeps /\ LocksKeep /\ UNCHANGED <<fsVars, streamVars, vad, single, cleared, unloaded>>

\* Mutant of Unlock: cb->mutex is kept until the bug is removed.
UnlockAfterRemove(o) ==
  /\ Goes(o, "unlock", IF o = "api" /\ cleared THEN "remove" ELSE "done")
  /\ lock' = IF o = "api" /\ cleared THEN lock ELSE "free"
  /\ bugs' = IF o = "hangup" THEN "free" ELSE bugs
  /\ OwnerKeeps /\ UNCHANGED <<fsVars, cbVars, streamVars>>

\* cb->mutex is released before the bug is removed.
Unlock(o) ==
  /\ Goes(o, "unlock", IF o = "api" /\ cleared THEN "remove" ELSE "done")
  /\ lock' = "free" /\ bugs' = IF o = "hangup" THEN "free" ELSE bugs
  /\ OwnerKeeps /\ UNCHANGED <<fsVars, cbVars, streamVars>>

\* bug_remove, of a bug that may have been closed by now,
RemoveBug ==
  /\ bugs = "free" /\ Goes("api", "remove", IF attached THEN "close" ELSE "done") /\ attached' = FALSE
  /\ OwnerKeeps /\ LocksKeep /\ UNCHANGED <<alive, private, rival, cbVars, streamVars>>

\* and its CLOSE, which has nothing left to reap but clears a private that is set by now.
CloseRemoved ==
  /\ lock \in {"free", "api"} /\ Goes("api", "close", "done") /\ private' = "none" /\ lock' = "free"
  /\ OwnerKeeps /\ UNCHANGED <<alive, attached, rival, cbVars, streamVars, bugs>>

\* The rival saw no private, publishes its bug, and is stopped or closed: its cleanup clears
\* the private that it finds.
RivalStart ==
  /\ rival = "none" /\ alive /\ ~unloaded /\ private = "none" /\ rival' = "started"
  /\ OwnerKeeps /\ LocksKeep /\ UNCHANGED <<alive, attached, private, cbVars, streamVars, opc>>

RivalPublish ==
  /\ rival = "started" /\ rival' = "published" /\ private' = "rival"
  /\ OwnerKeeps /\ LocksKeep /\ UNCHANGED <<alive, attached, cbVars, streamVars, opc>>

RivalCleanup ==
  /\ rival = "published" /\ rival' = "gone" /\ private' = "none"
  /\ OwnerKeeps /\ LocksKeep /\ UNCHANGED <<alive, attached, cbVars, streamVars, opc>>

\* The module's shutdown, unless a session is counted.
Unload ==
  /\ ~unloaded /\ active = 0 /\ unloaded' = TRUE
  /\ OwnerKeeps /\ LocksKeep
  /\ UNCHANGED <<fsVars, streamVars, vad, single, cleared, active, object, streamer, opc>>

-----------------------------------------------------------------------------
(* The media thread.                                                       *)

MediaKeeps == UNCHANGED <<fsVars, cbVars, readVars, opc>>

\* The callback, under the read lock; the look at cb->streamer that decides whether to lock.
FrameGate ==
  /\ mpc = "idle" /\ attached /\ bugs = "free" /\ streamer /\ ~(single /\ utterance)
  /\ mpc' = "gate" /\ bugs' = "media"
  /\ MediaKeeps /\ UNCHANGED <<streamVars, audioVars, lock>>

\* The trylock,
FrameTryLock ==
  /\ mpc = "gate"
  /\ IF lock = "free" THEN mpc' = "enter" /\ lock' = "media" /\ UNCHANGED bugs
                      ELSE mpc' = "idle" /\ bugs' = "free" /\ UNCHANGED lock
  /\ MediaKeeps /\ UNCHANGED <<streamVars, audioVars>>

\* Mutant of FrameEnter: the pointer that was read before the lock is used.
FrameEnterStale ==
  /\ mpc = "enter" /\ mpc' = "read" /\ UNCHANGED <<lock, bugs>>
  /\ MediaKeeps /\ UNCHANGED <<streamVars, audioVars>>

\* and the second look, under the lock.
FrameEnter ==
  /\ mpc = "enter"
  /\ IF streamer THEN mpc' = "read" /\ UNCHANGED <<lock, bugs>>
                 ELSE mpc' = "idle" /\ lock' = "free" /\ bugs' = "free"
  /\ MediaKeeps /\ UNCHANGED <<streamVars, audioVars>>

\* media_bug_read; the first speech connects.
ReadBug(n) ==
  /\ mpc = "read" /\ pieces + n <= MaxPieces
  /\ \/ mpc' = "write"
     \/ vad /\ ~connected /\ mpc' = "connect"
  /\ pieces' = pieces + n /\ frame' = (pieces + 1) .. (pieces + n)
  /\ MediaKeeps /\ UNCHANGED <<streamVars, staging, prebuf, sent, lock, bugs>>

FrameEnd ==
  /\ mpc = "read" /\ mpc' = "idle" /\ lock' = "free" /\ bugs' = "free"
  /\ MediaKeeps /\ UNCHANGED <<streamVars, audioVars>>

SpeechConnect ==
  /\ mpc = "connect" /\ mpc' = "config" /\ Connect
  /\ MediaKeeps /\ UNCHANGED <<audioVars, lock, bugs>>

\* The config is written without a look at m_writesDone.
WriteConfig ==
  /\ mpc = "config" /\ mpc' = "drain" /\ Breaks("config after finish", writesDone)
  /\ MediaKeeps /\ UNCHANGED <<audioVars, lock, bugs, connected, promised, writesDone, net, failed>>

\* Then the chunks of the prebuffer,
DrainChunk ==
  /\ mpc = "drain" /\ prebuf # <<>>
  /\ WritePieces(Head(prebuf)) /\ prebuf' = Tail(prebuf)
  /\ MediaKeeps /\ UNCHANGED <<staging, frame, pieces, mpc, lock, bugs>>

\* Mutant of DrainEnd: only whole chunks leave the prebuffer.
DrainEndNoStaging ==
  /\ mpc = "drain" /\ prebuf = <<>> /\ mpc' = "write"
  /\ staging' = {} /\ UNCHANGED <<sent, streamVars>>
  /\ MediaKeeps /\ UNCHANGED <<prebuf, frame, pieces, lock, bugs>>

\* and what was left in the staging area.
DrainEnd ==
  /\ mpc = "drain" /\ prebuf = <<>> /\ mpc' = "write"
  /\ WritePieces(staging) /\ staging' = {}
  /\ MediaKeeps /\ UNCHANGED <<prebuf, frame, pieces, lock, bugs>>

\* Mutant of WriteFrame: m_writesDone is not looked at again under m_write_mutex.
WriteFrameUnchecked ==
  /\ mpc = "write" /\ mpc' = "read" /\ frame' = {}
  /\ IF connected
     THEN /\ sent' = sent \cup frame /\ Breaks("write after finish", writesDone)
          /\ UNCHANGED <<connected, promised, writesDone, net, failed, staging, prebuf>>
     ELSE /\ staging' = Remainder(staging \cup frame) /\ prebuf' = WithChunks(prebuf, staging \cup frame)
          /\ UNCHANGED <<sent, streamVars>>
  /\ MediaKeeps /\ UNCHANGED <<pieces, lock, bugs>>

\* write(): into the prebuffer, or to the stream.
WriteFrame ==
  /\ mpc = "write" /\ mpc' = "read" /\ frame' = {}
  /\ IF connected
     THEN WritePieces(frame) /\ UNCHANGED <<staging, prebuf>>
     ELSE /\ staging' = Remainder(staging \cup frame) /\ prebuf' = WithChunks(prebuf, staging \cup frame)
          /\ UNCHANGED <<sent, streamVars>>
  /\ MediaKeeps /\ UNCHANGED <<pieces, lock, bugs>>

-----------------------------------------------------------------------------
(* The read thread, and the far end of the stream.                         *)

ReadKeeps == UNCHANGED <<fsVars, cbVars, audioVars, lock, bugs, opc, mpc>>

\* waitForConnect().
ReadWake ==
  /\ rpc = "wait" /\ promised /\ rpc' = IF connected THEN "reading" ELSE "ended"
  /\ ReadKeeps /\ UNCHANGED <<streamVars, responses, fired, utterance>>

\* Mutant of ReadResponse: without a session the thread leaves (as before issue #241).
ReadResponseIfAlive(e) ==
  /\ rpc = "reading" /\ net \in {"open", "half"} /\ responses < MaxResponses
  /\ e = "end_of_utterance" => single
  /\ responses' = responses + 1
  /\ IF alive
     THEN /\ fired' = fired \cup {e} /\ utterance' = (utterance \/ e = "end_of_utterance")
          /\ rpc' = IF e = "end_of_utterance" THEN "halfclose" ELSE rpc
     ELSE rpc' = "ended" /\ UNCHANGED <<fired, utterance>>
  /\ ReadKeeps /\ UNCHANGED streamVars

\* A response, told with or without a session; an end of utterance is what was asked for.
ReadResponse(e) ==
  /\ rpc = "reading" /\ net \in {"open", "half"} /\ responses < MaxResponses
  /\ e = "end_of_utterance" => single
  /\ responses' = responses + 1 /\ fired' = fired \cup {e}
  /\ utterance' = (utterance \/ e = "end_of_utterance")
  /\ rpc' = IF e = "end_of_utterance" THEN "halfclose" ELSE rpc
  /\ ReadKeeps /\ UNCHANGED streamVars

\* wants_single_utterance: the read thread half-closes, too.
UtteranceEnds ==
  /\ rpc = "halfclose" /\ rpc' = "reading" /\ HalfClose
  /\ ReadKeeps /\ UNCHANGED <<responses, fired, utterance>>

\* The far end ends the stream, in answer to the half-close or on its own.
StreamEnds ==
  /\ net \in {"open", "half"} /\ net' = "over" /\ failed' \in BOOLEAN
  /\ ReadKeeps /\ UNCHANGED <<connected, promised, writesDone, broken, readVars>>

\* read() returns false, and finish() closes the write side under m_write_mutex.
ReadFinish ==
  /\ rpc = "reading" /\ net = "over" /\ rpc' = "status" /\ writesDone' = TRUE
  /\ ReadKeeps /\ UNCHANGED <<connected, promised, net, failed, broken, responses, fired, utterance>>

\* A failure is told, with or without a session.
ReadStatus ==
  /\ rpc = "status" /\ rpc' = "ended" /\ fired' = fired \cup (IF failed THEN {"error"} ELSE {})
  /\ ReadKeeps /\ UNCHANGED <<streamVars, responses, utterance>>

-----------------------------------------------------------------------------
StartStep == Start \/ Allocate \/ Construct \/ ConstructFails \/ StartConnect \/ CreateThread
             \/ ThreadFails \/ Count \/ Attach \/ Publish
ReapStep(o) == ReapHalfClose(o) \/ ReapJoin(o) \/ ReapDelete(o) \/ Unlock(o)
FrameStep == FrameTryLock \/ FrameEnter \/ SpeechConnect \/ WriteConfig \/ DrainChunk \/ DrainEnd
             \/ WriteFrame
ReadStep == ReadWake \/ UtteranceEnds \/ ReadFinish \/ ReadStatus

\* Nothing runs in a module that was unloaded.
Next ==
  ~unloaded /\ (
  \/ StartStep \/ ApiStop \/ SessionGone \/ CloseBug \/ RemoveBug \/ CloseRemoved \/ Unload
  \/ \E o \in Owners : Lock(o) \/ ReapStep(o)
  \/ \E o \in Closers : Clear(o)
  \/ RivalStart \/ RivalPublish \/ RivalCleanup
  \/ FrameGate \/ (\E n \in FrameLens : ReadBug(n)) \/ FrameEnd \/ FrameStep
  \/ (\E e \in {"results", "end_of_utterance"} : ReadResponse(e)) \/ StreamEnds \/ ReadStep)

\* Threads run, and the media thread holds its locks for a part of each 20 ms, so a lock is
\* got in the end.  Of the far end only what the code counts on, which waits for the read
\* thread without a limit: a stream that was half-closed ends.
Fairness ==
  /\ WF_vars(StartStep) /\ SF_vars(Attach) /\ SF_vars(RemoveBug) /\ SF_vars(CloseRemoved)
  /\ \A o \in Owners : SF_vars(Lock(o)) /\ WF_vars(ReapStep(o))
  /\ \A o \in Closers : WF_vars(Clear(o))
  /\ WF_vars(FrameStep) /\ WF_vars(FrameEnd) /\ WF_vars(ReadStep)
  /\ WF_vars(writesDone /\ StreamEnds)

Spec == Init /\ [][Next]_vars /\ Fairness

-----------------------------------------------------------------------------

\* gRPC's contract, with the half-close of a stop, that of an utterance, the Finish of a stream
\* that ended by itself and the writes of the media thread in every order: no audio is written
\* after a half-close or Finish; and the promise gets one value, be it of connect(), of the stop
\* or of the hangup that comes first.
StreamContract == broken \subseteq {"config after finish"}

\* What reaches Google is a part of the call without a gap: of what waited in the prebuffer and
\* the staging area nothing is left out or overtaken, whatever the length of a frame.
NoGap == \A p, q \in sent : \A r \in p .. q : r \in sent

\* The streamer is not deleted under the media thread or the read thread.
NoUseAfterDelete ==
  object # "alive" => /\ mpc \in {"idle", "gate", "enter"}
                      /\ rpc \in {"none", "ended"}

\* The read thread of a stream that was connected does not end before the far end has ended the
\* stream, so that nothing of it remains unread, and then a failure of the stream has been told,
\* though the session may have been gone for long (issue #241).  How often a result is told is
\* not counted.
TailDrained == rpc = "ended" /\ connected => net = "over" /\ (failed => "error" \in fired)

\* When the start and the hangup are over nothing is left of the session, though stops and a
\* rival start may have taken its private away.
NothingLeft ==
  /\ opc["start"] = "done" /\ opc["api"] \in {"idle", "done"} /\ opc["hangup"] \in {"idle", "done"}
  /\ ~alive /\ ~attached
  => rpc \in {"none", "ended"} /\ object # "alive" /\ active = 0

\* Every stop and every hangup comes to its end.
StopCompletes == []<>(\A o \in Closers : opc[o] \in {"idle", "done"})
=============================================================================
