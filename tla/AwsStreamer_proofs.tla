------------------------- MODULE AwsStreamer_proofs --------------------------
(***************************************************************************)
(* What is proved of AwsStreamer for every length of the frames and of the *)
(* chunks, every size of the prebuffer and of the queue, and any number of *)
(* pieces and events.                                                      *)
(***************************************************************************)
EXTENDS AwsStreamer, Prebuffer_proofs

-----------------------------------------------------------------------------
(* The inductive invariant: the threads and their flags.                   *)

Tearing  == {"flag", "finish", "join", "kill"}
Stopping == {"finish", "join", "kill"}
Secret   == {"idle", "init", "attach"} \cup Tearing
OwnerPc  == Secret \cup {"publish", "lock", "remove", "done"}
WorkerPc == {"none", "construct", "publish", "recheck", "check", "asleep", "deliver", "deliverLast",
             "branch", "send", "flush", "ended"}

FlagTypes ==
  /\ {vad, alive, attached, private, counted, accepting, streamer, stopRequested, finishing, finished,
      connected, connecting, early, stream, shutdown, aborted, closed} \subseteq BOOLEAN
  /\ object \in {"none", "alive", "deleted"}
  /\ sdk \in {"idle", "starting", "open", "ended", "down"}
ThreadTypes ==
  /\ lock \in Closers \cup {"free", "media"} /\ opc \in [Owners -> OwnerPc] /\ wpc \in WorkerPc
  /\ mpc \in {"idle", "read", "write", "prebuf", "push"} /\ rpc \in {"none", "drain", "wake", "back"}
TypeOK == FlagTypes /\ ThreadTypes

\* Until bug_add has succeeded only the start knows of the session; who tears it down otherwise, and
\* the media thread, hold cb->mutex.
Session ==
  /\ opc["start"] \in Secret =>
       ~attached /\ ~private /\ opc["api"] = "idle" /\ opc["hangup"] = "idle"
  /\ \A o \in Closers : opc[o] \in Tearing => lock = o
  /\ mpc # "idle" => lock = "media" /\ attached /\ streamer

\* A stop: from its first step on the media thread is out, until the worker has ended and nothing is
\* published any more.
Stops ==
  /\ \A o \in Owners : opc[o] \in Stopping => stopRequested
  /\ \A o \in Owners : opc[o] = "kill" => wpc = "ended"
  /\ opc["start"] \in {"idle", "init"} => wpc = "none"
  /\ opc["start"] \in {"idle", "init", "attach"} => ~stopRequested
  /\ stopRequested => /\ mpc = "idle"
                      /\ (~streamer /\ wpc = "ended") \/ \E o \in Owners : opc[o] \in Stopping
  /\ finishing => stopRequested

\* The GStreamer, and why its worker has ended: the outcome came, or nothing was asked and nothing
\* will be.
Object ==
  /\ streamer => object = "alive"
  /\ wpc \in {"none", "construct"} => object = "none" /\ ~connecting
  /\ wpc = "publish" => object = "alive"
  /\ wpc \in {"none", "construct", "publish"} => ~streamer
  /\ object = "deleted" => wpc = "ended" /\ ~streamer /\ stopRequested
  /\ wpc = "ended" => finished \/ (~connecting /\ (stopRequested \/ object = "none"))

\* The request, which is made once.
Request ==
  /\ ~connecting => /\ sdk \in {"idle", "down"} /\ rpc = "none" /\ ~stream /\ ~connected /\ ~closed
                    /\ events = 0 /\ deque = <<>>
  /\ finished => connecting /\ sdk \in {"ended", "down"} /\ rpc \in {"none", "back"}
  /\ sdk = "starting" => rpc = "none" /\ ~stream /\ ~connected /\ ~closed
  /\ connected => rpc \in {"wake", "back"}
  /\ mpc = "push" => connected

\* What a shutdown finds: the prebuffer is empty once there is a connection, the worker has the queue.
Flushed ==
  /\ finishing /\ ~early => connected
  /\ wpc = "flush" => finishing /\ stream /\ (early \/ deque = <<>>)
  /\ closed => finishing /\ ~stream /\ wpc # "send" /\ (early \/ deque = <<>>)
  /\ wpc \notin {"send", "flush"} => local = <<>>
  /\ connected => prebuf = <<>> /\ staging = {}
  /\ mpc \in {"idle", "read"} => frame = {}

\* The last transcript is in its slot, in the worker's hands, or out.
Events ==
  /\ events \in Nat /\ copied \in Nat /\ transcript \in {0, events} /\ finals \subseteq 1 .. events
  /\ copied # 0 => wpc \in {"deliver", "deliverLast"}
  /\ events \in finals => events \in outs \/ transcript = events \/ copied = events
  /\ wpc \in {"deliverLast", "ended"} => transcript = 0
  /\ wpc = "deliverLast" => finished

Control == TypeOK /\ Session /\ Stops /\ Object /\ Request /\ Flushed /\ Events

-----------------------------------------------------------------------------
(* The inductive invariant: the audio.                                     *)

\* The entries of q are intervals of pieces after l, up to h, one behind the other.
InQueue(q, l, h) ==
  /\ q \in Seq(SUBSET Nat)
  /\ \A i \in 1 .. Len(q) : \E x, y \in Nat : l <= x /\ x < y /\ y <= h /\ q[i] = (x + 1) .. y
  /\ \A i, j \in 1 .. Len(q) : i < j => \A p \in q[i], r \in q[j] : p < r

\* What was read and is not sent lies in this order: the worker's queue up to m, the shared one up to
\* a, the prebuffer up to b, the staging area up to f, and behind g the frame, which follows without
\* a gap as long as it may go to the prebuffer.
AudioAt(m, a, b, f, g) ==
  /\ sentTo <= m /\ m <= a /\ a <= b /\ b <= f /\ f <= g /\ g <= pieces
  /\ InQueue(local, sentTo, m) /\ InQueue(deque, m, a)
  /\ InChunks(prebuf, a, b) /\ staging = (b + 1) .. f /\ frame = (g + 1) .. pieces
  /\ ~connected /\ (mpc = "prebuf" \/ ~(finishing \/ finished)) => f = g
  /\ mpc \in {"write", "prebuf", "push"} => g < pieces

AudioInv ==
  /\ sentTo \in Nat /\ pieces \in Nat
  /\ \E m, a, b, f, g \in Nat : AudioAt(m, a, b, f, g)

IInv == Control /\ AudioInv

-----------------------------------------------------------------------------
(* The sets of program counters and what several actions share are         *)
(* expanded everywhere; each action and the parts of the invariant only    *)
(* where they are used.                                                    *)

USE AwsStreamerAssumption, PrebufferAssumption
    DEF Owners, Closers, Tearing, Stopping, Secret, OwnerPc, WorkerPc, Goes, OwnerKeeps, CbKeeps,
        WorkerKeeps, LoopKeeps, MediaKeeps, SdkKeeps, Notify, StartStream, SetFinishing, ReleaseCb,
        cbVars, flagVars, queueVars, eventVars, workerVars, mediaVars, sdkVars

\* Every step keeps the flags of the session, of the GStreamer and of the SDK in their types.
LEMMA FlagTypesKept ==
  ASSUME TypeOK, [Next]_vars
  PROVE  FlagTypes'
<1> USE DEF TypeOK, FlagTypes, ThreadTypes
<1>1. CASE Admit
  BY <1>1 DEF Admit
<1>2. CASE CreateThread
  BY <1>2 DEF CreateThread
<1>3. CASE InitFails
  <2>1. UNCHANGED <<vad, alive, attached, private, accepting, stopRequested, finishing, finished,
                    connected, connecting, early, stream, shutdown, aborted, closed, sdk>>
    BY <1>3 DEF InitFails
  <2>2. counted' = FALSE
    BY <1>3 DEF InitFails
  <2>3. streamer' = FALSE
    BY <1>3 DEF InitFails
  <2>4. object' \in {object, "deleted"}
    BY <1>3 DEF InitFails
  <2> QED
    BY ONLY FlagTypes, <2>1, <2>2, <2>3, <2>4, Zenon DEF FlagTypes
<1>4. CASE Attach
  <2>1. attached' \in BOOLEAN
    BY <1>4 DEF Attach
  <2>2. UNCHANGED <<alive, vad, private, counted, accepting, object, streamer, stopRequested,
                    flagVars,
                    workerVars, sdkVars>>
    BY <1>4 DEF Attach
  <2> QED
    BY <2>1, <2>2
<1>5. CASE Publish
  BY <1>5 DEF Publish
<1>6. CASE ApiStop
  BY <1>6 DEF ApiStop
<1>7. CASE SessionGone
  <2>1. UNCHANGED <<vad, attached, private, counted, accepting, streamer, stopRequested, finishing,
                    finished, connected, connecting, early, stream, shutdown, aborted, closed,
                    object, sdk>>
    BY <1>7 DEF SessionGone
  <2>2. alive' = FALSE
    BY <1>7 DEF SessionGone
  <2> QED
    BY ONLY FlagTypes, <2>1, <2>2, Zenon DEF FlagTypes
<1>8. CASE CloseBug
  <2>1. UNCHANGED <<vad, alive, private, counted, accepting, streamer, stopRequested, finishing,
                    finished, connected, connecting, early, stream, shutdown, aborted, closed,
                    object, sdk>>
    BY <1>8 DEF CloseBug
  <2>2. attached' = FALSE
    BY <1>8 DEF CloseBug
  <2> QED
    BY ONLY FlagTypes, <2>1, <2>2, Zenon DEF FlagTypes
<1>9. CASE RemoveBug
  <2>1. UNCHANGED <<vad, alive, private, counted, accepting, streamer, stopRequested, finishing,
                    finished, connected, connecting, early, stream, shutdown, aborted, closed,
                    object, sdk>>
    BY <1>9 DEF RemoveBug
  <2>2. attached' = FALSE
    BY <1>9 DEF RemoveBug
  <2> QED
    BY ONLY FlagTypes, <2>1, <2>2, Zenon DEF FlagTypes
<1>10. CASE Unload
  <2>1. UNCHANGED <<vad, alive, attached, private, counted, streamer, stopRequested, finishing,
                    finished, connected, connecting, early, stream, shutdown, aborted, closed,
                    object>>
    BY <1>10 DEF Unload
  <2>2. accepting' = FALSE
    BY <1>10 DEF Unload
  <2>3. sdk' \in {sdk, "down"}
    BY <1>10 DEF Unload
  <2> QED
    BY ONLY FlagTypes, <2>1, <2>2, <2>3, Zenon DEF FlagTypes
<1>11. ASSUME NEW o \in Closers, Lock(o) PROVE FlagTypes'
  BY <1>11 DEF Lock
<1>12. ASSUME NEW o \in Owners, RequestStop(o) PROVE FlagTypes'
  BY <1>12 DEF RequestStop
<1>13. ASSUME NEW o \in Owners, Finish(o) PROVE FlagTypes'
  <2>1. CASE streamer /\ ~finishing
    BY <1>13, <2>1 DEF Finish
  <2>2. CASE ~(streamer /\ ~finishing)
    BY <1>13, <2>2 DEF Finish
  <2> QED
    BY <1>13, <2>1, <2>2 DEF Finish
<1>14. ASSUME NEW o \in Owners, Join(o) PROVE FlagTypes'
  BY <1>14 DEF Join
<1>15. ASSUME NEW o \in Owners, KillCb(o) PROVE FlagTypes'
  <2>1. private' \in BOOLEAN /\ object' \in {"none", "alive", "deleted"}
    BY <1>15 DEF KillCb
  <2>2. streamer' = FALSE /\ counted' = FALSE
    BY <1>15 DEF KillCb
  <2>3. UNCHANGED <<alive, vad, attached, accepting, stopRequested, flagVars, workerVars, sdkVars>>
    BY <1>15 DEF KillCb
  <2> QED
    BY <2>1, <2>2, <2>3
<1>16. CASE Construct
  <2>1. connecting' \in BOOLEAN /\ sdk' \in {"idle", "starting", "open", "ended", "down"}
    BY <1>16 DEF Construct
  <2>2. object' \in {"none", "alive", "deleted"}
    BY <1>16 DEF Construct
  <2>3. UNCHANGED <<vad, attached, private, counted, accepting, streamer, stopRequested, alive,
                    stream,
                    finishing, finished, connected, early, shutdown, aborted, closed>>
    BY <1>16 DEF Construct
  <2> QED
    BY <2>1, <2>2, <2>3
<1>17. CASE PublishStreamer
  BY <1>17 DEF PublishStreamer
<1>18. CASE Recheck
  <2>1. CASE stopRequested
    BY <1>18, <2>1 DEF Recheck
  <2>2. CASE ~stopRequested
    BY <1>18, <2>2 DEF Recheck
  <2> QED
    BY <1>18, <2>1, <2>2 DEF Recheck
<1>19. CASE Sleep
  BY <1>19 DEF Sleep
<1>20. CASE SpuriousWake
  BY <1>20 DEF SpuriousWake
<1>21. CASE Overdue
  BY <1>21 DEF Overdue
<1>22. CASE Turn
  BY <1>22 DEF Turn, Ready, TakeTranscript, Branch
<1>23. CASE Deliver
  BY <1>23 DEF Deliver
<1>24. CASE AfterDeliver
  BY <1>24 DEF AfterDeliver, Branch
<1>25. CASE Send
  BY <1>25 DEF Send
<1>26. CASE Sent
  BY <1>26 DEF Sent
<1>27. CASE CloseStream
  <2>1. UNCHANGED <<vad, alive, attached, private, counted, accepting, streamer, stopRequested,
                    finishing, finished, connected, connecting, early, shutdown, aborted, object,
                    sdk>>
    BY <1>27 DEF CloseStream
  <2>2. closed' = TRUE
    BY <1>27 DEF CloseStream
  <2>3. stream' = FALSE
    BY <1>27 DEF CloseStream
  <2> QED
    BY ONLY FlagTypes, <2>1, <2>2, <2>3, Zenon DEF FlagTypes
<1>28. CASE FrameLock
  BY <1>28 DEF FrameLock
<1>29. ASSUME NEW n \in FrameLens, ReadBug(n) PROVE FlagTypes'
  BY <1>29 DEF ReadBug
<1>30. CASE FrameEnd
  BY <1>30 DEF FrameEnd
<1>31. CASE Write
  BY <1>31 DEF Write
<1>32. CASE Prebuffer
  BY <1>32 DEF Prebuffer
<1>33. CASE Push
  BY <1>33 DEF Push
<1>34. CASE StreamReady
  BY <1>34 DEF StreamReady
<1>35. CASE DrainChunk
  BY <1>35 DEF DrainChunk
<1>36. CASE DrainEnd
  BY <1>36 DEF DrainEnd
<1>37. CASE ReadyWake
  BY <1>37 DEF ReadyWake
<1>38. CASE Transcript
  BY <1>38 DEF Transcript
<1>39. CASE Outcome
  BY <1>39 DEF Outcome
<1>40. CASE UNCHANGED vars
  BY <1>40 DEF vars
<1> QED
  BY <1>1, <1>2, <1>3, <1>4, <1>5, <1>6, <1>7, <1>8, <1>9, <1>10, <1>11, <1>12, <1>13,
     <1>14, <1>15, <1>16, <1>17, <1>18, <1>19, <1>20, <1>21, <1>22, <1>23, <1>24, <1>25,
     <1>26, <1>27, <1>28, <1>29, <1>30, <1>31, <1>32, <1>33, <1>34, <1>35, <1>36, <1>37,
     <1>38, <1>39, <1>40
  DEF Next, StartStep, StopStep, WorkerStep, WriteStep, ReadyStep

\* Every step keeps each thread inside its own program, and cb->mutex with a thread that may hold
\* it.
LEMMA ThreadTypesKept ==
  ASSUME TypeOK, [Next]_vars
  PROVE  ThreadTypes'
<1> USE DEF TypeOK, FlagTypes, ThreadTypes
<1>1. CASE Admit
  BY <1>1 DEF Admit
<1>2. CASE CreateThread
  BY <1>2 DEF CreateThread
<1>3. CASE InitFails
  BY <1>3 DEF InitFails
<1>4. CASE Attach
  BY <1>4 DEF Attach
<1>5. CASE Publish
  BY <1>5 DEF Publish
<1>6. CASE ApiStop
  BY <1>6 DEF ApiStop
<1>7. CASE SessionGone
  BY <1>7 DEF SessionGone
<1>8. CASE CloseBug
  BY <1>8 DEF CloseBug
<1>9. CASE RemoveBug
  BY <1>9 DEF RemoveBug
<1>10. CASE Unload
  BY <1>10 DEF Unload
<1>11. ASSUME NEW o \in Closers, Lock(o) PROVE ThreadTypes'
  BY <1>11 DEF Lock
<1>12. ASSUME NEW o \in Owners, RequestStop(o) PROVE ThreadTypes'
  BY <1>12 DEF RequestStop
<1>13. ASSUME NEW o \in Owners, Finish(o) PROVE ThreadTypes'
  BY <1>13 DEF Finish
<1>14. ASSUME NEW o \in Owners, Join(o) PROVE ThreadTypes'
  BY <1>14 DEF Join
<1>15. ASSUME NEW o \in Owners, KillCb(o) PROVE ThreadTypes'
  BY <1>15 DEF KillCb
<1>16. CASE Construct
  BY <1>16 DEF Construct
<1>17. CASE PublishStreamer
  BY <1>17 DEF PublishStreamer
<1>18. CASE Recheck
  BY <1>18 DEF Recheck
<1>19. CASE Sleep
  BY <1>19 DEF Sleep
<1>20. CASE SpuriousWake
  BY <1>20 DEF SpuriousWake
<1>21. CASE Overdue
  BY <1>21 DEF Overdue
<1>22. CASE Turn
  BY <1>22 DEF Turn, Ready, TakeTranscript, Branch
<1>23. CASE Deliver
  BY <1>23 DEF Deliver
<1>24. CASE AfterDeliver
  BY <1>24 DEF AfterDeliver, Branch
<1>25. CASE Send
  BY <1>25 DEF Send
<1>26. CASE Sent
  BY <1>26 DEF Sent
<1>27. CASE CloseStream
  BY <1>27 DEF CloseStream
<1>28. CASE FrameLock
  BY <1>28 DEF FrameLock
<1>29. ASSUME NEW n \in FrameLens, ReadBug(n) PROVE ThreadTypes'
  BY <1>29 DEF ReadBug
<1>30. CASE FrameEnd
  BY <1>30 DEF FrameEnd
<1>31. CASE Write
  BY <1>31 DEF Write
<1>32. CASE Prebuffer
  BY <1>32 DEF Prebuffer
<1>33. CASE Push
  BY <1>33 DEF Push
<1>34. CASE StreamReady
  BY <1>34 DEF StreamReady
<1>35. CASE DrainChunk
  BY <1>35 DEF DrainChunk
<1>36. CASE DrainEnd
  BY <1>36 DEF DrainEnd
<1>37. CASE ReadyWake
  BY <1>37 DEF ReadyWake
<1>38. CASE Transcript
  BY <1>38 DEF Transcript
<1>39. CASE Outcome
  BY <1>39 DEF Outcome
<1>40. CASE UNCHANGED vars
  BY <1>40 DEF vars
<1> QED
  BY <1>1, <1>2, <1>3, <1>4, <1>5, <1>6, <1>7, <1>8, <1>9, <1>10, <1>11, <1>12, <1>13,
     <1>14, <1>15, <1>16, <1>17, <1>18, <1>19, <1>20, <1>21, <1>22, <1>23, <1>24, <1>25,
     <1>26, <1>27, <1>28, <1>29, <1>30, <1>31, <1>32, <1>33, <1>34, <1>35, <1>36, <1>37,
     <1>38, <1>39, <1>40
  DEF Next, StartStep, StopStep, WorkerStep, WriteStep, ReadyStep

\* Nobody else comes in while a start is secret, or while cb->mutex is held.
LEMMA SessionKept ==
  ASSUME Control, [Next]_vars
  PROVE  Session'
<1> USE DEF Control, TypeOK, FlagTypes, ThreadTypes, Session, Stops, Object
<1>1. CASE Admit
  BY <1>1 DEF Admit
<1>2. CASE CreateThread
  BY <1>2 DEF CreateThread
<1>3. CASE InitFails
  BY <1>3 DEF InitFails
<1>4. CASE Attach
  BY <1>4 DEF Attach
<1>5. CASE Publish
  BY <1>5 DEF Publish
<1>6. CASE ApiStop
  BY <1>6 DEF ApiStop
<1>7. CASE SessionGone
  BY <1>7 DEF SessionGone
<1>8. CASE CloseBug
  BY <1>8 DEF CloseBug
<1>9. CASE RemoveBug
  BY <1>9 DEF RemoveBug
<1>10. CASE Unload
  BY <1>10 DEF Unload
<1>11. ASSUME NEW o \in Closers, Lock(o) PROVE Session'
  BY <1>11 DEF Lock
<1>12. ASSUME NEW o \in Owners, RequestStop(o) PROVE Session'
  BY <1>12 DEF RequestStop
<1>13. ASSUME NEW o \in Owners, Finish(o) PROVE Session'
  BY <1>13 DEF Finish
<1>14. ASSUME NEW o \in Owners, Join(o) PROVE Session'
  BY <1>14 DEF Join
<1>15. ASSUME NEW o \in Owners, KillCb(o) PROVE Session'
  BY <1>15 DEF KillCb
<1>16. CASE Construct
  BY <1>16 DEF Construct
<1>17. CASE PublishStreamer
  BY <1>17 DEF PublishStreamer
<1>18. CASE Recheck
  BY <1>18 DEF Recheck
<1>19. CASE Sleep
  BY <1>19 DEF Sleep
<1>20. CASE SpuriousWake
  BY <1>20 DEF SpuriousWake
<1>21. CASE Overdue
  BY <1>21 DEF Overdue
<1>22. CASE Turn
  BY <1>22 DEF Turn, Ready, TakeTranscript, Branch
<1>23. CASE Deliver
  BY <1>23 DEF Deliver
<1>24. CASE AfterDeliver
  BY <1>24 DEF AfterDeliver, Branch
<1>25. CASE Send
  BY <1>25 DEF Send
<1>26. CASE Sent
  BY <1>26 DEF Sent
<1>27. CASE CloseStream
  BY <1>27 DEF CloseStream
<1>28. CASE FrameLock
  BY <1>28 DEF FrameLock
<1>29. ASSUME NEW n \in FrameLens, ReadBug(n) PROVE Session'
  BY <1>29 DEF ReadBug
<1>30. CASE FrameEnd
  BY <1>30 DEF FrameEnd
<1>31. CASE Write
  BY <1>31 DEF Write
<1>32. CASE Prebuffer
  BY <1>32 DEF Prebuffer
<1>33. CASE Push
  BY <1>33 DEF Push
<1>34. CASE StreamReady
  BY <1>34 DEF StreamReady
<1>35. CASE DrainChunk
  BY <1>35 DEF DrainChunk
<1>36. CASE DrainEnd
  BY <1>36 DEF DrainEnd
<1>37. CASE ReadyWake
  BY <1>37 DEF ReadyWake
<1>38. CASE Transcript
  BY <1>38 DEF Transcript
<1>39. CASE Outcome
  BY <1>39 DEF Outcome
<1>40. CASE UNCHANGED vars
  BY <1>40 DEF vars
<1> QED
  BY <1>1, <1>2, <1>3, <1>4, <1>5, <1>6, <1>7, <1>8, <1>9, <1>10, <1>11, <1>12, <1>13,
     <1>14, <1>15, <1>16, <1>17, <1>18, <1>19, <1>20, <1>21, <1>22, <1>23, <1>24, <1>25,
     <1>26, <1>27, <1>28, <1>29, <1>30, <1>31, <1>32, <1>33, <1>34, <1>35, <1>36, <1>37,
     <1>38, <1>39, <1>40
  DEF Next, StartStep, StopStep, WorkerStep, WriteStep, ReadyStep

\* A stop keeps the media thread out until there is no streamer any more.
LEMMA StopsKept ==
  ASSUME Control, [Next]_vars
  PROVE  Stops'
<1> USE DEF Control, TypeOK, FlagTypes, ThreadTypes, Session, Stops, Object
<1>1. CASE Admit
  BY <1>1 DEF Admit
<1>2. CASE CreateThread
  BY <1>2 DEF CreateThread
<1>3. CASE InitFails
  BY <1>3 DEF InitFails
<1>4. CASE Attach
  BY <1>4 DEF Attach
<1>5. CASE Publish
  BY <1>5 DEF Publish
<1>6. CASE ApiStop
  BY <1>6 DEF ApiStop
<1>7. CASE SessionGone
  BY <1>7 DEF SessionGone
<1>8. CASE CloseBug
  BY <1>8 DEF CloseBug
<1>9. CASE RemoveBug
  BY <1>9 DEF RemoveBug
<1>10. CASE Unload
  BY <1>10 DEF Unload
<1>11. ASSUME NEW o \in Closers, Lock(o) PROVE Stops'
  BY <1>11 DEF Lock
<1>12. ASSUME NEW o \in Owners, RequestStop(o) PROVE Stops'
  BY <1>12 DEF RequestStop
<1>13. ASSUME NEW o \in Owners, Finish(o) PROVE Stops'
  BY <1>13 DEF Finish
<1>14. ASSUME NEW o \in Owners, Join(o) PROVE Stops'
  BY <1>14 DEF Join
<1>15. ASSUME NEW o \in Owners, KillCb(o) PROVE Stops'
  BY <1>15 DEF KillCb
<1>16. CASE Construct
  BY <1>16 DEF Construct
<1>17. CASE PublishStreamer
  BY <1>17 DEF PublishStreamer
<1>18. CASE Recheck
  BY <1>18 DEF Recheck
<1>19. CASE Sleep
  BY <1>19 DEF Sleep
<1>20. CASE SpuriousWake
  BY <1>20 DEF SpuriousWake
<1>21. CASE Overdue
  BY <1>21 DEF Overdue
<1>22. CASE Turn
  BY <1>22 DEF Turn, Ready, TakeTranscript, Branch
<1>23. CASE Deliver
  BY <1>23 DEF Deliver
<1>24. CASE AfterDeliver
  BY <1>24 DEF AfterDeliver, Branch
<1>25. CASE Send
  BY <1>25 DEF Send
<1>26. CASE Sent
  BY <1>26 DEF Sent
<1>27. CASE CloseStream
  BY <1>27 DEF CloseStream
<1>28. CASE FrameLock
  BY <1>28 DEF FrameLock
<1>29. ASSUME NEW n \in FrameLens, ReadBug(n) PROVE Stops'
  BY <1>29 DEF ReadBug
<1>30. CASE FrameEnd
  BY <1>30 DEF FrameEnd
<1>31. CASE Write
  BY <1>31 DEF Write
<1>32. CASE Prebuffer
  BY <1>32 DEF Prebuffer
<1>33. CASE Push
  BY <1>33 DEF Push
<1>34. CASE StreamReady
  BY <1>34 DEF StreamReady
<1>35. CASE DrainChunk
  BY <1>35 DEF DrainChunk
<1>36. CASE DrainEnd
  BY <1>36 DEF DrainEnd
<1>37. CASE ReadyWake
  BY <1>37 DEF ReadyWake
<1>38. CASE Transcript
  BY <1>38 DEF Transcript
<1>39. CASE Outcome
  BY <1>39 DEF Outcome
<1>40. CASE UNCHANGED vars
  BY <1>40 DEF vars
<1> QED
  BY <1>1, <1>2, <1>3, <1>4, <1>5, <1>6, <1>7, <1>8, <1>9, <1>10, <1>11, <1>12, <1>13,
     <1>14, <1>15, <1>16, <1>17, <1>18, <1>19, <1>20, <1>21, <1>22, <1>23, <1>24, <1>25,
     <1>26, <1>27, <1>28, <1>29, <1>30, <1>31, <1>32, <1>33, <1>34, <1>35, <1>36, <1>37,
     <1>38, <1>39, <1>40
  DEF Next, StartStep, StopStep, WorkerStep, WriteStep, ReadyStep

\* The worker ends only when nothing is outstanding, and before its streamer is deleted.
LEMMA ObjectKept ==
  ASSUME Control, [Next]_vars
  PROVE  Object'
<1> USE DEF Control, TypeOK, FlagTypes, ThreadTypes, Session, Stops, Object, Request, Events
<1>1. CASE Admit
  BY <1>1 DEF Admit
<1>2. CASE CreateThread
  BY <1>2 DEF CreateThread
<1>3. CASE InitFails
  BY <1>3 DEF InitFails
<1>4. CASE Attach
  BY <1>4 DEF Attach
<1>5. CASE Publish
  BY <1>5 DEF Publish
<1>6. CASE ApiStop
  BY <1>6 DEF ApiStop
<1>7. CASE SessionGone
  BY <1>7 DEF SessionGone
<1>8. CASE CloseBug
  BY <1>8 DEF CloseBug
<1>9. CASE RemoveBug
  BY <1>9 DEF RemoveBug
<1>10. CASE Unload
  BY <1>10 DEF Unload
<1>11. ASSUME NEW o \in Closers, Lock(o) PROVE Object'
  BY <1>11 DEF Lock
<1>12. ASSUME NEW o \in Owners, RequestStop(o) PROVE Object'
  BY <1>12 DEF RequestStop
<1>13. ASSUME NEW o \in Owners, Finish(o) PROVE Object'
  BY <1>13 DEF Finish
<1>14. ASSUME NEW o \in Owners, Join(o) PROVE Object'
  BY <1>14 DEF Join
<1>15. ASSUME NEW o \in Owners, KillCb(o) PROVE Object'
  BY <1>15 DEF KillCb
<1>16. CASE Construct
  BY <1>16 DEF Construct
<1>17. CASE PublishStreamer
  BY <1>17 DEF PublishStreamer
<1>18. CASE Recheck
  BY <1>18 DEF Recheck
<1>19. CASE Sleep
  BY <1>19 DEF Sleep
<1>20. CASE SpuriousWake
  BY <1>20 DEF SpuriousWake
<1>21. CASE Overdue
  BY <1>21 DEF Overdue
<1>22. CASE Turn
  BY <1>22 DEF Turn, Ready, TakeTranscript, Branch
<1>23. CASE Deliver
  BY <1>23 DEF Deliver
<1>24. CASE AfterDeliver
  BY <1>24 DEF AfterDeliver, Branch
<1>25. CASE Send
  BY <1>25 DEF Send
<1>26. CASE Sent
  BY <1>26 DEF Sent
<1>27. CASE CloseStream
  BY <1>27 DEF CloseStream
<1>28. CASE FrameLock
  BY <1>28 DEF FrameLock
<1>29. ASSUME NEW n \in FrameLens, ReadBug(n) PROVE Object'
  BY <1>29 DEF ReadBug
<1>30. CASE FrameEnd
  BY <1>30 DEF FrameEnd
<1>31. CASE Write
  BY <1>31 DEF Write
<1>32. CASE Prebuffer
  BY <1>32 DEF Prebuffer
<1>33. CASE Push
  BY <1>33 DEF Push
<1>34. CASE StreamReady
  BY <1>34 DEF StreamReady
<1>35. CASE DrainChunk
  BY <1>35 DEF DrainChunk
<1>36. CASE DrainEnd
  BY <1>36 DEF DrainEnd
<1>37. CASE ReadyWake
  BY <1>37 DEF ReadyWake
<1>38. CASE Transcript
  BY <1>38 DEF Transcript
<1>39. CASE Outcome
  BY <1>39 DEF Outcome
<1>40. CASE UNCHANGED vars
  BY <1>40 DEF vars
<1> QED
  BY <1>1, <1>2, <1>3, <1>4, <1>5, <1>6, <1>7, <1>8, <1>9, <1>10, <1>11, <1>12, <1>13,
     <1>14, <1>15, <1>16, <1>17, <1>18, <1>19, <1>20, <1>21, <1>22, <1>23, <1>24, <1>25,
     <1>26, <1>27, <1>28, <1>29, <1>30, <1>31, <1>32, <1>33, <1>34, <1>35, <1>36, <1>37,
     <1>38, <1>39, <1>40
  DEF Next, StartStep, StopStep, WorkerStep, WriteStep, ReadyStep

\* The SDK is asked once, and calls back only until its outcome.
LEMMA RequestKept ==
  ASSUME Control, [Next]_vars
  PROVE  Request'
<1> USE DEF Control, TypeOK, FlagTypes, ThreadTypes, Session, Stops, Object, Request, Flushed
<1>1. CASE Admit
  BY <1>1 DEF Admit
<1>2. CASE CreateThread
  BY <1>2 DEF CreateThread
<1>3. CASE InitFails
  BY <1>3 DEF InitFails
<1>4. CASE Attach
  BY <1>4 DEF Attach
<1>5. CASE Publish
  BY <1>5 DEF Publish
<1>6. CASE ApiStop
  BY <1>6 DEF ApiStop
<1>7. CASE SessionGone
  BY <1>7 DEF SessionGone
<1>8. CASE CloseBug
  BY <1>8 DEF CloseBug
<1>9. CASE RemoveBug
  BY <1>9 DEF RemoveBug
<1>10. CASE Unload
  BY <1>10 DEF Unload
<1>11. ASSUME NEW o \in Closers, Lock(o) PROVE Request'
  BY <1>11 DEF Lock
<1>12. ASSUME NEW o \in Owners, RequestStop(o) PROVE Request'
  BY <1>12 DEF RequestStop
<1>13. ASSUME NEW o \in Owners, Finish(o) PROVE Request'
  BY <1>13 DEF Finish
<1>14. ASSUME NEW o \in Owners, Join(o) PROVE Request'
  BY <1>14 DEF Join
<1>15. ASSUME NEW o \in Owners, KillCb(o) PROVE Request'
  BY <1>15 DEF KillCb
<1>16. CASE Construct
  BY <1>16 DEF Construct
<1>17. CASE PublishStreamer
  BY <1>17 DEF PublishStreamer
<1>18. CASE Recheck
  BY <1>18 DEF Recheck
<1>19. CASE Sleep
  BY <1>19 DEF Sleep
<1>20. CASE SpuriousWake
  BY <1>20 DEF SpuriousWake
<1>21. CASE Overdue
  BY <1>21 DEF Overdue
<1>22. CASE Turn
  BY <1>22 DEF Turn, Ready, TakeTranscript, Branch
<1>23. CASE Deliver
  BY <1>23 DEF Deliver
<1>24. CASE AfterDeliver
  BY <1>24 DEF AfterDeliver, Branch
<1>25. CASE Send
  BY <1>25 DEF Send
<1>26. CASE Sent
  BY <1>26 DEF Sent
<1>27. CASE CloseStream
  BY <1>27 DEF CloseStream
<1>28. CASE FrameLock
  BY <1>28 DEF FrameLock
<1>29. ASSUME NEW n \in FrameLens, ReadBug(n) PROVE Request'
  BY <1>29 DEF ReadBug
<1>30. CASE FrameEnd
  BY <1>30 DEF FrameEnd
<1>31. CASE Write
  BY <1>31 DEF Write
<1>32. CASE Prebuffer
  BY <1>32 DEF Prebuffer
<1>33. CASE Push
  BY <1>33 DEF Push
<1>34. CASE StreamReady
  BY <1>34 DEF StreamReady
<1>35. CASE DrainChunk
  BY <1>35 DEF DrainChunk
<1>36. CASE DrainEnd
  BY <1>36 DEF DrainEnd
<1>37. CASE ReadyWake
  BY <1>37 DEF ReadyWake
<1>38. CASE Transcript
  BY <1>38 DEF Transcript
<1>39. CASE Outcome
  BY <1>39 DEF Outcome
<1>40. CASE UNCHANGED vars
  BY <1>40 DEF vars
<1> QED
  BY <1>1, <1>2, <1>3, <1>4, <1>5, <1>6, <1>7, <1>8, <1>9, <1>10, <1>11, <1>12, <1>13,
     <1>14, <1>15, <1>16, <1>17, <1>18, <1>19, <1>20, <1>21, <1>22, <1>23, <1>24, <1>25,
     <1>26, <1>27, <1>28, <1>29, <1>30, <1>31, <1>32, <1>33, <1>34, <1>35, <1>36, <1>37,
     <1>38, <1>39, <1>40
  DEF Next, StartStep, StopStep, WorkerStep, WriteStep, ReadyStep

\* What a shutdown has found empty stays empty: nothing is put into the prebuffer once the session
\* is connected, and nothing into the queue once it is finishing.
LEMMA FlushedKept ==
  ASSUME Control, [Next]_vars
  PROVE  Flushed'
<1> USE DEF Control, TypeOK, FlagTypes, ThreadTypes, Session, Stops, Request, Flushed
<1>1. CASE Admit
  BY <1>1 DEF Admit
<1>2. CASE CreateThread
  BY <1>2 DEF CreateThread
<1>3. CASE InitFails
  BY <1>3 DEF InitFails
<1>4. CASE Attach
  BY <1>4 DEF Attach
<1>5. CASE Publish
  BY <1>5 DEF Publish
<1>6. CASE ApiStop
  BY <1>6 DEF ApiStop
<1>7. CASE SessionGone
  BY <1>7 DEF SessionGone
<1>8. CASE CloseBug
  BY <1>8 DEF CloseBug
<1>9. CASE RemoveBug
  BY <1>9 DEF RemoveBug
<1>10. CASE Unload
  BY <1>10 DEF Unload
<1>11. ASSUME NEW o \in Closers, Lock(o) PROVE Flushed'
  BY <1>11 DEF Lock
<1>12. ASSUME NEW o \in Owners, RequestStop(o) PROVE Flushed'
  BY <1>12 DEF RequestStop
<1>13. ASSUME NEW o \in Owners, Finish(o) PROVE Flushed'
  BY <1>13 DEF Finish
<1>14. ASSUME NEW o \in Owners, Join(o) PROVE Flushed'
  BY <1>14 DEF Join
<1>15. ASSUME NEW o \in Owners, KillCb(o) PROVE Flushed'
  BY <1>15 DEF KillCb
<1>16. CASE Construct
  BY <1>16 DEF Construct
<1>17. CASE PublishStreamer
  BY <1>17 DEF PublishStreamer
<1>18. CASE Recheck
  BY <1>18 DEF Recheck
<1>19. CASE Sleep
  BY <1>19 DEF Sleep
<1>20. CASE SpuriousWake
  BY <1>20 DEF SpuriousWake
<1>21. CASE Overdue
  BY <1>21 DEF Overdue
<1>22. CASE Turn
  BY <1>22 DEF Turn, Ready, TakeTranscript, Branch
<1>23. CASE Deliver
  BY <1>23 DEF Deliver
<1>24. CASE AfterDeliver
  BY <1>24 DEF AfterDeliver, Branch
<1>25. CASE Send
  BY <1>25 DEF Send
<1>26. CASE Sent
  BY <1>26 DEF Sent
<1>27. CASE CloseStream
  <2>1. finishing /\ (early \/ deque = <<>>) /\ local = <<>>
    BY <1>27 DEF CloseStream
  <2>2. /\ UNCHANGED <<finishing, early, deque, local, connected, prebuf, staging, mpc, frame>>
        /\ stream' = FALSE /\ wpc' = "check"
    BY <1>27 DEF CloseStream
  <2> QED
    BY <2>1, <2>2
<1>28. CASE FrameLock
  BY <1>28 DEF FrameLock
<1>29. ASSUME NEW n \in FrameLens, ReadBug(n) PROVE Flushed'
  BY <1>29 DEF ReadBug
<1>30. CASE FrameEnd
  BY <1>30 DEF FrameEnd
<1>31. CASE Write
  BY <1>31 DEF Write
<1>32. CASE Prebuffer
  BY <1>32 DEF Prebuffer
<1>33. CASE Push
  <2>1. mpc = "push" /\ ~finishing
    BY <1>33 DEF Push
  <2>2. wpc # "flush" /\ ~closed
    BY <2>1
  <2>3. /\ UNCHANGED <<finishing, early, local, connected, prebuf, staging, closed, stream>>
        /\ mpc' = "read" /\ frame' = {} /\ wpc' = IF wpc = "asleep" THEN "check" ELSE wpc
    BY <1>33 DEF Push
  <2> QED
    BY <2>1, <2>2, <2>3
<1>34. CASE StreamReady
  BY <1>34 DEF StreamReady
<1>35. CASE DrainChunk
  BY <1>35 DEF DrainChunk
<1>36. CASE DrainEnd
  BY <1>36 DEF DrainEnd
<1>37. CASE ReadyWake
  BY <1>37 DEF ReadyWake
<1>38. CASE Transcript
  BY <1>38 DEF Transcript
<1>39. CASE Outcome
  BY <1>39 DEF Outcome
<1>40. CASE UNCHANGED vars
  BY <1>40 DEF vars
<1> QED
  BY <1>1, <1>2, <1>3, <1>4, <1>5, <1>6, <1>7, <1>8, <1>9, <1>10, <1>11, <1>12, <1>13,
     <1>14, <1>15, <1>16, <1>17, <1>18, <1>19, <1>20, <1>21, <1>22, <1>23, <1>24, <1>25,
     <1>26, <1>27, <1>28, <1>29, <1>30, <1>31, <1>32, <1>33, <1>34, <1>35, <1>36, <1>37,
     <1>38, <1>39, <1>40
  DEF Next, StartStep, StopStep, WorkerStep, WriteStep, ReadyStep

\* The last transcript is never dropped: a worker that has copied it delivers it, and one that
\* ends looks at the slot once more.
LEMMA EventsKept ==
  ASSUME Control, [Next]_vars
  PROVE  Events'
<1> USE DEF Control, TypeOK, FlagTypes, ThreadTypes, Stops, Object, Request, Events
<1>1. CASE Admit
  BY <1>1 DEF Admit
<1>2. CASE CreateThread
  BY <1>2 DEF CreateThread
<1>3. CASE InitFails
  BY <1>3 DEF InitFails
<1>4. CASE Attach
  BY <1>4 DEF Attach
<1>5. CASE Publish
  BY <1>5 DEF Publish
<1>6. CASE ApiStop
  BY <1>6 DEF ApiStop
<1>7. CASE SessionGone
  BY <1>7 DEF SessionGone
<1>8. CASE CloseBug
  BY <1>8 DEF CloseBug
<1>9. CASE RemoveBug
  BY <1>9 DEF RemoveBug
<1>10. CASE Unload
  BY <1>10 DEF Unload
<1>11. ASSUME NEW o \in Closers, Lock(o) PROVE Events'
  BY <1>11 DEF Lock
<1>12. ASSUME NEW o \in Owners, RequestStop(o) PROVE Events'
  BY <1>12 DEF RequestStop
<1>13. ASSUME NEW o \in Owners, Finish(o) PROVE Events'
  BY <1>13 DEF Finish
<1>14. ASSUME NEW o \in Owners, Join(o) PROVE Events'
  BY <1>14 DEF Join
<1>15. ASSUME NEW o \in Owners, KillCb(o) PROVE Events'
  BY <1>15 DEF KillCb
<1>16. CASE Construct
  BY <1>16 DEF Construct
<1>17. CASE PublishStreamer
  BY <1>17 DEF PublishStreamer
<1>18. CASE Recheck
  BY <1>18 DEF Recheck
<1>19. CASE Sleep
  BY <1>19 DEF Sleep
<1>20. CASE SpuriousWake
  BY <1>20 DEF SpuriousWake
<1>21. CASE Overdue
  BY <1>21 DEF Overdue
<1>22. CASE Turn
  BY <1>22 DEF Turn, Ready, TakeTranscript, Branch
<1>23. CASE Deliver
  BY <1>23 DEF Deliver
<1>24. CASE AfterDeliver
  BY <1>24 DEF AfterDeliver, Branch
<1>25. CASE Send
  BY <1>25 DEF Send
<1>26. CASE Sent
  BY <1>26 DEF Sent
<1>27. CASE CloseStream
  BY <1>27 DEF CloseStream
<1>28. CASE FrameLock
  BY <1>28 DEF FrameLock
<1>29. ASSUME NEW n \in FrameLens, ReadBug(n) PROVE Events'
  BY <1>29 DEF ReadBug
<1>30. CASE FrameEnd
  BY <1>30 DEF FrameEnd
<1>31. CASE Write
  BY <1>31 DEF Write
<1>32. CASE Prebuffer
  BY <1>32 DEF Prebuffer
<1>33. CASE Push
  BY <1>33 DEF Push
<1>34. CASE StreamReady
  BY <1>34 DEF StreamReady
<1>35. CASE DrainChunk
  BY <1>35 DEF DrainChunk
<1>36. CASE DrainEnd
  BY <1>36 DEF DrainEnd
<1>37. CASE ReadyWake
  BY <1>37 DEF ReadyWake
<1>38. CASE Transcript
  BY <1>38 DEF Transcript
<1>39. CASE Outcome
  BY <1>39 DEF Outcome
<1>40. CASE UNCHANGED vars
  BY <1>40 DEF vars
<1> QED
  BY <1>1, <1>2, <1>3, <1>4, <1>5, <1>6, <1>7, <1>8, <1>9, <1>10, <1>11, <1>12, <1>13,
     <1>14, <1>15, <1>16, <1>17, <1>18, <1>19, <1>20, <1>21, <1>22, <1>23, <1>24, <1>25,
     <1>26, <1>27, <1>28, <1>29, <1>30, <1>31, <1>32, <1>33, <1>34, <1>35, <1>36, <1>37,
     <1>38, <1>39, <1>40
  DEF Next, StartStep, StopStep, WorkerStep, WriteStep, ReadyStep

\* Before the start command nothing is held, asked for or outstanding.
LEMMA ControlInit == Init => Control
<1> SUFFICES ASSUME Init PROVE Control
  OBVIOUS
<1> USE DEF Init
<1>1. FlagTypes
  BY DEF FlagTypes
<1>2. ThreadTypes
  BY DEF ThreadTypes
<1>3. Session /\ Stops /\ Object
  BY DEF Session, Stops, Object
<1>4. Request /\ Flushed /\ Events
  BY DEF Request, Flushed, Events
<1> QED
  BY <1>1, <1>2, <1>3, <1>4 DEF Control, TypeOK

\* Every step of every thread keeps the part of the invariant that is about threads and flags.
LEMMA ControlKept ==
  ASSUME Control, [Next]_vars
  PROVE  Control'
<1>1. FlagTypes' /\ ThreadTypes'
  BY FlagTypesKept, ThreadTypesKept DEF Control
<1>2. Session' /\ Stops' /\ Object' /\ Request' /\ Flushed' /\ Events'
  BY SessionKept, StopsKept, ObjectKept, RequestKept, FlushedKept, EventsKept
<1> QED
  BY <1>1, <1>2 DEF Control, TypeOK

-----------------------------------------------------------------------------
(* The prebuffer: what its operators do to audio that is in order.         *)

-----------------------------------------------------------------------------
(* The queue of the worker.                                                *)

\* WriteAudioEvent sends the oldest entry, and the others come behind its last piece.
LEMMA HeadInQueue ==
  ASSUME NEW q, NEW l \in Nat, NEW h \in Nat, InQueue(q, l, h), q # <<>>
  PROVE  /\ LastOf(Head(q)) \in Nat /\ l <= LastOf(Head(q)) /\ LastOf(Head(q)) <= h
         /\ InQueue(Tail(q), LastOf(Head(q)), h)
<1>1. q \in Seq(SUBSET Nat) /\ Len(q) \in Nat \ {0}
  BY DEF InQueue
<1>2. /\ Head(q) = q[1] /\ Tail(q) \in Seq(SUBSET Nat) /\ Len(Tail(q)) = Len(q) - 1
      /\ \A i \in 1 .. Len(Tail(q)) : Tail(q)[i] = q[i + 1]
  BY <1>1, HeadTailProperties
<1>3. PICK x, y \in Nat : l <= x /\ x < y /\ y <= h /\ q[1] = (x + 1) .. y
  BY <1>1 DEF InQueue
<1>4. LastOf(Head(q)) = y /\ y \in q[1]
  BY <1>2, <1>3, LastOfInterval
<1>5. ASSUME NEW i \in 1 .. Len(Tail(q))
      PROVE  \E u, v \in Nat : y <= u /\ u < v /\ v <= h /\ Tail(q)[i] = (u + 1) .. v
  <2>1. i + 1 \in 1 .. Len(q) /\ 1 \in 1 .. Len(q) /\ 1 < i + 1 /\ Tail(q)[i] = q[i + 1]
    BY <1>1, <1>2
  <2>2. PICK u, v \in Nat : l <= u /\ u < v /\ v <= h /\ q[i + 1] = (u + 1) .. v
    BY <2>1 DEF InQueue
  <2>3. u + 1 \in q[i + 1]
    BY <2>2
  <2>4. y < u + 1
    BY <1>4, <2>1, <2>3 DEF InQueue
  <2> QED
    BY <2>1, <2>2, <2>4
<1>6. ASSUME NEW i \in 1 .. Len(Tail(q)), NEW j \in 1 .. Len(Tail(q)), i < j,
             NEW p \in Tail(q)[i], NEW r \in Tail(q)[j]
      PROVE  p < r
  <2>1. /\ i + 1 \in 1 .. Len(q) /\ j + 1 \in 1 .. Len(q) /\ i + 1 < j + 1
        /\ Tail(q)[i] = q[i + 1] /\ Tail(q)[j] = q[j + 1]
    BY <1>1, <1>2, <1>6
  <2> QED
    BY <1>6, <2>1 DEF InQueue
<1>7. InQueue(Tail(q), y, h)
  BY <1>2, <1>5, <1>6 DEF InQueue
<1> QED
  BY <1>3, <1>4, <1>7

\* A frame that lies behind everything in m_deque is put at its end.
LEMMA AppendInQueue ==
  ASSUME NEW q, NEW l \in Nat, NEW h \in Nat, InQueue(q, l, h), l <= h,
         NEW x \in Nat, NEW y \in Nat, h <= x, x < y
  PROVE  InQueue(Append(q, (x + 1) .. y), l, y)
<1> DEFINE e == (x + 1) .. y
           r == Append(q, e)
<1>1. q \in Seq(SUBSET Nat) /\ Len(q) \in Nat /\ e \in SUBSET Nat
  BY DEF InQueue
<1>2. /\ r \in Seq(SUBSET Nat) /\ Len(r) = Len(q) + 1 /\ r[Len(q) + 1] = e
      /\ \A i \in 1 .. Len(q) : r[i] = q[i]
  BY <1>1, AppendProperties
<1>3. \A i \in 1 .. Len(q) : q[i] \subseteq 0 .. h
  BY DEF InQueue
<1> HIDE DEF r
<1>4. ASSUME NEW i \in 1 .. Len(r)
      PROVE  \E u, v \in Nat : l <= u /\ u < v /\ v <= y /\ r[i] = (u + 1) .. v
  <2>1. CASE i <= Len(q)
    <3>1. PICK u, v \in Nat : l <= u /\ u < v /\ v <= h /\ q[i] = (u + 1) .. v
      BY <1>1, <2>1 DEF InQueue
    <3> QED
      BY <1>1, <1>2, <2>1, <3>1
  <2>2. CASE i = Len(q) + 1
    BY <1>2, <2>2
  <2> QED
    BY <1>1, <1>2, <2>1, <2>2
<1>5. ASSUME NEW i \in 1 .. Len(r), NEW j \in 1 .. Len(r), i < j, NEW p \in r[i], NEW w \in r[j]
      PROVE  p < w
  <2>1. i \in 1 .. Len(q) /\ p \in q[i]
    BY <1>1, <1>2, <1>5
  <2>2. CASE j <= Len(q)
    <3>1. j \in 1 .. Len(q) /\ w \in q[j]
      BY <1>1, <1>2, <1>5, <2>2
    <3> QED
      BY <1>5, <2>1, <3>1 DEF InQueue
  <2>3. CASE j = Len(q) + 1
    BY <1>2, <1>3, <1>5, <2>1, <2>3
  <2> QED
    BY <1>1, <1>2, <2>2, <2>3
<1>6. InQueue(r, l, y)
  BY <1>2, <1>4, <1>5 DEF InQueue
<1> QED
  BY <1>6 DEF r

\* A queue that has dropped its k oldest entries, as a full m_deque does, is still in order.
LEMMA DropInQueue ==
  ASSUME NEW q, NEW l \in Nat, NEW h \in Nat, InQueue(q, l, h), NEW k \in 0 .. Len(q)
  PROVE  InQueue(SubSeq(q, k + 1, Len(q)), l, h)
<1> DEFINE p == SubSeq(q, k + 1, Len(q))
<1>1. q \in Seq(SUBSET Nat) /\ Len(q) \in Nat
  BY DEF InQueue
<1>2. \A i \in (k + 1) .. Len(q) : q[i] \in SUBSET Nat
  BY <1>1
<1>3. /\ p \in Seq(SUBSET Nat) /\ Len(p) = Len(q) - k
      /\ \A i \in 1 .. Len(q) - k : p[i] = q[k + i]
  <2>1. /\ p \in Seq(SUBSET Nat) /\ Len(p) = IF k + 1 <= Len(q) THEN Len(q) - (k + 1) + 1 ELSE 0
        /\ \A i \in 1 .. Len(q) - (k + 1) + 1 : p[i] = q[(k + 1) + i - 1]
    BY <1>1, <1>2, SubSeqProperties
  <2> QED
    BY <1>1, <2>1
<1> HIDE DEF p
<1>4. \A i \in 1 .. Len(p) : k + i \in 1 .. Len(q) /\ p[i] = q[k + i]
  BY <1>1, <1>3
<1>5. ASSUME NEW i \in 1 .. Len(p), NEW j \in 1 .. Len(p), i < j, NEW u \in p[i], NEW v \in p[j]
      PROVE  u < v
  <2>1. k + i < k + j
    BY <1>1, <1>3, <1>5
  <2> QED
    BY <1>4, <1>5, <2>1 DEF InQueue
<1>6. ASSUME NEW i \in 1 .. Len(p)
      PROVE  \E x, y \in Nat : l <= x /\ x < y /\ y <= h /\ p[i] = (x + 1) .. y
  <2>1. k + i \in 1 .. Len(q) /\ p[i] = q[k + i]
    BY <1>4
  <2>2. PICK n \in 1 .. Len(q) : n = k + i
    BY <2>1
  <2>3. \E x, y \in Nat : l <= x /\ x < y /\ y <= h /\ q[n] = (x + 1) .. y
    BY DEF InQueue
  <2>4. p[i] = q[n]
    BY <2>1, <2>2
  <2> QED
    BY <2>3, <2>4, Zenon
<1>7. p \in Seq(SUBSET Nat)
  BY <1>3
<1>8. InQueue(p, l, h)
  BY <1>5, <1>6, <1>7 DEF InQueue
<1> QED
  BY <1>8 DEF p

\* The bounds of a queue can be widened; the empty one has any.
LEMMA WidenQueue ==
  ASSUME NEW q, NEW l \in Nat, NEW h \in Nat, InQueue(q, l, h), NEW k \in Nat, k <= l
  PROVE  InQueue(q, k, h)
<1>1. ASSUME NEW i \in 1 .. Len(q)
      PROVE  \E x, y \in Nat : k <= x /\ x < y /\ y <= h /\ q[i] = (x + 1) .. y
  <2>1. PICK x, y \in Nat : l <= x /\ x < y /\ y <= h /\ q[i] = (x + 1) .. y
    BY DEF InQueue
  <2>2. k <= x /\ x < y /\ y <= h /\ q[i] = (x + 1) .. y
    BY <2>1
  <2> QED
    BY <2>2, Zenon
<1> QED
  BY <1>1 DEF InQueue

\* The upper bound of a queue can be raised.
LEMMA RaiseQueue ==
  ASSUME NEW q, NEW l \in Nat, NEW h \in Nat, InQueue(q, l, h), NEW k \in Nat, h <= k
  PROVE  InQueue(q, l, k)
<1>1. ASSUME NEW i \in 1 .. Len(q)
      PROVE  \E x, y \in Nat : l <= x /\ x < y /\ y <= k /\ q[i] = (x + 1) .. y
  <2>1. PICK x, y \in Nat : l <= x /\ x < y /\ y <= h /\ q[i] = (x + 1) .. y
    BY DEF InQueue
  <2>2. l <= x /\ x < y /\ y <= k /\ q[i] = (x + 1) .. y
    BY <2>1
  <2> QED
    BY <2>2, Zenon
<1> QED
  BY <1>1 DEF InQueue

\* An empty queue is in order between any bounds.
LEMMA EmptyQueue ==
  ASSUME NEW l, NEW h
  PROVE  InQueue(<<>>, l, h)
  BY DEF InQueue

-----------------------------------------------------------------------------
(* The audio.                                                              *)

audioVars == <<sentTo, pieces, local, deque, prebuf, staging, frame>>

\* What every step does that moves no audio.
Passes ==
  /\ UNCHANGED audioVars
  /\ ~connected' /\ (mpc' = "prebuf" \/ ~(finishing' \/ finished')) =>
       ~connected /\ (mpc = "prebuf" \/ ~(finishing \/ finished))
  /\ mpc' \in {"write", "prebuf", "push"} => mpc \in {"write", "prebuf", "push"}
Moves == \/ Turn \/ AfterDeliver \/ Send \/ DrainChunk \/ DrainEnd
         \/ (\E n \in FrameLens : ReadBug(n)) \/ Write \/ Prebuffer \/ Push

\* The places of the queues are numbers that a step does not change: what holds of the queues
\* after it is what holds of their new values.
LEMMA Primed ==
  ASSUME NEW m, NEW a, NEW b
  PROVE  /\ InQueue(local, sentTo, m)' <=> InQueue(local', sentTo', m)
         /\ InQueue(deque, m, a)' <=> InQueue(deque', m, a)
         /\ InChunks(prebuf, a, b)' <=> InChunks(prebuf', a, b)
  BY DEF InQueue, InChunks

\* Only the worker's turn and its sending, the drain, and the steps of a frame move audio; every
\* other step leaves it alone.
LEMMA OthersPass ==
  ASSUME Control, [Next]_vars
  PROVE  Passes \/ Moves
<1> USE DEF Passes, audioVars, Control, TypeOK, ThreadTypes, Session, Object
<1>1. CASE Admit
  BY <1>1 DEF Admit
<1>2. CASE CreateThread
  BY <1>2 DEF CreateThread
<1>3. CASE InitFails
  BY <1>3 DEF InitFails
<1>4. CASE Attach
  BY <1>4 DEF Attach
<1>5. CASE Publish
  BY <1>5 DEF Publish
<1>6. CASE ApiStop
  BY <1>6 DEF ApiStop
<1>7. CASE SessionGone
  BY <1>7 DEF SessionGone
<1>8. CASE CloseBug
  BY <1>8 DEF CloseBug
<1>9. CASE RemoveBug
  BY <1>9 DEF RemoveBug
<1>10. CASE Unload
  BY <1>10 DEF Unload
<1>11. ASSUME NEW o \in Closers, Lock(o) PROVE Passes \/ Moves
  BY <1>11 DEF Lock
<1>12. ASSUME NEW o \in Owners, RequestStop(o) PROVE Passes \/ Moves
  BY <1>12 DEF RequestStop
<1>13. ASSUME NEW o \in Owners, Finish(o) PROVE Passes \/ Moves
  BY <1>13 DEF Finish
<1>14. ASSUME NEW o \in Owners, Join(o) PROVE Passes \/ Moves
  BY <1>14 DEF Join
<1>15. ASSUME NEW o \in Owners, KillCb(o) PROVE Passes \/ Moves
  BY <1>15 DEF KillCb
<1>16. CASE Construct
  BY <1>16 DEF Construct
<1>17. CASE PublishStreamer
  BY <1>17 DEF PublishStreamer
<1>18. CASE Recheck
  BY <1>18 DEF Recheck
<1>19. CASE Sleep
  BY <1>19 DEF Sleep
<1>20. CASE SpuriousWake
  BY <1>20 DEF SpuriousWake
<1>21. CASE Overdue
  BY <1>21 DEF Overdue
<1>22. CASE Turn
  BY <1>22 DEF Moves
<1>23. CASE Deliver
  BY <1>23 DEF Deliver
<1>24. CASE AfterDeliver
  BY <1>24 DEF Moves
<1>25. CASE Send
  BY <1>25 DEF Moves
<1>26. CASE Sent
  BY <1>26 DEF Sent
<1>27. CASE CloseStream
  BY <1>27 DEF CloseStream
<1>28. CASE FrameLock
  BY <1>28 DEF FrameLock
<1>29. ASSUME NEW n \in FrameLens, ReadBug(n) PROVE Passes \/ Moves
  BY <1>29 DEF Moves
<1>30. CASE FrameEnd
  BY <1>30 DEF FrameEnd
<1>31. CASE Write
  BY <1>31 DEF Moves
<1>32. CASE Prebuffer
  BY <1>32 DEF Moves
<1>33. CASE Push
  BY <1>33 DEF Moves
<1>34. CASE StreamReady
  BY <1>34 DEF StreamReady
<1>35. CASE DrainChunk
  BY <1>35 DEF Moves
<1>36. CASE DrainEnd
  BY <1>36 DEF Moves
<1>37. CASE ReadyWake
  BY <1>37 DEF ReadyWake
<1>38. CASE Transcript
  BY <1>38 DEF Transcript
<1>39. CASE Outcome
  BY <1>39 DEF Outcome
<1>40. CASE UNCHANGED vars
  BY <1>40 DEF vars
<1> QED
  BY <1>1, <1>2, <1>3, <1>4, <1>5, <1>6, <1>7, <1>8, <1>9, <1>10, <1>11, <1>12, <1>13,
     <1>14, <1>15, <1>16, <1>17, <1>18, <1>19, <1>20, <1>21, <1>22, <1>23, <1>24, <1>25,
     <1>26, <1>27, <1>28, <1>29, <1>30, <1>31, <1>32, <1>33, <1>34, <1>35, <1>36, <1>37,
     <1>38, <1>39, <1>40
  DEF Next, StartStep, StopStep, WorkerStep, WriteStep, ReadyStep

\* A step that moves no audio keeps it in order.
LEMMA PassKeepsAudio ==
  ASSUME AudioInv, Passes
  PROVE  AudioInv'
<1> USE DEF Passes, audioVars
<1>1. PICK m, a, b, f, g \in Nat : AudioAt(m, a, b, f, g)
  BY DEF AudioInv
<1>2. AudioAt(m, a, b, f, g)'
  BY <1>1, Primed DEF AudioAt
<1> QED
  BY <1>2 DEF AudioInv

\* The worker swaps the shared queue out, when it has sent what it had.
LEMMA BranchKeepsAudio ==
  ASSUME Control, AudioInv, Branch, wpc \in {"check", "branch"},
         UNCHANGED <<mpc, connected, finishing, finished, pieces, frame>>
  PROVE  AudioInv'
<1> USE DEF Branch
<1>1. PICK m, a, b, f, g \in Nat : AudioAt(m, a, b, f, g)
  BY DEF AudioInv
<1>2. local = <<>> /\ sentTo \in Nat
  BY DEF Control, Flushed, AudioInv
<1>3. CASE UNCHANGED deque /\ local' = <<>>
  <2>1. AudioAt(m, a, b, f, g)'
    BY <1>1, <1>2, <1>3, Primed DEF AudioAt
  <2> QED
    BY <1>2, <2>1 DEF AudioInv
<1>4. CASE deque' = <<>> /\ local' = deque
  <2>1. InQueue(deque, sentTo, a) /\ InQueue(<<>>, a, a) /\ sentTo <= a
    BY <1>1, <1>2, WidenQueue, EmptyQueue DEF AudioAt
  <2>2. InQueue(local, sentTo, a)' /\ InQueue(deque, a, a)'
    BY <1>4, <2>1, Primed
  <2>3. AudioAt(a, a, b, f, g)'
    BY <1>1, <2>1, <2>2, Primed DEF AudioAt
  <2> QED
    BY <1>2, <2>3 DEF AudioInv
<1> QED
  BY <1>3, <1>4

\* An entry is sent: it is behind everything that was sent before.
LEMMA SendKeepsAudio ==
  ASSUME AudioInv, Send
  PROVE  AudioInv'
<1> USE DEF Send, LoopKeeps, WorkerKeeps
<1>1. PICK m, a, b, f, g \in Nat : AudioAt(m, a, b, f, g)
  BY DEF AudioInv
<1>2. /\ sentTo' \in Nat /\ sentTo' <= m /\ InQueue(Tail(local), sentTo', m)
  BY <1>1, HeadInQueue DEF AudioAt, AudioInv
<1>3. AudioAt(m, a, b, f, g)'
  BY <1>1, <1>2, Primed DEF AudioAt
<1> QED
  BY <1>2, <1>3 DEF AudioInv

\* The drain moves the oldest chunk of the prebuffer behind the queue.
LEMMA DrainChunkKeepsAudio ==
  ASSUME AudioInv, DrainChunk
  PROVE  AudioInv'
<1> USE DEF DrainChunk
<1>1. PICK m, a, b, f, g \in Nat : AudioAt(m, a, b, f, g)
  BY DEF AudioInv
<1> DEFINE d == a + ChunkLen
<1>2. /\ Head(prebuf) = (a + 1) .. d /\ d \in Nat /\ a < d /\ d <= b /\ InChunks(Tail(prebuf), d, b)
  BY <1>1, HeadInChunks DEF AudioAt
<1>3. InQueue(Append(deque, (a + 1) .. d), m, d)
  BY <1>1, <1>2, AppendInQueue DEF AudioAt
<1>4. InQueue(deque, m, d)' /\ InChunks(prebuf, d, b)'
  BY <1>2, <1>3, Primed
<1> HIDE DEF d
<1>5. AudioAt(m, d, b, f, g)'
  BY <1>1, <1>2, <1>4, Primed DEF AudioAt
<1> QED
  BY <1>2, <1>5 DEF AudioInv

\* The end of the drain moves what is staged behind the last chunk, and from then on the frames go
\* to the queue.
LEMMA DrainEndKeepsAudio ==
  ASSUME AudioInv, DrainEnd
  PROVE  AudioInv'
<1> USE DEF DrainEnd
<1>1. PICK m, a, b, f, g \in Nat : AudioAt(m, a, b, f, g)
  BY DEF AudioInv
<1>2. a = b
  BY <1>1 DEF AudioAt, InChunks
<1>3. InQueue(deque', m, f)
  <2>1. CASE staging = {}
    <3>1. b = f
      BY <1>1, <2>1 DEF AudioAt
    <3> QED
      BY <1>1, <1>2, <2>1, <3>1 DEF AudioAt
  <2>2. CASE staging # {}
    <3>1. staging = (a + 1) .. f /\ a < f
      BY <1>1, <1>2, <2>2 DEF AudioAt
    <3> QED
      BY <1>1, <2>2, <3>1, AppendInQueue DEF AudioAt
  <2> QED
    BY <2>1, <2>2
<1>4. InQueue(deque, m, f)' /\ InChunks(prebuf, f, f)'
  BY <1>3, EmptyChunks, Primed
<1>5. staging' = (f + 1) .. f /\ connected'
  OBVIOUS
<1>6. AudioAt(m, f, f, f, g)'
  <2>1. UNCHANGED <<local, sentTo, pieces, frame, mpc, finishing, finished>>
    OBVIOUS
  <2>2. m <= f /\ f <= f /\ sentTo <= m /\ f <= g /\ g <= pieces /\ InQueue(local, sentTo, m)
        /\ frame = (g + 1) .. pieces /\ (mpc \in {"write", "prebuf", "push"} => g < pieces)
    BY <1>1 DEF AudioAt
  <2> HIDE DEF DrainEnd
  <2> QED
    BY <1>4, <1>5, <2>1, <2>2, Primed DEF AudioAt
<1> QED
  BY <1>6 DEF AudioInv

\* A frame is read: it comes after all that was read before.
LEMMA ReadKeepsAudio ==
  ASSUME Control, AudioInv, NEW n \in FrameLens, ReadBug(n)
  PROVE  AudioInv'
<1> USE DEF ReadBug
<1>1. PICK m, a, b, f, g \in Nat : AudioAt(m, a, b, f, g)
  BY DEF AudioInv
<1>2. frame = {} /\ g = pieces /\ n \in Nat /\ n > 0 /\ pieces \in Nat
  <2> HIDE DEF ReadBug
  <2>1. mpc = "read"
    BY DEF ReadBug
  <2>2. frame = {}
    BY <2>1 DEF Control, Flushed
  <2>3. g <= pieces /\ frame = (g + 1) .. pieces
    BY <1>1 DEF AudioAt
  <2>4. pieces \in Nat
    BY DEF AudioInv
  <2>5. n \in Nat /\ n > 0
    BY AwsStreamerAssumption
  <2>6. g = pieces
    <3>1. g + 1 \notin (g + 1) .. pieces
      BY <2>2, <2>3
    <3> QED
      BY <2>3, <2>4, <3>1
  <2> QED
    BY <2>2, <2>4, <2>5, <2>6
<1>3. AudioAt(m, a, b, f, g)'
  BY <1>1, <1>2, Primed DEF AudioAt
<1>4. sentTo' \in Nat /\ pieces' \in Nat
  <2>1. sentTo' = sentTo /\ pieces' = pieces + n
    OBVIOUS
  <2> QED
    BY <1>2, <2>1 DEF AudioInv
<1> QED
  BY <1>3, <1>4 DEF AudioInv

\* A frame is dropped once there is a stop or an outcome, and goes on otherwise.
LEMMA WriteKeepsAudio ==
  ASSUME AudioInv, Write
  PROVE  AudioInv'
<1> USE DEF Write
<1>1. PICK m, a, b, f, g \in Nat : AudioAt(m, a, b, f, g)
  BY DEF AudioInv
<1>2. pieces \in Nat
  BY DEF AudioInv
<1>3. CASE finishing \/ finished
  <2>1. frame' = {} /\ mpc' = "read" /\ (pieces + 1) .. pieces = {}
    BY <1>2, <1>3
  <2>2. AudioAt(m, a, b, f, pieces)'
    BY <1>1, <1>2, <1>3, <2>1, Primed DEF AudioAt
  <2> QED
    BY <1>2, <2>2 DEF AudioInv
<1>4. CASE ~(finishing \/ finished)
  <2>1. AudioAt(m, a, b, f, g)'
    BY <1>1, <1>4, Primed DEF AudioAt
  <2> QED
    BY <1>2, <2>1 DEF AudioInv
<1> QED
  BY <1>3, <1>4

\* The frame follows what is staged without a gap, and goes to the prebuffer with it.
LEMMA PrebufferKeepsAudio ==
  ASSUME AudioInv, Prebuffer
  PROVE  AudioInv'
<1> USE DEF Prebuffer
<1>1. PICK m, a, b, f, g \in Nat : AudioAt(m, a, b, f, g)
  BY DEF AudioInv
<1>2. CASE connected
  <2>1. AudioAt(m, a, b, f, g)'
    BY <1>1, <1>2, Primed DEF AudioAt
  <2> QED
    BY <1>2, <2>1 DEF AudioInv
<1>3. CASE ~connected
  <2>1. f = g /\ pieces \in Nat /\ b <= pieces
    BY <1>1, <1>3 DEF AudioAt, AudioInv
  <2>2. staging \cup frame = (b + 1) .. pieces
    BY <1>1, <2>1 DEF AudioAt
  <2>3. PICK d, e \in Nat : /\ a <= d /\ e <= pieces
                            /\ InChunks(WithChunks(prebuf, (b + 1) .. pieces), d, e)
                            /\ Remainder((b + 1) .. pieces) = (e + 1) .. pieces
    BY <1>1, <2>1, ChunksInOrder DEF AudioAt
  <2>4. prebuf' = WithChunks(prebuf, (b + 1) .. pieces) /\ staging' = (e + 1) .. pieces
    BY <1>3, <2>2, <2>3
  <2>5. InChunks(prebuf, d, e)' /\ d <= e
    <3>1. InChunks(prebuf', d, e)
      BY <2>3, <2>4
    <3>2. d <= e
      BY <3>1 DEF InChunks
    <3> QED
      BY <3>1, <3>2, Primed
  <2>6. InQueue(deque, m, d)
    BY <1>1, <2>3, RaiseQueue DEF AudioAt
  <2>7. frame' = (pieces + 1) .. pieces /\ mpc' = "read" /\ UNCHANGED <<deque, local, sentTo,
                                                                        pieces>>
    BY <1>3, <2>1
  <2>8. AudioAt(m, d, e, pieces, pieces)'
    BY <1>1, <2>1, <2>3, <2>4, <2>5, <2>6, <2>7, Primed DEF AudioAt
  <2> QED
    BY <2>1, <2>7, <2>8 DEF AudioInv
<1> QED
  BY <1>2, <1>3

\* The frame goes behind the queue, which makes room at its old end.
LEMMA PushKeepsAudio ==
  ASSUME Control, AudioInv, Push
  PROVE  AudioInv'
<1> USE DEF Push
<1>1. PICK m, a, b, f, g \in Nat : AudioAt(m, a, b, f, g)
  BY DEF AudioInv
<1>2. connected /\ prebuf = <<>> /\ staging = {} /\ pieces \in Nat
  BY DEF Control, Request, Flushed, AudioInv
<1> DEFINE over == Len(deque) - MaxBuffered + 1
           rest == IF over > 0 THEN SubSeq(deque, over + 1, Len(deque)) ELSE deque
<1>3. InQueue(rest, m, a)
  <2>1. Len(deque) \in Nat /\ MaxBuffered \in Nat \ {0}
    BY <1>1 DEF AudioAt, InQueue
  <2>2. CASE over > 0
    BY <1>1, <2>1, <2>2, DropInQueue DEF AudioAt
  <2>3. CASE ~(over > 0)
    BY <1>1, <2>3 DEF AudioAt
  <2> QED
    BY <2>2, <2>3
<1>4. deque' = Append(rest, frame)
  OBVIOUS
<1> HIDE DEF rest
<1>5. frame = (g + 1) .. pieces /\ g < pieces /\ a <= g /\ m <= a
  BY <1>1, <1>2 DEF AudioAt
<1>6. InQueue(deque', m, pieces)
  <2>1. InQueue(Append(rest, (g + 1) .. pieces), m, pieces)
    BY <1>2, <1>3, <1>5, AppendInQueue
  <2> QED
    BY <1>4, <1>5, <2>1
<1>7. InQueue(deque, m, pieces)' /\ InChunks(prebuf, pieces, pieces)'
  BY <1>2, <1>6, EmptyChunks, Primed
<1>8. staging' = (pieces + 1) .. pieces /\ frame' = (pieces + 1) .. pieces /\ mpc' = "read"
  BY <1>2
<1>9. AudioAt(m, pieces, pieces, pieces, pieces)'
  BY <1>1, <1>2, <1>5, <1>7, <1>8, Primed DEF AudioAt
<1> QED
  BY <1>2, <1>9 DEF AudioInv

\* Every step of every thread keeps the audio in order, wherever in the five buffers it is.
LEMMA AudioKept ==
  ASSUME Control, AudioInv, [Next]_vars
  PROVE  AudioInv'
<1>1. CASE Passes
  BY <1>1, PassKeepsAudio
<1>2. CASE Turn
  <2>1. CASE Branch
    BY <1>2, <2>1, BranchKeepsAudio DEF Turn
  <2>2. CASE ~Branch
    <3>1. Passes
      BY <1>2, <2>2 DEF Turn, TakeTranscript, Passes, audioVars
    <3> QED
      BY <3>1, PassKeepsAudio
  <2> QED
    BY <2>1, <2>2
<1>3. CASE AfterDeliver
  BY <1>3, BranchKeepsAudio DEF AfterDeliver
<1>4. CASE Send
  BY <1>4, SendKeepsAudio
<1>5. CASE DrainChunk \/ DrainEnd
  BY <1>5, DrainChunkKeepsAudio, DrainEndKeepsAudio
<1>6. CASE \E n \in FrameLens : ReadBug(n)
  BY <1>6, ReadKeepsAudio
<1>7. CASE Write \/ Prebuffer \/ Push
  BY <1>7, WriteKeepsAudio, PrebufferKeepsAudio, PushKeepsAudio
<1> QED
  BY <1>1, <1>2, <1>3, <1>4, <1>5, <1>6, <1>7, OthersPass DEF Moves

-----------------------------------------------------------------------------
(* InOrder is read off the places of the queues.                           *)

\* Sets of pieces after l, up to h, one behind the other.
Ordered(q, l, h) ==
  /\ q \in Seq(SUBSET Nat)
  /\ \A i \in 1 .. Len(q) : q[i] \subseteq (l + 1) .. h
  /\ \A i, j \in 1 .. Len(q) : i < j => \A p \in q[i], r \in q[j] : p < r

\* Two queues in order, the second behind the first, are one queue in order.
LEMMA ConcatOrdered ==
  ASSUME NEW q, NEW r, NEW l \in Nat, NEW m \in Nat, NEW h \in Nat, l <= m, m <= h,
         Ordered(q, l, m), Ordered(r, m, h)
  PROVE  Ordered(q \o r, l, h)
<1> DEFINE c == q \o r
<1>1. /\ q \in Seq(SUBSET Nat) /\ Len(q) \in Nat /\ r \in Seq(SUBSET Nat) /\ Len(r) \in Nat
  BY DEF Ordered
<1>2. /\ c \in Seq(SUBSET Nat) /\ Len(c) = Len(q) + Len(r)
      /\ \A i \in 1 .. Len(q) + Len(r) : c[i] = IF i <= Len(q) THEN q[i] ELSE r[i - Len(q)]
  BY <1>1, ConcatProperties
<1> HIDE DEF c
<1>3. \A i \in 1 .. Len(c) : i <= Len(q) => i \in 1 .. Len(q) /\ c[i] = q[i] /\ c[i] \subseteq (l + 1) .. m
  BY <1>1, <1>2 DEF Ordered
<1>4. \A i \in 1 .. Len(c) : i > Len(q) => /\ i - Len(q) \in 1 .. Len(r) /\ c[i] = r[i - Len(q)]
                                           /\ c[i] \subseteq (m + 1) .. h
  <2>1. \A i \in 1 .. Len(c) : i > Len(q) => i - Len(q) \in 1 .. Len(r) /\ c[i] = r[i - Len(q)]
    BY <1>1, <1>2
  <2> QED
    BY <2>1 DEF Ordered
<1>5. ASSUME NEW i \in 1 .. Len(c) PROVE c[i] \subseteq (l + 1) .. h
  BY <1>1, <1>3, <1>4
<1>6. ASSUME NEW i \in 1 .. Len(c), NEW j \in 1 .. Len(c), i < j, NEW u \in c[i], NEW v \in c[j]
      PROVE  u < v
  <2>1. CASE j <= Len(q)
    <3>1. i <= Len(q)
      BY <1>1, <1>6, <2>1
    <3> QED
      BY <1>3, <1>6, <2>1, <3>1 DEF Ordered
  <2>2. CASE i > Len(q)
    <3>1. j > Len(q) /\ i - Len(q) < j - Len(q)
      BY <1>1, <1>6, <2>2
    <3> QED
      BY <1>4, <1>6, <2>2, <3>1 DEF Ordered
  <2>3. CASE i <= Len(q) /\ j > Len(q)
    <3>1. u \in (l + 1) .. m /\ v \in (m + 1) .. h
      BY <1>3, <1>4, <1>6, <2>3
    <3> QED
      BY <3>1
  <2> QED
    BY <1>1, <2>1, <2>2, <2>3
<1>7. Ordered(c, l, h)
  BY <1>2, <1>5, <1>6 DEF Ordered
<1> QED
  BY <1>7 DEF c

\* The queues of the worker and the prebuffer are such queues.
LEMMA QueueOrdered ==
  ASSUME NEW q, NEW l \in Nat, NEW h \in Nat, InQueue(q, l, h)
  PROVE  Ordered(q, l, h)
<1>1. ASSUME NEW i \in 1 .. Len(q) PROVE q[i] \subseteq (l + 1) .. h
  <2>1. PICK x, y \in Nat : l <= x /\ x < y /\ y <= h /\ q[i] = (x + 1) .. y
    BY DEF InQueue
  <2> QED
    BY <2>1
<1> QED
  BY <1>1 DEF InQueue, Ordered

\* An interval that begins x after a and ends y after it lies within the first z after a.
LEMMA IntervalWithin ==
  ASSUME NEW a \in Nat, NEW x \in Nat, NEW y \in Nat, NEW z \in Nat, y <= z
  PROVE  (a + x + 1) .. (a + y) \subseteq (a + 1) .. (a + z)
OBVIOUS

\* Of two intervals, the one that ends before the other begins has the smaller members.
LEMMA IntervalsApart ==
  ASSUME NEW a \in Nat, NEW u \in Nat, NEW x \in Nat, NEW y \in Nat, NEW z \in Nat, x <= y,
         NEW p \in (a + u + 1) .. (a + x), NEW r \in (a + y + 1) .. (a + z)
  PROVE  p < r
OBVIOUS

\* So is the prebuffer, whose chunks follow each other without a gap.
LEMMA ChunksOrdered ==
  ASSUME NEW q, NEW a \in Nat, NEW b \in Nat, InChunks(q, a, b)
  PROVE  Ordered(q, a, b)
<1>1. q \in Seq(SUBSET Nat) /\ Len(q) \in Nat /\ b = a + Len(q) * ChunkLen
  BY DEF InChunks
<1>2. ASSUME NEW i \in 1 .. Len(q)
      PROVE  /\ q[i] = (a + (i - 1) * ChunkLen + 1) .. (a + i * ChunkLen)
             /\ i \in Nat /\ i - 1 \in Nat /\ i <= Len(q) /\ i - 1 <= i
  <2>1. q[i] = (a + (i - 1) * ChunkLen + 1) .. (a + i * ChunkLen)
    BY DEF InChunks
  <2>2. i \in Nat /\ i - 1 \in Nat /\ i <= Len(q) /\ i - 1 <= i
    BY <1>1
  <2> QED
    BY <2>1, <2>2
<1>3. ASSUME NEW i \in 1 .. Len(q) PROVE q[i] \subseteq (a + 1) .. b
  <2>1. (i - 1) * ChunkLen \in Nat
    BY <1>2, ChunksGrow
  <2>2. i * ChunkLen \in Nat /\ Len(q) * ChunkLen \in Nat /\ i * ChunkLen <= Len(q) * ChunkLen
    BY <1>1, <1>2, ChunksGrow
  <2>3. (a + (i - 1) * ChunkLen + 1) .. (a + i * ChunkLen) \subseteq (a + 1) .. (a + Len(q) * ChunkLen)
    BY <2>1, <2>2, IntervalWithin
  <2> QED
    BY <1>1, <1>2, <2>3
<1>4. ASSUME NEW i \in 1 .. Len(q), NEW j \in 1 .. Len(q), i < j, NEW p \in q[i], NEW r \in q[j]
      PROVE  p < r
  <2>1. p \in (a + (i - 1) * ChunkLen + 1) .. (a + i * ChunkLen)
    BY <1>2
  <2>2. r \in (a + (j - 1) * ChunkLen + 1) .. (a + j * ChunkLen)
    BY <1>2
  <2>3. i \in Nat /\ i - 1 \in Nat /\ j - 1 \in Nat /\ j \in Nat /\ i <= j - 1 /\ j - 1 <= j /\ i - 1 <= i
    BY <1>2, <1>4
  <2>4. i * ChunkLen \in Nat /\ (j - 1) * ChunkLen \in Nat /\ i * ChunkLen <= (j - 1) * ChunkLen
    BY <2>3, ChunksGrow
  <2>5. (i - 1) * ChunkLen \in Nat /\ j * ChunkLen \in Nat
    BY <2>3, ChunksGrow
  <2> QED
    BY <2>1, <2>2, <2>4, <2>5, IntervalsApart
<1> QED
  BY <1>1, <1>3, <1>4 DEF Ordered

\* So are the staging area and the frame that is being written.
LEMMA StagedOrdered ==
  ASSUME NEW b \in Nat, NEW f \in Nat, NEW g \in Nat, NEW h \in Nat, b <= f, f <= g, g <= h
  PROVE  Ordered(<<(b + 1) .. f, (g + 1) .. h>>, b, h)
<1> DEFINE q == <<(b + 1) .. f, (g + 1) .. h>>
<1>1. /\ q \in Seq(SUBSET Nat) /\ Len(q) = 2 /\ q[1] = (b + 1) .. f /\ q[2] = (g + 1) .. h
  OBVIOUS
<1> HIDE DEF q
<1>2. \A i \in 1 .. Len(q) : i = 1 \/ i = 2
  BY <1>1
<1>3. q[1] \subseteq (b + 1) .. h /\ q[2] \subseteq (b + 1) .. h
  BY <1>1
<1>4. \A p \in q[1], r \in q[2] : p < r
  BY <1>1
<1>5. \A i, j \in 1 .. Len(q) : i < j => i = 1 /\ j = 2
  BY <1>1
<1>6. Ordered(q, b, h)
  BY <1>1, <1>2, <1>3, <1>4, <1>5 DEF Ordered
<1> QED
  BY <1>6 DEF q

\* All that was read and is not sent, in the order in which it will be sent, lies behind what was
\* sent.
LEMMA AudioOrdered == AudioInv => Ordered(Audio, sentTo, pieces) /\ sentTo \in Nat
<1> SUFFICES ASSUME AudioInv PROVE Ordered(Audio, sentTo, pieces) /\ sentTo \in Nat
  OBVIOUS
<1>1. PICK m, a, b, f, g \in Nat : AudioAt(m, a, b, f, g)
  BY DEF AudioInv
<1>2. sentTo \in Nat /\ pieces \in Nat
  BY DEF AudioInv
<1>3. sentTo <= m /\ m <= a /\ a <= b /\ b <= pieces
  BY <1>1, <1>2 DEF AudioAt
<1>4. Ordered(local, sentTo, m) /\ Ordered(deque, m, a) /\ Ordered(prebuf, a, b)
  BY <1>1, <1>2, QueueOrdered, ChunksOrdered DEF AudioAt
<1>5. Ordered(<<staging, frame>>, b, pieces)
  BY <1>1, <1>2, StagedOrdered DEF AudioAt
<1>6. Ordered(local \o deque, sentTo, a)
  BY <1>2, <1>3, <1>4, ConcatOrdered
<1>7. sentTo <= a
  BY <1>2, <1>3
<1>8. Ordered((local \o deque) \o prebuf, sentTo, b)
  BY <1>2, <1>3, <1>4, <1>6, <1>7, ConcatOrdered
<1>9. sentTo <= b
  BY <1>2, <1>3
<1>10. Ordered(((local \o deque) \o prebuf) \o <<staging, frame>>, sentTo, pieces)
  BY <1>2, <1>3, <1>5, <1>8, <1>9, ConcatOrdered
<1> QED
  BY <1>2, <1>10 DEF Audio

-----------------------------------------------------------------------------
(* The theorems.                                                           *)

\* Every state of a session satisfies the invariant: before anything has happened all queues are
\* empty, and every step of every thread keeps both parts.
THEOREM Inductive == Spec => []IInv
<1>1. Init => IInv
  <2> SUFFICES ASSUME Init PROVE IInv
    OBVIOUS
  <2>1. Control
    BY ControlInit
  <2>2. InQueue(local, sentTo, 0) /\ InQueue(deque, 0, 0) /\ InChunks(prebuf, 0, 0)
    BY EmptyQueue, EmptyChunks DEF Init
  <2>3. AudioAt(0, 0, 0, 0, 0)
    BY <2>2 DEF Init, AudioAt
  <2>4. AudioInv
    BY <2>3 DEF Init, AudioInv
  <2> QED
    BY <2>1, <2>4 DEF IInv
<1>2. IInv /\ [Next]_vars => IInv'
  BY ControlKept, AudioKept DEF IInv
<1> QED
  BY <1>1, <1>2, PTL DEF Spec

\* The flags stay in their types, and each thread in its own program.
THEOREM TypeCorrect == Spec => []TypeOK
<1>1. IInv => TypeOK
  BY DEF IInv, Control
<1> QED
  BY <1>1, Inductive, PTL

\* Audio reaches the stream in the order it was read, whatever the prebuffer and the queue drop and
\* whenever the drain, the media thread and the worker meet.
THEOREM SentInOrder == Spec => []InOrder
<1>1. IInv => InOrder
  <2> SUFFICES ASSUME IInv PROVE InOrder
    OBVIOUS
  <2>1. Ordered(Audio, sentTo, pieces) /\ sentTo \in Nat
    BY AudioOrdered DEF IInv
  <2>2. DOMAIN Audio = 1 .. Len(Audio)
    BY <2>1 DEF Ordered
  <2>3. \A i \in DOMAIN Audio : \A q \in Audio[i] : sentTo < q
    BY <2>1, <2>2 DEF Ordered
  <2>4. \A i, j \in DOMAIN Audio : i < j => \A p \in Audio[i], q \in Audio[j] : p < q
    BY <2>1, <2>2 DEF Ordered
  <2> HIDE DEF Audio
  <2> QED
    BY <2>3, <2>4 DEF InOrder
<1> QED
  BY <1>1, Inductive, PTL

\* A stop of a connected session closes the stream when all that was captured has been written: the
\* media thread is out before the shutdown begins, and the prebuffer was drained before that.
THEOREM TailIsSent == Spec => []TailSent
<1>1. IInv => TailSent
  <2> SUFFICES ASSUME IInv, closed, ~early PROVE \A i \in DOMAIN Audio : Audio[i] = {}
    BY DEF TailSent
  <2>1. finishing /\ connected /\ wpc \notin {"send", "flush"} /\ deque = <<>> /\ mpc = "idle"
    BY DEF IInv, Control, Flushed, Stops
  <2>2. local = <<>> /\ prebuf = <<>> /\ staging = {} /\ frame = {}
    BY <2>1 DEF IInv, Control, Flushed
  <2>3. Audio = <<{}, {}>>
    BY <2>1, <2>2 DEF Audio
  <2> QED
    BY <2>3
<1> QED
  BY <1>1, Inductive, PTL

\* The streamer is deleted under nobody: its worker has been joined, the media thread is kept out by
\* cb->mutex, and the request has had its outcome or was never made.
THEOREM StreamerOutlivesUse == Spec => []NoUseAfterDelete
<1>1. IInv => NoUseAfterDelete
  BY DEF IInv, Control, Stops, Object, Request, NoUseAfterDelete
<1> QED
  BY <1>1, Inductive, PTL

\* The last transcript goes out if it was final, whenever the outcome, a stop and the hangup come.
THEOREM LastTranscriptGoesOut == Spec => []LastTranscriptOut
<1>1. IInv => LastTranscriptOut
  BY DEF IInv, Control, Events, LastTranscriptOut
<1> QED
  BY <1>1, Inductive, PTL

=============================================================================
