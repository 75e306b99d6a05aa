----------------------- MODULE GoogleTranscribe_proofs -----------------------
(***************************************************************************)
(* What is proved of GoogleTranscribe for every length of the frames and   *)
(* of the chunks, every size of the prebuffer and any number of pieces and *)
(* responses.                                                              *)
(***************************************************************************)
EXTENDS GoogleTranscribe, Prebuffer_proofs

-----------------------------------------------------------------------------
(* The inductive invariant.                                                *)

Inside     == {"enter", "read", "connect", "config", "drain", "write"}
Unborn     == {"idle", "allocate", "construct"}
Undivulged == Unborn \cup {"connect", "thread", "count", "attach"}
OwnerPc    == Undivulged \cup {"publish", "lock", "private", "halfclose", "join", "release", "unlock",
                               "remove", "close", "done"}

FlagTypes ==
  /\ {vad, single, alive, attached, cleared, unloaded, streamer, utterance, connected, promised,
      writesDone, failed} \subseteq BOOLEAN
  /\ private \in {"none", "own", "rival"}
  /\ object \in {"none", "alive", "deleted"} /\ net \in {"none", "open", "half", "over"}
  /\ broken \subseteq {"two values", "config after finish"}

ThreadTypes ==
  /\ lock \in Owners \cup {"free", "media"} /\ bugs \in {"free", "media", "hangup"}
  /\ opc \in [Owners -> OwnerPc] /\ mpc \in Inside \cup {"idle", "gate"}
  /\ rpc \in {"none", "wait", "reading", "halfclose", "status", "ended"}

TypeOK == FlagTypes /\ ThreadTypes

\* Who is inside holds cb->mutex.
Locked ==
  /\ \A o \in Owners : opc[o] \in {"private", "halfclose", "join", "release", "unlock"} => lock = o
  /\ mpc \in Inside => lock = "media"

\* Before bug_add only the start knows of the session, and of its thread.
Private ==
  /\ private = "own" => opc["start"] = "done"
  /\ attached => opc["start"] \in {"publish", "done"}
  /\ opc["start"] \in Undivulged => mpc = "idle" /\ opc["api"] = "idle" /\ opc["hangup"] = "idle"
  /\ opc["start"] \in Unborn \cup {"connect", "thread"} => rpc = "none"
  /\ opc["start"] \in Unborn \cup {"connect"} => ~connected /\ ~promised
  /\ opc["start"] \in Undivulged => (streamer <=> opc["start"] \notin Unborn)

\* cb->streamer is the GStreamer; who uses it, and who is going to delete it.
Reaping(o) == opc[o] \in {"lock", "private", "halfclose", "join", "release"}
Streamer ==
  /\ streamer <=> object = "alive"
  /\ mpc \in Inside \ {"enter"} => streamer
  /\ rpc \notin {"none", "ended"} => streamer
  /\ \A o \in Owners : opc[o] = "release" => rpc \in {"none", "ended"}
  /\ \A o \in Closers : opc[o] \in {"unlock", "remove", "close", "done"} => ~streamer
  /\ streamer => \/ opc["start"] \in {"connect", "thread", "count", "attach"} \/ Reaping("start")
                 \/ opc["start"] \in {"publish", "done"} /\ (attached \/ Reaping("hangup"))
  /\ active = IF streamer /\ opc["start"] \notin Unborn \cup {"connect", "thread", "count"}
              THEN 1 ELSE 0

\* The stream, and the promise with which the read thread is let go.
Stream ==
  /\ connected => promised
  /\ promised /\ ~connected /\ streamer => \E o \in Owners : opc[o] \in {"join", "release"}
  /\ mpc = "connect" => ~connected
  /\ mpc \in {"config", "drain"} => connected
  /\ rpc \in {"reading", "halfclose", "status"} => connected
  /\ rpc = "ended" => promised
  /\ rpc = "status" => net = "over"
  /\ "two values" \notin broken

Control == TypeOK /\ Locked /\ Private /\ Streamer /\ Stream /\ TailDrained

\* What was read and is not sent: the prebuffer up to b, the staging area up to f, the frame;
\* and what was sent ends where the prebuffer begins, until the stream is closed.
AudioAt(a, b, f) ==
  /\ b <= f /\ f <= pieces
  /\ InChunks(prebuf, a, b) /\ staging = (b + 1) .. f /\ frame = (f + 1) .. pieces
  /\ writesDone \/ sent = {} \/ \E s \in Nat : sent = s .. a

Audio ==
  /\ pieces \in Nat /\ sent \subseteq Nat
  /\ \E a, b, f \in Nat : AudioAt(a, b, f)
  /\ ~connected => sent = {}
  /\ mpc \in {"idle", "gate", "enter", "read"} => frame = {}
  /\ connected /\ mpc \notin {"config", "drain"} => prebuf = <<>> /\ staging = {}
  /\ opc["start"] \in Undivulged => prebuf = <<>> /\ staging = {}

IInv == Control /\ Audio /\ NoGap

-----------------------------------------------------------------------------
(* The control part.  The tuples of variables and the helpers of the       *)
(* actions are expanded everywhere, the actions only where they are used.  *)

USE GoogleAssumption, PrebufferAssumption
    DEF Owners, Closers, Inside, Unborn, Undivulged, OwnerPc, Reaping, Breaks, SetPromise, Connect,
        HalfClose, WritePieces, Goes, LocksKeep, OwnerKeeps, Command, MediaKeeps, ReadKeeps,
        fsVars, cbVars, streamVars, readVars, audioVars

\* A step that changes none of the flags keeps their types.
flags == <<vad, single, alive, attached, cleared, unloaded, streamer, utterance, connected, promised,
           writesDone, failed, private, object, net, broken>>
LEMMA SameFlags == ASSUME FlagTypes, UNCHANGED flags PROVE FlagTypes'
  BY DEF FlagTypes, flags

\* Before the start command nothing is held and there is no stream.
LEMMA ControlInit == Init => Control
  BY DEF Init, Control, TypeOK, FlagTypes, ThreadTypes, Locked, Private, Streamer, Stream, TailDrained

\* The steps of google_speech_session_init, from the allocation to set_private, keep the control
\* part.
LEMMA StartKeeps ==
  ASSUME Control, StartStep
  PROVE  Control'
<1> USE DEF Control, TypeOK, FlagTypes, ThreadTypes, Locked, Private, Streamer, Stream, TailDrained
<1>1. CASE Start
  <2> USE <1>1 DEF Start
  <2>1. FlagTypes'
    <3>1. UNCHANGED flags
      BY DEF flags
    <3> QED
      BY ONLY FlagTypes, <3>1, SameFlags
  <2>2. ThreadTypes'
    OBVIOUS
  <2>3. Locked'
    OBVIOUS
  <2>4. Private'
    OBVIOUS
  <2>5. Streamer'
    OBVIOUS
  <2>6. Stream'
    OBVIOUS
  <2>7. TailDrained'
    OBVIOUS
  <2> QED
    BY <2>1, <2>2, <2>3, <2>4, <2>5, <2>6, <2>7
<1>2. CASE Allocate
  <2> USE <1>2 DEF Allocate
  <2>1. FlagTypes'
    <3>1. UNCHANGED flags
      BY DEF flags
    <3> QED
      BY ONLY FlagTypes, <3>1, SameFlags
  <2>2. ThreadTypes'
    OBVIOUS
  <2>3. Locked'
    OBVIOUS
  <2>4. Private'
    OBVIOUS
  <2>5. Streamer'
    OBVIOUS
  <2>6. Stream'
    OBVIOUS
  <2>7. TailDrained'
    OBVIOUS
  <2> QED
    BY <2>1, <2>2, <2>3, <2>4, <2>5, <2>6, <2>7
<1>3. CASE Construct
  <2> USE <1>3 DEF Construct
  <2>1. FlagTypes'
    <3>1. UNCHANGED <<vad, single, alive, attached, cleared, unloaded, utterance, connected,
                      promised, writesDone, failed, private, net, broken>>
      OBVIOUS
    <3>2. object' = "alive"
      OBVIOUS
    <3>3. streamer' = TRUE
      OBVIOUS
    <3> QED
      BY ONLY FlagTypes, <3>1, <3>2, <3>3, Zenon DEF FlagTypes
  <2>2. ThreadTypes'
    OBVIOUS
  <2>3. Locked'
    OBVIOUS
  <2>4. Private'
    OBVIOUS
  <2>5. Streamer'
    OBVIOUS
  <2>6. Stream'
    OBVIOUS
  <2>7. TailDrained'
    OBVIOUS
  <2> QED
    BY <2>1, <2>2, <2>3, <2>4, <2>5, <2>6, <2>7
<1>4. CASE ConstructFails
  <2> USE <1>4 DEF ConstructFails
  <2>1. FlagTypes'
    <3>1. UNCHANGED flags
      BY DEF flags
    <3> QED
      BY ONLY FlagTypes, <3>1, SameFlags
  <2>2. ThreadTypes'
    OBVIOUS
  <2>3. Locked'
    OBVIOUS
  <2>4. Private'
    OBVIOUS
  <2>5. Streamer'
    OBVIOUS
  <2>6. Stream'
    OBVIOUS
  <2>7. TailDrained'
    OBVIOUS
  <2> QED
    BY <2>1, <2>2, <2>3, <2>4, <2>5, <2>6, <2>7
<1>5. CASE StartConnect
  <2> USE <1>5 DEF StartConnect
  <2>1. FlagTypes'
    OBVIOUS
  <2>2. ThreadTypes'
    OBVIOUS
  <2>3. Locked'
    OBVIOUS
  <2>4. Private'
    OBVIOUS
  <2>5. Streamer'
    OBVIOUS
  <2>6. Stream'
    OBVIOUS
  <2>7. TailDrained'
    OBVIOUS
  <2> QED
    BY <2>1, <2>2, <2>3, <2>4, <2>5, <2>6, <2>7
<1>6. CASE CreateThread
  <2> USE <1>6 DEF CreateThread
  <2>1. FlagTypes'
    <3>1. UNCHANGED flags
      BY DEF flags
    <3> QED
      BY ONLY FlagTypes, <3>1, SameFlags
  <2>2. ThreadTypes'
    OBVIOUS
  <2>3. Locked'
    OBVIOUS
  <2>4. Private'
    OBVIOUS
  <2>5. Streamer'
    OBVIOUS
  <2>6. Stream'
    OBVIOUS
  <2>7. TailDrained'
    OBVIOUS
  <2> QED
    BY <2>1, <2>2, <2>3, <2>4, <2>5, <2>6, <2>7
<1>7. CASE ThreadFails
  <2> USE <1>7 DEF ThreadFails
  <2>1. FlagTypes'
    <3>1. UNCHANGED <<vad, single, alive, attached, cleared, unloaded, utterance, connected,
                      promised, writesDone, failed, private, net, broken>>
      OBVIOUS
    <3>2. object' = "deleted"
      OBVIOUS
    <3>3. streamer' = FALSE
      OBVIOUS
    <3> QED
      BY ONLY FlagTypes, <3>1, <3>2, <3>3, Zenon DEF FlagTypes
  <2>2. ThreadTypes'
    OBVIOUS
  <2>3. Locked'
    OBVIOUS
  <2>4. Private'
    OBVIOUS
  <2>5. Streamer'
    OBVIOUS
  <2>6. Stream'
    OBVIOUS
  <2>7. TailDrained'
    OBVIOUS
  <2> QED
    BY <2>1, <2>2, <2>3, <2>4, <2>5, <2>6, <2>7
<1>8. CASE Count
  <2> USE <1>8 DEF Count
  <2>1. FlagTypes'
    <3>1. UNCHANGED flags
      BY DEF flags
    <3> QED
      BY ONLY FlagTypes, <3>1, SameFlags
  <2>2. ThreadTypes'
    OBVIOUS
  <2>3. Locked'
    OBVIOUS
  <2>4. Private'
    OBVIOUS
  <2>5. Streamer'
    <3>1. streamer /\ active = 0
      OBVIOUS
    <3>2. active' = 1
      <4>1. active' = active + 1
        OBVIOUS
      <4> QED
        BY ONLY <3>1, <4>1
    <3>3. /\ opc' = [opc EXCEPT !["start"] = "attach"] /\ opc["start"] = "count"
          /\ streamer' = streamer /\ object' = object /\ mpc' = mpc /\ rpc' = rpc /\ attached' = attached
      OBVIOUS
    <3>4. opc'["start"] = "attach" /\ \A o \in Closers : opc'[o] = opc[o]
      BY <3>3
    <3>5. \A o \in Owners : opc'[o] = "release" => opc[o] = "release"
      BY <3>3
    <3>6. object = "alive"
      BY <3>1
    <3>7. streamer' /\ object' = "alive"
      BY ONLY <3>1, <3>3, <3>6, Zenon
    <3> QED
      BY <3>1, <3>2, <3>3, <3>4, <3>5, <3>7
  <2>6. Stream'
    OBVIOUS
  <2>7. TailDrained'
    OBVIOUS
  <2> QED
    BY <2>1, <2>2, <2>3, <2>4, <2>5, <2>6, <2>7
<1>9. CASE Attach
  <2> USE <1>9 DEF Attach
  <2>1. FlagTypes'
    <3>1. UNCHANGED <<vad, single, alive, cleared, unloaded, streamer, utterance, connected,
                      promised, writesDone, failed, private, object, net, broken>>
      OBVIOUS
    <3>2. attached' \in BOOLEAN
      OBVIOUS
    <3> QED
      BY ONLY FlagTypes, <3>1, <3>2, Zenon DEF FlagTypes
  <2>2. ThreadTypes'
    OBVIOUS
  <2>3. Locked'
    OBVIOUS
  <2>4. Private'
    <3>1. opc["start"] = "attach" /\ UNCHANGED <<private, mpc, rpc, connected, promised, streamer>>
      OBVIOUS
    <3>2. opc'["start"] \in {"publish", "lock"} /\ \A o \in Closers : opc'[o] = opc[o]
      OBVIOUS
    <3>3. private # "own" /\ ~attached
      BY <3>1
    <3>4. attached' => opc'["start"] = "publish"
      <4>1. CASE opc'["start"] = "publish"
        BY <4>1
      <4>2. CASE opc'["start"] # "publish"
        BY <3>3, <4>2
      <4> QED
        BY ONLY <4>1, <4>2
    <3>5. opc'["start"] \notin Undivulged
      BY ONLY <3>2 DEF Undivulged, Unborn
    <3>6. opc'["start"] \notin Unborn \cup {"connect", "thread"}
      BY ONLY <3>2 DEF Unborn
    <3> QED
      BY ONLY <3>1, <3>3, <3>4, <3>5, <3>6, Zenon DEF Private, Undivulged
  <2>5. Streamer'
    <3>1. CASE Goes("start", "attach", "publish") /\ attached' = TRUE
      BY <3>1
    <3>2. CASE Goes("start", "attach", "lock") /\ UNCHANGED attached
      BY <3>2
    <3> QED
      BY <3>1, <3>2
  <2>6. Stream'
    OBVIOUS
  <2>7. TailDrained'
    OBVIOUS
  <2> QED
    BY <2>1, <2>2, <2>3, <2>4, <2>5, <2>6, <2>7
<1>10. CASE Publish
  <2> USE <1>10 DEF Publish
  <2>1. FlagTypes'
    <3>1. UNCHANGED <<vad, single, alive, attached, cleared, unloaded, streamer, utterance,
                      connected, promised, writesDone, failed, object, net, broken>>
      OBVIOUS
    <3>2. private' = "own"
      OBVIOUS
    <3> QED
      BY ONLY FlagTypes, <3>1, <3>2, Zenon DEF FlagTypes
  <2>2. ThreadTypes'
    OBVIOUS
  <2>3. Locked'
    OBVIOUS
  <2>4. Private'
    OBVIOUS
  <2>5. Streamer'
    OBVIOUS
  <2>6. Stream'
    OBVIOUS
  <2>7. TailDrained'
    OBVIOUS
  <2> QED
    BY <2>1, <2>2, <2>3, <2>4, <2>5, <2>6, <2>7
<1> QED
  BY <1>1, <1>2, <1>3, <1>4, <1>5, <1>6, <1>7, <1>8, <1>9, <1>10 DEF StartStep

\* The steps of the cleanup and of reap_streamer, of whichever owner, keep the control part.
LEMMA TeardownKeeps ==
  ASSUME Control, NEW o \in Owners, Lock(o) \/ (o \in Closers /\ Clear(o)) \/ ReapStep(o)
  PROVE  Control'
<1> USE DEF Control, TypeOK, FlagTypes, ThreadTypes, Locked, Private, Streamer, Stream, TailDrained
<1>1. CASE Lock(o)
  <2> USE <1>1 DEF Lock
  <2>1. FlagTypes'
    <3>1. UNCHANGED flags
      BY DEF flags
    <3> QED
      BY ONLY FlagTypes, <3>1, SameFlags
  <2>2. ThreadTypes'
    OBVIOUS
  <2>3. Locked'
    OBVIOUS
  <2>4. Private'
    OBVIOUS
  <2>5. Streamer'
    OBVIOUS
  <2>6. Stream'
    OBVIOUS
  <2>7. TailDrained'
    OBVIOUS
  <2> QED
    BY <2>1, <2>2, <2>3, <2>4, <2>5, <2>6, <2>7
<1>2. CASE o \in Closers /\ Clear(o)
  <2> USE <1>2 DEF Clear
  <2>1. FlagTypes'
    <3>1. UNCHANGED <<vad, single, alive, attached, unloaded, streamer, utterance, connected,
                      promised,
                      writesDone, failed, object, net, broken>>
      OBVIOUS
    <3>2. private' = "none"
      OBVIOUS
    <3>3. cleared' \in BOOLEAN
      <4>1. CASE o = "api"
        <5>1. cleared' = (private # "none")
          BY <4>1
        <5> QED
          BY ONLY <5>1
      <4>2. CASE o # "api"
        <5>1. cleared' = cleared /\ cleared \in BOOLEAN
          BY <4>2
        <5> QED
          BY ONLY <5>1
      <4> QED
        BY ONLY <4>1, <4>2
    <3> QED
      BY ONLY FlagTypes, <3>1, <3>2, <3>3, Zenon DEF FlagTypes
  <2>2. ThreadTypes'
    OBVIOUS
  <2>3. Locked'
    OBVIOUS
  <2>4. Private'
    OBVIOUS
  <2>5. Streamer'
    OBVIOUS
  <2>6. Stream'
    OBVIOUS
  <2>7. TailDrained'
    OBVIOUS
  <2> QED
    BY <2>1, <2>2, <2>3, <2>4, <2>5, <2>6, <2>7
<1>3. CASE ReapHalfClose(o)
  <2> USE <1>3 DEF ReapHalfClose
  <2>1. FlagTypes'
    <3>1. UNCHANGED <<vad, single, alive, attached, cleared, unloaded, streamer, utterance, private,
                      object>>
      OBVIOUS
    <3>2. UNCHANGED <<connected, failed>>
      OBVIOUS
    <3>3. \/ UNCHANGED <<promised, writesDone, net, broken>>
          \/ writesDone' = TRUE /\ net' \in {net, "half"} /\ UNCHANGED <<promised, broken>>
          \/ promised' = TRUE /\ broken' \in {broken, broken \cup {"two values"}} /\ UNCHANGED <<
                                                                                                 writesDone,
                                                                                                 net>>
      OBVIOUS
    <3>4. promised' \in BOOLEAN /\ writesDone' \in BOOLEAN
      <4>1. promised \in BOOLEAN /\ writesDone \in BOOLEAN
        OBVIOUS
      <4> QED
        BY ONLY <3>3, <4>1
    <3>5. net' \in {"none", "open", "half", "over"} /\ broken' \subseteq {"two values", "config after finish"}
      BY ONLY FlagTypes, <3>3 DEF FlagTypes
    <3> QED
      BY ONLY FlagTypes, <3>1, <3>2, <3>4, <3>5, Zenon DEF FlagTypes
  <2>2. ThreadTypes'
    OBVIOUS
  <2>3. Locked'
    OBVIOUS
  <2>4. Private'
    OBVIOUS
  <2>5. Streamer'
    OBVIOUS
  <2>6. Stream'
    OBVIOUS
  <2>7. TailDrained'
    OBVIOUS
  <2> QED
    BY <2>1, <2>2, <2>3, <2>4, <2>5, <2>6, <2>7
<1>4. CASE ReapJoin(o)
  <2> USE <1>4 DEF ReapJoin
  <2>1. FlagTypes'
    <3>1. UNCHANGED flags
      BY DEF flags
    <3> QED
      BY ONLY FlagTypes, <3>1, SameFlags
  <2>2. ThreadTypes'
    OBVIOUS
  <2>3. Locked'
    OBVIOUS
  <2>4. Private'
    OBVIOUS
  <2>5. Streamer'
    OBVIOUS
  <2>6. Stream'
    OBVIOUS
  <2>7. TailDrained'
    OBVIOUS
  <2> QED
    BY <2>1, <2>2, <2>3, <2>4, <2>5, <2>6, <2>7
<1>5. CASE ReapDelete(o)
  <2> USE <1>5 DEF ReapDelete
  <2>1. FlagTypes'
    <3>1. UNCHANGED <<vad, single, alive, attached, cleared, unloaded, utterance, connected,
                      promised, writesDone, failed, private, net, broken>>
      OBVIOUS
    <3>2. object' \in {"deleted", object}
      OBVIOUS
    <3>3. streamer' = FALSE
      OBVIOUS
    <3> QED
      BY ONLY FlagTypes, <3>1, <3>2, <3>3, Zenon DEF FlagTypes
  <2>2. ThreadTypes'
    OBVIOUS
  <2>3. Locked'
    OBVIOUS
  <2>4. Private'
    OBVIOUS
  <2>5. Streamer'
    <3>1. active = IF streamer THEN 1 ELSE 0
      <4>1. opc["start"] \notin Undivulged
        OBVIOUS
      <4> QED
        BY <4>1
    <3>2. active' = 0
      <4>1. CASE streamer
        <5>1. active = 1 /\ active' = active - 1
          BY <3>1, <4>1
        <5> QED
          BY ONLY <5>1
      <4>2. CASE ~streamer
        BY <3>1, <4>2
      <4> QED
        BY <4>1, <4>2
    <3>3. object' # "alive" /\ ~streamer'
      <4>1. CASE streamer
        BY <4>1
      <4>2. CASE ~streamer
        BY <4>2
      <4> QED
        BY <4>1, <4>2
    <3>4. mpc \notin Inside /\ rpc \in {"none", "ended"}
      OBVIOUS
    <3> QED
      BY <3>2, <3>3, <3>4
  <2>6. Stream'
    OBVIOUS
  <2>7. TailDrained'
    OBVIOUS
  <2> QED
    BY <2>1, <2>2, <2>3, <2>4, <2>5, <2>6, <2>7
<1>6. CASE Unlock(o)
  <2> USE <1>6 DEF Unlock
  <2>1. FlagTypes'
    <3>1. UNCHANGED flags
      BY DEF flags
    <3> QED
      BY ONLY FlagTypes, <3>1, SameFlags
  <2>2. ThreadTypes'
    OBVIOUS
  <2>3. Locked'
    OBVIOUS
  <2>4. Private'
    OBVIOUS
  <2>5. Streamer'
    OBVIOUS
  <2>6. Stream'
    OBVIOUS
  <2>7. TailDrained'
    OBVIOUS
  <2> QED
    BY <2>1, <2>2, <2>3, <2>4, <2>5, <2>6, <2>7
<1> QED
  BY <1>1, <1>2, <1>3, <1>4, <1>5, <1>6 DEF ReapStep

\* The commands, the hangup, the rival start and the unload keep the control part.
LEMMA SessionKeeps ==
  ASSUME Control, ApiStop \/ SessionGone \/ CloseBug \/ RemoveBug \/ CloseRemoved \/ Unload \/ RivalStart \/ RivalPublish \/ RivalCleanup
  PROVE  Control'
<1> USE DEF Control, TypeOK, FlagTypes, ThreadTypes, Locked, Private, Streamer, Stream, TailDrained
<1>1. CASE ApiStop
  <2> USE <1>1 DEF ApiStop
  <2>1. FlagTypes'
    <3>1. UNCHANGED flags
      BY DEF flags
    <3> QED
      BY ONLY FlagTypes, <3>1, SameFlags
  <2>2. ThreadTypes'
    OBVIOUS
  <2>3. Locked'
    OBVIOUS
  <2>4. Private'
    OBVIOUS
  <2>5. Streamer'
    OBVIOUS
  <2>6. Stream'
    OBVIOUS
  <2>7. TailDrained'
    OBVIOUS
  <2> QED
    BY <2>1, <2>2, <2>3, <2>4, <2>5, <2>6, <2>7
<1>2. CASE SessionGone
  <2> USE <1>2 DEF SessionGone
  <2>1. FlagTypes'
    <3>1. UNCHANGED <<vad, single, attached, cleared, unloaded, streamer, utterance, connected,
                      promised, writesDone, failed, private, object, net, broken>>
      OBVIOUS
    <3>2. alive' = FALSE
      OBVIOUS
    <3> QED
      BY ONLY FlagTypes, <3>1, <3>2, Zenon DEF FlagTypes
  <2>2. ThreadTypes'
    OBVIOUS
  <2>3. Locked'
    OBVIOUS
  <2>4. Private'
    OBVIOUS
  <2>5. Streamer'
    OBVIOUS
  <2>6. Stream'
    OBVIOUS
  <2>7. TailDrained'
    OBVIOUS
  <2> QED
    BY <2>1, <2>2, <2>3, <2>4, <2>5, <2>6, <2>7
<1>3. CASE CloseBug
  <2> USE <1>3 DEF CloseBug
  <2>1. FlagTypes'
    <3>1. UNCHANGED <<vad, single, alive, cleared, unloaded, streamer, utterance, connected,
                      promised, writesDone, failed, private, object, net, broken>>
      OBVIOUS
    <3>2. attached' = FALSE
      OBVIOUS
    <3> QED
      BY ONLY FlagTypes, <3>1, <3>2, Zenon DEF FlagTypes
  <2>2. ThreadTypes'
    OBVIOUS
  <2>3. Locked'
    OBVIOUS
  <2>4. Private'
    OBVIOUS
  <2>5. Streamer'
    OBVIOUS
  <2>6. Stream'
    OBVIOUS
  <2>7. TailDrained'
    OBVIOUS
  <2> QED
    BY <2>1, <2>2, <2>3, <2>4, <2>5, <2>6, <2>7
<1>4. CASE RemoveBug
  <2> USE <1>4 DEF RemoveBug
  <2>1. FlagTypes'
    <3>1. UNCHANGED <<vad, single, alive, cleared, unloaded, streamer, utterance, connected,
                      promised, writesDone, failed, private, object, net, broken>>
      OBVIOUS
    <3>2. attached' = FALSE
      OBVIOUS
    <3> QED
      BY ONLY FlagTypes, <3>1, <3>2, Zenon DEF FlagTypes
  <2>2. ThreadTypes'
    OBVIOUS
  <2>3. Locked'
    OBVIOUS
  <2>4. Private'
    OBVIOUS
  <2>5. Streamer'
    OBVIOUS
  <2>6. Stream'
    OBVIOUS
  <2>7. TailDrained'
    OBVIOUS
  <2> QED
    BY <2>1, <2>2, <2>3, <2>4, <2>5, <2>6, <2>7
<1>5. CASE CloseRemoved
  <2> USE <1>5 DEF CloseRemoved
  <2>1. FlagTypes'
    <3>1. UNCHANGED <<vad, single, alive, attached, cleared, unloaded, streamer, utterance,
                      connected, promised, writesDone, failed, object, net, broken>>
      OBVIOUS
    <3>2. private' = "none"
      OBVIOUS
    <3> QED
      BY ONLY FlagTypes, <3>1, <3>2, Zenon DEF FlagTypes
  <2>2. ThreadTypes'
    OBVIOUS
  <2>3. Locked'
    OBVIOUS
  <2>4. Private'
    OBVIOUS
  <2>5. Streamer'
    OBVIOUS
  <2>6. Stream'
    OBVIOUS
  <2>7. TailDrained'
    OBVIOUS
  <2> QED
    BY <2>1, <2>2, <2>3, <2>4, <2>5, <2>6, <2>7
<1>6. CASE Unload
  <2> USE <1>6 DEF Unload
  <2>1. FlagTypes'
    <3>1. UNCHANGED <<vad, single, alive, attached, cleared, streamer, utterance, connected,
                      promised, writesDone, failed, private, object, net, broken>>
      OBVIOUS
    <3>2. unloaded' = TRUE
      OBVIOUS
    <3> QED
      BY ONLY FlagTypes, <3>1, <3>2, Zenon DEF FlagTypes
  <2>2. ThreadTypes'
    OBVIOUS
  <2>3. Locked'
    OBVIOUS
  <2>4. Private'
    OBVIOUS
  <2>5. Streamer'
    OBVIOUS
  <2>6. Stream'
    OBVIOUS
  <2>7. TailDrained'
    OBVIOUS
  <2> QED
    BY <2>1, <2>2, <2>3, <2>4, <2>5, <2>6, <2>7
<1>7. CASE RivalStart
  <2> USE <1>7 DEF RivalStart
  <2>1. FlagTypes'
    <3>1. UNCHANGED flags
      BY DEF flags
    <3> QED
      BY ONLY FlagTypes, <3>1, SameFlags
  <2>2. ThreadTypes'
    OBVIOUS
  <2>3. Locked'
    OBVIOUS
  <2>4. Private'
    OBVIOUS
  <2>5. Streamer'
    OBVIOUS
  <2>6. Stream'
    OBVIOUS
  <2>7. TailDrained'
    OBVIOUS
  <2> QED
    BY <2>1, <2>2, <2>3, <2>4, <2>5, <2>6, <2>7
<1>8. CASE RivalPublish
  <2> USE <1>8 DEF RivalPublish
  <2>1. FlagTypes'
    <3>1. UNCHANGED <<vad, single, alive, attached, cleared, unloaded, streamer, utterance,
                      connected, promised, writesDone, failed, object, net, broken>>
      OBVIOUS
    <3>2. private' = "rival"
      OBVIOUS
    <3> QED
      BY ONLY FlagTypes, <3>1, <3>2, Zenon DEF FlagTypes
  <2>2. ThreadTypes'
    <3>1. UNCHANGED <<lock, bugs, opc, mpc, rpc>>
      OBVIOUS
    <3> QED
      BY ONLY ThreadTypes, <3>1 DEF ThreadTypes
  <2>3. Locked'
    OBVIOUS
  <2>4. Private'
    OBVIOUS
  <2>5. Streamer'
    <3>1. UNCHANGED <<streamer, object, attached, active, opc, mpc, rpc>>
      OBVIOUS
    <3> QED
      BY ONLY Streamer, <3>1 DEF Streamer, Reaping
  <2>6. Stream'
    OBVIOUS
  <2>7. TailDrained'
    OBVIOUS
  <2> QED
    BY <2>1, <2>2, <2>3, <2>4, <2>5, <2>6, <2>7
<1>9. CASE RivalCleanup
  <2> USE <1>9 DEF RivalCleanup
  <2>1. FlagTypes'
    <3>1. UNCHANGED <<vad, single, alive, attached, cleared, unloaded, streamer, utterance,
                      connected, promised, writesDone, failed, object, net, broken>>
      OBVIOUS
    <3>2. private' = "none"
      OBVIOUS
    <3> QED
      BY ONLY FlagTypes, <3>1, <3>2, Zenon DEF FlagTypes
  <2>2. ThreadTypes'
    <3>1. UNCHANGED <<lock, bugs, opc, mpc, rpc>>
      OBVIOUS
    <3> QED
      BY ONLY ThreadTypes, <3>1 DEF ThreadTypes
  <2>3. Locked'
    OBVIOUS
  <2>4. Private'
    OBVIOUS
  <2>5. Streamer'
    <3>1. UNCHANGED <<streamer, object, attached, active, opc, mpc, rpc>>
      OBVIOUS
    <3> QED
      BY ONLY Streamer, <3>1 DEF Streamer, Reaping
  <2>6. Stream'
    OBVIOUS
  <2>7. TailDrained'
    OBVIOUS
  <2> QED
    BY <2>1, <2>2, <2>3, <2>4, <2>5, <2>6, <2>7
<1> QED
  BY <1>1, <1>2, <1>3, <1>4, <1>5, <1>6, <1>7, <1>8, <1>9

\* The steps of google_speech_frame, under cb->mutex, keep the control part.
LEMMA MediaKeepsControl ==
  ASSUME Control, FrameGate \/ (\E n \in FrameLens : ReadBug(n)) \/ FrameEnd \/ FrameStep
  PROVE  Control'
<1> USE DEF Control, TypeOK, FlagTypes, ThreadTypes, Locked, Private, Streamer, Stream, TailDrained
<1>1. ASSUME NEW n \in FrameLens, ReadBug(n) PROVE Control'
  <2> USE <1>1 DEF ReadBug
  <2>1. FlagTypes'
    <3>1. UNCHANGED <<vad, single, alive, attached, cleared, unloaded, streamer, utterance,
                      connected, promised, writesDone, failed, private, object, net, broken>>
      OBVIOUS
    <3> QED
      BY ONLY FlagTypes, <3>1, Zenon DEF FlagTypes
  <2>2. ThreadTypes'
    OBVIOUS
  <2>3. Locked'
    OBVIOUS
  <2>4. Private'
    OBVIOUS
  <2>5. Streamer'
    OBVIOUS
  <2>6. Stream'
    OBVIOUS
  <2>7. TailDrained'
    OBVIOUS
  <2> QED
    BY <2>1, <2>2, <2>3, <2>4, <2>5, <2>6, <2>7
<1>2. CASE FrameGate
  <2> USE <1>2 DEF FrameGate
  <2>1. FlagTypes'
    <3>1. UNCHANGED <<vad, single, alive, attached, cleared, unloaded, streamer, utterance,
                      connected, promised, writesDone, failed, private, object, net, broken>>
      OBVIOUS
    <3> QED
      BY ONLY FlagTypes, <3>1, Zenon DEF FlagTypes
  <2>2. ThreadTypes'
    OBVIOUS
  <2>3. Locked'
    OBVIOUS
  <2>4. Private'
    OBVIOUS
  <2>5. Streamer'
    OBVIOUS
  <2>6. Stream'
    OBVIOUS
  <2>7. TailDrained'
    OBVIOUS
  <2> QED
    BY <2>1, <2>2, <2>3, <2>4, <2>5, <2>6, <2>7
<1>3. CASE FrameTryLock
  <2> USE <1>3 DEF FrameTryLock
  <2>1. FlagTypes'
    <3>1. UNCHANGED flags
      BY DEF flags
    <3> QED
      BY ONLY FlagTypes, <3>1, SameFlags
  <2>2. ThreadTypes'
    OBVIOUS
  <2>3. Locked'
    OBVIOUS
  <2>4. Private'
    OBVIOUS
  <2>5. Streamer'
    OBVIOUS
  <2>6. Stream'
    OBVIOUS
  <2>7. TailDrained'
    OBVIOUS
  <2> QED
    BY <2>1, <2>2, <2>3, <2>4, <2>5, <2>6, <2>7
<1>4. CASE FrameEnter
  <2> USE <1>4 DEF FrameEnter
  <2>1. FlagTypes'
    <3>1. UNCHANGED flags
      BY DEF flags
    <3> QED
      BY ONLY FlagTypes, <3>1, SameFlags
  <2>2. ThreadTypes'
    OBVIOUS
  <2>3. Locked'
    OBVIOUS
  <2>4. Private'
    OBVIOUS
  <2>5. Streamer'
    OBVIOUS
  <2>6. Stream'
    OBVIOUS
  <2>7. TailDrained'
    OBVIOUS
  <2> QED
    BY <2>1, <2>2, <2>3, <2>4, <2>5, <2>6, <2>7
<1>5. CASE FrameEnd
  <2> USE <1>5 DEF FrameEnd
  <2>1. FlagTypes'
    <3>1. UNCHANGED flags
      BY DEF flags
    <3> QED
      BY ONLY FlagTypes, <3>1, SameFlags
  <2>2. ThreadTypes'
    OBVIOUS
  <2>3. Locked'
    OBVIOUS
  <2>4. Private'
    OBVIOUS
  <2>5. Streamer'
    OBVIOUS
  <2>6. Stream'
    OBVIOUS
  <2>7. TailDrained'
    OBVIOUS
  <2> QED
    BY <2>1, <2>2, <2>3, <2>4, <2>5, <2>6, <2>7
<1>6. CASE SpeechConnect
  <2> USE <1>6 DEF SpeechConnect
  <2>1. FlagTypes'
    OBVIOUS
  <2>2. ThreadTypes'
    OBVIOUS
  <2>3. Locked'
    OBVIOUS
  <2>4. Private'
    OBVIOUS
  <2>5. Streamer'
    OBVIOUS
  <2>6. Stream'
    OBVIOUS
  <2>7. TailDrained'
    OBVIOUS
  <2> QED
    BY <2>1, <2>2, <2>3, <2>4, <2>5, <2>6, <2>7
<1>7. CASE WriteConfig
  <2> USE <1>7 DEF WriteConfig
  <2>1. FlagTypes'
    OBVIOUS
  <2>2. ThreadTypes'
    OBVIOUS
  <2>3. Locked'
    OBVIOUS
  <2>4. Private'
    OBVIOUS
  <2>5. Streamer'
    OBVIOUS
  <2>6. Stream'
    OBVIOUS
  <2>7. TailDrained'
    OBVIOUS
  <2> QED
    BY <2>1, <2>2, <2>3, <2>4, <2>5, <2>6, <2>7
<1>8. CASE DrainChunk
  <2> USE <1>8 DEF DrainChunk
  <2>1. FlagTypes'
    <3>1. UNCHANGED flags
      BY DEF flags
    <3> QED
      BY ONLY FlagTypes, <3>1, SameFlags
  <2>2. ThreadTypes'
    OBVIOUS
  <2>3. Locked'
    OBVIOUS
  <2>4. Private'
    OBVIOUS
  <2>5. Streamer'
    OBVIOUS
  <2>6. Stream'
    OBVIOUS
  <2>7. TailDrained'
    OBVIOUS
  <2> QED
    BY <2>1, <2>2, <2>3, <2>4, <2>5, <2>6, <2>7
<1>9. CASE DrainEnd
  <2> USE <1>9 DEF DrainEnd
  <2>1. FlagTypes'
    <3>1. UNCHANGED flags
      BY DEF flags
    <3> QED
      BY ONLY FlagTypes, <3>1, SameFlags
  <2>2. ThreadTypes'
    OBVIOUS
  <2>3. Locked'
    OBVIOUS
  <2>4. Private'
    OBVIOUS
  <2>5. Streamer'
    OBVIOUS
  <2>6. Stream'
    OBVIOUS
  <2>7. TailDrained'
    OBVIOUS
  <2> QED
    BY <2>1, <2>2, <2>3, <2>4, <2>5, <2>6, <2>7
<1>10. CASE WriteFrame
  <2> USE <1>10 DEF WriteFrame
  <2>1. FlagTypes'
    <3>1. UNCHANGED <<vad, single, alive, attached, cleared, unloaded, streamer, utterance,
                      connected, promised, writesDone, failed, private, object, net, broken>>
      OBVIOUS
    <3> QED
      BY ONLY FlagTypes, <3>1, Zenon DEF FlagTypes
  <2>2. ThreadTypes'
    OBVIOUS
  <2>3. Locked'
    OBVIOUS
  <2>4. Private'
    OBVIOUS
  <2>5. Streamer'
    OBVIOUS
  <2>6. Stream'
    OBVIOUS
  <2>7. TailDrained'
    OBVIOUS
  <2> QED
    BY <2>1, <2>2, <2>3, <2>4, <2>5, <2>6, <2>7
<1> QED
  BY <1>1, <1>2, <1>3, <1>4, <1>5, <1>6, <1>7, <1>8, <1>9, <1>10 DEF FrameStep

\* The read thread and the far end keep the control part.
LEMMA ReadKeepsControl ==
  ASSUME Control, (\E e \in {"results", "end_of_utterance"} : ReadResponse(e)) \/ StreamEnds \/ ReadStep
  PROVE  Control'
<1> USE DEF Control, TypeOK, FlagTypes, ThreadTypes, Locked, Private, Streamer, Stream, TailDrained
<1>1. ASSUME NEW e \in {"results", "end_of_utterance"}, ReadResponse(e) PROVE Control'
  <2> USE <1>1 DEF ReadResponse
  <2>1. FlagTypes'
    <3>1. UNCHANGED <<vad, single, alive, attached, cleared, unloaded, streamer, connected,
                      promised, writesDone, failed, private, object, net, broken>>
      OBVIOUS
    <3>2. utterance' \in BOOLEAN
      OBVIOUS
    <3> QED
      BY ONLY FlagTypes, <3>1, <3>2, Zenon DEF FlagTypes
  <2>2. ThreadTypes'
    OBVIOUS
  <2>3. Locked'
    OBVIOUS
  <2>4. Private'
    OBVIOUS
  <2>5. Streamer'
    OBVIOUS
  <2>6. Stream'
    OBVIOUS
  <2>7. TailDrained'
    OBVIOUS
  <2> QED
    BY <2>1, <2>2, <2>3, <2>4, <2>5, <2>6, <2>7
<1>2. CASE StreamEnds
  <2> USE <1>2 DEF StreamEnds
  <2>1. FlagTypes'
    <3>1. UNCHANGED <<vad, single, alive, attached, cleared, unloaded, streamer, utterance,
                      connected, promised, writesDone, private, object, broken>>
      OBVIOUS
    <3>2. net' = "over"
      OBVIOUS
    <3>3. failed' \in BOOLEAN
      OBVIOUS
    <3> QED
      BY ONLY FlagTypes, <3>1, <3>2, <3>3, Zenon DEF FlagTypes
  <2>2. ThreadTypes'
    OBVIOUS
  <2>3. Locked'
    OBVIOUS
  <2>4. Private'
    OBVIOUS
  <2>5. Streamer'
    OBVIOUS
  <2>6. Stream'
    OBVIOUS
  <2>7. TailDrained'
    OBVIOUS
  <2> QED
    BY <2>1, <2>2, <2>3, <2>4, <2>5, <2>6, <2>7
<1>3. CASE ReadWake
  <2> USE <1>3 DEF ReadWake
  <2>1. FlagTypes'
    <3>1. UNCHANGED flags
      BY DEF flags
    <3> QED
      BY ONLY FlagTypes, <3>1, SameFlags
  <2>2. ThreadTypes'
    OBVIOUS
  <2>3. Locked'
    OBVIOUS
  <2>4. Private'
    OBVIOUS
  <2>5. Streamer'
    OBVIOUS
  <2>6. Stream'
    OBVIOUS
  <2>7. TailDrained'
    OBVIOUS
  <2> QED
    BY <2>1, <2>2, <2>3, <2>4, <2>5, <2>6, <2>7
<1>4. CASE UtteranceEnds
  <2> USE <1>4 DEF UtteranceEnds
  <2>1. FlagTypes'
    OBVIOUS
  <2>2. ThreadTypes'
    OBVIOUS
  <2>3. Locked'
    OBVIOUS
  <2>4. Private'
    OBVIOUS
  <2>5. Streamer'
    OBVIOUS
  <2>6. Stream'
    OBVIOUS
  <2>7. TailDrained'
    OBVIOUS
  <2> QED
    BY <2>1, <2>2, <2>3, <2>4, <2>5, <2>6, <2>7
<1>5. CASE ReadFinish
  <2> USE <1>5 DEF ReadFinish
  <2>1. FlagTypes'
    <3>1. UNCHANGED <<vad, single, alive, attached, cleared, unloaded, streamer, utterance,
                      connected, promised, failed, private, object, net, broken>>
      OBVIOUS
    <3>2. writesDone' = TRUE
      OBVIOUS
    <3> QED
      BY ONLY FlagTypes, <3>1, <3>2, Zenon DEF FlagTypes
  <2>2. ThreadTypes'
    OBVIOUS
  <2>3. Locked'
    OBVIOUS
  <2>4. Private'
    OBVIOUS
  <2>5. Streamer'
    OBVIOUS
  <2>6. Stream'
    OBVIOUS
  <2>7. TailDrained'
    OBVIOUS
  <2> QED
    BY <2>1, <2>2, <2>3, <2>4, <2>5, <2>6, <2>7
<1>6. CASE ReadStatus
  <2> USE <1>6 DEF ReadStatus
  <2>1. FlagTypes'
    <3>1. UNCHANGED flags
      BY DEF flags
    <3> QED
      BY ONLY FlagTypes, <3>1, SameFlags
  <2>2. ThreadTypes'
    OBVIOUS
  <2>3. Locked'
    OBVIOUS
  <2>4. Private'
    OBVIOUS
  <2>5. Streamer'
    OBVIOUS
  <2>6. Stream'
    OBVIOUS
  <2>7. TailDrained'
    OBVIOUS
  <2> QED
    BY <2>1, <2>2, <2>3, <2>4, <2>5, <2>6, <2>7
<1> QED
  BY <1>1, <1>2, <1>3, <1>4, <1>5, <1>6 DEF ReadStep

\* Every step of every thread keeps the part of the invariant that is about threads and flags.
LEMMA ControlKeeps == Control /\ [Next]_vars => Control'
<1> SUFFICES ASSUME Control, [Next]_vars PROVE Control'
  OBVIOUS
<1>1. CASE UNCHANGED vars
  <2> USE <1>1 DEF vars, Control, TypeOK
  <2>1. FlagTypes'
    BY DEF FlagTypes
  <2>2. ThreadTypes'
    BY DEF ThreadTypes
  <2>3. Locked'
    BY DEF Locked
  <2>4. Private'
    BY DEF Private
  <2>5. Streamer'
    BY DEF Streamer
  <2>6. Stream'
    BY DEF Stream
  <2>7. TailDrained'
    BY DEF TailDrained
  <2> QED
    BY <2>1, <2>2, <2>3, <2>4, <2>5, <2>6, <2>7
<1>2. CASE StartStep
  BY <1>2, StartKeeps
<1>3. ASSUME NEW o \in Owners, Lock(o) \/ (o \in Closers /\ Clear(o)) \/ ReapStep(o) PROVE Control'
  BY <1>3, TeardownKeeps
<1>4. CASE \/ ApiStop \/ SessionGone \/ CloseBug \/ RemoveBug \/ CloseRemoved \/ Unload
           \/ RivalStart \/ RivalPublish \/ RivalCleanup
  BY <1>4, SessionKeeps
<1>5. CASE FrameGate \/ (\E n \in FrameLens : ReadBug(n)) \/ FrameEnd \/ FrameStep
  BY <1>5, MediaKeepsControl
<1>6. CASE (\E e \in {"results", "end_of_utterance"} : ReadResponse(e)) \/ StreamEnds \/ ReadStep
  BY <1>6, ReadKeepsControl
<1> QED
  BY <1>1, <1>2, <1>3, <1>4, <1>5, <1>6 DEF Next

-----------------------------------------------------------------------------
(* The audio.                                                              *)

Quiet == {"idle", "gate", "enter", "read"}

\* What every step does that moves no audio: a connection stays, once there is one the prebuffer
\* is the media thread's to empty, and a stream that was closed stays closed.
Passes ==
  /\ UNCHANGED audioVars
  /\ ~connected' => ~connected
  /\ mpc' \in Quiet => mpc \in Quiet
  /\ connected' /\ mpc' \notin {"config", "drain"} =>
       (connected /\ mpc \notin {"config", "drain"}) \/ opc["start"] \in Undivulged
  /\ opc'["start"] \in Undivulged => opc["start"] \in Undivulged
  /\ writesDone => writesDone'

\* A step that moves no audio keeps it in place.
LEMMA PassKeepsAudio ==
  ASSUME Audio, Passes
  PROVE  Audio'
<1> USE DEF Passes, Quiet
<1>1. PICK a, b, f \in Nat : AudioAt(a, b, f)
  BY DEF Audio
<1>2. AudioAt(a, b, f)'
  BY <1>1 DEF AudioAt, InChunks
<1> QED
  BY <1>2 DEF Audio

\* Only the read of a frame, the drain and the write of a frame move audio; every other step, the
\* half-closes included, leaves it in place.
LEMMA OthersPass ==
  ASSUME Control,
         \/ StartStep \/ ApiStop \/ SessionGone \/ CloseBug \/ RemoveBug \/ CloseRemoved \/ Unload
         \/ \E o \in Owners : Lock(o) \/ ReapStep(o)
         \/ \E o \in Closers : Clear(o)
         \/ RivalStart \/ RivalPublish \/ RivalCleanup
         \/ FrameGate \/ FrameEnd \/ FrameTryLock \/ FrameEnter \/ SpeechConnect \/ WriteConfig
         \/ (\E e \in {"results", "end_of_utterance"} : ReadResponse(e)) \/ StreamEnds \/ ReadStep
         \/ UNCHANGED vars
  PROVE  Passes
<1> USE DEF Passes, Quiet, Control, TypeOK, ThreadTypes
<1>1. CASE StartStep
  <2>1. CASE Start
    BY <2>1 DEF Start
  <2>2. CASE Allocate
    BY <2>2 DEF Allocate
  <2>3. CASE Construct
    BY <2>3 DEF Construct
  <2>4. CASE ConstructFails
    BY <2>4 DEF ConstructFails
  <2>5. CASE StartConnect
    BY <2>5 DEF StartConnect
  <2>6. CASE CreateThread
    BY <2>6 DEF CreateThread
  <2>7. CASE ThreadFails
    BY <2>7 DEF ThreadFails
  <2>8. CASE Count
    BY <2>8 DEF Count
  <2>9. CASE Attach
    BY <2>9 DEF Attach
  <2>10. CASE Publish
    BY <2>10 DEF Publish
  <2> QED
    BY <1>1, <2>1, <2>2, <2>3, <2>4, <2>5, <2>6, <2>7, <2>8, <2>9, <2>10 DEF StartStep
<1>2. ASSUME NEW o \in Owners, Lock(o) \/ ReapStep(o) PROVE Passes
  <2>1. CASE Lock(o)
    BY <2>1 DEF Lock
  <2>2. CASE ReapHalfClose(o)
    BY <2>2 DEF ReapHalfClose
  <2>3. CASE ReapJoin(o)
    BY <2>3 DEF ReapJoin
  <2>4. CASE ReapDelete(o)
    BY <2>4 DEF ReapDelete
  <2>5. CASE Unlock(o)
    BY <2>5 DEF Unlock
  <2> QED
    BY <1>2, <2>1, <2>2, <2>3, <2>4, <2>5 DEF ReapStep
<1>3. ASSUME NEW o \in Closers, Clear(o) PROVE Passes
  BY <1>3 DEF Clear
<1>4. CASE \/ ApiStop \/ SessionGone \/ CloseBug \/ RemoveBug \/ CloseRemoved \/ Unload
           \/ RivalStart \/ RivalPublish \/ RivalCleanup
  BY <1>4 DEF ApiStop, SessionGone, CloseBug, RemoveBug, CloseRemoved, Unload, RivalStart,
              RivalPublish, RivalCleanup
<1>5. CASE FrameGate \/ FrameEnd \/ FrameTryLock \/ FrameEnter \/ SpeechConnect \/ WriteConfig
  <2>1. CASE FrameGate
    BY <2>1 DEF FrameGate
  <2>2. CASE FrameEnd
    BY <2>2 DEF FrameEnd
  <2>3. CASE FrameTryLock
    BY <2>3 DEF FrameTryLock
  <2>4. CASE FrameEnter
    BY <2>4 DEF FrameEnter
  <2>5. CASE SpeechConnect
    BY <2>5 DEF SpeechConnect
  <2>6. CASE WriteConfig
    BY <2>6 DEF WriteConfig
  <2> QED
    BY <1>5, <2>1, <2>2, <2>3, <2>4, <2>5, <2>6
<1>6. CASE (\E e \in {"results", "end_of_utterance"} : ReadResponse(e)) \/ StreamEnds \/ ReadStep
  <2>1. ASSUME NEW e \in {"results", "end_of_utterance"}, ReadResponse(e) PROVE Passes
    BY <2>1 DEF ReadResponse
  <2>2. CASE StreamEnds
    BY <2>2 DEF StreamEnds
  <2>3. CASE ReadWake
    BY <2>3 DEF ReadWake
  <2>4. CASE UtteranceEnds
    BY <2>4 DEF UtteranceEnds
  <2>5. CASE ReadFinish
    BY <2>5 DEF ReadFinish
  <2>6. CASE ReadStatus
    BY <2>6 DEF ReadStatus
  <2> QED
    BY <1>6, <2>1, <2>2, <2>3, <2>4, <2>5, <2>6 DEF ReadStep
<1>7. CASE UNCHANGED vars
  BY <1>7 DEF vars
<1> QED
  BY <1>1, <1>2, <1>3, <1>4, <1>5, <1>6, <1>7

\* A frame is read: it comes after all that was read before.
LEMMA ReadKeepsAudio ==
  ASSUME Control, Audio, NEW n \in FrameLens, ReadBug(n)
  PROVE  Audio'
<1> USE DEF ReadBug
<1>1. PICK a, b, f \in Nat : AudioAt(a, b, f)
  BY DEF Audio
<1>2. f = pieces /\ n \in Nat
  BY <1>1 DEF Audio, AudioAt
<1>3. AudioAt(a, b, f)'
  BY <1>1, <1>2 DEF AudioAt, InChunks, Audio
<1>4. pieces' \in Nat
  BY <1>2 DEF Audio
<1> QED
  BY <1>3, <1>4 DEF Audio, Control, Private

\* Two intervals, the second right behind the first, are one.
LEMMA Joined ==
  ASSUME NEW s \in Nat, NEW a \in Nat, NEW d \in Nat, s <= a, a <= d
  PROVE  (s .. a) \cup ((a + 1) .. d) = s .. d
  OBVIOUS

\* The next chunk is written behind what was written before.
LEMMA DrainChunkKeepsAudio ==
  ASSUME Control, Audio, DrainChunk
  PROVE  Audio'
<1> USE DEF DrainChunk
<1>1. PICK a, b, f \in Nat : AudioAt(a, b, f)
  BY DEF Audio
<1> DEFINE d == a + ChunkLen
<1>2. /\ Head(prebuf) = (a + 1) .. d /\ d \in Nat /\ InChunks(Tail(prebuf), d, b)
      /\ Head(prebuf) \subseteq Nat
  BY <1>1, HeadInChunks, PrebufferAssumption DEF AudioAt
<1>3. writesDone' \/ sent' = {} \/ \E s \in Nat : sent' = s .. d
  <2>1. CASE writesDone
    BY <2>1
  <2>2. CASE ~writesDone /\ sent = {}
    <3>1. sent' = (a + 1) .. d /\ a + 1 \in Nat
      BY <1>2, <2>2
    <3> QED
      BY <3>1
  <2>3. ASSUME ~writesDone, NEW s \in Nat, sent = s .. a, sent # {} PROVE \E t \in Nat : sent' = t .. d
    <3>1. s <= a /\ a <= d /\ sent' = (s .. a) \cup ((a + 1) .. d)
      BY <1>2, <2>3
    <3>2. (s .. a) \cup ((a + 1) .. d) = s .. d
      BY <1>2, <3>1, Joined
    <3>3. sent' = s .. d
      BY <3>1, <3>2
    <3> QED
      BY <3>3
  <2> QED
    BY <1>1, <2>1, <2>2, <2>3 DEF AudioAt
<1>4. AudioAt(d, b, f)'
  BY <1>1, <1>2, <1>3 DEF AudioAt, InChunks
<1>5. sent' \subseteq Nat /\ pieces' \in Nat
  BY <1>2 DEF Audio
<1> QED
  BY <1>2, <1>4, <1>5 DEF Audio, Control, Stream, Private

\* What is staged follows the last chunk, and the prebuffer and the staging area are empty.
LEMMA DrainEndKeepsAudio ==
  ASSUME Control, Audio, DrainEnd
  PROVE  Audio'
<1> USE DEF DrainEnd
<1>1. PICK a, b, f \in Nat : AudioAt(a, b, f)
  BY DEF Audio
<1>2. a = b
  BY <1>1 DEF AudioAt, InChunks
<1>3. writesDone' \/ sent' = {} \/ \E s \in Nat : sent' = s .. f
  <2>1. CASE writesDone
    BY <2>1
  <2>2. CASE ~writesDone /\ sent = {}
    <3>1. sent' = (a + 1) .. f /\ a + 1 \in Nat
      BY <1>1, <1>2, <2>2 DEF AudioAt
    <3> QED
      BY <3>1
  <2>3. ASSUME ~writesDone, NEW s \in Nat, sent = s .. a, sent # {} PROVE \E t \in Nat : sent' = t .. f
    <3>1. s <= a /\ a <= f /\ sent' = (s .. a) \cup ((a + 1) .. f)
      BY <1>1, <1>2, <2>3 DEF AudioAt
    <3>2. sent' = s .. f
      BY <3>1, Joined
    <3> QED
      BY <3>2
  <2> QED
    BY <1>1, <2>1, <2>2, <2>3 DEF AudioAt
<1>4. AudioAt(f, f, f)'
  <2>1. InChunks(prebuf, f, f)'
    BY DEF InChunks
  <2>2. staging' = (f + 1) .. f /\ f <= pieces /\ frame' = (f + 1) .. pieces /\ pieces' = pieces
    BY <1>1 DEF AudioAt
  <2>3. f <= f /\ (f <= pieces)'
    BY <2>2
  <2>4. (writesDone \/ sent = {} \/ \E s \in Nat : sent = s .. f)'
    BY <1>3
  <2> QED
    BY <2>1, <2>2, <2>3, <2>4 DEF AudioAt
<1>5. sent' \subseteq Nat /\ pieces' \in Nat
  BY <1>1 DEF Audio, AudioAt
<1> QED
  BY <1>4, <1>5 DEF Audio, Control, Stream, Private

\* The frame goes to the prebuffer, or, when that is empty, to the stream.
LEMMA WriteFrameKeepsAudio ==
  ASSUME Control, Audio, WriteFrame
  PROVE  Audio'
<1> USE DEF WriteFrame
<1>1. PICK a, b, f \in Nat : AudioAt(a, b, f)
  BY DEF Audio
<1>2. CASE connected
  <2>1. prebuf = <<>> /\ staging = {}
    BY <1>2 DEF Audio
  <2>2. a = b /\ f = b
    BY <1>1, <2>1 DEF AudioAt, InChunks
  <2>3. writesDone' \/ sent' = {} \/ \E s \in Nat : sent' = s .. pieces
    <3>1. CASE writesDone
      BY <1>2, <3>1
    <3>2. CASE ~writesDone /\ sent = {}
      <4>1. sent' = (a + 1) .. pieces /\ a + 1 \in Nat
        BY <1>1, <1>2, <2>2, <3>2 DEF AudioAt
      <4> QED
        BY <4>1
    <3>3. ASSUME ~writesDone, NEW s \in Nat, sent = s .. a, sent # {}
          PROVE  \E t \in Nat : sent' = t .. pieces
      <4>1. s <= a /\ a <= pieces /\ sent' = (s .. a) \cup ((a + 1) .. pieces)
        BY <1>1, <1>2, <2>2, <3>3 DEF AudioAt
      <4>2. sent' = s .. pieces
        BY <4>1 DEF Audio
      <4> QED
        BY <4>2
    <3> QED
      BY <1>1, <3>1, <3>2, <3>3 DEF AudioAt
  <2>4. AudioAt(pieces, pieces, pieces)'
    BY <1>2, <2>1, <2>3 DEF AudioAt, InChunks, Audio
  <2>5. sent' \subseteq Nat /\ pieces' \in Nat
    <3>1. frame \subseteq Nat /\ sent \subseteq Nat /\ pieces' = pieces /\ pieces \in Nat
      BY <1>1 DEF Audio, AudioAt
    <3>2. sent' \subseteq sent \cup frame
      BY <1>2
    <3> QED
      BY <3>1, <3>2
  <2> QED
    BY <1>2, <2>1, <2>4, <2>5 DEF Audio
<1>3. CASE ~connected
  <2>1. staging \cup frame = (b + 1) .. pieces /\ b <= pieces /\ sent = {} /\ pieces \in Nat
    BY <1>1, <1>3 DEF Audio, AudioAt
  <2>2. PICK d, e \in Nat : /\ e <= pieces /\ InChunks(WithChunks(prebuf, (b + 1) .. pieces), d, e)
                            /\ Remainder((b + 1) .. pieces) = (e + 1) .. pieces
    BY <1>1, <2>1, ChunksInOrder DEF AudioAt
  <2>3. AudioAt(d, e, pieces)'
    <3>1. prebuf' = WithChunks(prebuf, (b + 1) .. pieces) /\ staging' = (e + 1) .. pieces
      BY <1>3, <2>1, <2>2
    <3>2. InChunks(prebuf, d, e)'
      BY <2>2, <3>1 DEF InChunks
    <3>3. frame' = (pieces + 1) .. pieces /\ sent' = {} /\ pieces' = pieces
      BY <1>3, <2>1
    <3> QED
      BY <2>1, <2>2, <3>1, <3>2, <3>3 DEF AudioAt
  <2> QED
    BY <1>3, <2>1, <2>3 DEF Audio, Control, Private
<1> QED
  BY <1>2, <1>3

\* Every step keeps the audio in order, and after a close nothing more is sent.
LEMMA AudioKeeps == Control /\ Audio /\ [Next]_vars => Audio' /\ (writesDone' => sent' = sent)
<1> SUFFICES ASSUME Control, Audio, [Next]_vars PROVE Audio' /\ (writesDone' => sent' = sent)
  OBVIOUS
<1>1. CASE Passes
  BY <1>1, PassKeepsAudio DEF Passes
<1>2. ASSUME NEW n \in FrameLens, ReadBug(n) PROVE Audio' /\ (writesDone' => sent' = sent)
  BY <1>2, ReadKeepsAudio DEF ReadBug
<1>3. CASE DrainChunk
  BY <1>3, DrainChunkKeepsAudio DEF DrainChunk
<1>4. CASE DrainEnd
  BY <1>4, DrainEndKeepsAudio DEF DrainEnd
<1>5. CASE WriteFrame
  BY <1>5, WriteFrameKeepsAudio DEF WriteFrame
<1> QED
  BY <1>1, <1>2, <1>3, <1>4, <1>5, OthersPass DEF Next, FrameStep

\* What was sent has no gap: it is an interval as long as the stream is open, and stays what it is.
LEMMA NoGapKeeps ==
  ASSUME NoGap, Audio', writesDone' => sent' = sent
  PROVE  NoGap'
<1>1. CASE writesDone'
  BY <1>1 DEF NoGap
<1>2. CASE ~writesDone'
  <2>1. sent' = {} \/ \E s, a \in Nat : sent' = s .. a
    BY <1>2 DEF Audio, AudioAt
  <2> QED
    BY <2>1 DEF NoGap
<1> QED
  BY <1>1, <1>2

-----------------------------------------------------------------------------
(* The theorems.                                                           *)

\* Before the start command nothing has been read, held or sent.
LEMMA AudioInit == Init => Audio
<1> SUFFICES ASSUME Init PROVE Audio
  OBVIOUS
<1>1. AudioAt(0, 0, 0)
  BY DEF Init, AudioAt, InChunks
<1> QED
  BY <1>1 DEF Init, Audio

\* The three facts of an inductive invariant: of the start, of a step, of the whole run.
THEOREM Inductive == Spec => []IInv
<1>1. Init => IInv
  BY ControlInit, AudioInit DEF IInv, Init, NoGap
<1>2. IInv /\ [Next]_vars => IInv'
  BY ControlKeeps, AudioKeeps, NoGapKeeps DEF IInv
<1> QED
  BY <1>1, <1>2, PTL DEF Spec

\* The variables stay in their types, and each thread in its own program.
THEOREM TypeCorrect == Spec => []TypeOK
<1>1. IInv => TypeOK
  BY DEF IInv, Control
<1> QED
  BY <1>1, Inductive, PTL

\* gRPC's contract is kept in every order of a stop's half-close, that of an utterance, the Finish
\* of a stream that ended by itself and the media thread's writes, and the promise is set once.
THEOREM ContractKept == Spec => []StreamContract
<1>1. IInv => StreamContract
  BY DEF IInv, Control, TypeOK, FlagTypes, Stream, StreamContract
<1> QED
  BY <1>1, Inductive, PTL

\* What reaches Google is a part of the call without a gap, whatever the length of the frames,
\* of the chunks and of the prebuffer, and wherever the connection and the close fall.
THEOREM SentWithoutGap == Spec => []NoGap
<1>1. IInv => NoGap
  BY DEF IInv
<1> QED
  BY <1>1, Inductive, PTL

\* The streamer is deleted under nobody: not under the media thread, which looks again once it
\* has the lock, and not under the read thread, which the reaper joins first.
THEOREM StreamerOutlivesUse == Spec => []NoUseAfterDelete
<1>1. IInv => NoUseAfterDelete
  BY DEF IInv, Control, TypeOK, ThreadTypes, FlagTypes, Streamer, NoUseAfterDelete
<1> QED
  BY <1>1, Inductive, PTL

\* The read thread of a connected stream ends only after the far end has ended the stream, and by
\* then it has told a failure of the stream, also after the session is gone (issue #241).
THEOREM TailIsDrained == Spec => []TailDrained
<1>1. IInv => TailDrained
  BY DEF IInv, Control
<1> QED
  BY <1>1, Inductive, PTL

\* Nothing is left of a session when its start and its hangup are over, whatever stops and rival
\* starts did to its private.
THEOREM NothingIsLeft == Spec => []NothingLeft
<1>1. IInv => NothingLeft
  BY DEF IInv, Control, TypeOK, ThreadTypes, FlagTypes, Streamer, NothingLeft
<1> QED
  BY <1>1, Inductive, PTL
=============================================================================
