--------------------------- MODULE InheritedStream ---------------------------
(***************************************************************************)
(* One session of a transcription module that was inherited as it is:      *)
(* nuance, nvidia, soniox or cobalt.  Their four glue files are copies of  *)
(* one another, so what a step does is defined once, here, and the order   *)
(* of the steps of each function is taken from each module's own source    *)
(* (NuanceStream, NvidiaStream, SonioxStream, CobaltStream).               *)
(*                                                                         *)
(* todo[t] is what thread t has still to do: "start", "api" (a stop),      *)
(* "hangup", "media", "read" (the read thread) and "timers" (nuance's      *)
(* start_timers).  lock is the holder of cb->mutex, bugs of the rwlock of  *)
(* the session's bugs, under whose read lock media callbacks run.  The     *)
(* audio itself is not followed.                                           *)
(***************************************************************************)
EXTENDS Integers, NuanceStream, NvidiaStream, SonioxStream, CobaltStream

CONSTANT MaxResponses   \* bound: responses in a call

ASSUME InheritedAssumption == MaxResponses \in Nat

VARIABLES
  vendor,       \* which module it is
  vad,          \* cb->vad # NULL
  alive,        \* the FreeSWITCH session can still be located
  attached,     \* the bug is in the session's list
  private,      \* the channel private names the bug
  lock, bugs, todo,
  streamer,     \* cb->streamer # NULL
  object,       \* the GStreamer: none, alive, deleted
  connected, promised, writesDone,  \* m_connected, m_promise has its value, m_writesDone
  net,          \* the stream: none, open, half-closed by us, over, finished
  responses,    \* responses read
  broken        \* history: rules of gRPC and of std::promise that were broken

vars == <<vendor, vad, alive, attached, private, lock, bugs, todo, streamer, object, connected,
          promised, writesDone, net, responses, broken>>

Vendors == {"nuance", "nvidia", "soniox", "cobalt"}
Threads == {"start", "api", "hangup", "media", "read", "timers"}
Closers == {"api", "hangup"}

Code == [
  nuance |-> [start |-> NuanceStartCapture, connect |-> NuanceConnect, cleanup |-> NuanceCleanup,
              frame |-> NuanceFrame, passed |-> NuanceFramePassed, response |-> NuanceResponse,
              read |-> NuanceReadThread],
  nvidia |-> [start |-> NvidiaStartCapture, connect |-> NvidiaConnect, cleanup |-> NvidiaCleanup,
              frame |-> NvidiaFrame, passed |-> NvidiaFramePassed, response |-> NvidiaResponse,
              read |-> NvidiaReadThread],
  soniox |-> [start |-> SonioxStartCapture, connect |-> SonioxConnect, cleanup |-> SonioxCleanup,
              frame |-> SonioxFrame, passed |-> SonioxFramePassed, response |-> SonioxResponse,
              read |-> SonioxReadThread],
  cobalt |-> [start |-> CobaltStartCapture, connect |-> CobaltConnect, cleanup |-> CobaltCleanup,
              frame |-> CobaltFrame, passed |-> CobaltFramePassed, response |-> CobaltResponse,
              read |-> CobaltReadThread]]

Init ==
  /\ vendor \in Vendors /\ vad \in BOOLEAN
  /\ alive = TRUE /\ attached = FALSE /\ private = FALSE /\ lock = "free" /\ bugs = "free"
  /\ todo = [t \in Threads |-> IF t = "start" THEN Code[vendor].start ELSE <<>>]
  /\ streamer = FALSE /\ object = "none"
  /\ connected = FALSE /\ promised = FALSE /\ writesDone = FALSE /\ net = "none"
  /\ responses = 0 /\ broken = {}

-----------------------------------------------------------------------------
(* The steps of a thread.                                                  *)

At(t, step)  == todo[t] # <<>> /\ Head(todo[t]) = step
Goes(t)      == todo' = [todo EXCEPT ![t] = Tail(@)]
Calls(t, f)  == todo' = [todo EXCEPT ![t] = f \o Tail(@)]
Leaves(t)    == todo' = [todo EXCEPT ![t] = <<>>]
Begins(t, f) == todo[t] = <<>> /\ todo' = [todo EXCEPT ![t] = f]
Breaks(rule, if) == broken' = IF if THEN broken \cup {rule} ELSE broken

SessionKeeps == UNCHANGED <<vendor, vad, alive, attached, private>>
LocksKeep    == UNCHANGED <<lock, bugs>>
StreamKeeps  == UNCHANGED <<connected, promised, writesDone, net, broken>>
ObjectKeeps  == UNCHANGED <<streamer, object, responses>>

\* What may refuse a start before it holds anything.
Refusable ==
  \E step \in {"pre_answer", "requiredVariable", "resampler"} :
    /\ At("start", step) /\ (Goes("start") \/ Leaves("start"))
    /\ SessionKeeps /\ LocksKeep /\ StreamKeeps /\ ObjectKeeps

\* The VAD, if it is wanted; if it cannot be had the session connects at once.
VadInit ==
  /\ At("start", "vad") /\ Goes("start") /\ vad' \in {vad, FALSE}
  /\ LocksKeep /\ StreamKeeps /\ ObjectKeeps /\ UNCHANGED <<vendor, alive, attached, private>>

NewStreamer ==
  /\ At("start", "newGStreamer")
  /\ \/ Goes("start") /\ streamer' = TRUE /\ object' = "alive"
     \/ Leaves("start") /\ UNCHANGED <<streamer, object>>
  /\ SessionKeeps /\ LocksKeep /\ StreamKeeps /\ UNCHANGED responses

ConnectUnlessVad ==
  /\ At("start", "connectUnlessVad")
  /\ IF vad THEN Goes("start") ELSE Calls("start", Code[vendor].connect)
  /\ SessionKeeps /\ LocksKeep /\ StreamKeeps /\ ObjectKeeps

ThreadCreate ==
  /\ At("start", "thread_create")
  /\ todo' = [todo EXCEPT !["start"] = Tail(@), !["read"] = Code[vendor].read]
  /\ SessionKeeps /\ LocksKeep /\ StreamKeeps /\ ObjectKeeps

\* bug_add; when it fails the start just returns.
BugAdd ==
  /\ At("start", "bug_add") /\ bugs = "free"
  /\ \/ Goes("start") /\ attached' = TRUE
     \/ Leaves("start") /\ UNCHANGED attached
  /\ LocksKeep /\ StreamKeeps /\ ObjectKeeps /\ UNCHANGED <<vendor, vad, alive, private>>

SetPrivate ==
  /\ At("start", "set_private") /\ Goes("start") /\ private' = TRUE
  /\ LocksKeep /\ StreamKeeps /\ ObjectKeeps /\ UNCHANGED <<vendor, vad, alive, attached>>

-----------------------------------------------------------------------------
(* connect(), on the start's thread or on the media thread.                *)

Prepare(t) ==
  /\ At(t, "initMessage") \/ At(t, "config")
  /\ Goes(t) /\ SessionKeeps /\ LocksKeep /\ StreamKeeps /\ ObjectKeeps

OpenStream(t) ==
  /\ At(t, "openStream") /\ Goes(t) /\ net' = "open" /\ connected' = TRUE
  /\ SessionKeeps /\ LocksKeep /\ ObjectKeeps /\ UNCHANGED <<promised, writesDone, broken>>

Promise(t) ==
  /\ At(t, "promise") /\ Goes(t) /\ promised' = TRUE /\ Breaks("twoValues", promised)
  /\ SessionKeeps /\ LocksKeep /\ ObjectKeeps /\ UNCHANGED <<connected, writesDone, net>>

\* Every Write: of the config, the chunks of the prebuffer, a frame, a control message.
WriteToStream ==
  /\ broken' = broken \cup {rule \in {"noStream", "writeAfterHalfClose", "writeAfterFinish"} :
       \/ rule = "noStream" /\ net = "none"
       \/ rule = "writeAfterHalfClose" /\ writesDone
       \/ rule = "writeAfterFinish" /\ net = "finished"}
  /\ UNCHANGED <<connected, promised, writesDone, net>>

WriteConfig(t) ==
  /\ At(t, "writeConfig") \/ At(t, "drain")
  /\ Goes(t) /\ WriteToStream
  /\ SessionKeeps /\ LocksKeep /\ ObjectKeeps

-----------------------------------------------------------------------------
(* The teardown.                                                           *)

\* transcribe_function: a command finds the session, and its bug.
Command(t) == alive /\ private /\ todo[t] = <<>>

\* The stop that an api command finds a bug for; one that closes removes it.
ApiStop ==
  /\ Command("api") /\ Begins("api", Code[vendor].cleanup)
  /\ SessionKeeps /\ LocksKeep /\ StreamKeeps /\ ObjectKeeps

SessionGone ==
  /\ alive /\ alive' = FALSE
  /\ LocksKeep /\ StreamKeeps /\ ObjectKeeps /\ UNCHANGED <<vendor, vad, attached, private, todo>>

\* The hangup closes the bug under the write lock of the bugs.
CloseBug ==
  /\ ~alive /\ attached /\ bugs = "free" /\ bugs' = "hangup" /\ attached' = FALSE
  /\ Begins("hangup", Code[vendor].cleanup)
  /\ StreamKeeps /\ ObjectKeeps /\ UNCHANGED <<vendor, vad, alive, private, lock>>

Lock(t) ==
  /\ At(t, "lock") /\ lock = "free" /\ lock' = t /\ Goes(t)
  /\ SessionKeeps /\ StreamKeeps /\ ObjectKeeps /\ UNCHANGED bugs

\* Without a private there is nothing to do but to unlock; else it is cleared.
Private(t) ==
  /\ At(t, "private")
  /\ IF private THEN Goes(t) ELSE todo' = [todo EXCEPT ![t] = <<"unlock">>]
  /\ private' = FALSE
  /\ LocksKeep /\ StreamKeeps /\ ObjectKeeps /\ UNCHANGED <<vendor, vad, alive, attached>>

\* Mutant of WritesDone: the wait for the connection is not cancelled.
WritesDoneIfConnected(t) ==
  /\ At(t, "writesDone") /\ Goes(t)
  /\ writesDone' = (writesDone \/ (streamer /\ connected))
  /\ net' = IF streamer /\ net = "open" THEN "half" ELSE net
  /\ SessionKeeps /\ LocksKeep /\ ObjectKeeps /\ UNCHANGED <<connected, promised, broken>>

\* writesDone(): half-close once, or cancelConnect().
WritesDone(t) ==
  /\ At(t, "writesDone") /\ Goes(t)
  /\ IF streamer /\ connected
     THEN /\ writesDone' = TRUE /\ net' = IF net = "open" THEN "half" ELSE net
          /\ UNCHANGED <<promised, broken>>
     ELSE /\ promised' = (promised \/ streamer) /\ Breaks("twoValues", streamer /\ promised)
          /\ UNCHANGED <<writesDone, net>>
  /\ SessionKeeps /\ LocksKeep /\ ObjectKeeps /\ UNCHANGED connected

Join(t) ==
  /\ At(t, "join") /\ (streamer => todo["read"] = <<>>) /\ Goes(t)
  /\ SessionKeeps /\ LocksKeep /\ StreamKeeps /\ ObjectKeeps

Delete(t) ==
  /\ At(t, "delete") /\ Goes(t)
  /\ object' = (IF streamer THEN "deleted" ELSE object) /\ streamer' = FALSE
  /\ SessionKeeps /\ LocksKeep /\ StreamKeeps /\ UNCHANGED responses

\* Not when the channel is closing.  bug_remove waits for the write lock of the bugs; the
\* CLOSE that it fires, in this thread, finds no private.
BugRemove(t) ==
  /\ At(t, "bug_remove") /\ Goes(t)
  /\ IF t = "hangup" THEN UNCHANGED attached ELSE bugs = "free" /\ attached' = FALSE
  /\ LocksKeep /\ StreamKeeps /\ ObjectKeeps /\ UNCHANGED <<vendor, vad, alive, private>>

\* The media callback and the hangup's CLOSE return, too.
Unlock(t) ==
  /\ At(t, "unlock") /\ Goes(t) /\ lock' = IF lock = t THEN "free" ELSE lock
  /\ bugs' = IF bugs = t THEN "free" ELSE bugs
  /\ SessionKeeps /\ StreamKeeps /\ ObjectKeeps

\* The command start_timers.
ApiTimers ==
  /\ vendor = "nuance" /\ Command("timers") /\ Begins("timers", NuanceTimers)
  /\ SessionKeeps /\ LocksKeep /\ StreamKeeps /\ ObjectKeeps

StartTimers ==
  /\ At("timers", "startTimers") /\ Goes("timers")
  /\ IF streamer THEN WriteToStream ELSE StreamKeeps
  /\ SessionKeeps /\ LocksKeep /\ ObjectKeeps

-----------------------------------------------------------------------------
(* The media thread.                                                       *)

\* The callback, under the read lock of the bugs; cb->streamer is read here, and not again.
Frame ==
  /\ attached /\ bugs = "free" /\ streamer /\ bugs' = "media"
  /\ Begins("media", Tail(Code[vendor].frame))
  /\ SessionKeeps /\ StreamKeeps /\ ObjectKeeps /\ UNCHANGED lock

TryLock ==
  /\ At("media", "trylock")
  /\ IF lock = "free" THEN lock' = "media" /\ Goes("media") /\ UNCHANGED bugs
                      ELSE bugs' = "free" /\ Leaves("media") /\ UNCHANGED lock
  /\ SessionKeeps /\ StreamKeeps /\ ObjectKeeps

MediaBugRead ==
  /\ At("media", "media_bug_read")
  /\ Goes("media") \/ Calls("media", Code[vendor].passed)
  /\ SessionKeeps /\ LocksKeep /\ StreamKeeps /\ ObjectKeeps

\* Speech is detected, or not.
Vad ==
  /\ At("media", "vad")
  /\ \/ Goes("media")
     \/ vad /\ ~connected /\ Calls("media", Code[vendor].connect)
  /\ SessionKeeps /\ LocksKeep /\ StreamKeeps /\ ObjectKeeps

\* write(): into the prebuffer, or to the stream; then the next frame is looked for.
Write ==
  /\ At("media", "write") /\ Calls("media", <<"media_bug_read">>)
  /\ IF connected THEN WriteToStream ELSE StreamKeeps
  /\ SessionKeeps /\ LocksKeep /\ ObjectKeeps

-----------------------------------------------------------------------------
(* The read thread, and the far end of the stream.                         *)

WaitForConnect ==
  /\ At("read", "waitForConnect") /\ promised
  /\ IF connected THEN Goes("read") ELSE Leaves("read")
  /\ SessionKeeps /\ LocksKeep /\ StreamKeeps /\ ObjectKeeps

\* A response is handled, and the next one is read; or there is no more.
Read ==
  /\ At("read", "read")
  /\ \/ /\ net \in {"open", "half"} /\ responses < MaxResponses /\ responses' = responses + 1
        /\ \E r \in {"result", "empty", "none"} :
             todo' = [todo EXCEPT !["read"] = Code[vendor].response[r] \o todo["read"]]
     \/ net = "over" /\ Goes("read") /\ UNCHANGED responses
  /\ SessionKeeps /\ LocksKeep /\ StreamKeeps /\ UNCHANGED <<streamer, object>>

\* Without a session the thread ends where it is.
Locate ==
  /\ At("read", "locate") /\ IF alive THEN Goes("read") ELSE Leaves("read")
  /\ SessionKeeps /\ LocksKeep /\ StreamKeeps /\ ObjectKeeps

Tell ==
  /\ At("read", "tell") /\ Goes("read")
  /\ SessionKeeps /\ LocksKeep /\ StreamKeeps /\ ObjectKeeps

Finish ==
  /\ At("read", "finish") /\ Goes("read") /\ net' = "finished"
  /\ SessionKeeps /\ LocksKeep /\ ObjectKeeps /\ UNCHANGED <<connected, promised, writesDone, broken>>

StreamEnds ==
  /\ net \in {"open", "half"} /\ net' = "over"
  /\ SessionKeeps /\ LocksKeep /\ ObjectKeeps /\ UNCHANGED <<connected, promised, writesDone, broken, todo>>

-----------------------------------------------------------------------------
StartStep == Refusable \/ VadInit \/ NewStreamer \/ ConnectUnlessVad \/ ThreadCreate \/ BugAdd \/ SetPrivate
ConnectStep(t) == Prepare(t) \/ OpenStream(t) \/ Promise(t) \/ WriteConfig(t)
CleanupStep(t) == Private(t) \/ WritesDone(t) \/ Join(t) \/ Delete(t)
FrameStep == TryLock \/ Vad \/ Write
ReadStep  == WaitForConnect \/ Read \/ Locate \/ Tell \/ Finish

Next ==
  \/ StartStep \/ ApiStop \/ SessionGone \/ CloseBug \/ ApiTimers \/ StartTimers
  \/ \E t \in {"start", "media"} : ConnectStep(t)
  \/ \E t \in {"api", "hangup", "timers"} : Lock(t)
  \/ \E t \in Closers : CleanupStep(t) \/ BugRemove(t)
  \/ \E t \in Threads : Unlock(t)
  \/ Frame \/ FrameStep \/ MediaBugRead \/ ReadStep \/ StreamEnds

\* Threads run, and the media thread leaves its loop and holds its locks for a part of each
\* 20 ms.  Of the far end only what the cleanup waits for: a half-closed stream ends.
Fairness ==
  /\ WF_vars(StartStep) /\ WF_vars(StartTimers)
  /\ \A t \in {"start", "media"} : WF_vars(ConnectStep(t))
  /\ \A t \in {"api", "hangup", "timers"} : SF_vars(Lock(t))
  /\ \A t \in Closers : WF_vars(CleanupStep(t)) /\ SF_vars(BugRemove(t))
  /\ \A t \in Threads : WF_vars(Unlock(t))
  /\ WF_vars(FrameStep) /\ SF_vars(MediaBugRead /\ Goes("media")) /\ WF_vars(ReadStep)
  /\ WF_vars(writesDone /\ StreamEnds)

Spec == Init /\ [][Next]_vars /\ Fairness

-----------------------------------------------------------------------------
Uses(t, steps) == \E i \in DOMAIN todo[t] : todo[t][i] \in steps

\* The media thread uses the streamer that it read before it took the mutex, and yet that one
\* is not deleted: who deletes keeps the mutex until the bug is removed, and so until the
\* callback is over.  Nor is it deleted under the read thread.
NoUseAfterDelete ==
  object # "alive" =>
    ~Uses("media", {"vad", "write", "writeConfig", "drain"}) /\ todo["read"] = <<>>

\* The streamer's calls are in the order that gRPC asks for, though no mutex guards them: one
\* half-close, no write after it, one value for the promise.  (cobalt's Finish may meet a
\* write, and start_timers a stream that is not open yet: README, section 5.)
StreamContract == broken \subseteq {"noStream", "writeAfterFinish"}

\* Everyone waits for everyone: a stop for the lock of the bugs, the hangup for the mutex.
StopMeetsHangup == lock = "api" /\ At("api", "bug_remove") /\ bugs = "hangup" /\ At("hangup", "lock")

\* A stop and a hangup complete, except that they may meet each other.
StopCompletes ==
  []<>(todo["api"] = <<>> /\ todo["hangup"] = <<>>) \/ <>[]StopMeetsHangup
=============================================================================
