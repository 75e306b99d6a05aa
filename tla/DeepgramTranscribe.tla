------------------------- MODULE DeepgramTranscribe -------------------------
(***************************************************************************)
(* One channel under mod_deepgram_transcribe: the API commands start and   *)
(* stop, the hangup, the media thread and the unload of the module, over   *)
(* the pipes of module DeepgramPipe.  Every start makes a bug, with its    *)
(* private_t and its pipe; at most one is named by the channel private.    *)
(*                                                                         *)
(* bugs is the rwlock of the session's bugs, mutex[b] tech_pvt->mutex.     *)
(***************************************************************************)
EXTENDS DeepgramPipe

CONSTANTS Starters, Stoppers   \* the threads of start and of stop commands

VARIABLES
  context,    \* lws_service_thread has created its context
  loaded,     \* the module is
  alive,      \* the session can be located
  private,    \* the bug the channel private names
  attached,   \* the bugs in the session's list
  bugs, mutex,
  at, bug,    \* where each caller and the hangup are, and with which bug
  closing,    \* they are in the CLOSE callback
  resume,     \* what follows a stop: nothing, or the rest of a start
  holds,      \* those whose tech_pvt->pAudioPipe is set
  active,     \* g_activePipes
  raced       \* history: bugs that were published one over the other, or after the hangup had
              \* closed them, or that the stop of such a bug took off the channel

callVars == <<at, bug, closing, resume>>
fsVars   == <<alive, private, attached, bugs>>
glueVars == <<context, loaded, mutex, holds, active, raced>>
vars     == <<pipeVars, callVars, fsVars, glueVars>>

Hangup == "hangup"
Callers == Starters \cup Stoppers
Owners == Callers \cup {Hangup}

ASSUME DeepgramTranscribeAssumption == {"free", "media"} \cap Callers = {}

Init ==
  /\ PipeInit
  /\ context \in BOOLEAN /\ loaded = TRUE /\ alive = TRUE /\ private = NoBug /\ attached = {}
  /\ bugs = "free" /\ mutex = [b \in Bugs |-> "free"]
  /\ at = [o \in Owners |-> "idle"] /\ bug = [o \in Owners |-> NoBug]
  /\ closing = [o \in Owners |-> FALSE] /\ resume = [o \in Owners |-> "idle"]
  /\ holds = {} /\ active = 0 /\ raced = {}

Moves(o, from, to) == at[o] = from /\ at' = [at EXCEPT ![o] = to]

-----------------------------------------------------------------------------
(* The teardown, dg_transcribe_session_stop.                               *)

\* Its end: of the hangup's CLOSE, which lets go of the bugs, of a stop, or of the stop with
\* which a start begins.
Returns(o) ==
  /\ at' = [at EXCEPT ![o] = resume[o]] /\ bug' = [bug EXCEPT ![o] = NoBug]
  /\ closing' = [closing EXCEPT ![o] = FALSE] /\ resume' = [resume EXCEPT ![o] = "idle"]
  /\ bugs' = IF bugs = o THEN "free" ELSE bugs

\* dg_transcribe_function: a command finds the session.
Command(c) == alive /\ at[c] = "idle"

StopCommand(c) ==
  /\ Command(c) /\ private # NoBug /\ Moves(c, "idle", "lookup")
  /\ UNCHANGED <<pipeVars, bug, closing, resume, fsVars, glueVars>>

SessionGone ==
  /\ alive /\ alive' = FALSE
  /\ UNCHANGED <<pipeVars, callVars, private, attached, bugs, glueVars>>

\* The hangup closes the bugs under the write lock.
CloseBug(b) ==
  /\ ~alive /\ b \in attached /\ attached' = attached \ {b} /\ bugs = "free" /\ bugs' = Hangup
  /\ Moves(Hangup, "idle", "lookup") /\ closing' = [closing EXCEPT ![Hangup] = TRUE]
  /\ UNCHANGED <<pipeVars, bug, resume, alive, private, glueVars>>

\* Not its own bug but the one that is published is looked up.
Lookup(o) ==
  /\ at[o] = "lookup"
  /\ \/ /\ private # NoBug /\ Moves(o, "lookup", "lock") /\ bug' = [bug EXCEPT ![o] = private]
        /\ UNCHANGED <<closing, resume, bugs>>
     \/ private = NoBug /\ Returns(o)
  /\ UNCHANGED <<pipeVars, alive, private, attached, glueVars>>

LockMutex(o) ==
  /\ Moves(o, "lock", "verify") /\ mutex[bug[o]] = "free" /\ mutex' = [mutex EXCEPT ![bug[o]] = o]
  /\ UNCHANGED <<pipeVars, bug, closing, resume, fsVars, context, loaded, holds, active, raced>>

\* Mutant of Verify: as it was before the check under the lock.
VerifyNothing(o) ==
  /\ Moves(o, "verify", "clear")
  /\ UNCHANGED <<pipeVars, bug, closing, resume, fsVars, glueVars>>

\* Another stop may have been here since.
Verify(o) ==
  /\ at[o] = "verify"
  /\ \/ /\ private = bug[o] /\ Moves(o, "verify", "clear")
        /\ UNCHANGED <<bug, closing, resume, bugs, mutex>>
     \/ private # bug[o] /\ Returns(o) /\ mutex' = [mutex EXCEPT ![bug[o]] = "free"]
  /\ UNCHANGED <<pipeVars, alive, private, attached, context, loaded, holds, active, raced>>

\* Mutant of Clear: the private of the command's bugname is cleared, not the one that was read.
ClearBugname(o) ==
  /\ Moves(o, "clear", "reap")
  /\ UNCHANGED <<pipeVars, bug, closing, resume, fsVars, glueVars>>

\* What is published by now is cleared: bug[o], or, if that one was raced for, perhaps another.
Clear(o) ==
  /\ Moves(o, "clear", "reap") /\ private' = NoBug
  /\ raced' = IF bug[o] \in raced THEN raced \cup ({private} \ {NoBug}) ELSE raced
  /\ UNCHANGED <<pipeVars, bug, closing, resume, alive, attached, bugs, context, loaded, mutex, holds, active>>

\* The reaper gets the pipe; the mutex is released.
Reap(o) ==
  /\ at[o] = "reap" /\ mutex' = [mutex EXCEPT ![bug[o]] = "free"]
  /\ IF bug[o] \in holds THEN StartReaper(bug[o]) /\ holds' = holds \ {bug[o]}
                         ELSE UNCHANGED <<pipeVars, holds>>
  /\ IF closing[o] THEN Returns(o)
                   ELSE Moves(o, "reap", "remove") /\ UNCHANGED <<bug, closing, resume, bugs>>
  /\ UNCHANGED <<alive, private, attached, context, loaded, active, raced>>

\* bug_remove takes the write lock of the bugs for a moment, and fires the CLOSE of a bug that
\* is still there, in this thread.
Remove(o) ==
  /\ at[o] = "remove" /\ bugs = "free"
  /\ \/ /\ bug[o] \in attached /\ attached' = attached \ {bug[o]} /\ Moves(o, "remove", "lookup")
        /\ closing' = [closing EXCEPT ![o] = TRUE] /\ UNCHANGED <<bug, resume, bugs>>
     \/ bug[o] \notin attached /\ Returns(o) /\ UNCHANGED attached
  /\ UNCHANGED <<pipeVars, alive, private, glueVars>>

-----------------------------------------------------------------------------
(* start_capture.                                                          *)

StartCommand(c) ==
  /\ Command(c)
  /\ IF private = NoBug
     THEN Moves(c, "idle", "init") /\ UNCHANGED resume
     ELSE Moves(c, "idle", "lookup") /\ resume' = [resume EXCEPT ![c] = "init"]
  /\ UNCHANGED <<pipeVars, bug, closing, fsVars, glueVars>>

\* No codec yet, no pre_answer, no API key; or no resampler, and destroy_tech_pvt deletes the
\* pipe again.
Refused(c) ==
  /\ Moves(c, "init", "idle")
  /\ UNCHANGED <<pipeVars, bug, closing, resume, fsVars, glueVars>>

\* fork_data_init.
ForkDataInit(c) ==
  /\ Moves(c, "init", "connect") /\ \E b \in Bugs : state[b] = "none"
  /\ LET b == CHOOSE b \in Bugs : state[b] = "none"
     IN  NewPipe(b) /\ bug' = [bug EXCEPT ![c] = b] /\ holds' = holds \cup {b}
  /\ UNCHANGED <<closing, resume, fsVars, context, loaded, mutex, active, raced>>

Connect(c) ==
  /\ Moves(c, "connect", "count") /\ ConnectPipe(bug[c], context)
  /\ UNCHANGED <<bug, closing, resume, fsVars, glueVars>>

\* ++g_activePipes, after the connect.
Count(c) ==
  /\ Moves(c, "count", "add") /\ active' = active + 1
  /\ UNCHANGED <<pipeVars, bug, closing, resume, fsVars, context, loaded, mutex, holds, raced>>

\* bug_add, or dg_transcribe_session_cleanup: nobody else knows this tech_pvt.
BugAdd(c) ==
  /\ Moves(c, "add", "publish") /\ bugs = "free" /\ attached' = attached \cup {bug[c]}
  /\ UNCHANGED <<pipeVars, bug, closing, resume, alive, private, bugs, glueVars>>

BugAddFails(c) ==
  /\ at[c] = "add" /\ bugs = "free" /\ Returns(c)
  /\ StartReaper(bug[c]) /\ holds' = holds \ {bug[c]}
  /\ UNCHANGED <<alive, private, attached, context, loaded, mutex, active, raced>>

Publish(c) ==
  /\ at[c] = "publish" /\ private' = bug[c] /\ Returns(c)
  /\ raced' = raced \cup (IF private = NoBug THEN {} ELSE {private, bug[c]})
                    \cup (IF bug[c] \in attached THEN {} ELSE {bug[c]})
  /\ UNCHANGED <<pipeVars, alive, attached, context, loaded, mutex, holds, active>>

-----------------------------------------------------------------------------
(* The media thread, the reaper's last step, the unload.                   *)

\* dg_transcribe_frame up to the lock of the audio buffer; a frame that gets no further
\* changes nothing.
Frame(b) ==
  /\ b \in attached \cap holds /\ bugs = "free" /\ bugs' = "media"
  /\ mutex[b] = "free" /\ mutex' = [mutex EXCEPT ![b] = "media"]
  /\ state[b] = "connected" /\ LockAudioBuffer(b)
  /\ UNCHANGED <<callVars, alive, private, attached, context, loaded, holds, active, raced>>

FrameWritten(b) ==
  /\ audioLock = b /\ UnlockAudioBuffer(b)
  /\ mutex' = [mutex EXCEPT ![b] = "free"] /\ bugs' = "free"
  /\ UNCHANGED <<callVars, alive, private, attached, context, loaded, holds, active, raced>>

Uncount(b) ==
  /\ Goes(b, "uncount", "done") /\ active' = active - 1
  /\ UNCHANGED <<state, flagVars, bufVars, listVars, current, netVars,
                 callVars, fsVars, context, loaded, mutex, holds, raced>>

\* The shutdown function of the module.
Unload ==
  /\ active = 0 /\ pc[Service] = "poll" /\ loaded' = FALSE
  /\ UNCHANGED <<pipeVars, callVars, fsVars, context, mutex, holds, active, raced>>

OwnerStep(o) == Lookup(o) \/ LockMutex(o) \/ Verify(o) \/ Clear(o) \/ Reap(o) \/ Remove(o)
StartStep(c) ==
  \/ Refused(c) \/ ForkDataInit(c) \/ Connect(c) \/ Count(c)
  \/ BugAdd(c) \/ BugAddFails(c) \/ Publish(c)
Step == UNCHANGED <<callVars, fsVars, glueVars>>

\* Nothing runs in a module that was unloaded.
Next ==
  loaded /\ (
  \/ PipeStep /\ Step
  \/ \E o \in Owners : OwnerStep(o)
  \/ \E c \in Starters : StartCommand(c) \/ StartStep(c)
  \/ \E c \in Stoppers : StopCommand(c)
  \/ SessionGone \/ Unload
  \/ \E b \in Bugs : CloseBug(b) \/ Frame(b) \/ FrameWritten(b) \/ Uncount(b))

Spec == Init /\ [][Next]_vars

-----------------------------------------------------------------------------
\* The channel private never names a bug that is given up: the published bug has its pipe, whose
\* finish() nobody has begun, and it is in the session's list, unless the hangup took it off and
\* is about to clear the private, or a race at its publication left it there.  Its events are
\* another matter: eventCallback looks up what is published, so what a pipe that finishes
\* still sends is told under the name of a session that was started since, or of none.
HangupTakes(b) ==
  at[Hangup] = "lookup" \/ (at[Hangup] \in {"lock", "verify", "clear"} /\ bug[Hangup] = b)
PublishedIsLive ==
  private # NoBug =>
    /\ private \in holds /\ private \notin graceful \cup finished
    /\ private \in attached \cup raced \/ HangupTakes(private)

\* When the call is over and all has returned, every pipe was given to its reaper, though
\* stops, restarts and the hangup overlapped.  Three kinds of bugs are excepted (raced): two
\* that were published one over the other, by starts that overlapped; one that the hangup had
\* closed before it was published; and one that was published when the stop of a bug of one of
\* these kinds cleared the private.
NothingLeft ==
  ~alive /\ attached = {} /\ (\A o \in Owners : at[o] = "idle") => holds \subseteq raced

=============================================================================
