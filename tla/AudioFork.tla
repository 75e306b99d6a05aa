------------------------------ MODULE AudioFork ------------------------------
(***************************************************************************)
(* The forks of one channel under one bugname (mod_audio_fork.c and        *)
(* lws_glue.cpp): start, stop, the commands in between, the hangup, the    *)
(* media thread, the events of the service thread and the reapers.         *)
(*                                                                         *)
(* A fork f stands for the private_t, its media bug and its AudioPipe; the *)
(* pipe itself is PipeLife, which AudioPipe implements.  A thread t is at  *)
(* pc[t] and works for the fork mine[t]; fork_session_cleanup is called by *)
(* stop, by the CLOSE of a bug at hangup and by the CLOSE inside           *)
(* media_bug_remove, and goes on at ret[t] when it returns.                *)
(* tech_pvt->mutex is mutex[f]; bugLock is session->bug_rwlock of the      *)
(* FreeSWITCH core, as the comment in fork_session_cleanup describes it.   *)
(***************************************************************************)
EXTENDS PipeLife, FiniteSets

CONSTANTS
  Callers,    \* threads that run uuid_audio_fork
  NoFork,     \* no private, no fork
  NoThread,   \* a lock that is free
  MaxFiles,   \* bound: temp files of one fork
  Overlap     \* FALSE: nothing else is done to the channel while a start runs

Forks   == Pipes
Threads == Callers \cup {"hangup", "svc", "media"}

ASSUME AudioForkAssumption ==
  /\ NoFork \notin Forks /\ NoThread \notin Threads
  /\ {"hangup", "svc", "media"} \cap Callers = {}
  /\ MaxFiles \in Nat /\ Overlap \in BOOLEAN

VARIABLES
  ptr,       \* tech_pvt->pAudioPipe # NULL
  mutex,     \* the holder of tech_pvt->mutex
  private,   \* the channel's private under the bugname: a fork's bug
  bugs,      \* the bugs attached to the session
  bugLock,   \* who holds session->bug_rwlock (one media thread reads)
  asked,     \* the forks whose AudioPipe::connect was called
  pc, mine, ret,
  victim,    \* fork_session_cleanup's bug_to_remove
  reaping,   \* the reaper of a fork: none, close, freed, done
  active,    \* g_activePipes
  listed,    \* files in tech_pvt->playout
  disk,      \* files written for the fork that are still on disk
  unloaded,  \* mod_audio_fork_shutdown has gone through
  crashed    \* a null AudioPipe was used: the process is gone

glueVars   == <<ptr, mutex, private, bugs, bugLock, asked>>
threadVars == <<pc, mine, ret, victim>>
gateVars   == <<reaping, active, unloaded>>
fileVars   == <<listed, disk>>
vars == <<lifeVars, glueVars, threadVars, gateVars, fileVars, crashed>>

Init ==
  /\ LifeInit
  /\ ptr = [f \in Forks |-> FALSE] /\ mutex = [f \in Forks |-> NoThread]
  /\ private = NoFork /\ bugs = {} /\ bugLock = NoThread /\ asked = {}
  /\ pc = [t \in Threads |-> "idle"] /\ mine = [t \in Threads |-> NoFork]
  /\ ret = [t \in Threads |-> "idle"] /\ victim = [t \in Threads |-> NoFork]
  /\ reaping = [f \in Forks |-> "none"] /\ active = 0 /\ unloaded = FALSE
  /\ listed = [f \in Forks |-> 0] /\ disk = [f \in Forks |-> 0]
  /\ crashed = FALSE

At(t, l)       == pc[t] = l
Goes(t, l)     == pc' = [pc EXCEPT ![t] = l] /\ UNCHANGED <<mine, ret, victim>>
GoesFor(t, l, f) == pc' = [pc EXCEPT ![t] = l] /\ mine' = [mine EXCEPT ![t] = f]
                    /\ UNCHANGED <<ret, victim>>
\* The call is over, and its local variables with it.
Returns(t) == /\ pc' = [pc EXCEPT ![t] = "idle"] /\ ret' = [ret EXCEPT ![t] = "idle"]
              /\ mine' = [mine EXCEPT ![t] = NoFork] /\ victim' = [victim EXCEPT ![t] = NoFork]
Lock(t)        == mutex[mine[t]] = NoThread /\ mutex' = [mutex EXCEPT ![mine[t]] = t]
Unlock(t)      == mutex' = [mutex EXCEPT ![mine[t]] = NoThread]
SetOwner(f, o) == own' = [own EXCEPT ![f] = o] /\ UNCHANGED <<state, signaled>>

-----------------------------------------------------------------------------
(* start_capture.                                                          *)

StartPc == {"init", "destroy", "count", "add", "unattached", "uncount", "publish", "readPipe",
            "connect"}
Starting(t) == pc[t] \in StartPc
Quiet == \A t \in Callers \cup {"hangup"} : At(t, "idle")

\* A call finds the session (switch_core_session_locate) until it is destroyed, and the
\* core does not unload a module whose API is running.
Call(t) == /\ t \in Callers /\ At(t, "idle") /\ ~At("hangup", "gone") /\ ~unloaded
           /\ Overlap \/ \A u \in Callers : ~Starting(u)

\* The first look: no bug of this name yet.
Start(t) ==
  /\ Call(t) /\ (Overlap \/ Quiet)
  /\ private = NoFork
  /\ Goes(t, "init")
  /\ UNCHANGED <<lifeVars, glueVars, gateVars, fileVars, crashed>>

\* fork_data_init: the pipe is made; the resampler may fail ...
InitSession(t) ==
  /\ At(t, "init")
  /\ \E f \in Forks : /\ own[f] = "unborn"
                      /\ SetOwner(f, "user")
                      /\ ptr' = [ptr EXCEPT ![f] = TRUE]
                      /\ GoesFor(t, "count", f) \/ GoesFor(t, "destroy", f)
  /\ UNCHANGED <<mutex, private, bugs, bugLock, asked, gateVars, fileVars, crashed>>

\* ... and then destroy_tech_pvt deletes the pipe again.
InitFailed(t) ==
  /\ At(t, "destroy") /\ ptr[mine[t]]
  /\ SetOwner(mine[t], "freed") /\ ptr' = [ptr EXCEPT ![mine[t]] = FALSE]
  /\ Returns(t)
  /\ UNCHANGED <<mutex, private, bugs, bugLock, asked, gateVars, fileVars, crashed>>

CountPipe(t) ==
  /\ At(t, "count")
  /\ active' = active + 1
  /\ Goes(t, "add")
  /\ UNCHANGED <<lifeVars, glueVars, reaping, unloaded, fileVars, crashed>>

\* switch_core_media_bug_add with SMBF_ONE_ONLY; no bug is added after the hangup began.
AddBug(t) ==
  /\ At(t, "add") /\ bugLock = NoThread
  /\ \/ bugs = {} /\ At("hangup", "idle") /\ bugs' = {mine[t]} /\ Goes(t, "publish")
     \/ (bugs # {} \/ ~At("hangup", "idle")) /\ UNCHANGED bugs /\ Goes(t, "unattached")
  /\ UNCHANGED <<lifeVars, ptr, mutex, private, bugLock, asked, gateVars, fileVars, crashed>>

\* fork_session_cleanup_unattached: the pipe was never connected and is deleted here ...
Unattached(t) ==
  /\ At(t, "unattached") /\ mutex[mine[t]] = NoThread
  /\ ptr[mine[t]]
  /\ SetOwner(mine[t], "freed") /\ ptr' = [ptr EXCEPT ![mine[t]] = FALSE]
  /\ Goes(t, "uncount")
  /\ UNCHANGED <<mutex, private, bugs, bugLock, asked, gateVars, fileVars, crashed>>

\* ... and then the gate is released.
Uncount(t) ==
  /\ At(t, "uncount")
  /\ active' = active - 1
  /\ Returns(t)
  /\ UNCHANGED <<lifeVars, glueVars, reaping, unloaded, fileVars, crashed>>

\* switch_channel_set_private.
Publish(t) ==
  /\ At(t, "publish")
  /\ private' = mine[t]
  /\ Goes(t, "readPipe")
  /\ UNCHANGED <<lifeVars, ptr, mutex, bugs, bugLock, asked, gateVars, fileVars, crashed>>

\* fork_session_connect reads pAudioPipe, without the mutex, and calls connect on it.
ReadPipe(t) ==
  /\ At(t, "readPipe")
  /\ IF ptr[mine[t]] THEN Goes(t, "connect") /\ UNCHANGED crashed
                     ELSE crashed' = TRUE /\ UNCHANGED threadVars
  /\ UNCHANGED <<lifeVars, glueVars, gateVars, fileVars>>

ConnectPipe(t) ==
  /\ At(t, "connect")
  /\ asked' = asked \cup {mine[t]}
  /\ Returns(t)
  /\ UNCHANGED <<lifeVars, ptr, mutex, private, bugs, bugLock, gateVars, fileVars, crashed>>

-----------------------------------------------------------------------------
(* fork_session_cleanup.                                                   *)

Stop(t) ==
  /\ Call(t)
  /\ Goes(t, "lookup")
  /\ UNCHANGED <<lifeVars, glueVars, gateVars, fileVars, crashed>>

CleanupReturns(t) == IF ret[t] = "idle" THEN Returns(t) ELSE Goes(t, ret[t])

\* The bug is read from the channel, tech_pvt from the bug.
Lookup(t) ==
  /\ At(t, "lookup")
  /\ IF private = NoFork THEN CleanupReturns(t) ELSE GoesFor(t, "lock", private)
  /\ UNCHANGED <<lifeVars, glueVars, gateVars, fileVars, crashed>>

CleanupLock(t) ==
  /\ At(t, "lock") /\ Lock(t)
  /\ Goes(t, "clear")
  /\ UNCHANGED <<lifeVars, ptr, private, bugs, bugLock, asked, gateVars, fileVars, crashed>>

\* The private is read again.  Whatever bug is there now is the one that will be removed.
Clear(t) ==
  /\ At(t, "clear")
  /\ IF private = NoFork
     THEN Unlock(t) /\ CleanupReturns(t) /\ UNCHANGED private
     ELSE /\ private' = NoFork /\ victim' = [victim EXCEPT ![t] = private]
          /\ pc' = [pc EXCEPT ![t] = "reap"]
          /\ UNCHANGED <<mutex, mine, ret>>
  /\ UNCHANGED <<lifeVars, ptr, bugs, bugLock, asked, gateVars, fileVars, crashed>>

\* reaper(): the pipe is taken out of tech_pvt and given to a new thread.
HandToReaper(f) ==
  /\ SetOwner(f, "reaper")
  /\ ptr' = [ptr EXCEPT ![f] = FALSE]
  /\ reaping' = [reaping EXCEPT ![f] = "close"]
AfterReap(t) == IF ret[t] = "idle" THEN "remove" ELSE ret[t]

\* Mutant of Reap: the mutex is kept until the bug is removed.
ReapKeepsMutex(t) ==
  /\ At(t, "reap")
  /\ listed' = [listed EXCEPT ![mine[t]] = 0]
  /\ disk' = [disk EXCEPT ![mine[t]] = @ - listed[mine[t]]]
  /\ IF ptr[mine[t]] THEN HandToReaper(mine[t]) ELSE UNCHANGED <<lifeVars, ptr, reaping>>
  /\ Goes(t, AfterReap(t))
  /\ UNCHANGED <<mutex, private, bugs, bugLock, asked, active, unloaded, crashed>>

\* Mutant of Reap: no reaper when the channel is closing.
ReapOnlyAtStop(t) ==
  /\ At(t, "reap")
  /\ listed' = [listed EXCEPT ![mine[t]] = 0]
  /\ disk' = [disk EXCEPT ![mine[t]] = @ - listed[mine[t]]]
  /\ IF ptr[mine[t]] /\ ret[t] = "idle"
     THEN HandToReaper(mine[t]) ELSE UNCHANGED <<lifeVars, ptr, reaping>>
  /\ Unlock(t)
  /\ Goes(t, AfterReap(t))
  /\ UNCHANGED <<private, bugs, bugLock, asked, active, unloaded, crashed>>

\* The files are removed, the pipe is handed over if it is still there, and the mutex is
\* released.  Not at a CLOSE: then the bug is removed.
Reap(t) ==
  /\ At(t, "reap")
  /\ listed' = [listed EXCEPT ![mine[t]] = 0]
  /\ disk' = [disk EXCEPT ![mine[t]] = @ - listed[mine[t]]]
  /\ IF ptr[mine[t]] THEN HandToReaper(mine[t]) ELSE UNCHANGED <<lifeVars, ptr, reaping>>
  /\ Unlock(t)
  /\ Goes(t, AfterReap(t))
  /\ UNCHANGED <<private, bugs, bugLock, asked, active, unloaded, crashed>>

\* switch_core_media_bug_remove: nothing if the bug is gone already, else the bug leaves the
\* list and its CLOSE comes, under the write lock.
RemoveBug(t) ==
  /\ At(t, "remove") /\ bugLock = NoThread
  /\ IF victim[t] \in bugs
     THEN /\ bugs' = bugs \ {victim[t]} /\ bugLock' = t
          /\ pc' = [pc EXCEPT ![t] = "lookup"] /\ ret' = [ret EXCEPT ![t] = "removed"]
          /\ UNCHANGED <<mine, victim>>
     ELSE UNCHANGED <<bugs, bugLock>> /\ Returns(t)
  /\ UNCHANGED <<lifeVars, ptr, mutex, private, asked, gateVars, fileVars, crashed>>

Removed(t) ==
  /\ At(t, "removed")
  /\ bugLock' = NoThread
  /\ Returns(t)
  /\ UNCHANGED <<lifeVars, ptr, mutex, private, bugs, asked, gateVars, fileVars, crashed>>

-----------------------------------------------------------------------------
(* The hangup: switch_core_media_bug_remove_all, then the end of the session.  *)

Hangup ==
  /\ At("hangup", "idle") /\ bugLock = NoThread
  /\ Overlap \/ \A t \in Callers : ~Starting(t)
  /\ bugLock' = "hangup"
  /\ Goes("hangup", "closing")
  /\ UNCHANGED <<lifeVars, ptr, mutex, private, bugs, asked, gateVars, fileVars, crashed>>

\* capture_callback(SWITCH_ABC_TYPE_CLOSE) of each bug, with the write lock held.
CloseBug ==
  /\ At("hangup", "closing") /\ bugs # {}
  /\ \E f \in bugs : bugs' = bugs \ {f}
  /\ pc' = [pc EXCEPT !["hangup"] = "lookup"] /\ ret' = [ret EXCEPT !["hangup"] = "closing"]
  /\ UNCHANGED <<mine, victim>>
  /\ UNCHANGED <<lifeVars, ptr, mutex, private, bugLock, asked, gateVars, fileVars, crashed>>

AllClosed ==
  /\ At("hangup", "closing") /\ bugs = {}
  /\ bugLock' = NoThread
  /\ Goes("hangup", "down")
  /\ UNCHANGED <<lifeVars, ptr, mutex, private, bugs, asked, gateVars, fileVars, crashed>>

\* The session is destroyed when nobody holds its read lock.
SessionGone ==
  /\ At("hangup", "down") /\ \A t \in Callers \cup {"svc", "media"} : At(t, "idle")
  /\ Goes("hangup", "gone")
  /\ UNCHANGED <<lifeVars, glueVars, gateVars, fileVars, crashed>>

-----------------------------------------------------------------------------
(* send_text, pause, resume and graceful-shutdown have the same shape: look up, lock,  *)
(* verify, use, unlock.                                                    *)

Command(t) ==
  /\ Call(t) /\ private # NoFork
  /\ GoesFor(t, "useLock", private)
  /\ UNCHANGED <<lifeVars, glueVars, gateVars, fileVars, crashed>>

UseLock(t) ==
  /\ At(t, "useLock") /\ Lock(t)
  /\ Goes(t, "verify")
  /\ UNCHANGED <<lifeVars, ptr, private, bugs, bugLock, asked, gateVars, fileVars, crashed>>

\* Mutant of Verify: a pipe that was handed to its reaper is used.
VerifyNothing(t) ==
  /\ At(t, "verify") /\ Goes(t, "use")
  /\ UNCHANGED <<lifeVars, glueVars, gateVars, fileVars, crashed>>

\* A command needs the private to be still its bug, an event does not look; both need the
\* pipe.
Verify(t) ==
  /\ At(t, "verify")
  /\ IF ptr[mine[t]] /\ (t = "svc" \/ private = mine[t])
     THEN Goes(t, "use") /\ UNCHANGED mutex
     ELSE Returns(t) /\ Unlock(t)
  /\ UNCHANGED <<lifeVars, ptr, private, bugs, bugLock, asked, gateVars, fileVars, crashed>>

Used(t) ==
  /\ At(t, "use") /\ t # "media"
  /\ Unlock(t)
  /\ Returns(t)
  /\ UNCHANGED <<lifeVars, ptr, private, bugs, bugLock, asked, gateVars, fileVars, crashed>>

\* fork_frame, called by the core with the read lock held: it only tries the mutex.
Frame(f) ==
  /\ At("media", "idle") /\ f \in bugs /\ bugLock = NoThread
  /\ mutex[f] = NoThread /\ ptr[f] /\ state[f] = "CONNECTED"
  /\ bugLock' = "media" /\ mutex' = [mutex EXCEPT ![f] = "media"]
  /\ GoesFor("media", "use", f)
  /\ UNCHANGED <<lifeVars, ptr, private, bugs, asked, gateVars, fileVars, crashed>>

FrameDone ==
  /\ At("media", "use")
  /\ bugLock' = NoThread /\ Unlock("media")
  /\ Returns("media")
  /\ UNCHANGED <<lifeVars, ptr, private, bugs, asked, gateVars, fileVars, crashed>>

-----------------------------------------------------------------------------
(* The service thread: the progress of the pipes, and eventCallback.       *)

\* The connection of a pipe moves on when the service thread is in no callback.
Connection ==
  /\ At("svc", "idle") /\ ~unloaded
  /\ \/ Adopt /\ \A f \in Forks : state'[f] # state[f] => f \in asked
     \/ \E f \in asked : Fails(f) \/ Up(f) \/ Ends(f) \/ Signals(f)
  /\ UNCHANGED <<glueVars, threadVars, gateVars, fileVars, crashed>>

\* eventCallback of a pipe p looks the fork up by the bugname: it need not be p's.
\* CONNECT_SUCCESS: the initial metadata is sent under the mutex.
ConnectEvent(p) ==
  /\ At("svc", "idle") /\ state[p] \in {"CONNECTED", "DISCONNECTING"}
  /\ ~At("hangup", "gone") /\ private # NoFork
  /\ GoesFor("svc", "useLock", private)
  /\ UNCHANGED <<lifeVars, glueVars, gateVars, fileVars, crashed>>

\* MESSAGE playAudio: the file is written, ...
PlayAudio(p) ==
  /\ At("svc", "idle") /\ state[p] \in {"CONNECTED", "DISCONNECTING"}
  /\ ~At("hangup", "gone") /\ private # NoFork
  /\ disk[private] < MaxFiles
  /\ disk' = [disk EXCEPT ![private] = @ + 1]
  /\ GoesFor("svc", "append", private)
  /\ UNCHANGED <<lifeVars, glueVars, gateVars, listed, crashed>>

\* ... and put in the list under the mutex.
ListFile ==
  /\ At("svc", "append") /\ mutex[mine["svc"]] = NoThread
  /\ listed' = [listed EXCEPT ![mine["svc"]] = @ + 1]
  /\ Returns("svc")
  /\ UNCHANGED <<lifeVars, glueVars, gateVars, disk, crashed>>

-----------------------------------------------------------------------------
(* The reapers, and the unloading of the module.                           *)

ReaperCloses(f) ==
  /\ reaping[f] = "close" /\ Closes(f)
  /\ UNCHANGED <<glueVars, threadVars, gateVars, fileVars, crashed>>

\* Mutant of Delete: the pipe is deleted without waitForClose.
DeleteAtOnce(f) ==
  /\ reaping[f] = "close"
  /\ SetOwner(f, "freed")
  /\ reaping' = [reaping EXCEPT ![f] = "freed"]
  /\ UNCHANGED <<glueVars, threadVars, active, unloaded, fileVars, crashed>>

\* waitForClose returns and the pipe is deleted, ...
Delete(f) ==
  /\ reaping[f] = "close" /\ signaled[f]
  /\ SetOwner(f, "freed")
  /\ reaping' = [reaping EXCEPT ![f] = "freed"]
  /\ UNCHANGED <<glueVars, threadVars, active, unloaded, fileVars, crashed>>

\* Mutant of ReleaseGate: the gate is released before the pipe is deleted.
ReleaseGateEarly(f) ==
  /\ reaping[f] = "close"
  /\ reaping' = [reaping EXCEPT ![f] = "done"]
  /\ active' = active - 1
  /\ UNCHANGED <<lifeVars, glueVars, threadVars, unloaded, fileVars, crashed>>

\* ... and only then the gate is released.
ReleaseGate(f) ==
  /\ reaping[f] = "freed"
  /\ reaping' = [reaping EXCEPT ![f] = "done"]
  /\ active' = active - 1
  /\ UNCHANGED <<lifeVars, glueVars, threadVars, unloaded, fileVars, crashed>>

\* mod_audio_fork_shutdown, while no API call runs: refused while pipes are counted.
Unload ==
  /\ ~unloaded /\ active = 0
  /\ \A t \in Callers \cup {"svc"} : At(t, "idle")
  /\ unloaded' = TRUE
  /\ UNCHANGED <<lifeVars, glueVars, threadVars, reaping, active, fileVars, crashed>>

-----------------------------------------------------------------------------
StartStep(t) == InitSession(t) \/ InitFailed(t) \/ CountPipe(t) \/ AddBug(t) \/ Unattached(t)
                \/ Uncount(t) \/ Publish(t) \/ ReadPipe(t) \/ ConnectPipe(t)
CleanupStep(t) == Lookup(t) \/ CleanupLock(t) \/ Clear(t) \/ Reap(t) \/ RemoveBug(t)
                  \/ Removed(t)
UseStep(t) == UseLock(t) \/ Verify(t) \/ Used(t)
ReaperStep(f) == ReaperCloses(f) \/ Delete(f) \/ ReleaseGate(f)
HangupStep == CloseBug \/ AllClosed \/ SessionGone

Next ==
     \/ \E t \in Callers : Start(t) \/ Stop(t) \/ Command(t) \/ StartStep(t)
     \/ \E t \in Callers \cup {"hangup"} : CleanupStep(t)
     \/ \E t \in Callers \cup {"svc"} : UseStep(t)
     \/ Hangup \/ HangupStep \/ FrameDone \/ Connection \/ ListFile \/ Unload
     \/ \E f \in Forks : Frame(f) \/ ConnectEvent(f) \/ PlayAudio(f) \/ ReaperStep(f)

Spec == Init /\ [][Next]_vars

\* Threads run; a lock that others take again and again is got at some time.  A connection
\* that was asked for comes to an end when it is not up: AudioPipe, ReaperCompletes (and so
\* not after a graceful shutdown).  Nobody is obliged to call, and the far end need not
\* close.
Moves(f) == /\ Connection /\ state[f] # "CONNECTED"
            /\ state'[f] # state[f] \/ signaled'[f] # signaled[f]
FairSpec ==
  /\ Spec
  /\ \A t \in Callers : SF_vars(StartStep(t) \/ CleanupStep(t) \/ UseStep(t))
  /\ SF_vars(CleanupStep("hangup") \/ HangupStep)
  /\ SF_vars(UseStep("svc") \/ ListFile) /\ WF_vars(FrameDone)
  /\ \A f \in Forks : SF_vars(Moves(f)) /\ WF_vars(ReaperStep(f))

-----------------------------------------------------------------------------
(* Correctness.                                                            *)

\* A pipe that a command, an event or the media thread uses is not deleted, and not even
\* handed to its reaper, whatever stop or hangup does meanwhile; and connect() is never
\* called on a deleted one (the comments in send_text and eventCallback).
LiveWhileUsed ==
  \A t \in Threads : /\ At(t, "use") => own[mine[t]] = "user" /\ mutex[mine[t]] = t
                     /\ At(t, "connect") => own[mine[t]] \in {"user", "reaper"}

\* No two threads wait for each other's lock: stop must not hold tech_pvt->mutex when it
\* asks for the bug lock, under which hangup asks for the mutex ("ABBA deadlock").
WaitsFor(t, u) == \/ pc[t] \in {"lock", "useLock", "append"} /\ mutex[mine[t]] = u
                  \/ pc[t] \in {"remove", "add"} /\ bugLock = u
NoLockCycle == \A t, u \in Threads : ~(WaitsFor(t, u) /\ WaitsFor(u, t))

\* The module is not unloaded under a pipe or its reaper (mod_audio_fork_shutdown).
NoPipeAfterUnload ==
  unloaded => \A f \in Forks : own[f] \notin {"user", "reaper"} /\ reaping[f] # "close"

\* The glue keeps the owner's side of PipeLife: one reaper for a pipe, a pipe is deleted on
\* the spot only if it was never connected, and otherwise after its end was signalled.
KeepsLife == LifeSpec

\* "From here the pipe is live; it is released either by fork_session_cleanup_unattached or
\* by the reaper" (fork_session_init): when the session is gone no pipe is left.
NoOrphan == At("hangup", "gone") => \A f \in Forks : own[f] # "user"

\* After the hangup every pipe is reaped and the module can be unloaded again: no reaper and
\* no cleanup waits for ever, though locks and signals come from four kinds of threads.
GateOpens == ~At("hangup", "idle") ~> active = 0

=============================================================================
