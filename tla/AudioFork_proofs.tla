--------------------------- MODULE AudioFork_proofs ---------------------------
(***************************************************************************)
(* What is proved of AudioFork for any number of forks and callers.        *)
(***************************************************************************)
EXTENDS AudioFork, FiniteSetTheorems, TLAPS

-----------------------------------------------------------------------------
(* The inductive invariant.                                                *)

Own       == {"unborn", "user", "reaper", "freed"}
PipeState == {"IDLE", "CONNECTING", "CONNECTED", "DISCONNECTING", "DISCONNECTED", "FAILED"}
CleanupPc == {"lookup", "lock", "clear", "reap"}
UsePc     == {"useLock", "verify", "use"}
CallerPc  == {"idle", "remove", "removed"} \cup StartPc \cup CleanupPc \cup UsePc
HangupPc  == {"idle", "closing", "down", "gone"} \cup CleanupPc

LifeTypes ==
  /\ own \in [Forks -> Own] /\ state \in [Forks -> PipeState] /\ signaled \in [Forks -> BOOLEAN]
  /\ ptr \in [Forks -> BOOLEAN] /\ mutex \in [Forks -> Threads \cup {NoThread}]
  /\ reaping \in [Forks -> {"none", "close", "freed", "done"}]
  /\ private \in Forks \cup {NoFork} /\ bugs \subseteq Forks /\ asked \subseteq Forks
  /\ bugLock \in Threads \cup {NoThread} /\ active \in Int /\ unloaded \in BOOLEAN

ThreadTypes ==
  /\ mine \in [Threads -> Forks \cup {NoFork}] /\ victim \in [Threads -> Forks \cup {NoFork}]
  /\ pc \in [Threads -> CallerPc \cup HangupPc \cup {"append"}]
  /\ \A t \in Callers : pc[t] \in CallerPc
  /\ pc["hangup"] \in HangupPc /\ pc["svc"] \in {"idle", "append"} \cup UsePc
  /\ pc["media"] \in {"idle", "use"}
  /\ ret \in [Threads -> {"idle", "closing", "removed"}]
  /\ pc["hangup"] \in CleanupPc => ret["hangup"] = "closing"
  /\ \A t \in Callers : ret[t] \in {"idle", "removed"}

TypeOK == LifeTypes /\ ThreadTypes

\* Who holds tech_pvt->mutex is inside a cleanup or a use of the fork; who holds the lock of the
\* bugs is under a CLOSE, or the media thread.
Holding   == {"clear", "reap", "verify", "use"}
OnItsFork == Holding \cup {"lock", "useLock", "append"}
Locks(t) ==
  /\ pc[t] \in OnItsFork => mine[t] \in Forks
  /\ pc[t] \in Holding => mutex[mine[t]] = t
  /\ \A f \in Forks : mutex[f] = t => pc[t] \in Holding /\ mine[t] = f
  /\ bugLock = t => \/ pc[t] = "closing" \/ (t = "media" /\ pc[t] = "use")
                    \/ (pc[t] \in CleanupPc \cup {"removed"} /\ ret[t] # "idle")

\* A pipe and its reaper.  Before connect() was called nothing happens to it.
Pipe(f) ==
  /\ ptr[f] <=> own[f] = "user"
  /\ reaping[f] = "close" <=> own[f] = "reaper"
  /\ reaping[f] \in {"freed", "done"} => own[f] = "freed"
  /\ f \notin asked => state[f] = "IDLE" /\ ~signaled[f]
  /\ own[f] = "unborn" => /\ f \notin asked \cup bugs /\ private # f
                          /\ \A t \in Threads : mine[t] # f

\* A start and its fork: until its bug is added nobody else knows it, until connect() is called
\* nobody deletes it.
Hidden  == {"destroy", "count", "add", "unattached", "uncount"}
Exposed == {"publish", "readPipe", "connect"}
StartInv(t) ==
  /\ pc[t] \in Hidden \cup Exposed =>
       /\ mine[t] \in Forks \ asked
       /\ \A u \in Threads \ {t} : pc[u] \in Hidden \cup Exposed => mine[u] # mine[t]
  /\ pc[t] \in Hidden =>
       /\ own[mine[t]] = IF pc[t] = "uncount" THEN "freed" ELSE "user"
       /\ reaping[mine[t]] = "none" /\ private # mine[t] /\ mine[t] \notin bugs
       /\ \A u \in Threads \ {t} : mine[u] # mine[t]
  /\ pc[t] \in Exposed => own[mine[t]] \in {"user", "reaper"}
  /\ pc[t] = "use" => own[mine[t]] = "user"

\* The forks that g_activePipes counts: from CountPipe on, until the reaper or the start that made
\* them has released the gate.
Counts(f) ==
  \/ own[f] = "user" /\ \A t \in Threads : pc[t] \in {"destroy", "count"} => mine[t] # f
  \/ reaping[f] \in {"close", "freed"}
  \/ \E t \in Threads : pc[t] = "uncount" /\ mine[t] = f
Counted == {f \in Forks : Counts(f)}

GateClosed ==
  unloaded => /\ \A t \in Callers : pc[t] = "idle"
              /\ \A f \in Forks : own[f] # "user" /\ reaping[f] \in {"none", "done"}
Gate == IsFiniteSet(Counted) /\ active = Cardinality(Counted) /\ GateClosed

IInv == /\ TypeOK
        /\ \A t \in Threads : Locks(t) /\ StartInv(t)
        /\ \A f \in Forks : Pipe(f)
        /\ Gate
\* Without overlap a start is alone with the service and the media thread, and who cleans up finds
\* the private of the fork that it has locked, or none.
Closers == Callers \cup {"hangup"}
Alone(t) ==
  /\ t \in Callers /\ Starting(t) => \A u \in Closers \ {t} : pc[u] = "idle"
  /\ t \in Callers /\ pc[t] \in {"init", "publish"} \cup Hidden => private = NoFork
  /\ pc[t] = "publish" => mine[t] \in bugs
  /\ pc[t] \in {"lock", "clear"} => private \in {NoFork, mine[t]}
  /\ pc[t] = "reap" => victim[t] = mine[t]
  /\ pc[t] = "remove" => victim[t] \in Forks /\ own[victim[t]] # "user"

\* Who will take a pipe: its start, the cleanup that has it, or, while it is published, a stop to
\* come or the hangup that has closed its bug.
InGoodHands(f) ==
  \/ \E t \in Callers : pc[t] \in Hidden \cup {"publish"} /\ mine[t] = f
  \/ \E t \in Closers : pc[t] = "reap" /\ mine[t] = f
  \/ private = f /\ f \in bugs
  \/ /\ private = f
     /\ pc["hangup"] = "lookup" \/ (pc["hangup"] \in {"lock", "clear"} /\ mine["hangup"] = f)

SessionEnds ==
  /\ pc["hangup"] \in {"down", "gone"} => bugs = {}
  /\ pc["hangup"] = "gone" => \A t \in Callers : pc[t] = "idle"

NoOverlapInv ==
  /\ \A t \in Closers : Alone(t)
  /\ SessionEnds
  /\ \A f \in Forks : own[f] = "user" => InGoodHands(f)

-----------------------------------------------------------------------------
(* The sets of program counters and the helpers of the actions are expanded *)
(* everywhere; each action and the parts of the invariant only where used. *)

USE AudioForkAssumption
    DEF Forks, Threads, Own, PipeState, StartPc, CleanupPc, UsePc, CallerPc, HangupPc, Holding, OnItsFork,
        Hidden, Exposed, Closers, At, Goes, GoesFor, Returns, Lock, Unlock, SetOwner, CleanupReturns,
        AfterReap, HandToReaper, Owner, Becomes, Alive, lifeVars, glueVars, threadVars, gateVars, fileVars

\* Every step of the glue keeps the types of the forks, their pipes and the channel.
LEMMA LifeTypesKept ==
  ASSUME TypeOK, \A t \in Threads : StartInv(t), [Next]_vars
  PROVE  LifeTypes'
<1> USE DEF TypeOK, LifeTypes, ThreadTypes, StartInv
<1>1. ASSUME NEW t \in Callers, Start(t) PROVE LifeTypes'
  BY <1>1 DEF Start, Call
<1>2. ASSUME NEW t \in Callers, Stop(t) PROVE LifeTypes'
  BY <1>2 DEF Stop, Call
<1>3. ASSUME NEW t \in Callers, Command(t) PROVE LifeTypes'
  BY <1>3 DEF Command, Call
<1>4. ASSUME NEW t \in Callers, InitSession(t) PROVE LifeTypes'
  BY <1>4 DEF InitSession
<1>5. ASSUME NEW t \in Callers, InitFailed(t) PROVE LifeTypes'
  BY <1>5 DEF InitFailed
<1>6. ASSUME NEW t \in Callers, CountPipe(t) PROVE LifeTypes'
  BY <1>6 DEF CountPipe
<1>7. ASSUME NEW t \in Callers, AddBug(t) PROVE LifeTypes'
  BY <1>7 DEF AddBug
<1>8. ASSUME NEW t \in Callers, Unattached(t) PROVE LifeTypes'
  BY <1>8 DEF Unattached
<1>9. ASSUME NEW t \in Callers, Uncount(t) PROVE LifeTypes'
  BY <1>9 DEF Uncount
<1>10. ASSUME NEW t \in Callers, Publish(t) PROVE LifeTypes'
  BY <1>10 DEF Publish
<1>11. ASSUME NEW t \in Callers, ReadPipe(t) PROVE LifeTypes'
  BY <1>11 DEF ReadPipe
<1>12. ASSUME NEW t \in Callers, ConnectPipe(t) PROVE LifeTypes'
  BY <1>12 DEF ConnectPipe
<1>13. ASSUME NEW t \in Closers, Lookup(t) PROVE LifeTypes'
  BY <1>13 DEF Lookup
<1>14. ASSUME NEW t \in Closers, CleanupLock(t) PROVE LifeTypes'
  BY <1>14 DEF CleanupLock
<1>15. ASSUME NEW t \in Closers, Clear(t) PROVE LifeTypes'
  BY <1>15 DEF Clear
<1>16. ASSUME NEW t \in Closers, Reap(t) PROVE LifeTypes'
  <2>1. /\ mutex' = [mutex EXCEPT ![mine[t]] = NoThread]
        /\ UNCHANGED <<private, bugs, bugLock, asked, active, unloaded>>
    BY <1>16 DEF Reap
  <2>2. CASE ptr[mine[t]]
    <3>1. /\ own' = [own EXCEPT ![mine[t]] = "reaper"] /\ ptr' = [ptr EXCEPT ![mine[t]] = FALSE]
          /\ reaping' = [reaping EXCEPT ![mine[t]] = "close"] /\ UNCHANGED <<state, signaled>>
      BY <1>16, <2>2 DEF Reap
    <3> QED
      BY <2>1, <3>1
  <2>3. CASE ~ptr[mine[t]]
    <3>1. UNCHANGED <<own, state, signaled, ptr, reaping>>
      BY <1>16, <2>3 DEF Reap
    <3> QED
      BY <2>1, <3>1
  <2> QED
    BY <2>2, <2>3
<1>17. ASSUME NEW t \in Closers, RemoveBug(t) PROVE LifeTypes'
  BY <1>17 DEF RemoveBug
<1>18. ASSUME NEW t \in Closers, Removed(t) PROVE LifeTypes'
  BY <1>18 DEF Removed
<1>19. ASSUME NEW t \in Callers \cup {"svc"}, UseLock(t) PROVE LifeTypes'
  BY <1>19 DEF UseLock
<1>20. ASSUME NEW t \in Callers \cup {"svc"}, Verify(t) PROVE LifeTypes'
  BY <1>20 DEF Verify
<1>21. ASSUME NEW t \in Callers \cup {"svc"}, Used(t) PROVE LifeTypes'
  BY <1>21 DEF Used
<1>22. CASE Hangup
  BY <1>22 DEF Hangup
<1>23. CASE CloseBug
  BY <1>23 DEF CloseBug
<1>24. CASE AllClosed
  BY <1>24 DEF AllClosed
<1>25. CASE SessionGone
  BY <1>25 DEF SessionGone
<1>26. CASE FrameDone
  BY <1>26 DEF FrameDone
<1>27. CASE Connection
  <2>1. UNCHANGED <<ptr, mutex, private, bugs, bugLock, asked, reaping, active, unloaded>>
    BY <1>27 DEF Connection
  <2>2. CASE Adopt
    BY <2>1, <2>2 DEF Adopt
  <2>3. ASSUME NEW f \in asked, Fails(f) PROVE LifeTypes'
    BY <2>1, <2>3 DEF Fails
  <2>4. ASSUME NEW f \in asked, Up(f) PROVE LifeTypes'
    BY <2>1, <2>4 DEF Up
  <2>5. ASSUME NEW f \in asked, Ends(f) PROVE LifeTypes'
    BY <2>1, <2>5 DEF Ends
  <2>6. ASSUME NEW f \in asked, Signals(f) PROVE LifeTypes'
    BY <2>1, <2>6 DEF Signals
  <2> QED
    BY <1>27, <2>2, <2>3, <2>4, <2>5, <2>6 DEF Connection
<1>28. CASE ListFile
  BY <1>28 DEF ListFile
<1>29. CASE Unload
  BY <1>29 DEF Unload
<1>30. ASSUME NEW f \in Forks, Frame(f) PROVE LifeTypes'
  BY <1>30 DEF Frame
<1>31. ASSUME NEW f \in Forks, ConnectEvent(f) PROVE LifeTypes'
  BY <1>31 DEF ConnectEvent
<1>32. ASSUME NEW f \in Forks, PlayAudio(f) PROVE LifeTypes'
  BY <1>32 DEF PlayAudio
<1>33. ASSUME NEW f \in Forks, ReaperCloses(f) PROVE LifeTypes'
  BY <1>33 DEF ReaperCloses, Closes
<1>34. ASSUME NEW f \in Forks, Delete(f) PROVE LifeTypes'
  BY <1>34 DEF Delete
<1>35. ASSUME NEW f \in Forks, ReleaseGate(f) PROVE LifeTypes'
  BY <1>35 DEF ReleaseGate
<1>36. CASE UNCHANGED vars
  BY <1>36 DEF vars
<1> QED
  BY <1>1, <1>2, <1>3, <1>4, <1>5, <1>6, <1>7, <1>8, <1>9, <1>10, <1>11, <1>12, <1>13, <1>14, <1>15, <1>16, <1>17, <1>18, <1>19, <1>20, <1>21, <1>22, <1>23, <1>24, <1>25, <1>26, <1>27, <1>28, <1>29, <1>30, <1>31, <1>32, <1>33, <1>34, <1>35, <1>36 DEF Next, StartStep, CleanupStep, UseStep, ReaperStep, HangupStep

\* Every step keeps each thread inside its own program: only callers start, only they and the
\* hangup clean up.
LEMMA ThreadTypesKept ==
  ASSUME TypeOK, [Next]_vars
  PROVE  ThreadTypes'
<1> USE DEF TypeOK, LifeTypes, ThreadTypes
<1>1. ASSUME NEW t \in Callers, Start(t) PROVE ThreadTypes'
  BY <1>1 DEF Start, Call
<1>2. ASSUME NEW t \in Callers, Stop(t) PROVE ThreadTypes'
  BY <1>2 DEF Stop, Call
<1>3. ASSUME NEW t \in Callers, Command(t) PROVE ThreadTypes'
  BY <1>3 DEF Command, Call
<1>4. ASSUME NEW t \in Callers, InitSession(t) PROVE ThreadTypes'
  BY <1>4 DEF InitSession
<1>5. ASSUME NEW t \in Callers, InitFailed(t) PROVE ThreadTypes'
  BY <1>5 DEF InitFailed
<1>6. ASSUME NEW t \in Callers, CountPipe(t) PROVE ThreadTypes'
  BY <1>6 DEF CountPipe
<1>7. ASSUME NEW t \in Callers, AddBug(t) PROVE ThreadTypes'
  BY <1>7 DEF AddBug
<1>8. ASSUME NEW t \in Callers, Unattached(t) PROVE ThreadTypes'
  BY <1>8 DEF Unattached
<1>9. ASSUME NEW t \in Callers, Uncount(t) PROVE ThreadTypes'
  BY <1>9 DEF Uncount
<1>10. ASSUME NEW t \in Callers, Publish(t) PROVE ThreadTypes'
  BY <1>10 DEF Publish
<1>11. ASSUME NEW t \in Callers, ReadPipe(t) PROVE ThreadTypes'
  BY <1>11 DEF ReadPipe
<1>12. ASSUME NEW t \in Callers, ConnectPipe(t) PROVE ThreadTypes'
  BY <1>12 DEF ConnectPipe
<1>13. ASSUME NEW t \in Closers, Lookup(t) PROVE ThreadTypes'
  BY <1>13 DEF Lookup
<1>14. ASSUME NEW t \in Closers, CleanupLock(t) PROVE ThreadTypes'
  BY <1>14 DEF CleanupLock
<1>15. ASSUME NEW t \in Closers, Clear(t) PROVE ThreadTypes'
  BY <1>15 DEF Clear
<1>16. ASSUME NEW t \in Closers, Reap(t) PROVE ThreadTypes'
  BY <1>16 DEF Reap
<1>17. ASSUME NEW t \in Closers, RemoveBug(t) PROVE ThreadTypes'
  BY <1>17 DEF RemoveBug
<1>18. ASSUME NEW t \in Closers, Removed(t) PROVE ThreadTypes'
  BY <1>18 DEF Removed
<1>19. ASSUME NEW t \in Callers \cup {"svc"}, UseLock(t) PROVE ThreadTypes'
  BY <1>19 DEF UseLock
<1>20. ASSUME NEW t \in Callers \cup {"svc"}, Verify(t) PROVE ThreadTypes'
  BY <1>20 DEF Verify
<1>21. ASSUME NEW t \in Callers \cup {"svc"}, Used(t) PROVE ThreadTypes'
  BY <1>21 DEF Used
<1>22. CASE Hangup
  BY <1>22 DEF Hangup
<1>23. CASE CloseBug
  BY <1>23 DEF CloseBug
<1>24. CASE AllClosed
  BY <1>24 DEF AllClosed
<1>25. CASE SessionGone
  BY <1>25 DEF SessionGone
<1>26. CASE FrameDone
  BY <1>26 DEF FrameDone
<1>27. CASE Connection
  BY <1>27 DEF Connection, Adopt, Fails, Up, Ends, Signals
<1>28. CASE ListFile
  BY <1>28 DEF ListFile
<1>29. CASE Unload
  BY <1>29 DEF Unload
<1>30. ASSUME NEW f \in Forks, Frame(f) PROVE ThreadTypes'
  BY <1>30 DEF Frame
<1>31. ASSUME NEW f \in Forks, ConnectEvent(f) PROVE ThreadTypes'
  BY <1>31 DEF ConnectEvent
<1>32. ASSUME NEW f \in Forks, PlayAudio(f) PROVE ThreadTypes'
  BY <1>32 DEF PlayAudio
<1>33. ASSUME NEW f \in Forks, ReaperCloses(f) PROVE ThreadTypes'
  BY <1>33 DEF ReaperCloses, Closes
<1>34. ASSUME NEW f \in Forks, Delete(f) PROVE ThreadTypes'
  BY <1>34 DEF Delete
<1>35. ASSUME NEW f \in Forks, ReleaseGate(f) PROVE ThreadTypes'
  BY <1>35 DEF ReleaseGate
<1>36. CASE UNCHANGED vars
  BY <1>36 DEF vars
<1> QED
  BY <1>1, <1>2, <1>3, <1>4, <1>5, <1>6, <1>7, <1>8, <1>9, <1>10, <1>11, <1>12, <1>13, <1>14, <1>15, <1>16, <1>17, <1>18, <1>19, <1>20, <1>21, <1>22, <1>23, <1>24, <1>25, <1>26, <1>27, <1>28, <1>29, <1>30, <1>31, <1>32, <1>33, <1>34, <1>35, <1>36 DEF Next, StartStep, CleanupStep, UseStep, ReaperStep, HangupStep

\* Every step keeps the agreement of locks and program counters: tech_pvt->mutex is held from its
\* lock to its unlock, and the lock of the bugs under a CLOSE or a media frame only.
LEMMA LocksKept ==
  ASSUME TypeOK, \A t \in Threads : Locks(t), \A t \in Threads : StartInv(t), [Next]_vars, NEW q \in Threads
  PROVE  Locks(q)'
<1> USE DEF TypeOK, LifeTypes, ThreadTypes, Locks, StartInv
<1>1. ASSUME NEW t \in Callers, Start(t) PROVE Locks(q)'
  BY <1>1 DEF Start, Call
<1>2. ASSUME NEW t \in Callers, Stop(t) PROVE Locks(q)'
  BY <1>2 DEF Stop, Call
<1>3. ASSUME NEW t \in Callers, Command(t) PROVE Locks(q)'
  BY <1>3 DEF Command, Call
<1>4. ASSUME NEW t \in Callers, InitSession(t) PROVE Locks(q)'
  BY <1>4 DEF InitSession
<1>5. ASSUME NEW t \in Callers, InitFailed(t) PROVE Locks(q)'
  BY <1>5 DEF InitFailed
<1>6. ASSUME NEW t \in Callers, CountPipe(t) PROVE Locks(q)'
  BY <1>6 DEF CountPipe
<1>7. ASSUME NEW t \in Callers, AddBug(t) PROVE Locks(q)'
  BY <1>7 DEF AddBug
<1>8. ASSUME NEW t \in Callers, Unattached(t) PROVE Locks(q)'
  BY <1>8 DEF Unattached
<1>9. ASSUME NEW t \in Callers, Uncount(t) PROVE Locks(q)'
  BY <1>9 DEF Uncount
<1>10. ASSUME NEW t \in Callers, Publish(t) PROVE Locks(q)'
  BY <1>10 DEF Publish
<1>11. ASSUME NEW t \in Callers, ReadPipe(t) PROVE Locks(q)'
  BY <1>11 DEF ReadPipe
<1>12. ASSUME NEW t \in Callers, ConnectPipe(t) PROVE Locks(q)'
  BY <1>12 DEF ConnectPipe
<1>13. ASSUME NEW t \in Closers, Lookup(t) PROVE Locks(q)'
  BY <1>13 DEF Lookup
<1>14. ASSUME NEW t \in Closers, CleanupLock(t) PROVE Locks(q)'
  BY <1>14 DEF CleanupLock
<1>15. ASSUME NEW t \in Closers, Clear(t) PROVE Locks(q)'
  BY <1>15 DEF Clear
<1>16. ASSUME NEW t \in Closers, Reap(t) PROVE Locks(q)'
  BY <1>16 DEF Reap
<1>17. ASSUME NEW t \in Closers, RemoveBug(t) PROVE Locks(q)'
  BY <1>17 DEF RemoveBug
<1>18. ASSUME NEW t \in Closers, Removed(t) PROVE Locks(q)'
  BY <1>18 DEF Removed
<1>19. ASSUME NEW t \in Callers \cup {"svc"}, UseLock(t) PROVE Locks(q)'
  BY <1>19 DEF UseLock
<1>20. ASSUME NEW t \in Callers \cup {"svc"}, Verify(t) PROVE Locks(q)'
  BY <1>20 DEF Verify
<1>21. ASSUME NEW t \in Callers \cup {"svc"}, Used(t) PROVE Locks(q)'
  BY <1>21 DEF Used
<1>22. CASE Hangup
  BY <1>22 DEF Hangup
<1>23. CASE CloseBug
  BY <1>23 DEF CloseBug
<1>24. CASE AllClosed
  BY <1>24 DEF AllClosed
<1>25. CASE SessionGone
  BY <1>25 DEF SessionGone
<1>26. CASE FrameDone
  BY <1>26 DEF FrameDone
<1>27. CASE Connection
  BY <1>27 DEF Connection, Adopt, Fails, Up, Ends, Signals
<1>28. CASE ListFile
  BY <1>28 DEF ListFile
<1>29. CASE Unload
  BY <1>29 DEF Unload
<1>30. ASSUME NEW f \in Forks, Frame(f) PROVE Locks(q)'
  BY <1>30 DEF Frame
<1>31. ASSUME NEW f \in Forks, ConnectEvent(f) PROVE Locks(q)'
  BY <1>31 DEF ConnectEvent
<1>32. ASSUME NEW f \in Forks, PlayAudio(f) PROVE Locks(q)'
  BY <1>32 DEF PlayAudio
<1>33. ASSUME NEW f \in Forks, ReaperCloses(f) PROVE Locks(q)'
  BY <1>33 DEF ReaperCloses, Closes
<1>34. ASSUME NEW f \in Forks, Delete(f) PROVE Locks(q)'
  BY <1>34 DEF Delete
<1>35. ASSUME NEW f \in Forks, ReleaseGate(f) PROVE Locks(q)'
  BY <1>35 DEF ReleaseGate
<1>36. CASE UNCHANGED vars
  BY <1>36 DEF vars
<1> QED
  BY <1>1, <1>2, <1>3, <1>4, <1>5, <1>6, <1>7, <1>8, <1>9, <1>10, <1>11, <1>12, <1>13, <1>14, <1>15, <1>16, <1>17, <1>18, <1>19, <1>20, <1>21, <1>22, <1>23, <1>24, <1>25, <1>26, <1>27, <1>28, <1>29, <1>30, <1>31, <1>32, <1>33, <1>34, <1>35, <1>36 DEF Next, StartStep, CleanupStep, UseStep, ReaperStep, HangupStep

\* Every step keeps a pipe in step with its reaper: the pointer is there exactly while the pipe is
\* the user's, and nothing happens to a pipe that was not connected.
LEMMA PipeKept ==
  ASSUME TypeOK, \A t \in Threads : Locks(t), \A t \in Threads : StartInv(t), \A f \in Forks : Pipe(f), [Next]_vars, NEW q \in Forks
  PROVE  Pipe(q)'
<1> USE DEF TypeOK, LifeTypes, ThreadTypes, Locks, StartInv, Pipe
<1>1. ASSUME NEW t \in Callers, Start(t) PROVE Pipe(q)'
  BY <1>1 DEF Start, Call
<1>2. ASSUME NEW t \in Callers, Stop(t) PROVE Pipe(q)'
  BY <1>2 DEF Stop, Call
<1>3. ASSUME NEW t \in Callers, Command(t) PROVE Pipe(q)'
  BY <1>3 DEF Command, Call
<1>4. ASSUME NEW t \in Callers, InitSession(t) PROVE Pipe(q)'
  BY <1>4 DEF InitSession
<1>5. ASSUME NEW t \in Callers, InitFailed(t) PROVE Pipe(q)'
  BY <1>5 DEF InitFailed
<1>6. ASSUME NEW t \in Callers, CountPipe(t) PROVE Pipe(q)'
  BY <1>6 DEF CountPipe
<1>7. ASSUME NEW t \in Callers, AddBug(t) PROVE Pipe(q)'
  BY <1>7 DEF AddBug
<1>8. ASSUME NEW t \in Callers, Unattached(t) PROVE Pipe(q)'
  BY <1>8 DEF Unattached
<1>9. ASSUME NEW t \in Callers, Uncount(t) PROVE Pipe(q)'
  BY <1>9 DEF Uncount
<1>10. ASSUME NEW t \in Callers, Publish(t) PROVE Pipe(q)'
  BY <1>10 DEF Publish
<1>11. ASSUME NEW t \in Callers, ReadPipe(t) PROVE Pipe(q)'
  BY <1>11 DEF ReadPipe
<1>12. ASSUME NEW t \in Callers, ConnectPipe(t) PROVE Pipe(q)'
  BY <1>12 DEF ConnectPipe
<1>13. ASSUME NEW t \in Closers, Lookup(t) PROVE Pipe(q)'
  BY <1>13 DEF Lookup
<1>14. ASSUME NEW t \in Closers, CleanupLock(t) PROVE Pipe(q)'
  BY <1>14 DEF CleanupLock
<1>15. ASSUME NEW t \in Closers, Clear(t) PROVE Pipe(q)'
  BY <1>15 DEF Clear
<1>16. ASSUME NEW t \in Closers, Reap(t) PROVE Pipe(q)'
  BY <1>16 DEF Reap
<1>17. ASSUME NEW t \in Closers, RemoveBug(t) PROVE Pipe(q)'
  BY <1>17 DEF RemoveBug
<1>18. ASSUME NEW t \in Closers, Removed(t) PROVE Pipe(q)'
  BY <1>18 DEF Removed
<1>19. ASSUME NEW t \in Callers \cup {"svc"}, UseLock(t) PROVE Pipe(q)'
  BY <1>19 DEF UseLock
<1>20. ASSUME NEW t \in Callers \cup {"svc"}, Verify(t) PROVE Pipe(q)'
  BY <1>20 DEF Verify
<1>21. ASSUME NEW t \in Callers \cup {"svc"}, Used(t) PROVE Pipe(q)'
  BY <1>21 DEF Used
<1>22. CASE Hangup
  BY <1>22 DEF Hangup
<1>23. CASE CloseBug
  BY <1>23 DEF CloseBug
<1>24. CASE AllClosed
  BY <1>24 DEF AllClosed
<1>25. CASE SessionGone
  BY <1>25 DEF SessionGone
<1>26. CASE FrameDone
  BY <1>26 DEF FrameDone
<1>27. CASE Connection
  BY <1>27 DEF Connection, Adopt, Fails, Up, Ends, Signals
<1>28. CASE ListFile
  BY <1>28 DEF ListFile
<1>29. CASE Unload
  BY <1>29 DEF Unload
<1>30. ASSUME NEW f \in Forks, Frame(f) PROVE Pipe(q)'
  BY <1>30 DEF Frame
<1>31. ASSUME NEW f \in Forks, ConnectEvent(f) PROVE Pipe(q)'
  BY <1>31 DEF ConnectEvent
<1>32. ASSUME NEW f \in Forks, PlayAudio(f) PROVE Pipe(q)'
  BY <1>32 DEF PlayAudio
<1>33. ASSUME NEW f \in Forks, ReaperCloses(f) PROVE Pipe(q)'
  BY <1>33 DEF ReaperCloses, Closes
<1>34. ASSUME NEW f \in Forks, Delete(f) PROVE Pipe(q)'
  BY <1>34 DEF Delete
<1>35. ASSUME NEW f \in Forks, ReleaseGate(f) PROVE Pipe(q)'
  BY <1>35 DEF ReleaseGate
<1>36. CASE UNCHANGED vars
  BY <1>36 DEF vars
<1> QED
  BY <1>1, <1>2, <1>3, <1>4, <1>5, <1>6, <1>7, <1>8, <1>9, <1>10, <1>11, <1>12, <1>13, <1>14, <1>15, <1>16, <1>17, <1>18, <1>19, <1>20, <1>21, <1>22, <1>23, <1>24, <1>25, <1>26, <1>27, <1>28, <1>29, <1>30, <1>31, <1>32, <1>33, <1>34, <1>35, <1>36 DEF Next, StartStep, CleanupStep, UseStep, ReaperStep, HangupStep

\* Every step leaves a start its fork: nobody else knows the fork before bug_add, and nobody
\* deletes its pipe before connect().
LEMMA StartKept ==
  ASSUME TypeOK, \A t \in Threads : Locks(t), \A t \in Threads : StartInv(t), \A f \in Forks : Pipe(f), [Next]_vars, NEW q \in Threads
  PROVE  StartInv(q)'
<1> USE DEF TypeOK, LifeTypes, ThreadTypes, Locks, StartInv, Pipe
<1>1. ASSUME NEW t \in Callers, Start(t) PROVE StartInv(q)'
  BY <1>1 DEF Start, Call
<1>2. ASSUME NEW t \in Callers, Stop(t) PROVE StartInv(q)'
  BY <1>2 DEF Stop, Call
<1>3. ASSUME NEW t \in Callers, Command(t) PROVE StartInv(q)'
  BY <1>3 DEF Command, Call
<1>4. ASSUME NEW t \in Callers, InitSession(t) PROVE StartInv(q)'
  BY <1>4 DEF InitSession
<1>5. ASSUME NEW t \in Callers, InitFailed(t) PROVE StartInv(q)'
  BY <1>5 DEF InitFailed
<1>6. ASSUME NEW t \in Callers, CountPipe(t) PROVE StartInv(q)'
  BY <1>6 DEF CountPipe
<1>7. ASSUME NEW t \in Callers, AddBug(t) PROVE StartInv(q)'
  BY <1>7 DEF AddBug
<1>8. ASSUME NEW t \in Callers, Unattached(t) PROVE StartInv(q)'
  BY <1>8 DEF Unattached
<1>9. ASSUME NEW t \in Callers, Uncount(t) PROVE StartInv(q)'
  BY <1>9 DEF Uncount
<1>10. ASSUME NEW t \in Callers, Publish(t) PROVE StartInv(q)'
  BY <1>10 DEF Publish
<1>11. ASSUME NEW t \in Callers, ReadPipe(t) PROVE StartInv(q)'
  BY <1>11 DEF ReadPipe
<1>12. ASSUME NEW t \in Callers, ConnectPipe(t) PROVE StartInv(q)'
  BY <1>12 DEF ConnectPipe
<1>13. ASSUME NEW t \in Closers, Lookup(t) PROVE StartInv(q)'
  BY <1>13 DEF Lookup
<1>14. ASSUME NEW t \in Closers, CleanupLock(t) PROVE StartInv(q)'
  BY <1>14 DEF CleanupLock
<1>15. ASSUME NEW t \in Closers, Clear(t) PROVE StartInv(q)'
  BY <1>15 DEF Clear
<1>16. ASSUME NEW t \in Closers, Reap(t) PROVE StartInv(q)'
  BY <1>16 DEF Reap
<1>17. ASSUME NEW t \in Closers, RemoveBug(t) PROVE StartInv(q)'
  BY <1>17 DEF RemoveBug
<1>18. ASSUME NEW t \in Closers, Removed(t) PROVE StartInv(q)'
  BY <1>18 DEF Removed
<1>19. ASSUME NEW t \in Callers \cup {"svc"}, UseLock(t) PROVE StartInv(q)'
  BY <1>19 DEF UseLock
<1>20. ASSUME NEW t \in Callers \cup {"svc"}, Verify(t) PROVE StartInv(q)'
  BY <1>20 DEF Verify
<1>21. ASSUME NEW t \in Callers \cup {"svc"}, Used(t) PROVE StartInv(q)'
  BY <1>21 DEF Used
<1>22. CASE Hangup
  BY <1>22 DEF Hangup
<1>23. CASE CloseBug
  BY <1>23 DEF CloseBug
<1>24. CASE AllClosed
  BY <1>24 DEF AllClosed
<1>25. CASE SessionGone
  BY <1>25 DEF SessionGone
<1>26. CASE FrameDone
  BY <1>26 DEF FrameDone
<1>27. CASE Connection
  BY <1>27 DEF Connection, Adopt, Fails, Up, Ends, Signals
<1>28. CASE ListFile
  BY <1>28 DEF ListFile
<1>29. CASE Unload
  BY <1>29 DEF Unload
<1>30. ASSUME NEW f \in Forks, Frame(f) PROVE StartInv(q)'
  BY <1>30 DEF Frame
<1>31. ASSUME NEW f \in Forks, ConnectEvent(f) PROVE StartInv(q)'
  BY <1>31 DEF ConnectEvent
<1>32. ASSUME NEW f \in Forks, PlayAudio(f) PROVE StartInv(q)'
  BY <1>32 DEF PlayAudio
<1>33. ASSUME NEW f \in Forks, ReaperCloses(f) PROVE StartInv(q)'
  BY <1>33 DEF ReaperCloses, Closes
<1>34. ASSUME NEW f \in Forks, Delete(f) PROVE StartInv(q)'
  BY <1>34 DEF Delete
<1>35. ASSUME NEW f \in Forks, ReleaseGate(f) PROVE StartInv(q)'
  BY <1>35 DEF ReleaseGate
<1>36. CASE UNCHANGED vars
  BY <1>36 DEF vars
<1> QED
  BY <1>1, <1>2, <1>3, <1>4, <1>5, <1>6, <1>7, <1>8, <1>9, <1>10, <1>11, <1>12, <1>13, <1>14, <1>15, <1>16, <1>17, <1>18, <1>19, <1>20, <1>21, <1>22, <1>23, <1>24, <1>25, <1>26, <1>27, <1>28, <1>29, <1>30, <1>31, <1>32, <1>33, <1>34, <1>35, <1>36 DEF Next, StartStep, CleanupStep, UseStep, ReaperStep, HangupStep

\* All steps but CountPipe, Uncount and ReleaseGate leave it as it is whether a fork is one of
\* those that g_activePipes counts.
LEMMA CountsKept ==
  ASSUME TypeOK, \A t \in Threads : Locks(t), \A t \in Threads : StartInv(t), \A f \in Forks : Pipe(f), [Next]_vars, NEW q \in Forks,
         \A t \in Callers : ~CountPipe(t) /\ ~Uncount(t), \A f \in Forks : ~ReleaseGate(f)
  PROVE  Counts(q)' <=> Counts(q)
<1> USE DEF TypeOK, LifeTypes, ThreadTypes, Locks, StartInv, Pipe, Counts
<1>1. ASSUME NEW t \in Callers, Start(t) PROVE Counts(q)' <=> Counts(q)
  BY <1>1 DEF Start, Call
<1>2. ASSUME NEW t \in Callers, Stop(t) PROVE Counts(q)' <=> Counts(q)
  BY <1>2 DEF Stop, Call
<1>3. ASSUME NEW t \in Callers, Command(t) PROVE Counts(q)' <=> Counts(q)
  BY <1>3 DEF Command, Call
<1>4. ASSUME NEW t \in Callers, InitSession(t) PROVE Counts(q)' <=> Counts(q)
  BY <1>4 DEF InitSession
<1>5. ASSUME NEW t \in Callers, InitFailed(t) PROVE Counts(q)' <=> Counts(q)
  BY <1>5 DEF InitFailed
<1>6. ASSUME NEW t \in Callers, AddBug(t) PROVE Counts(q)' <=> Counts(q)
  BY <1>6 DEF AddBug
<1>7. ASSUME NEW t \in Callers, Unattached(t) PROVE Counts(q)' <=> Counts(q)
  BY <1>7 DEF Unattached
<1>8. ASSUME NEW t \in Callers, Publish(t) PROVE Counts(q)' <=> Counts(q)
  BY <1>8 DEF Publish
<1>9. ASSUME NEW t \in Callers, ReadPipe(t) PROVE Counts(q)' <=> Counts(q)
  BY <1>9 DEF ReadPipe
<1>10. ASSUME NEW t \in Callers, ConnectPipe(t) PROVE Counts(q)' <=> Counts(q)
  BY <1>10 DEF ConnectPipe
<1>11. ASSUME NEW t \in Closers, Lookup(t) PROVE Counts(q)' <=> Counts(q)
  BY <1>11 DEF Lookup
<1>12. ASSUME NEW t \in Closers, CleanupLock(t) PROVE Counts(q)' <=> Counts(q)
  BY <1>12 DEF CleanupLock
<1>13. ASSUME NEW t \in Closers, Clear(t) PROVE Counts(q)' <=> Counts(q)
  BY <1>13 DEF Clear
<1>14. ASSUME NEW t \in Closers, Reap(t) PROVE Counts(q)' <=> Counts(q)
  BY <1>14 DEF Reap
<1>15. ASSUME NEW t \in Closers, RemoveBug(t) PROVE Counts(q)' <=> Counts(q)
  BY <1>15 DEF RemoveBug
<1>16. ASSUME NEW t \in Closers, Removed(t) PROVE Counts(q)' <=> Counts(q)
  BY <1>16 DEF Removed
<1>17. ASSUME NEW t \in Callers \cup {"svc"}, UseLock(t) PROVE Counts(q)' <=> Counts(q)
  BY <1>17 DEF UseLock
<1>18. ASSUME NEW t \in Callers \cup {"svc"}, Verify(t) PROVE Counts(q)' <=> Counts(q)
  <2>1. UNCHANGED <<own, reaping>>
    BY <1>18 DEF Verify
  <2>2. t \in Threads /\ pc[t] = "verify" /\ pc'[t] \notin {"destroy", "count", "uncount"}
    BY <1>18 DEF Verify
  <2>3. \A u \in Threads : u # t => pc'[u] = pc[u] /\ mine'[u] = mine[u]
    BY <1>18 DEF Verify
  <2>4. \A u \in Threads, x \in {"destroy", "count", "uncount"} :
          pc'[u] = x /\ mine'[u] = q <=> pc[u] = x /\ mine[u] = q
    BY ONLY <2>2, <2>3
  <2> QED
    BY ONLY <2>1, <2>4 DEF Counts
<1>19. ASSUME NEW t \in Callers \cup {"svc"}, Used(t) PROVE Counts(q)' <=> Counts(q)
  BY <1>19 DEF Used
<1>20. CASE Hangup
  BY <1>20 DEF Hangup
<1>21. CASE CloseBug
  BY <1>21 DEF CloseBug
<1>22. CASE AllClosed
  BY <1>22 DEF AllClosed
<1>23. CASE SessionGone
  BY <1>23 DEF SessionGone
<1>24. CASE FrameDone
  BY <1>24 DEF FrameDone
<1>25. CASE Connection
  BY <1>25 DEF Connection, Adopt, Fails, Up, Ends, Signals
<1>26. CASE ListFile
  BY <1>26 DEF ListFile
<1>27. CASE Unload
  BY <1>27 DEF Unload
<1>28. ASSUME NEW f \in Forks, Frame(f) PROVE Counts(q)' <=> Counts(q)
  BY <1>28 DEF Frame
<1>29. ASSUME NEW f \in Forks, ConnectEvent(f) PROVE Counts(q)' <=> Counts(q)
  BY <1>29 DEF ConnectEvent
<1>30. ASSUME NEW f \in Forks, PlayAudio(f) PROVE Counts(q)' <=> Counts(q)
  BY <1>30 DEF PlayAudio
<1>31. ASSUME NEW f \in Forks, ReaperCloses(f) PROVE Counts(q)' <=> Counts(q)
  BY <1>31 DEF ReaperCloses, Closes
<1>32. ASSUME NEW f \in Forks, Delete(f) PROVE Counts(q)' <=> Counts(q)
  BY <1>32 DEF Delete
<1>33. CASE UNCHANGED vars
  BY <1>33 DEF vars
<1> QED
  BY <1>1, <1>2, <1>3, <1>4, <1>5, <1>6, <1>7, <1>8, <1>9, <1>10, <1>11, <1>12, <1>13, <1>14, <1>15, <1>16, <1>17, <1>18, <1>19, <1>20, <1>21, <1>22, <1>23, <1>24, <1>25, <1>26, <1>27, <1>28, <1>29, <1>30, <1>31, <1>32, <1>33 DEF Next, StartStep, CleanupStep, UseStep, ReaperStep, HangupStep

\* The same three steps are the only ones that touch g_activePipes.
LEMMA ActiveKept ==
  ASSUME [Next]_vars, \A t \in Callers : ~CountPipe(t) /\ ~Uncount(t), \A f \in Forks : ~ReleaseGate(f)
  PROVE  active' = active
<1>1. ASSUME NEW t \in Callers, Start(t) PROVE active' = active
  BY <1>1 DEF Start, Call
<1>2. ASSUME NEW t \in Callers, Stop(t) PROVE active' = active
  BY <1>2 DEF Stop, Call
<1>3. ASSUME NEW t \in Callers, Command(t) PROVE active' = active
  BY <1>3 DEF Command, Call
<1>4. ASSUME NEW t \in Callers, InitSession(t) PROVE active' = active
  BY <1>4 DEF InitSession
<1>5. ASSUME NEW t \in Callers, InitFailed(t) PROVE active' = active
  BY <1>5 DEF InitFailed
<1>6. ASSUME NEW t \in Callers, AddBug(t) PROVE active' = active
  BY <1>6 DEF AddBug
<1>7. ASSUME NEW t \in Callers, Unattached(t) PROVE active' = active
  BY <1>7 DEF Unattached
<1>8. ASSUME NEW t \in Callers, Publish(t) PROVE active' = active
  BY <1>8 DEF Publish
<1>9. ASSUME NEW t \in Callers, ReadPipe(t) PROVE active' = active
  BY <1>9 DEF ReadPipe
<1>10. ASSUME NEW t \in Callers, ConnectPipe(t) PROVE active' = active
  BY <1>10 DEF ConnectPipe
<1>11. ASSUME NEW t \in Closers, Lookup(t) PROVE active' = active
  BY <1>11 DEF Lookup
<1>12. ASSUME NEW t \in Closers, CleanupLock(t) PROVE active' = active
  BY <1>12 DEF CleanupLock
<1>13. ASSUME NEW t \in Closers, Clear(t) PROVE active' = active
  BY <1>13 DEF Clear
<1>14. ASSUME NEW t \in Closers, Reap(t) PROVE active' = active
  BY <1>14 DEF Reap
<1>15. ASSUME NEW t \in Closers, RemoveBug(t) PROVE active' = active
  BY <1>15 DEF RemoveBug
<1>16. ASSUME NEW t \in Closers, Removed(t) PROVE active' = active
  BY <1>16 DEF Removed
<1>17. ASSUME NEW t \in Callers \cup {"svc"}, UseLock(t) PROVE active' = active
  BY <1>17 DEF UseLock
<1>18. ASSUME NEW t \in Callers \cup {"svc"}, Verify(t) PROVE active' = active
  BY <1>18 DEF Verify
<1>19. ASSUME NEW t \in Callers \cup {"svc"}, Used(t) PROVE active' = active
  BY <1>19 DEF Used
<1>20. CASE Hangup
  BY <1>20 DEF Hangup
<1>21. CASE CloseBug
  BY <1>21 DEF CloseBug
<1>22. CASE AllClosed
  BY <1>22 DEF AllClosed
<1>23. CASE SessionGone
  BY <1>23 DEF SessionGone
<1>24. CASE FrameDone
  BY <1>24 DEF FrameDone
<1>25. CASE Connection
  BY <1>25 DEF Connection, Adopt, Fails, Up, Ends, Signals
<1>26. CASE ListFile
  BY <1>26 DEF ListFile
<1>27. CASE Unload
  BY <1>27 DEF Unload
<1>28. ASSUME NEW f \in Forks, Frame(f) PROVE active' = active
  BY <1>28 DEF Frame
<1>29. ASSUME NEW f \in Forks, ConnectEvent(f) PROVE active' = active
  BY <1>29 DEF ConnectEvent
<1>30. ASSUME NEW f \in Forks, PlayAudio(f) PROVE active' = active
  BY <1>30 DEF PlayAudio
<1>31. ASSUME NEW f \in Forks, ReaperCloses(f) PROVE active' = active
  BY <1>31 DEF ReaperCloses, Closes
<1>32. ASSUME NEW f \in Forks, Delete(f) PROVE active' = active
  BY <1>32 DEF Delete
<1>33. CASE UNCHANGED vars
  BY <1>33 DEF vars
<1> QED
  BY <1>1, <1>2, <1>3, <1>4, <1>5, <1>6, <1>7, <1>8, <1>9, <1>10, <1>11, <1>12, <1>13, <1>14, <1>15, <1>16, <1>17, <1>18, <1>19, <1>20, <1>21, <1>22, <1>23, <1>24, <1>25, <1>26, <1>27, <1>28, <1>29, <1>30, <1>31, <1>32, <1>33 DEF Next, StartStep, CleanupStep, UseStep, ReaperStep, HangupStep

\* After the unload no thread starts, uses or reaps anything any more, since the API was
\* unregistered and no pipe is left.
LEMMA GateClosedKept ==
  ASSUME TypeOK, \A t \in Threads : Locks(t), \A t \in Threads : StartInv(t), \A f \in Forks : Pipe(f), GateClosed, [Next]_vars, ~Unload
  PROVE  GateClosed'
<1> USE DEF TypeOK, LifeTypes, ThreadTypes, Locks, StartInv, Pipe, GateClosed
<1>1. ASSUME NEW t \in Callers, Start(t) PROVE GateClosed'
  BY <1>1 DEF Start, Call
<1>2. ASSUME NEW t \in Callers, Stop(t) PROVE GateClosed'
  BY <1>2 DEF Stop, Call
<1>3. ASSUME NEW t \in Callers, Command(t) PROVE GateClosed'
  BY <1>3 DEF Command, Call
<1>4. ASSUME NEW t \in Callers, InitSession(t) PROVE GateClosed'
  BY <1>4 DEF InitSession
<1>5. ASSUME NEW t \in Callers, InitFailed(t) PROVE GateClosed'
  BY <1>5 DEF InitFailed
<1>6. ASSUME NEW t \in Callers, CountPipe(t) PROVE GateClosed'
  BY <1>6 DEF CountPipe
<1>7. ASSUME NEW t \in Callers, AddBug(t) PROVE GateClosed'
  BY <1>7 DEF AddBug
<1>8. ASSUME NEW t \in Callers, Unattached(t) PROVE GateClosed'
  BY <1>8 DEF Unattached
<1>9. ASSUME NEW t \in Callers, Uncount(t) PROVE GateClosed'
  BY <1>9 DEF Uncount
<1>10. ASSUME NEW t \in Callers, Publish(t) PROVE GateClosed'
  BY <1>10 DEF Publish
<1>11. ASSUME NEW t \in Callers, ReadPipe(t) PROVE GateClosed'
  BY <1>11 DEF ReadPipe
<1>12. ASSUME NEW t \in Callers, ConnectPipe(t) PROVE GateClosed'
  BY <1>12 DEF ConnectPipe
<1>13. ASSUME NEW t \in Closers, Lookup(t) PROVE GateClosed'
  BY <1>13 DEF Lookup
<1>14. ASSUME NEW t \in Closers, CleanupLock(t) PROVE GateClosed'
  BY <1>14 DEF CleanupLock
<1>15. ASSUME NEW t \in Closers, Clear(t) PROVE GateClosed'
  BY <1>15 DEF Clear
<1>16. ASSUME NEW t \in Closers, Reap(t) PROVE GateClosed'
  BY <1>16 DEF Reap
<1>17. ASSUME NEW t \in Closers, RemoveBug(t) PROVE GateClosed'
  BY <1>17 DEF RemoveBug
<1>18. ASSUME NEW t \in Closers, Removed(t) PROVE GateClosed'
  BY <1>18 DEF Removed
<1>19. ASSUME NEW t \in Callers \cup {"svc"}, UseLock(t) PROVE GateClosed'
  BY <1>19 DEF UseLock
<1>20. ASSUME NEW t \in Callers \cup {"svc"}, Verify(t) PROVE GateClosed'
  BY <1>20 DEF Verify
<1>21. ASSUME NEW t \in Callers \cup {"svc"}, Used(t) PROVE GateClosed'
  BY <1>21 DEF Used
<1>22. CASE Hangup
  BY <1>22 DEF Hangup
<1>23. CASE CloseBug
  BY <1>23 DEF CloseBug
<1>24. CASE AllClosed
  BY <1>24 DEF AllClosed
<1>25. CASE SessionGone
  BY <1>25 DEF SessionGone
<1>26. CASE FrameDone
  BY <1>26 DEF FrameDone
<1>27. CASE Connection
  BY <1>27 DEF Connection, Adopt, Fails, Up, Ends, Signals
<1>28. CASE ListFile
  BY <1>28 DEF ListFile
<1>29. ASSUME NEW f \in Forks, Frame(f) PROVE GateClosed'
  BY <1>29 DEF Frame
<1>30. ASSUME NEW f \in Forks, ConnectEvent(f) PROVE GateClosed'
  BY <1>30 DEF ConnectEvent
<1>31. ASSUME NEW f \in Forks, PlayAudio(f) PROVE GateClosed'
  BY <1>31 DEF PlayAudio
<1>32. ASSUME NEW f \in Forks, ReaperCloses(f) PROVE GateClosed'
  BY <1>32 DEF ReaperCloses, Closes
<1>33. ASSUME NEW f \in Forks, Delete(f) PROVE GateClosed'
  BY <1>33 DEF Delete
<1>34. ASSUME NEW f \in Forks, ReleaseGate(f) PROVE GateClosed'
  BY <1>34 DEF ReleaseGate
<1>35. CASE UNCHANGED vars
  BY <1>35 DEF vars
<1> QED
  BY <1>1, <1>2, <1>3, <1>4, <1>5, <1>6, <1>7, <1>8, <1>9, <1>10, <1>11, <1>12, <1>13, <1>14, <1>15, <1>16, <1>17, <1>18, <1>19, <1>20, <1>21, <1>22, <1>23, <1>24, <1>25, <1>26, <1>27, <1>28, <1>29, <1>30, <1>31, <1>32, <1>33, <1>34, <1>35 DEF Next, StartStep, CleanupStep, UseStep, ReaperStep, HangupStep

\* The increment of g_activePipes in fork_data_init: its pipe was not counted before, and is from
\* now on.
LEMMA CountPipeKeeps ==
  ASSUME IInv, NEW t \in Callers, CountPipe(t)
  PROVE  Gate'
<1> USE DEF IInv, TypeOK, LifeTypes, ThreadTypes, Locks, StartInv, Pipe
<1>1. mine[t] \in Forks /\ ~Counts(mine[t])
  BY DEF CountPipe, Counts
<1>2. \A q \in Forks : Counts(q)' <=> Counts(q) \/ q = mine[t]
  BY DEF CountPipe, Counts
<1>3. Counted' = Counted \cup {mine[t]} /\ mine[t] \notin Counted
  BY <1>1, <1>2 DEF Counted
<1>4. IsFiniteSet(Counted)' /\ Cardinality(Counted') = Cardinality(Counted) + 1
  BY <1>3, FS_AddElement DEF Gate
<1>5. active' = Cardinality(Counted')
  BY <1>4 DEF Gate, CountPipe
<1>6. GateClosed'
  BY DEF Gate, GateClosed, CountPipe
<1> QED
  BY <1>4, <1>5, <1>6 DEF Gate

\* The start that gives up releases the gate for the pipe that it has deleted.
LEMMA UncountKeeps ==
  ASSUME IInv, NEW t \in Callers, Uncount(t)
  PROVE  Gate'
<1> USE DEF IInv, TypeOK, LifeTypes, ThreadTypes, Locks, StartInv, Pipe
<1>1. mine[t] \in Forks /\ Counts(mine[t])
  BY DEF Uncount, Counts
<1>2. \A q \in Forks : Counts(q)' <=> Counts(q) /\ q # mine[t]
  BY DEF Uncount, Counts
<1>3. Counted' = Counted \ {mine[t]} /\ mine[t] \in Counted
  BY <1>1, <1>2 DEF Counted
<1>4. IsFiniteSet(Counted)' /\ Cardinality(Counted') = Cardinality(Counted) - 1
  BY <1>3, FS_RemoveElement DEF Gate
<1>5. active' = Cardinality(Counted')
  BY <1>4 DEF Gate, Uncount
<1>6. GateClosed'
  BY DEF Gate, GateClosed, Uncount
<1> QED
  BY <1>4, <1>5, <1>6 DEF Gate

\* The reaper releases the gate for the pipe that it has deleted.
LEMMA ReleaseGateKeeps ==
  ASSUME IInv, NEW f \in Forks, ReleaseGate(f)
  PROVE  Gate'
<1> USE DEF IInv, TypeOK, LifeTypes, ThreadTypes, Locks, StartInv, Pipe
<1>1. Counts(f)
  BY DEF ReleaseGate, Counts
<1>2. \A q \in Forks : Counts(q)' <=> Counts(q) /\ q # f
  BY DEF ReleaseGate, Counts
<1>3. Counted' = Counted \ {f} /\ f \in Counted
  BY <1>1, <1>2 DEF Counted
<1>4. IsFiniteSet(Counted)' /\ Cardinality(Counted') = Cardinality(Counted) - 1
  BY <1>3, FS_RemoveElement DEF Gate
<1>5. active' = Cardinality(Counted')
  BY <1>4 DEF Gate, ReleaseGate
<1>6. GateClosed'
  BY DEF Gate, GateClosed, ReleaseGate
<1> QED
  BY <1>4, <1>5, <1>6 DEF Gate

\* mod_audio_fork_shutdown goes through only when no pipe is counted, and then none is left that a
\* start, a cleanup or a reaper still has.
LEMMA UnloadCloses ==
  ASSUME IInv, Unload
  PROVE  GateClosed'
<1>1. IsFiniteSet(Counted) /\ Cardinality(Counted) = 0
  BY DEF IInv, Gate, Unload
<1>2. \A q \in Forks : ~Counts(q)
  BY <1>1, FS_EmptySet DEF Counted
<1>3. \A t \in Threads : pc[t] \notin {"destroy", "count"}
  BY DEF Unload, IInv, TypeOK, ThreadTypes
<1>4. ASSUME NEW q \in Forks PROVE own[q] # "user" /\ reaping[q] \in {"none", "done"}
  <2>1. reaping[q] \in {"none", "close", "freed", "done"}
    BY DEF IInv, TypeOK, LifeTypes
  <2> QED
    BY <2>1, <1>2, <1>3 DEF Counts
<1> QED
  BY <1>4 DEF Unload, GateClosed

\* The counter is the number of counted pipes, before and after every step.
LEMMA GateKept ==
  ASSUME IInv, [Next]_vars
  PROVE  Gate'
<1>1. CASE \E t \in Callers : CountPipe(t)
  BY <1>1, CountPipeKeeps
<1>2. CASE \E t \in Callers : Uncount(t)
  BY <1>2, UncountKeeps
<1>3. CASE \E f \in Forks : ReleaseGate(f)
  BY <1>3, ReleaseGateKeeps
<1>4. ASSUME \A t \in Callers : ~CountPipe(t) /\ ~Uncount(t), \A f \in Forks : ~ReleaseGate(f)
      PROVE  Gate'
  <2>1. active' = active
    BY <1>4, ActiveKept
  <2>2. \A q \in Forks : Counts(q)' <=> Counts(q)
    BY <1>4, CountsKept DEF IInv
  <2>3. Counted' = Counted
    BY <2>2 DEF Counted
  <2>4. GateClosed'
    BY GateClosedKept, UnloadCloses DEF IInv, Gate
  <2> QED
    BY <2>1, <2>3, <2>4 DEF IInv, Gate
<1> QED
  BY <1>1, <1>2, <1>3, <1>4

-----------------------------------------------------------------------------
(* The theorems.                                                           *)

\* Every state of the glue satisfies the invariant, for any number of forks and callers and whether
\* or not calls overlap.
THEOREM Inductive == Spec => []IInv
<1>1. Init => IInv
  <2> SUFFICES ASSUME Init PROVE IInv
    OBVIOUS
  <2>1. LifeTypes
    <3>1. /\ own \in [Forks -> Own] /\ state \in [Forks -> PipeState]
          /\ signaled \in [Forks -> BOOLEAN]
      BY DEF Init, LifeInit
    <3>2. /\ ptr \in [Forks -> BOOLEAN] /\ mutex \in [Forks -> Threads \cup {NoThread}]
          /\ reaping \in [Forks -> {"none", "close", "freed", "done"}]
      BY DEF Init
    <3>3. private = NoFork /\ bugs = {} /\ asked = {} /\ bugLock = NoThread /\ active = 0
      BY DEF Init
    <3>4. unloaded \in BOOLEAN
      BY DEF Init
    <3> QED
      BY <3>1, <3>2, <3>3, <3>4 DEF LifeTypes
  <2>2. ThreadTypes
    BY DEF Init, ThreadTypes
  <2>3. \A t \in Threads : Locks(t) /\ StartInv(t)
    BY DEF Init, Locks, StartInv
  <2>4. \A f \in Forks : Pipe(f)
    BY DEF Init, LifeInit, Pipe
  <2>5. Counted = {}
    BY DEF Init, LifeInit, Counted, Counts
  <2>6. Gate
    BY <2>5, FS_EmptySet DEF Init, LifeInit, Gate, GateClosed
  <2> QED
    BY <2>1, <2>2, <2>3, <2>4, <2>6 DEF IInv, TypeOK
<1>2. IInv /\ [Next]_vars => IInv'
  <2> SUFFICES ASSUME IInv, [Next]_vars PROVE IInv'
    OBVIOUS
  <2>1. TypeOK'
    BY LifeTypesKept, ThreadTypesKept DEF IInv, TypeOK
  <2>2. \A t \in Threads : Locks(t)' /\ StartInv(t)'
    BY LocksKept, StartKept DEF IInv
  <2>3. \A f \in Forks : Pipe(f)'
    BY PipeKept DEF IInv
  <2>4. Gate'
    BY GateKept
  <2> QED
    BY <2>1, <2>2, <2>3, <2>4 DEF IInv
<1> QED
  BY <1>1, <1>2, PTL DEF Spec

\* The variables of the glue stay in their types, and each thread in its own program.
THEOREM TypeCorrect == Spec => []TypeOK
<1>1. IInv => TypeOK
  BY DEF IInv
<1> QED
  BY <1>1, Inductive, PTL

\* Whoever uses a pipe holds its mutex and finds it with its user, and connect() is not called on
\* a deleted one: the checks under tech_pvt->mutex suffice, whatever stop and hangup do.
THEOREM PipeOutlivesUse == Spec => []LiveWhileUsed
<1>1. IInv => LiveWhileUsed
  BY DEF IInv, LiveWhileUsed, Locks, StartInv
<1> QED
  BY <1>1, Inductive, PTL

\* No two threads wait for each other, with tech_pvt->mutex and the lock of the bugs between them:
\* the cleanup has released the one before it asks for the other.
THEOREM NoTwoThreadsWait == Spec => []NoLockCycle
<1>1. IInv => NoLockCycle
  <2> SUFFICES ASSUME IInv, NEW t \in Threads, NEW u \in Threads, WaitsFor(t, u), WaitsFor(u, t)
               PROVE  FALSE
    BY DEF NoLockCycle
  <2> USE DEF IInv, TypeOK, LifeTypes, ThreadTypes, Locks
  <2>1. pc[t] \notin {"lock", "useLock", "append"}
    BY DEF WaitsFor
  <2>2. pc[t] \in {"remove", "add"} /\ bugLock = u
    BY <2>1 DEF WaitsFor
  <2>3. pc[u] \in {"lock"} /\ mutex[mine[u]] = t
    BY <2>2 DEF WaitsFor
  <2> QED
    BY <2>2, <2>3
<1> QED
  BY <1>1, Inductive, PTL

\* mod_audio_fork_shutdown unloads the code under no pipe and no reaper, because g_activePipes is
\* the number of the pipes that are not done with.
THEOREM UnloadLeavesNoPipe == Spec => []NoPipeAfterUnload
<1>1. IInv => NoPipeAfterUnload
  BY DEF IInv, NoPipeAfterUnload, Gate, GateClosed, Pipe
<1> QED
  BY <1>1, Inductive, PTL

-----------------------------------------------------------------------------
(* The glue implements the owner's side of PipeLife.                       *)

\* The glue's deletions and hand-overs are the owner's steps of PipeLife: a start deletes its pipe
\* only when it is idle, since nobody has asked for a connection.
LEMMA OwnerSteps ==
  ASSUME IInv, NEW t \in Threads
  PROVE  /\ InitSession(t) => \E f \in Pipes : Make(f)
         /\ InitFailed(t) \/ Unattached(t) => Drop(mine[t])
         /\ Reap(t) => Hand(mine[t]) \/ UNCHANGED lifeVars
<1> USE DEF IInv, TypeOK, ThreadTypes, Locks, StartInv, Pipe
<1>1. ASSUME InitSession(t) PROVE \E f \in Pipes : Make(f)
  BY <1>1 DEF InitSession, Make
<1>2. ASSUME InitFailed(t) PROVE Drop(mine[t])
  BY <1>2 DEF InitFailed, Drop
<1>3. ASSUME Unattached(t) PROVE Drop(mine[t])
  BY <1>3 DEF Unattached, Drop
<1>4. ASSUME Reap(t) PROVE Hand(mine[t]) \/ UNCHANGED lifeVars
  BY <1>4 DEF Reap, Hand
<1> QED
  BY <1>1, <1>2, <1>3, <1>4

\* Every step of the glue is a step of PipeLife, or leaves its variables alone.
LEMMA StepsOfLife ==
  ASSUME IInv, [Next]_vars
  PROVE  [LifeNext]_lifeVars
<1>1. ASSUME NEW t \in Callers, Start(t) PROVE [LifeNext]_lifeVars
  BY <1>1 DEF Start, Call
<1>2. ASSUME NEW t \in Callers, Stop(t) PROVE [LifeNext]_lifeVars
  BY <1>2 DEF Stop, Call
<1>3. ASSUME NEW t \in Callers, Command(t) PROVE [LifeNext]_lifeVars
  BY <1>3 DEF Command, Call
<1>4. ASSUME NEW t \in Callers, InitSession(t) PROVE [LifeNext]_lifeVars
  BY <1>4, OwnerSteps DEF IInv, TypeOK, ThreadTypes, Locks, StartInv, InitFailed, Unattached, Reap, LifeNext, LifeStep
<1>5. ASSUME NEW t \in Callers, InitFailed(t) PROVE [LifeNext]_lifeVars
  BY <1>5, OwnerSteps DEF IInv, TypeOK, ThreadTypes, Locks, StartInv, InitFailed, Unattached, Reap, LifeNext, LifeStep
<1>6. ASSUME NEW t \in Callers, CountPipe(t) PROVE [LifeNext]_lifeVars
  BY <1>6 DEF CountPipe
<1>7. ASSUME NEW t \in Callers, AddBug(t) PROVE [LifeNext]_lifeVars
  BY <1>7 DEF AddBug
<1>8. ASSUME NEW t \in Callers, Unattached(t) PROVE [LifeNext]_lifeVars
  BY <1>8, OwnerSteps DEF IInv, TypeOK, ThreadTypes, Locks, StartInv, InitFailed, Unattached, Reap, LifeNext, LifeStep
<1>9. ASSUME NEW t \in Callers, Uncount(t) PROVE [LifeNext]_lifeVars
  BY <1>9 DEF Uncount
<1>10. ASSUME NEW t \in Callers, Publish(t) PROVE [LifeNext]_lifeVars
  BY <1>10 DEF Publish
<1>11. ASSUME NEW t \in Callers, ReadPipe(t) PROVE [LifeNext]_lifeVars
  BY <1>11 DEF ReadPipe
<1>12. ASSUME NEW t \in Callers, ConnectPipe(t) PROVE [LifeNext]_lifeVars
  BY <1>12 DEF ConnectPipe
<1>13. ASSUME NEW t \in Closers, Lookup(t) PROVE [LifeNext]_lifeVars
  BY <1>13 DEF Lookup
<1>14. ASSUME NEW t \in Closers, CleanupLock(t) PROVE [LifeNext]_lifeVars
  BY <1>14 DEF CleanupLock
<1>15. ASSUME NEW t \in Closers, Clear(t) PROVE [LifeNext]_lifeVars
  BY <1>15 DEF Clear
<1>16. ASSUME NEW t \in Closers, Reap(t) PROVE [LifeNext]_lifeVars
  BY <1>16, OwnerSteps DEF IInv, TypeOK, ThreadTypes, Locks, StartInv, InitFailed, Unattached, Reap, LifeNext, LifeStep
<1>17. ASSUME NEW t \in Closers, RemoveBug(t) PROVE [LifeNext]_lifeVars
  BY <1>17 DEF RemoveBug
<1>18. ASSUME NEW t \in Closers, Removed(t) PROVE [LifeNext]_lifeVars
  BY <1>18 DEF Removed
<1>19. ASSUME NEW t \in Callers \cup {"svc"}, UseLock(t) PROVE [LifeNext]_lifeVars
  BY <1>19 DEF UseLock
<1>20. ASSUME NEW t \in Callers \cup {"svc"}, Verify(t) PROVE [LifeNext]_lifeVars
  BY <1>20 DEF Verify
<1>21. ASSUME NEW t \in Callers \cup {"svc"}, Used(t) PROVE [LifeNext]_lifeVars
  BY <1>21 DEF Used
<1>22. CASE Hangup
  BY <1>22 DEF Hangup
<1>23. CASE CloseBug
  BY <1>23 DEF CloseBug
<1>24. CASE AllClosed
  BY <1>24 DEF AllClosed
<1>25. CASE SessionGone
  BY <1>25 DEF SessionGone
<1>26. CASE FrameDone
  BY <1>26 DEF FrameDone
<1>27. CASE Connection
  BY <1>27 DEF Connection, LifeNext, LifeStep, IInv, TypeOK, LifeTypes
<1>28. CASE ListFile
  BY <1>28 DEF ListFile
<1>29. CASE Unload
  BY <1>29 DEF Unload
<1>30. ASSUME NEW f \in Forks, Frame(f) PROVE [LifeNext]_lifeVars
  BY <1>30 DEF Frame
<1>31. ASSUME NEW f \in Forks, ConnectEvent(f) PROVE [LifeNext]_lifeVars
  BY <1>31 DEF ConnectEvent
<1>32. ASSUME NEW f \in Forks, PlayAudio(f) PROVE [LifeNext]_lifeVars
  BY <1>32 DEF PlayAudio
<1>33. ASSUME NEW f \in Forks, ReaperCloses(f) PROVE [LifeNext]_lifeVars
  BY <1>33 DEF ReaperCloses, LifeNext, LifeStep
<1>34. ASSUME NEW f \in Forks, Delete(f) PROVE [LifeNext]_lifeVars
  BY <1>34 DEF Delete, LifeNext, LifeStep, Release, IInv, Pipe
<1>35. ASSUME NEW f \in Forks, ReleaseGate(f) PROVE [LifeNext]_lifeVars
  BY <1>35 DEF ReleaseGate
<1>36. CASE UNCHANGED vars
  BY <1>36 DEF vars
<1> QED
  BY <1>1, <1>2, <1>3, <1>4, <1>5, <1>6, <1>7, <1>8, <1>9, <1>10, <1>11, <1>12, <1>13, <1>14, <1>15, <1>16, <1>17, <1>18, <1>19, <1>20, <1>21, <1>22, <1>23, <1>24, <1>25, <1>26, <1>27, <1>28, <1>29, <1>30, <1>31, <1>32, <1>33, <1>34, <1>35, <1>36 DEF Next, StartStep, CleanupStep, UseStep, ReaperStep, HangupStep

\* The glue keeps its side of PipeLife, which AudioPipe implements on the other: no pipe is handed
\* over twice, deleted on the spot once connect() was called, or deleted by its reaper before its
\* end was signalled.
THEOREM GlueKeepsLife == Spec => KeepsLife
<1>1. Init => LifeInit
  BY DEF Init
<1>2. IInv /\ [Next]_vars => [LifeNext]_lifeVars
  BY StepsOfLife
<1> QED
  BY <1>1, <1>2, Inductive, PTL DEF Spec, KeepsLife, LifeSpec

-----------------------------------------------------------------------------
(* Without overlap no pipe is left behind.                                 *)

\* Without overlap a start stays the only caller at work, and a cleanup finds the private of its
\* own fork or none.
LEMMA AloneKept ==
  ASSUME IInv, NoOverlapInv, ~Overlap, [Next]_vars, NEW q \in Closers
  PROVE  Alone(q)'
<1> USE DEF IInv, NoOverlapInv, TypeOK, LifeTypes, ThreadTypes, Locks, StartInv, Pipe, SessionEnds, Alone, Starting
<1>1. ASSUME NEW t \in Callers, Start(t) PROVE Alone(q)'
  BY <1>1 DEF Start, Call, Quiet, Starting
<1>2. ASSUME NEW t \in Callers, Stop(t) PROVE Alone(q)'
  BY <1>2 DEF Stop, Call, Quiet, Starting
<1>3. ASSUME NEW t \in Callers, Command(t) PROVE Alone(q)'
  BY <1>3 DEF Command, Call, Quiet, Starting
<1>4. ASSUME NEW t \in Callers, InitSession(t) PROVE Alone(q)'
  BY <1>4 DEF InitSession
<1>5. ASSUME NEW t \in Callers, InitFailed(t) PROVE Alone(q)'
  BY <1>5 DEF InitFailed
<1>6. ASSUME NEW t \in Callers, CountPipe(t) PROVE Alone(q)'
  BY <1>6 DEF CountPipe
<1>7. ASSUME NEW t \in Callers, AddBug(t) PROVE Alone(q)'
  BY <1>7 DEF AddBug
<1>8. ASSUME NEW t \in Callers, Unattached(t) PROVE Alone(q)'
  BY <1>8 DEF Unattached
<1>9. ASSUME NEW t \in Callers, Uncount(t) PROVE Alone(q)'
  BY <1>9 DEF Uncount
<1>10. ASSUME NEW t \in Callers, Publish(t) PROVE Alone(q)'
  BY <1>10 DEF Publish
<1>11. ASSUME NEW t \in Callers, ReadPipe(t) PROVE Alone(q)'
  BY <1>11 DEF ReadPipe
<1>12. ASSUME NEW t \in Callers, ConnectPipe(t) PROVE Alone(q)'
  BY <1>12 DEF ConnectPipe
<1>13. ASSUME NEW t \in Closers, Lookup(t) PROVE Alone(q)'
  BY <1>13 DEF Lookup
<1>14. ASSUME NEW t \in Closers, CleanupLock(t) PROVE Alone(q)'
  BY <1>14 DEF CleanupLock
<1>15. ASSUME NEW t \in Closers, Clear(t) PROVE Alone(q)'
  BY <1>15 DEF Clear
<1>16. ASSUME NEW t \in Closers, Reap(t) PROVE Alone(q)'
  BY <1>16 DEF Reap
<1>17. ASSUME NEW t \in Closers, RemoveBug(t) PROVE Alone(q)'
  BY <1>17 DEF RemoveBug
<1>18. ASSUME NEW t \in Closers, Removed(t) PROVE Alone(q)'
  BY <1>18 DEF Removed
<1>19. ASSUME NEW t \in Callers \cup {"svc"}, UseLock(t) PROVE Alone(q)'
  BY <1>19 DEF UseLock
<1>20. ASSUME NEW t \in Callers \cup {"svc"}, Verify(t) PROVE Alone(q)'
  BY <1>20 DEF Verify
<1>21. ASSUME NEW t \in Callers \cup {"svc"}, Used(t) PROVE Alone(q)'
  BY <1>21 DEF Used
<1>22. CASE Hangup
  BY <1>22 DEF Hangup, Starting
<1>23. CASE CloseBug
  BY <1>23 DEF CloseBug
<1>24. CASE AllClosed
  BY <1>24 DEF AllClosed
<1>25. CASE SessionGone
  BY <1>25 DEF SessionGone
<1>26. CASE FrameDone
  BY <1>26 DEF FrameDone
<1>27. CASE Connection
  BY <1>27 DEF Connection, Adopt, Fails, Up, Ends, Signals
<1>28. CASE ListFile
  BY <1>28 DEF ListFile
<1>29. CASE Unload
  BY <1>29 DEF Unload
<1>30. ASSUME NEW f \in Forks, Frame(f) PROVE Alone(q)'
  BY <1>30 DEF Frame
<1>31. ASSUME NEW f \in Forks, ConnectEvent(f) PROVE Alone(q)'
  BY <1>31 DEF ConnectEvent
<1>32. ASSUME NEW f \in Forks, PlayAudio(f) PROVE Alone(q)'
  BY <1>32 DEF PlayAudio
<1>33. ASSUME NEW f \in Forks, ReaperCloses(f) PROVE Alone(q)'
  BY <1>33 DEF ReaperCloses, Closes
<1>34. ASSUME NEW f \in Forks, Delete(f) PROVE Alone(q)'
  BY <1>34 DEF Delete
<1>35. ASSUME NEW f \in Forks, ReleaseGate(f) PROVE Alone(q)'
  BY <1>35 DEF ReleaseGate
<1>36. CASE UNCHANGED vars
  BY <1>36 DEF vars
<1> QED
  BY <1>1, <1>2, <1>3, <1>4, <1>5, <1>6, <1>7, <1>8, <1>9, <1>10, <1>11, <1>12, <1>13, <1>14, <1>15, <1>16, <1>17, <1>18, <1>19, <1>20, <1>21, <1>22, <1>23, <1>24, <1>25, <1>26, <1>27, <1>28, <1>29, <1>30, <1>31, <1>32, <1>33, <1>34, <1>35, <1>36 DEF Next, StartStep, CleanupStep, UseStep, ReaperStep, HangupStep

\* After the last CLOSE no bug is attached; once the session is gone no call begins.
LEMMA SessionEndsKept ==
  ASSUME IInv, NoOverlapInv, ~Overlap, [Next]_vars
  PROVE  SessionEnds'
<1> USE DEF IInv, NoOverlapInv, TypeOK, LifeTypes, ThreadTypes, Locks, StartInv, Pipe, SessionEnds
<1>1. ASSUME NEW t \in Callers, Start(t) PROVE SessionEnds'
  BY <1>1 DEF Start, Call, Quiet, Starting
<1>2. ASSUME NEW t \in Callers, Stop(t) PROVE SessionEnds'
  BY <1>2 DEF Stop, Call, Quiet, Starting
<1>3. ASSUME NEW t \in Callers, Command(t) PROVE SessionEnds'
  BY <1>3 DEF Command, Call, Quiet, Starting
<1>4. ASSUME NEW t \in Callers, InitSession(t) PROVE SessionEnds'
  BY <1>4 DEF InitSession
<1>5. ASSUME NEW t \in Callers, InitFailed(t) PROVE SessionEnds'
  BY <1>5 DEF InitFailed
<1>6. ASSUME NEW t \in Callers, CountPipe(t) PROVE SessionEnds'
  BY <1>6 DEF CountPipe
<1>7. ASSUME NEW t \in Callers, AddBug(t) PROVE SessionEnds'
  BY <1>7 DEF AddBug
<1>8. ASSUME NEW t \in Callers, Unattached(t) PROVE SessionEnds'
  BY <1>8 DEF Unattached
<1>9. ASSUME NEW t \in Callers, Uncount(t) PROVE SessionEnds'
  BY <1>9 DEF Uncount
<1>10. ASSUME NEW t \in Callers, Publish(t) PROVE SessionEnds'
  BY <1>10 DEF Publish
<1>11. ASSUME NEW t \in Callers, ReadPipe(t) PROVE SessionEnds'
  BY <1>11 DEF ReadPipe
<1>12. ASSUME NEW t \in Callers, ConnectPipe(t) PROVE SessionEnds'
  BY <1>12 DEF ConnectPipe
<1>13. ASSUME NEW t \in Closers, Lookup(t) PROVE SessionEnds'
  BY <1>13 DEF Lookup
<1>14. ASSUME NEW t \in Closers, CleanupLock(t) PROVE SessionEnds'
  BY <1>14 DEF CleanupLock
<1>15. ASSUME NEW t \in Closers, Clear(t) PROVE SessionEnds'
  BY <1>15 DEF Clear
<1>16. ASSUME NEW t \in Closers, Reap(t) PROVE SessionEnds'
  BY <1>16 DEF Reap
<1>17. ASSUME NEW t \in Closers, RemoveBug(t) PROVE SessionEnds'
  BY <1>17 DEF RemoveBug
<1>18. ASSUME NEW t \in Closers, Removed(t) PROVE SessionEnds'
  BY <1>18 DEF Removed
<1>19. ASSUME NEW t \in Callers \cup {"svc"}, UseLock(t) PROVE SessionEnds'
  BY <1>19 DEF UseLock
<1>20. ASSUME NEW t \in Callers \cup {"svc"}, Verify(t) PROVE SessionEnds'
  BY <1>20 DEF Verify
<1>21. ASSUME NEW t \in Callers \cup {"svc"}, Used(t) PROVE SessionEnds'
  BY <1>21 DEF Used
<1>22. CASE Hangup
  BY <1>22 DEF Hangup, Starting
<1>23. CASE CloseBug
  BY <1>23 DEF CloseBug
<1>24. CASE AllClosed
  BY <1>24 DEF AllClosed
<1>25. CASE SessionGone
  BY <1>25 DEF SessionGone
<1>26. CASE FrameDone
  BY <1>26 DEF FrameDone
<1>27. CASE Connection
  BY <1>27 DEF Connection, Adopt, Fails, Up, Ends, Signals
<1>28. CASE ListFile
  BY <1>28 DEF ListFile
<1>29. CASE Unload
  BY <1>29 DEF Unload
<1>30. ASSUME NEW f \in Forks, Frame(f) PROVE SessionEnds'
  BY <1>30 DEF Frame
<1>31. ASSUME NEW f \in Forks, ConnectEvent(f) PROVE SessionEnds'
  BY <1>31 DEF ConnectEvent
<1>32. ASSUME NEW f \in Forks, PlayAudio(f) PROVE SessionEnds'
  BY <1>32 DEF PlayAudio
<1>33. ASSUME NEW f \in Forks, ReaperCloses(f) PROVE SessionEnds'
  BY <1>33 DEF ReaperCloses, Closes
<1>34. ASSUME NEW f \in Forks, Delete(f) PROVE SessionEnds'
  BY <1>34 DEF Delete
<1>35. ASSUME NEW f \in Forks, ReleaseGate(f) PROVE SessionEnds'
  BY <1>35 DEF ReleaseGate
<1>36. CASE UNCHANGED vars
  BY <1>36 DEF vars
<1> QED
  BY <1>1, <1>2, <1>3, <1>4, <1>5, <1>6, <1>7, <1>8, <1>9, <1>10, <1>11, <1>12, <1>13, <1>14, <1>15, <1>16, <1>17, <1>18, <1>19, <1>20, <1>21, <1>22, <1>23, <1>24, <1>25, <1>26, <1>27, <1>28, <1>29, <1>30, <1>31, <1>32, <1>33, <1>34, <1>35, <1>36 DEF Next, StartStep, CleanupStep, UseStep, ReaperStep, HangupStep

\* Without overlap a pipe that has a user stays in the hands of someone who will release it.
LEMMA HandsKept ==
  ASSUME IInv, NoOverlapInv, ~Overlap, [Next]_vars, NEW q \in Forks
  PROVE  (own[q] = "user" => InGoodHands(q))'
<1> USE DEF IInv, NoOverlapInv, TypeOK, LifeTypes, ThreadTypes, Locks, StartInv, Pipe, SessionEnds, Alone, InGoodHands, Starting
<1>1. ASSUME NEW t \in Callers, Start(t) PROVE (own[q] = "user" => InGoodHands(q))'
  BY <1>1 DEF Start, Call, Quiet, Starting
<1>2. ASSUME NEW t \in Callers, Stop(t) PROVE (own[q] = "user" => InGoodHands(q))'
  BY <1>2 DEF Stop, Call, Quiet, Starting
<1>3. ASSUME NEW t \in Callers, Command(t) PROVE (own[q] = "user" => InGoodHands(q))'
  BY <1>3 DEF Command, Call, Quiet, Starting
<1>4. ASSUME NEW t \in Callers, InitSession(t) PROVE (own[q] = "user" => InGoodHands(q))'
  BY <1>4 DEF InitSession
<1>5. ASSUME NEW t \in Callers, InitFailed(t) PROVE (own[q] = "user" => InGoodHands(q))'
  BY <1>5 DEF InitFailed
<1>6. ASSUME NEW t \in Callers, CountPipe(t) PROVE (own[q] = "user" => InGoodHands(q))'
  BY <1>6 DEF CountPipe
<1>7. ASSUME NEW t \in Callers, AddBug(t) PROVE (own[q] = "user" => InGoodHands(q))'
  BY <1>7 DEF AddBug
<1>8. ASSUME NEW t \in Callers, Unattached(t) PROVE (own[q] = "user" => InGoodHands(q))'
  BY <1>8 DEF Unattached
<1>9. ASSUME NEW t \in Callers, Uncount(t) PROVE (own[q] = "user" => InGoodHands(q))'
  BY <1>9 DEF Uncount
<1>10. ASSUME NEW t \in Callers, Publish(t) PROVE (own[q] = "user" => InGoodHands(q))'
  BY <1>10 DEF Publish
<1>11. ASSUME NEW t \in Callers, ReadPipe(t) PROVE (own[q] = "user" => InGoodHands(q))'
  BY <1>11 DEF ReadPipe
<1>12. ASSUME NEW t \in Callers, ConnectPipe(t) PROVE (own[q] = "user" => InGoodHands(q))'
  BY <1>12 DEF ConnectPipe
<1>13. ASSUME NEW t \in Closers, Lookup(t) PROVE (own[q] = "user" => InGoodHands(q))'
  BY <1>13 DEF Lookup
<1>14. ASSUME NEW t \in Closers, CleanupLock(t) PROVE (own[q] = "user" => InGoodHands(q))'
  BY <1>14 DEF CleanupLock
<1>15. ASSUME NEW t \in Closers, Clear(t) PROVE (own[q] = "user" => InGoodHands(q))'
  BY <1>15 DEF Clear
<1>16. ASSUME NEW t \in Closers, Reap(t) PROVE (own[q] = "user" => InGoodHands(q))'
  BY <1>16 DEF Reap
<1>17. ASSUME NEW t \in Closers, RemoveBug(t) PROVE (own[q] = "user" => InGoodHands(q))'
  BY <1>17 DEF RemoveBug
<1>18. ASSUME NEW t \in Closers, Removed(t) PROVE (own[q] = "user" => InGoodHands(q))'
  BY <1>18 DEF Removed
<1>19. ASSUME NEW t \in Callers \cup {"svc"}, UseLock(t) PROVE (own[q] = "user" => InGoodHands(q))'
  BY <1>19 DEF UseLock
<1>20. ASSUME NEW t \in Callers \cup {"svc"}, Verify(t) PROVE (own[q] = "user" => InGoodHands(q))'
  BY <1>20 DEF Verify
<1>21. ASSUME NEW t \in Callers \cup {"svc"}, Used(t) PROVE (own[q] = "user" => InGoodHands(q))'
  BY <1>21 DEF Used
<1>22. CASE Hangup
  BY <1>22 DEF Hangup, Starting
<1>23. CASE CloseBug
  BY <1>23 DEF CloseBug
<1>24. CASE AllClosed
  BY <1>24 DEF AllClosed
<1>25. CASE SessionGone
  BY <1>25 DEF SessionGone
<1>26. CASE FrameDone
  BY <1>26 DEF FrameDone
<1>27. CASE Connection
  BY <1>27 DEF Connection, Adopt, Fails, Up, Ends, Signals
<1>28. CASE ListFile
  BY <1>28 DEF ListFile
<1>29. CASE Unload
  BY <1>29 DEF Unload
<1>30. ASSUME NEW f \in Forks, Frame(f) PROVE (own[q] = "user" => InGoodHands(q))'
  BY <1>30 DEF Frame
<1>31. ASSUME NEW f \in Forks, ConnectEvent(f) PROVE (own[q] = "user" => InGoodHands(q))'
  BY <1>31 DEF ConnectEvent
<1>32. ASSUME NEW f \in Forks, PlayAudio(f) PROVE (own[q] = "user" => InGoodHands(q))'
  BY <1>32 DEF PlayAudio
<1>33. ASSUME NEW f \in Forks, ReaperCloses(f) PROVE (own[q] = "user" => InGoodHands(q))'
  BY <1>33 DEF ReaperCloses, Closes
<1>34. ASSUME NEW f \in Forks, Delete(f) PROVE (own[q] = "user" => InGoodHands(q))'
  BY <1>34 DEF Delete
<1>35. ASSUME NEW f \in Forks, ReleaseGate(f) PROVE (own[q] = "user" => InGoodHands(q))'
  BY <1>35 DEF ReleaseGate
<1>36. CASE UNCHANGED vars
  BY <1>36 DEF vars
<1> QED
  BY <1>1, <1>2, <1>3, <1>4, <1>5, <1>6, <1>7, <1>8, <1>9, <1>10, <1>11, <1>12, <1>13, <1>14, <1>15, <1>16, <1>17, <1>18, <1>19, <1>20, <1>21, <1>22, <1>23, <1>24, <1>25, <1>26, <1>27, <1>28, <1>29, <1>30, <1>31, <1>32, <1>33, <1>34, <1>35, <1>36 DEF Next, StartStep, CleanupStep, UseStep, ReaperStep, HangupStep

\* When nothing else is done to the channel while a start runs, no pipe is left when the session is
\* gone: every one was released by fork_session_cleanup_unattached or taken by a reaper.
THEOREM NothingIsOrphaned == ~Overlap => (Spec => []NoOrphan)
<1> SUFFICES ASSUME ~Overlap PROVE Spec => []NoOrphan
  OBVIOUS
<1>1. Init => NoOverlapInv
  BY DEF Init, LifeInit, NoOverlapInv, SessionEnds, Alone, Starting
<1>2. IInv /\ NoOverlapInv /\ [Next]_vars => NoOverlapInv'
  BY AloneKept, SessionEndsKept, HandsKept DEF NoOverlapInv
<1>3. NoOverlapInv => NoOrphan
  BY DEF NoOverlapInv, SessionEnds, InGoodHands, NoOrphan
<1> QED
  BY <1>1, <1>2, <1>3, Inductive, PTL DEF Spec

=============================================================================
