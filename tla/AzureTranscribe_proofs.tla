----------------------- MODULE AzureTranscribe_proofs -----------------------
(***************************************************************************)
(* What is proved of AzureTranscribe for any number of recognizers and of  *)
(* API threads, every number of frames and commands, every length of a     *)
(* chunk and every size of the prebuffer.                                  *)
(***************************************************************************)
EXTENDS AzureTranscribe, Prebuffer_proofs

-----------------------------------------------------------------------------
(* The inductive invariant.                                                *)

Killing  == {"finish", "disconnect", "stop", "delete"}
Idle     == {"idle", "init"}
Stopping == {"lock", "reap", "remove", "close"}

RecognizerTypes ==
  /\ state \in [Cbs -> {"none", "live", "deleted"}] /\ active \in Int
  /\ {holds, finished, connected, connecting, handlers, told} \subseteq SUBSET Cbs
  /\ sdk \in [Cbs -> {"idle", "starting", "running", "ended", "stopped"}]
  /\ callback \in [Cbs -> {"none", "drain", "tellDrain", "tell"}]
  /\ reaperAt \in [Cbs -> Killing \cup {"none", "done"}]
  /\ frames \in [Cbs -> Nat] /\ DOMAIN chunks = Cbs /\ DOMAIN staging = Cbs /\ DOMAIN pushed = Cbs

SessionTypes ==
  /\ {loaded, vad, alive} \subseteq BOOLEAN /\ calls \in Nat
  /\ media \in {"idle", "buffer", "push", "tell"} /\ frame \in Cbs \cup {NoCb}
  /\ at \in [Owners -> Idle \cup Killing \cup Stopping \cup {"add", "publish"}]
  /\ cb \in [Owners -> Cbs \cup {NoCb}] /\ resume \in [Owners -> Idle]
  /\ private \in Cbs \cup {NoCb} /\ attached \subseteq Cbs
  /\ bugs \in Owners \cup {"free", "media"} /\ mutex \in [Cbs -> Owners \cup {"free", "media"}]

TypeOK == RecognizerTypes /\ SessionTypes

\* Of a recognizer that is not there nothing is left, and nobody uses it.
Quiet(b) ==
  state[b] # "live" =>
    /\ b \notin holds \cup finished \cup connected \cup connecting \cup handlers \cup told
    /\ sdk[b] = "idle" /\ callback[b] = "none" /\ reaperAt[b] \in {"none", "done"}
    /\ chunks[b] = <<>> /\ staging[b] = {} /\ pushed[b] = 0 /\ frame # b

\* One that was not made yet is not known to anybody.
Unknown(b) ==
  state[b] = "none" =>
    b # private /\ b \notin attached /\ reaperAt[b] = "none" /\ \A o \in Owners : cb[o] # b

\* A caller has a cap_cb from its command, or from the constructor, until it returns.
Named(o) == cb[o] = NoCb <=> at[o] \in Idle

\* Who reaps holds cb->mutex, and so does the media thread, which uses a streamer that is there.
MutexHeld(o) == at[o] = "reap" => mutex[cb[o]] = o
MediaHolds ==
  /\ media = "idle" <=> frame = NoCb
  /\ media # "idle" => bugs = "media" /\ frame \in holds /\ mutex[frame] = "media"
  /\ media = "tell" => frame \in finished

\* Before bug_add only the start knows its cap_cb.
Fresh(c) ==
  at[c] \in Killing \cup {"add"} =>
    /\ cb[c] \in holds \ attached /\ private # cb[c] /\ frame # cb[c]
    /\ \A o \in Owners \ {c} : cb[o] # cb[c]

\* A recognizer is with its reaper, or its cap_cb holds it and somebody is going to reap it:
\* the session that has the bug, the start that made it, or who removed the bug.
Kept(b) ==
  state[b] = "live" =>
    \/ reaperAt[b] # "none"
    \/ /\ b \in holds
       /\ b \in attached \/ \E o \in Owners : cb[o] = b /\ at[o] \in Killing \cup {"add", "close"}

\* The reaper's recognizer has no cap_cb any more.
Taken(b) == reaperAt[b] # "none" => b \notin holds

\* The start that made b, or that found no place for its bug, deletes it.
Doomed(b) == \E c \in Callers : cb[c] = b /\ at[c] \in Killing

\* Of a recognition that ended an event told, or will when who ended it is done, unless the start
\* that made the recognizer deletes it.
Told(b) ==
  alive /\ b \in holds /\ (b \in finished \/ sdk[b] = "ended") =>
    \/ b \in told \/ callback[b] \in {"tell", "tellDrain"} \/ (media = "tell" /\ frame = b)
    \/ Doomed(b)

Control ==
  /\ TypeOK /\ MediaHolds
  /\ \A b \in Cbs : Quiet(b) /\ Unknown(b) /\ Kept(b) /\ Taken(b) /\ Told(b)
  /\ \A o \in Owners : Named(o) /\ MutexHeld(o)
  /\ \A c \in Callers : Fresh(c)

\* The frames of b that write() has dealt with: all but the one in the media thread's hands.
Written(b) == IF media \in {"buffer", "push"} /\ frame = b THEN frames[b] - 1 ELSE frames[b]

\* What b read and did not push lies in order: the prebuffer after a up to e, and behind it what
\* is staged; once b is connected nothing is left.
AudioAt(b, a, e) ==
  /\ pushed[b] \in Nat /\ pushed[b] <= a /\ e <= Written(b)
  /\ InChunks(chunks[b], a, e) /\ staging[b] = (e + 1) .. Written(b)
  /\ b \in connected => chunks[b] = <<>> /\ staging[b] = {}
Audio(b) ==
  /\ media \in {"buffer", "push"} /\ frame = b => frames[b] > 0
  /\ media = "push" /\ frame = b => b \in connected
  /\ callback[b] = "tellDrain" => b \in finished
  /\ b \notin finished => \E a, e \in Nat : AudioAt(b, a, e)

IInv == Control /\ \A b \in Cbs : Audio(b)

-----------------------------------------------------------------------------
(* The tuples of variables and the helpers of the actions are expanded     *)
(* everywhere, the actions and the parts of the invariant only where they  *)
(* are used.                                                               *)

USE AzureAssumption
    DEF Owners, Killing, Idle, Stopping, Goes, flagVars, bufferVars, sdkVars, mediaVars, callVars,
        fsVars, lifeVars, streamVars, CallbackKeeps, CallKeeps, StopKeeps, MediaKeeps, Command,
        FinishCheck, Disconnect, Destroy, Finished, Tell, Dispatch, Returns, NewGStreamer,
        ReapAndUnlock, MediaHas, MediaDone, WriteCheck, Ended

\* What the SDK's threads leave alone, and what only grows by them.
LEMMA CallbackOnly ==
  ASSUME NEW r \in Cbs, CallbackStep(r)
  PROVE  CallbackKeeps /\ connecting' = connecting /\ handlers' = handlers
         /\ finished \subseteq finished'
  BY DEF CallbackStep, SessionStarted, DrainFails, TellDrain, DrainChunk, DrainEnd, Canceled,
         SessionStopped, TellEnd

\* The locks' other values are not the names of owners.
LEMMA OwnersApart == \A o \in Owners : o # "free" /\ o # "media"
  BY DEF Hangup

\* Away from its place an owner has a cap_cb.
LEMMA HasCb ==
  ASSUME Control, NEW o \in Owners, at[o] \notin Idle
  PROVE  cb[o] \in Cbs
  BY DEF Control, TypeOK, SessionTypes, Named

\* Who holds a mutex keeps it when another changes hands.
LEMMA OthersKeep ==
  ASSUME Control, NEW q \in Owners, UNCHANGED <<at, cb>>, NEW m \in Cbs, mutex[m] \in {"free", "media"},
         mutex' = mutex \/ \E v \in {"free", "media"} : mutex' = [mutex EXCEPT ![m] = v]
  PROVE  MutexHeld(q)'
<1> USE DEF Control, TypeOK, SessionTypes, Named, MutexHeld
<1> SUFFICES ASSUME at[q] = "reap" PROVE mutex'[cb[q]] = q
  OBVIOUS
<1>1. mutex[cb[q]] = q /\ cb[q] # m /\ cb[q] \in Cbs
  BY OwnersApart
<1> QED
  BY <1>1

\* A step of o leaves the others in their places.
LEMMA DoomStays ==
  ASSUME Control, NEW o \in Owners, NEW b \in Cbs, Doomed(b),
         \A q \in Owners \ {o} : at'[q] = at[q] /\ cb'[q] = cb[q],
         cb[o] = b /\ at[o] \in Killing => cb'[o] = b /\ at'[o] \in Killing
  PROVE  Doomed(b)'
<1>1. PICK c \in Callers : cb[c] = b /\ at[c] \in Killing
  BY DEF Doomed
<1>2. cb'[c] = b /\ at'[c] \in Killing
  BY <1>1
<1> QED
  BY <1>2 DEF Doomed

\* Every step keeps the types of the recognizers.
LEMMA RecognizersTyped ==
  ASSUME Control, [Next]_vars
  PROVE  RecognizerTypes'
<1> USE DEF Control, Named, TypeOK, RecognizerTypes, SessionTypes, MediaHolds
<1>1. ASSUME NEW c \in Callers, StartCommand(c) PROVE RecognizerTypes'
  BY <1>1 DEF StartCommand
<1>2. ASSUME NEW c \in Callers, Refused(c) PROVE RecognizerTypes'
  BY <1>2 DEF Refused
<1>3. ASSUME NEW c \in Callers, Construct(c) PROVE RecognizerTypes'
  BY <1>3 DEF Construct
<1>4. ASSUME NEW c \in Callers, KillCb(c) PROVE RecognizerTypes'
  <2>1. CASE FinishCheck(cb[c], at, c) /\ UNCHANGED <<lifeVars, holds, cb, resume, fsVars, streamVars, mutex>>
    BY <1>4, <2>1 DEF KillCb
  <2>2. CASE Disconnect(cb[c], at, c) /\ UNCHANGED <<lifeVars, holds, cb, resume, fsVars, mutex>>
    BY <1>4, <2>2 DEF KillCb
  <2>3. CASE Finished(cb[c], at, c) /\ Destroy(cb[c]) /\ holds' = holds \ {cb[c]} /\ Returns(c)
    <3>1. cb[c] \in Cbs
      <4>1. c \in Owners /\ at[c] \notin Idle
        BY <2>3
      <4> QED
        BY <4>1, HasCb
    <3>2. UNCHANGED <<reaperAt, frames>>
      BY <1>4 DEF KillCb
    <3> QED
      BY <2>3, <3>1, <3>2
  <2> QED
    BY <1>4, <2>1, <2>2, <2>3 DEF KillCb
<1>5. ASSUME NEW c \in Callers, BugAdd(c) PROVE RecognizerTypes'
  BY <1>5 DEF BugAdd
<1>6. ASSUME NEW c \in Callers, Publish(c) PROVE RecognizerTypes'
  BY <1>6 DEF Publish
<1>7. ASSUME NEW c \in Callers, StopCommand(c) PROVE RecognizerTypes'
  BY <1>7 DEF StopCommand
<1>8. ASSUME NEW o \in Owners, LockAndVerify(o) PROVE RecognizerTypes'
  BY <1>8 DEF LockAndVerify
<1>9. ASSUME NEW o \in Owners, Reap(o) PROVE RecognizerTypes'
  BY <1>9 DEF Reap
<1>10. ASSUME NEW o \in Owners, Remove(o) PROVE RecognizerTypes'
  BY <1>10 DEF Remove
<1>11. ASSUME NEW o \in Owners, Close(o) PROVE RecognizerTypes'
  BY <1>11 DEF Close
<1>12. ASSUME NEW r \in Cbs, SessionStarted(r) PROVE RecognizerTypes'
  BY <1>12 DEF SessionStarted
<1>13. ASSUME NEW r \in Cbs, DrainFails(r) PROVE RecognizerTypes'
  BY <1>13 DEF DrainFails
<1>14. ASSUME NEW r \in Cbs, TellDrain(r) PROVE RecognizerTypes'
  BY <1>14 DEF TellDrain
<1>15. ASSUME NEW r \in Cbs, DrainChunk(r) PROVE RecognizerTypes'
  BY <1>15 DEF DrainChunk
<1>16. ASSUME NEW r \in Cbs, DrainEnd(r) PROVE RecognizerTypes'
  BY <1>16 DEF DrainEnd
<1>17. ASSUME NEW r \in Cbs, Canceled(r) PROVE RecognizerTypes'
  BY <1>17 DEF Canceled
<1>18. ASSUME NEW r \in Cbs, SessionStopped(r) PROVE RecognizerTypes'
  BY <1>18 DEF SessionStopped
<1>19. ASSUME NEW r \in Cbs, TellEnd(r) PROVE RecognizerTypes'
  BY <1>19 DEF TellEnd
<1>20. ASSUME NEW r \in Cbs, ReaperFinish(r) PROVE RecognizerTypes'
  <2>1. CASE FinishCheck(r, reaperAt, r) /\ UNCHANGED <<lifeVars, streamVars>>
    BY <1>20, <2>1 DEF ReaperFinish
  <2>2. CASE Disconnect(r, reaperAt, r) /\ UNCHANGED lifeVars
    BY <1>20, <2>2 DEF ReaperFinish
  <2>3. CASE Finished(r, reaperAt, r) /\ Destroy(r) /\ reaperAt' = [reaperAt EXCEPT ![r] = "done"]
    BY <1>20, <2>3 DEF ReaperFinish
  <2> QED
    BY <1>20, <2>1, <2>2, <2>3 DEF ReaperFinish
<1>21. ASSUME NEW r \in Cbs, CloseBug(r) PROVE RecognizerTypes'
  BY <1>21 DEF CloseBug
<1>22. ASSUME NEW r \in Cbs, Frame(r) PROVE RecognizerTypes'
  BY <1>22 DEF Frame
<1>23. CASE Buffer
  BY <1>23 DEF Buffer, Staged
<1>24. CASE Push
  BY <1>24 DEF Push
<1>25. CASE MediaTell
  BY <1>25 DEF MediaTell
<1>26. CASE SessionGone
  BY <1>26 DEF SessionGone
<1>27. CASE Unload
  BY <1>27 DEF Unload
<1>28. CASE UNCHANGED vars
  BY <1>28 DEF vars
<1> QED
  BY <1>1, <1>2, <1>3, <1>4, <1>5, <1>6, <1>7, <1>8, <1>9, <1>10, <1>11, <1>12, <1>13,
     <1>14, <1>15, <1>16, <1>17, <1>18, <1>19, <1>20, <1>21, <1>22, <1>23, <1>24, <1>25,
     <1>26, <1>27, <1>28
     DEF Next, CallerStep, StopStep, MediaStep, CallbackStep

\* Every step keeps the types of the session, its threads and its locks.
LEMMA SessionTyped ==
  ASSUME Control, [Next]_vars
  PROVE  SessionTypes'
<1> USE DEF Control, Named, TypeOK, RecognizerTypes, SessionTypes
<1>1. ASSUME NEW c \in Callers, StartCommand(c) PROVE SessionTypes'
  BY <1>1 DEF StartCommand
<1>2. ASSUME NEW c \in Callers, Refused(c) PROVE SessionTypes'
  BY <1>2 DEF Refused
<1>3. ASSUME NEW c \in Callers, Construct(c) PROVE SessionTypes'
  BY <1>3 DEF Construct
<1>4. ASSUME NEW c \in Callers, KillCb(c) PROVE SessionTypes'
  <2>1. CASE FinishCheck(cb[c], at, c) /\ UNCHANGED <<lifeVars, holds, cb, resume, fsVars, streamVars, mutex>>
    BY <1>4, <2>1 DEF KillCb
  <2>2. CASE Disconnect(cb[c], at, c) /\ UNCHANGED <<lifeVars, holds, cb, resume, fsVars, mutex>>
    BY <1>4, <2>2 DEF KillCb
  <2>3. CASE Finished(cb[c], at, c) /\ Destroy(cb[c]) /\ holds' = holds \ {cb[c]} /\ Returns(c)
    BY <1>4, <2>3 DEF KillCb
  <2> QED
    BY <1>4, <2>1, <2>2, <2>3 DEF KillCb
<1>5. ASSUME NEW c \in Callers, BugAdd(c) PROVE SessionTypes'
  <2>1. CASE at' = [at EXCEPT ![c] = "publish"]
    BY <1>5, <2>1 DEF BugAdd
  <2>2. CASE at' = [at EXCEPT ![c] = "finish"]
    BY <1>5, <2>2 DEF BugAdd
  <2> QED
    BY <1>5, <2>1, <2>2 DEF BugAdd
<1>6. ASSUME NEW c \in Callers, Publish(c) PROVE SessionTypes'
  BY <1>6 DEF Publish
<1>7. ASSUME NEW c \in Callers, StopCommand(c) PROVE SessionTypes'
  BY <1>7 DEF StopCommand
<1>8. ASSUME NEW o \in Owners, LockAndVerify(o) PROVE SessionTypes'
  BY <1>8 DEF LockAndVerify
<1>9. ASSUME NEW o \in Owners, Reap(o) PROVE SessionTypes'
  BY <1>9 DEF Reap
<1>10. ASSUME NEW o \in Owners, Remove(o) PROVE SessionTypes'
  <2>1. CASE cb[o] \in attached
    <3>1. /\ at' = [at EXCEPT ![o] = "close"] /\ attached' = attached \ {cb[o]}
          /\ UNCHANGED <<lifeVars, holds, vad, streamVars, reaperAt, mediaVars, calls, cb, resume, alive,
                         private, bugs, mutex>>
      BY <1>10, <2>1 DEF Remove
    <3> QED
      BY <3>1
  <2>2. CASE cb[o] \notin attached
    <3>1. /\ Returns(o)
          /\ UNCHANGED <<lifeVars, holds, vad, streamVars, reaperAt, mediaVars, calls, alive, attached,
                         private, mutex>>
      BY <1>10, <2>2 DEF Remove
    <3> QED
      BY <3>1
  <2> QED
    BY <2>1, <2>2
<1>11. ASSUME NEW o \in Owners, Close(o) PROVE SessionTypes'
  BY <1>11 DEF Close
<1>12. ASSUME NEW r \in Cbs, CallbackStep(r) PROVE SessionTypes'
  BY <1>12, CallbackOnly
<1>13. ASSUME NEW r \in Cbs, ReaperFinish(r) PROVE SessionTypes'
  BY <1>13 DEF ReaperFinish
<1>14. ASSUME NEW r \in Cbs, CloseBug(r) PROVE SessionTypes'
  BY <1>14 DEF CloseBug
<1>15. ASSUME NEW r \in Cbs, Frame(r) PROVE SessionTypes'
  BY <1>15 DEF Frame
<1>16. CASE Buffer
  BY <1>16 DEF Buffer
<1>17. CASE Push
  BY <1>17 DEF Push
<1>18. CASE MediaTell
  BY <1>18 DEF MediaTell
<1>19. CASE SessionGone
  BY <1>19 DEF SessionGone
<1>20. CASE Unload
  BY <1>20 DEF Unload
<1>21. CASE UNCHANGED vars
  BY <1>21 DEF vars
<1> QED
  BY <1>1, <1>2, <1>3, <1>4, <1>5, <1>6, <1>7, <1>8, <1>9, <1>10, <1>11, <1>12, <1>13,
     <1>14, <1>15, <1>16, <1>17, <1>18, <1>19, <1>20, <1>21
     DEF Next, CallerStep, StopStep, MediaStep

\* A caller gets its cap_cb when it leaves its place, and gives it up when it returns.
LEMMA NamedKept ==
  ASSUME Control, NEW q \in Owners, [Next]_vars
  PROVE  Named(q)'
<1> USE DEF Control, TypeOK, SessionTypes, Named
<1>1. ASSUME NEW c \in Callers, StartCommand(c) PROVE Named(q)'
  BY <1>1 DEF StartCommand
<1>2. ASSUME NEW c \in Callers, Refused(c) PROVE Named(q)'
  BY <1>2 DEF Refused
<1>3. ASSUME NEW c \in Callers, Construct(c) PROVE Named(q)'
  BY <1>3 DEF Construct
<1>4. ASSUME NEW c \in Callers, KillCb(c) PROVE Named(q)'
  BY <1>4 DEF KillCb
<1>5. ASSUME NEW c \in Callers, BugAdd(c) PROVE Named(q)'
  BY <1>5 DEF BugAdd
<1>6. ASSUME NEW c \in Callers, Publish(c) PROVE Named(q)'
  BY <1>6 DEF Publish
<1>7. ASSUME NEW c \in Callers, StopCommand(c) PROVE Named(q)'
  BY <1>7 DEF StopCommand
<1>8. ASSUME NEW o \in Owners, LockAndVerify(o) PROVE Named(q)'
  BY <1>8 DEF LockAndVerify
<1>9. ASSUME NEW o \in Owners, Reap(o) PROVE Named(q)'
  BY <1>9 DEF Reap
<1>10. ASSUME NEW o \in Owners, Remove(o) PROVE Named(q)'
  BY <1>10 DEF Remove
<1>11. ASSUME NEW o \in Owners, Close(o) PROVE Named(q)'
  BY <1>11 DEF Close
<1>12. ASSUME NEW r \in Cbs, CallbackStep(r) PROVE Named(q)'
  BY <1>12, CallbackOnly
<1>13. ASSUME NEW r \in Cbs, ReaperFinish(r) PROVE Named(q)'
  BY <1>13 DEF ReaperFinish
<1>14. ASSUME NEW r \in Cbs, CloseBug(r) PROVE Named(q)'
  BY <1>14 DEF CloseBug
<1>15. ASSUME NEW r \in Cbs, Frame(r) PROVE Named(q)'
  BY <1>15 DEF Frame
<1>16. CASE Buffer
  BY <1>16 DEF Buffer
<1>17. CASE Push
  BY <1>17 DEF Push
<1>18. CASE MediaTell
  BY <1>18 DEF MediaTell
<1>19. CASE SessionGone
  BY <1>19 DEF SessionGone
<1>20. CASE Unload
  BY <1>20 DEF Unload
<1>21. CASE UNCHANGED vars
  BY <1>21 DEF vars
<1> QED
  BY <1>1, <1>2, <1>3, <1>4, <1>5, <1>6, <1>7, <1>8, <1>9, <1>10, <1>11, <1>12, <1>13,
     <1>14, <1>15, <1>16, <1>17, <1>18, <1>19, <1>20, <1>21
     DEF Next, CallerStep, StopStep, MediaStep

\* cb->mutex is given back by who took it.
LEMMA MutexHeldKept ==
  ASSUME Control, NEW q \in Owners, [Next]_vars
  PROVE  MutexHeld(q)'
<1> USE DEF Control, TypeOK, RecognizerTypes, SessionTypes, MediaHolds, Named, MutexHeld
<1>1. ASSUME NEW c \in Callers, StartCommand(c) PROVE MutexHeld(q)'
  BY <1>1 DEF StartCommand
<1>2. ASSUME NEW c \in Callers, Refused(c) PROVE MutexHeld(q)'
  BY <1>2 DEF Refused
<1>3. ASSUME NEW c \in Callers, Construct(c) PROVE MutexHeld(q)'
  BY <1>3 DEF Construct
<1>4. ASSUME NEW c \in Callers, KillCb(c) PROVE MutexHeld(q)'
  <2>1. CASE FinishCheck(cb[c], at, c) /\ UNCHANGED <<lifeVars, holds, cb, resume, fsVars, streamVars, mutex>>
    BY <1>4, <2>1 DEF KillCb
  <2>2. CASE Disconnect(cb[c], at, c) /\ UNCHANGED <<lifeVars, holds, cb, resume, fsVars, mutex>>
    BY <1>4, <2>2 DEF KillCb
  <2>3. CASE Finished(cb[c], at, c) /\ Destroy(cb[c]) /\ holds' = holds \ {cb[c]} /\ Returns(c)
    BY <1>4, <2>3 DEF KillCb
  <2> QED
    BY <1>4, <2>1, <2>2, <2>3 DEF KillCb
<1>5. ASSUME NEW c \in Callers, BugAdd(c) PROVE MutexHeld(q)'
  BY <1>5 DEF BugAdd
<1>6. ASSUME NEW c \in Callers, Publish(c) PROVE MutexHeld(q)'
  BY <1>6 DEF Publish
<1>7. ASSUME NEW c \in Callers, StopCommand(c) PROVE MutexHeld(q)'
  BY <1>7 DEF StopCommand
<1>8. ASSUME NEW o \in Owners, LockAndVerify(o) PROVE MutexHeld(q)'
  <2>1. CASE /\ at' = [at EXCEPT ![o] = "reap"] /\ mutex' = [mutex EXCEPT ![cb[o]] = o] /\ cb' = cb
             /\ at[o] = "lock" /\ mutex[cb[o]] = "free"
    <3>1. cb[o] \in Cbs /\ o # "free" /\ q # "free"
      BY <2>1, OwnersApart
    <3>2. CASE q = o
      BY <2>1, <3>1, <3>2
    <3>3. CASE q # o
      BY <2>1, <3>1, <3>3
    <3> QED
      BY <3>2, <3>3
  <2>2. CASE Returns(o) /\ UNCHANGED mutex
    BY <2>2
  <2> QED
    BY <1>8, <2>1, <2>2 DEF LockAndVerify
<1>9. ASSUME NEW o \in Owners, Reap(o) PROVE MutexHeld(q)'
  BY <1>9 DEF Reap
<1>10. ASSUME NEW o \in Owners, Remove(o) PROVE MutexHeld(q)'
  BY <1>10 DEF Remove
<1>11. ASSUME NEW o \in Owners, Close(o) PROVE MutexHeld(q)'
  BY <1>11 DEF Close
<1>12. ASSUME NEW r \in Cbs, CallbackStep(r) PROVE MutexHeld(q)'
  BY <1>12, CallbackOnly
<1>13. ASSUME NEW r \in Cbs, ReaperFinish(r) PROVE MutexHeld(q)'
  BY <1>13 DEF ReaperFinish
<1>14. ASSUME NEW r \in Cbs, CloseBug(r) PROVE MutexHeld(q)'
  BY <1>14 DEF CloseBug
<1>15. ASSUME NEW r \in Cbs, Frame(r) PROVE MutexHeld(q)'
  <2>1. /\ mutex[r] = "free" /\ UNCHANGED <<at, cb>>
        /\ mutex' = mutex \/ mutex' = [mutex EXCEPT ![r] = "media"]
    BY <1>15 DEF Frame
  <2> QED
    BY <2>1, OthersKeep
<1>16. CASE Buffer
  <2>1. /\ frame \in Cbs /\ mutex[frame] = "media" /\ UNCHANGED <<at, cb>>
        /\ \E v \in {"free", "media"} : mutex' = [mutex EXCEPT ![frame] = v]
    BY <1>16 DEF Buffer
  <2> QED
    BY <2>1, OthersKeep
<1>17. CASE Push
  <2>1. /\ frame \in Cbs /\ mutex[frame] = "media" /\ UNCHANGED <<at, cb>>
        /\ \E v \in {"free", "media"} : mutex' = [mutex EXCEPT ![frame] = v]
    BY <1>17 DEF Push
  <2> QED
    BY <2>1, OthersKeep
<1>18. CASE MediaTell
  <2>1. /\ frame \in Cbs /\ mutex[frame] = "media" /\ UNCHANGED <<at, cb>>
        /\ \E v \in {"free", "media"} : mutex' = [mutex EXCEPT ![frame] = v]
    BY <1>18 DEF MediaTell
  <2> QED
    BY <2>1, OthersKeep
<1>19. CASE SessionGone
  BY <1>19 DEF SessionGone
<1>20. CASE Unload
  BY <1>20 DEF Unload
<1>21. CASE UNCHANGED vars
  BY <1>21 DEF vars
<1> QED
  BY <1>1, <1>2, <1>3, <1>4, <1>5, <1>6, <1>7, <1>8, <1>9, <1>10, <1>11, <1>12, <1>13,
     <1>14, <1>15, <1>16, <1>17, <1>18, <1>19, <1>20, <1>21
     DEF Next, CallerStep, StopStep, MediaStep

\* No stop takes the streamer away from the media thread.
LEMMA MediaHoldsKept ==
  ASSUME Control, [Next]_vars
  PROVE  MediaHolds'
<1> USE DEF Control, TypeOK, RecognizerTypes, SessionTypes, MediaHolds, Named, MutexHeld, Fresh, Taken
<1>1. ASSUME NEW c \in Callers, StartCommand(c) PROVE MediaHolds'
  BY <1>1 DEF StartCommand
<1>2. ASSUME NEW c \in Callers, Refused(c) PROVE MediaHolds'
  BY <1>2 DEF Refused
<1>3. ASSUME NEW c \in Callers, Construct(c) PROVE MediaHolds'
  BY <1>3 DEF Construct
<1>4. ASSUME NEW c \in Callers, KillCb(c) PROVE MediaHolds'
  BY <1>4 DEF KillCb
<1>5. ASSUME NEW c \in Callers, BugAdd(c) PROVE MediaHolds'
  BY <1>5 DEF BugAdd
<1>6. ASSUME NEW c \in Callers, Publish(c) PROVE MediaHolds'
  BY <1>6 DEF Publish
<1>7. ASSUME NEW c \in Callers, StopCommand(c) PROVE MediaHolds'
  BY <1>7 DEF StopCommand
<1>8. ASSUME NEW o \in Owners, LockAndVerify(o) PROVE MediaHolds'
  <2>1. media # "idle" => frame # cb[o]
    BY <1>8, OwnersApart DEF LockAndVerify
  <2>2. UNCHANGED <<media, frame, finished>>
    BY <1>8 DEF LockAndVerify
  <2>3. media # "idle" => bugs' = "media"
    BY <1>8, OwnersApart DEF LockAndVerify
  <2>4. media # "idle" => frame \in holds' /\ mutex'[frame] = "media"
    BY <1>8, <2>1 DEF LockAndVerify
  <2> QED
    BY <2>2, <2>3, <2>4
<1>9. ASSUME NEW o \in Owners, Reap(o) PROVE MediaHolds'
  <2>1. media # "idle" => frame # cb[o]
    BY <1>9, OwnersApart DEF Reap
  <2>2. UNCHANGED <<media, frame, finished>>
    BY <1>9 DEF Reap
  <2>3. media # "idle" => bugs' = "media"
    BY <1>9, OwnersApart DEF Reap
  <2>4. media # "idle" => frame \in holds' /\ mutex'[frame] = "media"
    BY <1>9, <2>1 DEF Reap
  <2> QED
    BY <2>2, <2>3, <2>4
<1>10. ASSUME NEW o \in Owners, Remove(o) PROVE MediaHolds'
  BY <1>10 DEF Remove
<1>11. ASSUME NEW o \in Owners, Close(o) PROVE MediaHolds'
  <2>1. media # "idle" => frame # cb[o]
    BY <1>11, OwnersApart DEF Close
  <2>2. UNCHANGED <<media, frame, finished>>
    BY <1>11 DEF Close
  <2>3. media # "idle" => bugs' = "media"
    BY <1>11, OwnersApart DEF Close
  <2>4. media # "idle" => frame \in holds' /\ mutex'[frame] = "media"
    BY <1>11, <2>1 DEF Close
  <2> QED
    BY <2>2, <2>3, <2>4
<1>12. ASSUME NEW r \in Cbs, CallbackStep(r) PROVE MediaHolds'
  BY <1>12, CallbackOnly
<1>13. ASSUME NEW r \in Cbs, ReaperFinish(r) PROVE MediaHolds'
  BY <1>13 DEF ReaperFinish
<1>14. ASSUME NEW r \in Cbs, CloseBug(r) PROVE MediaHolds'
  BY <1>14 DEF CloseBug
<1>15. ASSUME NEW r \in Cbs, Frame(r) PROVE MediaHolds'
  BY <1>15 DEF Frame
<1>16. CASE Buffer
  BY <1>16 DEF Buffer
<1>17. CASE Push
  BY <1>17 DEF Push
<1>18. CASE MediaTell
  BY <1>18 DEF MediaTell
<1>19. CASE SessionGone
  BY <1>19 DEF SessionGone
<1>20. CASE Unload
  BY <1>20 DEF Unload
<1>21. CASE UNCHANGED vars
  BY <1>21 DEF vars
<1> QED
  BY <1>1, <1>2, <1>3, <1>4, <1>5, <1>6, <1>7, <1>8, <1>9, <1>10, <1>11, <1>12, <1>13,
     <1>14, <1>15, <1>16, <1>17, <1>18, <1>19, <1>20, <1>21
     DEF Next, CallerStep, StopStep, MediaStep

\* A recognizer that was deleted is not used again.
LEMMA QuietKept ==
  ASSUME Control, NEW b \in Cbs, [Next]_vars
  PROVE  Quiet(b)'
<1> USE DEF Control, TypeOK, RecognizerTypes, SessionTypes, MediaHolds, Quiet, Fresh, Taken, MutexHeld
<1>1. ASSUME NEW c \in Callers, StartCommand(c) PROVE Quiet(b)'
  BY <1>1 DEF StartCommand
<1>2. ASSUME NEW c \in Callers, Refused(c) PROVE Quiet(b)'
  BY <1>2 DEF Refused
<1>3. ASSUME NEW c \in Callers, Construct(c) PROVE Quiet(b)'
  BY <1>3 DEF Construct
<1>4. ASSUME NEW c \in Callers, KillCb(c) PROVE Quiet(b)'
  BY <1>4 DEF KillCb
<1>5. ASSUME NEW c \in Callers, BugAdd(c) PROVE Quiet(b)'
  BY <1>5 DEF BugAdd
<1>6. ASSUME NEW c \in Callers, Publish(c) PROVE Quiet(b)'
  BY <1>6 DEF Publish
<1>7. ASSUME NEW c \in Callers, StopCommand(c) PROVE Quiet(b)'
  BY <1>7 DEF StopCommand
<1>8. ASSUME NEW o \in Owners, LockAndVerify(o) PROVE Quiet(b)'
  BY <1>8 DEF LockAndVerify
<1>9. ASSUME NEW o \in Owners, Reap(o) PROVE Quiet(b)'
  BY <1>9 DEF Reap
<1>10. ASSUME NEW o \in Owners, Remove(o) PROVE Quiet(b)'
  BY <1>10 DEF Remove
<1>11. ASSUME NEW o \in Owners, Close(o) PROVE Quiet(b)'
  BY <1>11 DEF Close
<1>12. ASSUME NEW r \in Cbs, SessionStarted(r) PROVE Quiet(b)'
  BY <1>12 DEF SessionStarted
<1>13. ASSUME NEW r \in Cbs, DrainFails(r) PROVE Quiet(b)'
  BY <1>13 DEF DrainFails
<1>14. ASSUME NEW r \in Cbs, TellDrain(r) PROVE Quiet(b)'
  BY <1>14 DEF TellDrain
<1>15. ASSUME NEW r \in Cbs, DrainChunk(r) PROVE Quiet(b)'
  BY <1>15 DEF DrainChunk
<1>16. ASSUME NEW r \in Cbs, DrainEnd(r) PROVE Quiet(b)'
  BY <1>16 DEF DrainEnd
<1>17. ASSUME NEW r \in Cbs, Canceled(r) PROVE Quiet(b)'
  BY <1>17 DEF Canceled
<1>18. ASSUME NEW r \in Cbs, SessionStopped(r) PROVE Quiet(b)'
  BY <1>18 DEF SessionStopped
<1>19. ASSUME NEW r \in Cbs, TellEnd(r) PROVE Quiet(b)'
  BY <1>19 DEF TellEnd
<1>20. ASSUME NEW r \in Cbs, ReaperFinish(r) PROVE Quiet(b)'
  <2>1. CASE FinishCheck(r, reaperAt, r) /\ UNCHANGED <<lifeVars, streamVars>>
    BY <1>20, <2>1 DEF ReaperFinish
  <2>2. CASE Disconnect(r, reaperAt, r) /\ UNCHANGED lifeVars
    BY <1>20, <2>2 DEF ReaperFinish
  <2>3. CASE Finished(r, reaperAt, r) /\ Destroy(r) /\ reaperAt' = [reaperAt EXCEPT ![r] = "done"]
    BY <1>20, <2>3 DEF ReaperFinish
  <2> QED
    BY <1>20, <2>1, <2>2, <2>3 DEF ReaperFinish
<1>21. ASSUME NEW r \in Cbs, CloseBug(r) PROVE Quiet(b)'
  BY <1>21 DEF CloseBug
<1>22. ASSUME NEW r \in Cbs, Frame(r) PROVE Quiet(b)'
  BY <1>22 DEF Frame
<1>23. CASE Buffer
  BY <1>23 DEF Buffer, Staged
<1>24. CASE Push
  BY <1>24 DEF Push
<1>25. CASE MediaTell
  BY <1>25 DEF MediaTell
<1>26. CASE SessionGone
  BY <1>26 DEF SessionGone
<1>27. CASE Unload
  BY <1>27 DEF Unload
<1>28. CASE UNCHANGED vars
  BY <1>28 DEF vars
<1> QED
  BY <1>1, <1>2, <1>3, <1>4, <1>5, <1>6, <1>7, <1>8, <1>9, <1>10, <1>11, <1>12, <1>13,
     <1>14, <1>15, <1>16, <1>17, <1>18, <1>19, <1>20, <1>21, <1>22, <1>23, <1>24, <1>25,
     <1>26, <1>27, <1>28
     DEF Next, CallerStep, StopStep, MediaStep, CallbackStep

\* Only its start knows a recognizer when it is made.
LEMMA UnknownKept ==
  ASSUME Control, NEW b \in Cbs, [Next]_vars
  PROVE  Unknown(b)'
<1> USE DEF Control, TypeOK, RecognizerTypes, SessionTypes, Quiet, Unknown, Named, Fresh
<1>1. ASSUME NEW c \in Callers, StartCommand(c) PROVE Unknown(b)'
  BY <1>1 DEF StartCommand
<1>2. ASSUME NEW c \in Callers, Refused(c) PROVE Unknown(b)'
  BY <1>2 DEF Refused
<1>3. ASSUME NEW c \in Callers, Construct(c) PROVE Unknown(b)'
  BY <1>3 DEF Construct
<1>4. ASSUME NEW c \in Callers, KillCb(c) PROVE Unknown(b)'
  BY <1>4 DEF KillCb
<1>5. ASSUME NEW c \in Callers, BugAdd(c) PROVE Unknown(b)'
  BY <1>5 DEF BugAdd
<1>6. ASSUME NEW c \in Callers, Publish(c) PROVE Unknown(b)'
  BY <1>6 DEF Publish
<1>7. ASSUME NEW c \in Callers, StopCommand(c) PROVE Unknown(b)'
  BY <1>7 DEF StopCommand
<1>8. ASSUME NEW o \in Owners, LockAndVerify(o) PROVE Unknown(b)'
  BY <1>8 DEF LockAndVerify
<1>9. ASSUME NEW o \in Owners, Reap(o) PROVE Unknown(b)'
  BY <1>9 DEF Reap
<1>10. ASSUME NEW o \in Owners, Remove(o) PROVE Unknown(b)'
  BY <1>10 DEF Remove
<1>11. ASSUME NEW o \in Owners, Close(o) PROVE Unknown(b)'
  BY <1>11 DEF Close
<1>12. ASSUME NEW r \in Cbs, CallbackStep(r) PROVE Unknown(b)'
  BY <1>12, CallbackOnly
<1>13. ASSUME NEW r \in Cbs, ReaperFinish(r) PROVE Unknown(b)'
  BY <1>13 DEF ReaperFinish
<1>14. ASSUME NEW r \in Cbs, CloseBug(r) PROVE Unknown(b)'
  BY <1>14 DEF CloseBug
<1>15. ASSUME NEW r \in Cbs, Frame(r) PROVE Unknown(b)'
  BY <1>15 DEF Frame
<1>16. CASE Buffer
  BY <1>16 DEF Buffer
<1>17. CASE Push
  BY <1>17 DEF Push
<1>18. CASE MediaTell
  BY <1>18 DEF MediaTell
<1>19. CASE SessionGone
  BY <1>19 DEF SessionGone
<1>20. CASE Unload
  BY <1>20 DEF Unload
<1>21. CASE UNCHANGED vars
  BY <1>21 DEF vars
<1> QED
  BY <1>1, <1>2, <1>3, <1>4, <1>5, <1>6, <1>7, <1>8, <1>9, <1>10, <1>11, <1>12, <1>13,
     <1>14, <1>15, <1>16, <1>17, <1>18, <1>19, <1>20, <1>21
     DEF Next, CallerStep, StopStep, MediaStep

\* The reaper takes the streamer of a cap_cb once, and nobody puts one back.
LEMMA TakenKept ==
  ASSUME Control, NEW b \in Cbs, [Next]_vars
  PROVE  Taken(b)'
<1> USE DEF Control, TypeOK, RecognizerTypes, SessionTypes, Taken, Quiet, Unknown
<1>1. ASSUME NEW c \in Callers, StartCommand(c) PROVE Taken(b)'
  BY <1>1 DEF StartCommand
<1>2. ASSUME NEW c \in Callers, Refused(c) PROVE Taken(b)'
  BY <1>2 DEF Refused
<1>3. ASSUME NEW c \in Callers, Construct(c) PROVE Taken(b)'
  BY <1>3 DEF Construct
<1>4. ASSUME NEW c \in Callers, KillCb(c) PROVE Taken(b)'
  BY <1>4 DEF KillCb
<1>5. ASSUME NEW c \in Callers, BugAdd(c) PROVE Taken(b)'
  BY <1>5 DEF BugAdd
<1>6. ASSUME NEW c \in Callers, Publish(c) PROVE Taken(b)'
  BY <1>6 DEF Publish
<1>7. ASSUME NEW c \in Callers, StopCommand(c) PROVE Taken(b)'
  BY <1>7 DEF StopCommand
<1>8. ASSUME NEW o \in Owners, LockAndVerify(o) PROVE Taken(b)'
  BY <1>8 DEF LockAndVerify
<1>9. ASSUME NEW o \in Owners, Reap(o) PROVE Taken(b)'
  BY <1>9 DEF Reap
<1>10. ASSUME NEW o \in Owners, Remove(o) PROVE Taken(b)'
  BY <1>10 DEF Remove
<1>11. ASSUME NEW o \in Owners, Close(o) PROVE Taken(b)'
  BY <1>11 DEF Close
<1>12. ASSUME NEW r \in Cbs, CallbackStep(r) PROVE Taken(b)'
  BY <1>12, CallbackOnly
<1>13. ASSUME NEW r \in Cbs, ReaperFinish(r) PROVE Taken(b)'
  BY <1>13 DEF ReaperFinish
<1>14. ASSUME NEW r \in Cbs, CloseBug(r) PROVE Taken(b)'
  BY <1>14 DEF CloseBug
<1>15. ASSUME NEW r \in Cbs, Frame(r) PROVE Taken(b)'
  BY <1>15 DEF Frame
<1>16. CASE Buffer
  BY <1>16 DEF Buffer
<1>17. CASE Push
  BY <1>17 DEF Push
<1>18. CASE MediaTell
  BY <1>18 DEF MediaTell
<1>19. CASE SessionGone
  BY <1>19 DEF SessionGone
<1>20. CASE Unload
  BY <1>20 DEF Unload
<1>21. CASE UNCHANGED vars
  BY <1>21 DEF vars
<1> QED
  BY <1>1, <1>2, <1>3, <1>4, <1>5, <1>6, <1>7, <1>8, <1>9, <1>10, <1>11, <1>12, <1>13,
     <1>14, <1>15, <1>16, <1>17, <1>18, <1>19, <1>20, <1>21
     DEF Next, CallerStep, StopStep, MediaStep

\* Who takes a recognizer off one keeper's hands becomes its keeper, or gives it to the reaper.
LEMMA KeptKept ==
  ASSUME Control, NEW b \in Cbs, [Next]_vars
  PROVE  Kept(b)'
<1> USE DEF Control, TypeOK, RecognizerTypes, SessionTypes, Kept, Named, Fresh
<1>1. ASSUME NEW c \in Callers, StartCommand(c) PROVE Kept(b)'
  BY <1>1 DEF StartCommand
<1>2. ASSUME NEW c \in Callers, Refused(c) PROVE Kept(b)'
  BY <1>2 DEF Refused
<1>3. ASSUME NEW c \in Callers, Construct(c) PROVE Kept(b)'
  BY <1>3 DEF Construct
<1>4. ASSUME NEW c \in Callers, KillCb(c) PROVE Kept(b)'
  <2>1. CASE FinishCheck(cb[c], at, c) /\ UNCHANGED <<lifeVars, holds, cb, resume, fsVars, streamVars, mutex>>
    BY <1>4, <2>1 DEF KillCb
  <2>2. CASE Disconnect(cb[c], at, c) /\ UNCHANGED <<lifeVars, holds, cb, resume, fsVars, mutex>>
    BY <1>4, <2>2 DEF KillCb
  <2>3. CASE Finished(cb[c], at, c) /\ Destroy(cb[c]) /\ holds' = holds \ {cb[c]} /\ Returns(c)
    BY <1>4, <2>3 DEF KillCb
  <2> QED
    BY <1>4, <2>1, <2>2, <2>3 DEF KillCb
<1>5. ASSUME NEW c \in Callers, BugAdd(c) PROVE Kept(b)'
  BY <1>5 DEF BugAdd
<1>6. ASSUME NEW c \in Callers, Publish(c) PROVE Kept(b)'
  BY <1>6 DEF Publish
<1>7. ASSUME NEW c \in Callers, StopCommand(c) PROVE Kept(b)'
  BY <1>7 DEF StopCommand
<1>8. ASSUME NEW o \in Owners, LockAndVerify(o) PROVE Kept(b)'
  BY <1>8 DEF LockAndVerify
<1>9. ASSUME NEW o \in Owners, Reap(o) PROVE Kept(b)'
  BY <1>9 DEF Reap
<1>10. ASSUME NEW o \in Owners, Remove(o) PROVE Kept(b)'
  BY <1>10 DEF Remove
<1>11. ASSUME NEW o \in Owners, Close(o) PROVE Kept(b)'
  BY <1>11 DEF Close
<1>12. ASSUME NEW r \in Cbs, CallbackStep(r) PROVE Kept(b)'
  BY <1>12, CallbackOnly
<1>13. ASSUME NEW r \in Cbs, ReaperFinish(r) PROVE Kept(b)'
  BY <1>13 DEF ReaperFinish
<1>14. ASSUME NEW r \in Cbs, CloseBug(r) PROVE Kept(b)'
  BY <1>14 DEF CloseBug
<1>15. ASSUME NEW r \in Cbs, Frame(r) PROVE Kept(b)'
  BY <1>15 DEF Frame
<1>16. CASE Buffer
  BY <1>16 DEF Buffer
<1>17. CASE Push
  BY <1>17 DEF Push
<1>18. CASE MediaTell
  BY <1>18 DEF MediaTell
<1>19. CASE SessionGone
  BY <1>19 DEF SessionGone
<1>20. CASE Unload
  BY <1>20 DEF Unload
<1>21. CASE UNCHANGED vars
  BY <1>21 DEF vars
<1> QED
  BY <1>1, <1>2, <1>3, <1>4, <1>5, <1>6, <1>7, <1>8, <1>9, <1>10, <1>11, <1>12, <1>13,
     <1>14, <1>15, <1>16, <1>17, <1>18, <1>19, <1>20, <1>21
     DEF Next, CallerStep, StopStep, MediaStep

\* Until its start publishes it, nobody else comes to know a cap_cb.
LEMMA FreshKept ==
  ASSUME Control, NEW d \in Callers, [Next]_vars
  PROVE  Fresh(d)'
<1> USE DEF Control, TypeOK, RecognizerTypes, SessionTypes, Quiet, Unknown, Named, Fresh
<1>1. ASSUME NEW c \in Callers, StartCommand(c) PROVE Fresh(d)'
  BY <1>1 DEF StartCommand
<1>2. ASSUME NEW c \in Callers, Refused(c) PROVE Fresh(d)'
  BY <1>2 DEF Refused
<1>3. ASSUME NEW c \in Callers, Construct(c) PROVE Fresh(d)'
  BY <1>3 DEF Construct
<1>4. ASSUME NEW c \in Callers, KillCb(c) PROVE Fresh(d)'
  <2>1. CASE FinishCheck(cb[c], at, c) /\ UNCHANGED <<lifeVars, holds, cb, resume, fsVars, streamVars, mutex>>
    BY <1>4, <2>1 DEF KillCb
  <2>2. CASE Disconnect(cb[c], at, c) /\ UNCHANGED <<lifeVars, holds, cb, resume, fsVars, mutex>>
    BY <1>4, <2>2 DEF KillCb
  <2>3. CASE Finished(cb[c], at, c) /\ Destroy(cb[c]) /\ holds' = holds \ {cb[c]} /\ Returns(c)
    BY <1>4, <2>3 DEF KillCb
  <2> QED
    BY <1>4, <2>1, <2>2, <2>3 DEF KillCb
<1>5. ASSUME NEW c \in Callers, BugAdd(c) PROVE Fresh(d)'
  BY <1>5 DEF BugAdd
<1>6. ASSUME NEW c \in Callers, Publish(c) PROVE Fresh(d)'
  BY <1>6 DEF Publish
<1>7. ASSUME NEW c \in Callers, StopCommand(c) PROVE Fresh(d)'
  BY <1>7 DEF StopCommand
<1>8. ASSUME NEW o \in Owners, LockAndVerify(o) PROVE Fresh(d)'
  BY <1>8 DEF LockAndVerify
<1>9. ASSUME NEW o \in Owners, Reap(o) PROVE Fresh(d)'
  BY <1>9 DEF Reap
<1>10. ASSUME NEW o \in Owners, Remove(o) PROVE Fresh(d)'
  <2>1. CASE cb[o] \in attached
    <3>1. /\ at' = [at EXCEPT ![o] = "close"] /\ attached' = attached \ {cb[o]}
          /\ UNCHANGED <<lifeVars, holds, vad, streamVars, reaperAt, mediaVars, calls, cb, resume, alive,
                         private, bugs, mutex>>
      BY <1>10, <2>1 DEF Remove
    <3> QED
      BY <3>1
  <2>2. CASE cb[o] \notin attached
    <3>1. /\ Returns(o)
          /\ UNCHANGED <<lifeVars, holds, vad, streamVars, reaperAt, mediaVars, calls, alive, attached,
                         private, mutex>>
      BY <1>10, <2>2 DEF Remove
    <3> QED
      BY <3>1
  <2> QED
    BY <2>1, <2>2
<1>11. ASSUME NEW o \in Owners, Close(o) PROVE Fresh(d)'
  BY <1>11 DEF Close
<1>12. ASSUME NEW r \in Cbs, CallbackStep(r) PROVE Fresh(d)'
  BY <1>12, CallbackOnly
<1>13. ASSUME NEW r \in Cbs, ReaperFinish(r) PROVE Fresh(d)'
  BY <1>13 DEF ReaperFinish
<1>14. ASSUME NEW r \in Cbs, CloseBug(r) PROVE Fresh(d)'
  BY <1>14 DEF CloseBug
<1>15. ASSUME NEW r \in Cbs, Frame(r) PROVE Fresh(d)'
  BY <1>15 DEF Frame
<1>16. CASE Buffer
  BY <1>16 DEF Buffer
<1>17. CASE Push
  BY <1>17 DEF Push
<1>18. CASE MediaTell
  BY <1>18 DEF MediaTell
<1>19. CASE SessionGone
  BY <1>19 DEF SessionGone
<1>20. CASE Unload
  BY <1>20 DEF Unload
<1>21. CASE UNCHANGED vars
  BY <1>21 DEF vars
<1> QED
  BY <1>1, <1>2, <1>3, <1>4, <1>5, <1>6, <1>7, <1>8, <1>9, <1>10, <1>11, <1>12, <1>13,
     <1>14, <1>15, <1>16, <1>17, <1>18, <1>19, <1>20, <1>21
     DEF Next, CallerStep, StopStep, MediaStep

\* Who ends a recognition tells the session of it.
LEMMA ToldKept ==
  ASSUME Control, NEW b \in Cbs, [Next]_vars
  PROVE  Told(b)'
<1> USE DEF Control, TypeOK, RecognizerTypes, SessionTypes, Told, MediaHolds, Quiet, Taken, Unknown, Named
<1>1. ASSUME NEW c \in Callers, StartCommand(c) PROVE Told(b)'
  <2>1. at[c] \notin Killing /\ \A q \in Owners \ {c} : at'[q] = at[q] /\ cb'[q] = cb[q]
    BY <1>1 DEF StartCommand
  <2>2. Doomed(b) => Doomed(b)'
    BY <2>1, DoomStays
  <2> QED
    BY <1>1, <2>2 DEF StartCommand
<1>2. ASSUME NEW c \in Callers, Refused(c) PROVE Told(b)'
  <2>1. at[c] \notin Killing /\ \A q \in Owners \ {c} : at'[q] = at[q] /\ cb'[q] = cb[q]
    BY <1>2 DEF Refused
  <2>2. Doomed(b) => Doomed(b)'
    BY <2>1, DoomStays
  <2> QED
    BY <1>2, <2>2 DEF Refused
<1>3. ASSUME NEW c \in Callers, Construct(c) PROVE Told(b)'
  <2>1. at[c] \notin Killing /\ \A q \in Owners \ {c} : at'[q] = at[q] /\ cb'[q] = cb[q]
    BY <1>3 DEF Construct
  <2>2. Doomed(b) => Doomed(b)'
    BY <2>1, DoomStays
  <2> QED
    BY <1>3, <2>2 DEF Construct
<1>4. ASSUME NEW c \in Callers, KillCb(c) PROVE Told(b)'
  <2>1. CASE FinishCheck(cb[c], at, c) /\ UNCHANGED <<lifeVars, holds, cb, resume, fsVars, streamVars, mutex>>
    <3>1. Doomed(b) => Doomed(b)'
      BY <2>1, DoomStays
    <3> QED
      BY <1>4, <2>1, <3>1 DEF KillCb
  <2>2. CASE Disconnect(cb[c], at, c) /\ UNCHANGED <<lifeVars, holds, cb, resume, fsVars, mutex>>
    <3>1. Doomed(b) => Doomed(b)'
      BY <2>2, DoomStays
    <3>2. b = cb[c] => Doomed(b)'
      BY <2>2 DEF Doomed
    <3> QED
      BY <1>4, <2>2, <3>1, <3>2 DEF KillCb
  <2>3. CASE Finished(cb[c], at, c) /\ Destroy(cb[c]) /\ holds' = holds \ {cb[c]} /\ Returns(c)
    <3>1. \A q \in Owners \ {c} : at'[q] = at[q] /\ cb'[q] = cb[q]
      BY <2>3
    <3>2. b # cb[c] /\ Doomed(b) => Doomed(b)'
      BY <3>1, DoomStays
    <3>3. CASE b = cb[c]
      BY <2>3, <3>3
    <3>4. CASE b # cb[c]
      <4>1. /\ b \in holds' <=> b \in holds
            /\ b \in finished' <=> b \in finished
            /\ b \in told' <=> b \in told
            /\ sdk'[b] = sdk[b] /\ callback'[b] = callback[b]
        BY <2>3, <3>4
      <4>2. UNCHANGED <<alive, media, frame>>
        BY <1>4 DEF KillCb
      <4> QED
        BY <3>2, <3>4, <4>1, <4>2
    <3> QED
      BY <3>3, <3>4
  <2> QED
    BY <1>4, <2>1, <2>2, <2>3 DEF KillCb
<1>5. ASSUME NEW c \in Callers, BugAdd(c) PROVE Told(b)'
  <2>1. at[c] \notin Killing /\ \A q \in Owners \ {c} : at'[q] = at[q] /\ cb'[q] = cb[q]
    BY <1>5 DEF BugAdd
  <2>2. Doomed(b) => Doomed(b)'
    BY <2>1, DoomStays
  <2> QED
    BY <1>5, <2>2 DEF BugAdd
<1>6. ASSUME NEW c \in Callers, Publish(c) PROVE Told(b)'
  <2>1. at[c] \notin Killing /\ \A q \in Owners \ {c} : at'[q] = at[q] /\ cb'[q] = cb[q]
    BY <1>6 DEF Publish
  <2>2. Doomed(b) => Doomed(b)'
    BY <2>1, DoomStays
  <2> QED
    BY <1>6, <2>2 DEF Publish
<1>7. ASSUME NEW c \in Callers, StopCommand(c) PROVE Told(b)'
  <2>1. at[c] \notin Killing /\ \A q \in Owners \ {c} : at'[q] = at[q] /\ cb'[q] = cb[q]
    BY <1>7 DEF StopCommand
  <2>2. Doomed(b) => Doomed(b)'
    BY <2>1, DoomStays
  <2> QED
    BY <1>7, <2>2 DEF StopCommand
<1>8. ASSUME NEW o \in Owners, LockAndVerify(o) PROVE Told(b)'
  <2>1. at[o] \notin Killing /\ \A q \in Owners \ {o} : at'[q] = at[q] /\ cb'[q] = cb[q]
    BY <1>8 DEF LockAndVerify
  <2>2. Doomed(b) => Doomed(b)'
    BY <2>1, DoomStays
  <2> QED
    BY <1>8, <2>2 DEF LockAndVerify
<1>9. ASSUME NEW o \in Owners, Reap(o) PROVE Told(b)'
  <2>1. at[o] \notin Killing /\ \A q \in Owners \ {o} : at'[q] = at[q] /\ cb'[q] = cb[q]
    BY <1>9 DEF Reap
  <2>2. Doomed(b) => Doomed(b)'
    BY <2>1, DoomStays
  <2> QED
    BY <1>9, <2>2 DEF Reap
<1>10. ASSUME NEW o \in Owners, Remove(o) PROVE Told(b)'
  <2>1. at[o] \notin Killing /\ \A q \in Owners \ {o} : at'[q] = at[q] /\ cb'[q] = cb[q]
    BY <1>10 DEF Remove
  <2>2. Doomed(b) => Doomed(b)'
    BY <2>1, DoomStays
  <2> QED
    BY <1>10, <2>2 DEF Remove
<1>11. ASSUME NEW o \in Owners, Close(o) PROVE Told(b)'
  <2>1. at[o] \notin Killing /\ \A q \in Owners \ {o} : at'[q] = at[q] /\ cb'[q] = cb[q]
    BY <1>11 DEF Close
  <2>2. Doomed(b) => Doomed(b)'
    BY <2>1, DoomStays
  <2> QED
    BY <1>11, <2>2 DEF Close
<1>12. ASSUME NEW r \in Cbs, SessionStarted(r) PROVE Told(b)'
  <2>1. Doomed(b)' <=> Doomed(b)
    BY <1>12 DEF SessionStarted, Doomed
  <2> QED
    BY <1>12, <2>1 DEF SessionStarted
<1>13. ASSUME NEW r \in Cbs, DrainFails(r) PROVE Told(b)'
  <2>1. Doomed(b)' <=> Doomed(b)
    BY <1>13 DEF DrainFails, Doomed
  <2> QED
    BY <1>13, <2>1 DEF DrainFails
<1>14. ASSUME NEW r \in Cbs, TellDrain(r) PROVE Told(b)'
  <2>1. Doomed(b)' <=> Doomed(b)
    BY <1>14 DEF TellDrain, Doomed
  <2> QED
    BY <1>14, <2>1 DEF TellDrain
<1>15. ASSUME NEW r \in Cbs, DrainChunk(r) PROVE Told(b)'
  <2>1. Doomed(b)' <=> Doomed(b)
    BY <1>15 DEF DrainChunk, Doomed
  <2> QED
    BY <1>15, <2>1 DEF DrainChunk
<1>16. ASSUME NEW r \in Cbs, DrainEnd(r) PROVE Told(b)'
  <2>1. Doomed(b)' <=> Doomed(b)
    BY <1>16 DEF DrainEnd, Doomed
  <2> QED
    BY <1>16, <2>1 DEF DrainEnd
<1>17. ASSUME NEW r \in Cbs, Canceled(r) PROVE Told(b)'
  <2>1. Doomed(b)' <=> Doomed(b)
    BY <1>17 DEF Canceled, Doomed
  <2> QED
    BY <1>17, <2>1 DEF Canceled
<1>18. ASSUME NEW r \in Cbs, SessionStopped(r) PROVE Told(b)'
  <2>1. Doomed(b)' <=> Doomed(b)
    BY <1>18 DEF SessionStopped, Doomed
  <2> QED
    BY <1>18, <2>1 DEF SessionStopped
<1>19. ASSUME NEW r \in Cbs, TellEnd(r) PROVE Told(b)'
  <2>1. Doomed(b)' <=> Doomed(b)
    BY <1>19 DEF TellEnd, Doomed
  <2> QED
    BY <1>19, <2>1 DEF TellEnd
<1>20. ASSUME NEW r \in Cbs, ReaperFinish(r) PROVE Told(b)'
  <2>1. Doomed(b)' <=> Doomed(b)
    BY <1>20 DEF ReaperFinish, Doomed
  <2> QED
    BY <1>20, <2>1 DEF ReaperFinish
<1>21. ASSUME NEW r \in Cbs, CloseBug(r) PROVE Told(b)'
  <2>1. Doomed(b) => Doomed(b)'
    BY <1>21, DoomStays DEF CloseBug
  <2> QED
    BY <1>21, <2>1 DEF CloseBug
<1>22. ASSUME NEW r \in Cbs, Frame(r) PROVE Told(b)'
  <2>1. Doomed(b)' <=> Doomed(b)
    BY <1>22 DEF Frame, Doomed
  <2> QED
    BY <1>22, <2>1 DEF Frame
<1>23. CASE Buffer
  <2>1. Doomed(b)' <=> Doomed(b)
    BY <1>23 DEF Buffer, Doomed
  <2> QED
    BY <1>23, <2>1 DEF Buffer
<1>24. CASE Push
  <2>1. Doomed(b)' <=> Doomed(b)
    BY <1>24 DEF Push, Doomed
  <2> QED
    BY <1>24, <2>1 DEF Push
<1>25. CASE MediaTell
  <2>1. Doomed(b)' <=> Doomed(b)
    BY <1>25 DEF MediaTell, Doomed
  <2> QED
    BY <1>25, <2>1 DEF MediaTell
<1>26. CASE SessionGone
  <2>1. Doomed(b)' <=> Doomed(b)
    BY <1>26 DEF SessionGone, Doomed
  <2> QED
    BY <1>26, <2>1 DEF SessionGone
<1>27. CASE Unload
  <2>1. Doomed(b)' <=> Doomed(b)
    BY <1>27 DEF Unload, Doomed
  <2> QED
    BY <1>27, <2>1 DEF Unload
<1>28. CASE UNCHANGED vars
  BY <1>28 DEF vars, Doomed
<1> QED
  BY <1>1, <1>2, <1>3, <1>4, <1>5, <1>6, <1>7, <1>8, <1>9, <1>10, <1>11, <1>12, <1>13,
     <1>14, <1>15, <1>16, <1>17, <1>18, <1>19, <1>20, <1>21, <1>22, <1>23, <1>24, <1>25,
     <1>26, <1>27, <1>28
     DEF Next, CallerStep, StopStep, MediaStep, CallbackStep

\* The initial state: there is no recognizer yet.
LEMMA ControlInit == Init => Control
<1> SUFFICES ASSUME Init PROVE Control
  OBVIOUS
<1>1. TypeOK
  BY DEF Init, TypeOK, RecognizerTypes, SessionTypes
<1>2. MediaHolds /\ \A o \in Owners : Named(o) /\ MutexHeld(o)
  BY DEF Init, MediaHolds, Named, MutexHeld
<1>3. \A b \in Cbs : Quiet(b) /\ Unknown(b) /\ Kept(b) /\ Taken(b) /\ Told(b)
  BY DEF Init, Quiet, Unknown, Kept, Taken, Told
<1>4. \A c \in Callers : Fresh(c)
  BY DEF Init, Fresh
<1> QED
  BY <1>1, <1>2, <1>3, <1>4 DEF Control

\* Every step keeps what is said of the control.
LEMMA ControlKept == Control /\ [Next]_vars => Control'
<1> SUFFICES ASSUME Control, [Next]_vars PROVE Control'
  OBVIOUS
<1>1. TypeOK' /\ MediaHolds'
  BY RecognizersTyped, SessionTyped, MediaHoldsKept DEF TypeOK
<1>2. \A b \in Cbs : (Quiet(b) /\ Unknown(b) /\ Kept(b) /\ Taken(b) /\ Told(b))'
  BY QuietKept, UnknownKept, KeptKept, TakenKept, ToldKept
<1>3. \A o \in Owners : (Named(o) /\ MutexHeld(o))'
  BY NamedKept, MutexHeldKept
<1>4. \A c \in Callers : Fresh(c)'
  BY FreshKept
<1> QED
  BY <1>1, <1>2, <1>3, <1>4 DEF Control

-----------------------------------------------------------------------------
(* The audio.                                                              *)

\* A step that leaves the frames and the buffers of b as they are keeps their order.
LEMMA AudioPasses ==
  ASSUME NEW b \in Cbs, Audio(b), UNCHANGED <<media, frame, frames>>,
         chunks'[b] = chunks[b], staging'[b] = staging[b], pushed'[b] = pushed[b],
         b \in connected' <=> b \in connected, b \in finished => b \in finished',
         callback'[b] = "tellDrain" => callback[b] = "tellDrain" \/ b \in finished'
  PROVE  Audio(b)'
<1>1. Written(b)' = Written(b)
  BY DEF Written
<1>2. ASSUME NEW a \in Nat, NEW e \in Nat, AudioAt(b, a, e) PROVE AudioAt(b, a, e)'
  BY <1>1, <1>2 DEF AudioAt, InChunks
<1> QED
  BY <1>2 DEF Audio

\* The number of the frames that write() has dealt with.
LEMMA WrittenIsNat ==
  ASSUME RecognizerTypes, NEW b \in Cbs, Audio(b)
  PROVE  frames[b] \in Nat /\ Written(b) \in Nat /\ Written(b) <= frames[b]
<1>1. frames[b] \in Nat
  BY DEF RecognizerTypes
<1> QED
  BY <1>1 DEF Written, Audio

\* Buffers that are empty, and nothing pushed that was not dealt with, are in order.
LEMMA EmptyInOrder ==
  ASSUME NEW b \in Cbs, NEW w \in Nat, Written(b)' = w, chunks'[b] = <<>>, staging'[b] = {},
         pushed'[b] \in Nat, pushed'[b] <= w
  PROVE  \E a, e \in Nat : AudioAt(b, a, e)'
<1>1. InChunks(<<>>, w, w)
  BY EmptyChunks
<1>2. InChunks(chunks[b], w, w)'
  BY <1>1 DEF InChunks
<1>3. (w + 1) .. w = {}
  OBVIOUS
<1> QED
  BY <1>2, <1>3 DEF AudioAt

\* With the recognizer its buffers are gone.
LEMMA DestroyKeepsAudio ==
  ASSUME RecognizerTypes, NEW b \in Cbs, NEW d \in Cbs, Audio(b), Destroy(d), frame # d,
         UNCHANGED <<media, frame, frames>>
  PROVE  Audio(b)'
<1> USE DEF RecognizerTypes
<1>1. CASE b # d
  <2>1. /\ chunks'[b] = chunks[b] /\ staging'[b] = staging[b] /\ pushed'[b] = pushed[b]
        /\ (b \in connected' <=> b \in connected) /\ (b \in finished' <=> b \in finished)
        /\ callback'[b] = callback[b]
    BY <1>1
  <2> QED
    BY <2>1, AudioPasses
<1>2. CASE b = d
  <2>1. Written(b)' = frames[b] /\ frames[b] \in Nat
    BY <1>2 DEF Written
  <2>2. chunks'[b] = <<>> /\ staging'[b] = {} /\ pushed'[b] = 0 /\ callback'[b] = "none"
    BY <1>2
  <2>3. \E a, e \in Nat : AudioAt(b, a, e)'
    BY <2>1, <2>2, EmptyInOrder
  <2> QED
    BY <1>2, <2>2, <2>3 DEF Audio
<1> QED
  BY <1>1, <1>2

\* A chunk that is drained is the next in order.
LEMMA DrainChunkKeepsAudio ==
  ASSUME RecognizerTypes, NEW b \in Cbs, Audio(b), DrainChunk(b)
  PROVE  Audio(b)'
<1> USE DEF DrainChunk
<1>1. UNCHANGED <<media, frame, frames, finished, connected, callback, staging>>
  OBVIOUS
<1>2. /\ chunks[b] # <<>> /\ chunks'[b] = Tail(chunks[b]) /\ pushed'[b] = LastOf(Head(chunks[b]))
  BY DEF RecognizerTypes
<1>3. Written(b)' = Written(b)
  BY <1>1 DEF Written
<1>4. ASSUME NEW a \in Nat, NEW e \in Nat, AudioAt(b, a, e)
      PROVE  \E d \in Nat : AudioAt(b, d, e)'
  <2> DEFINE d == a + ChunkLen
  <2>1. Head(chunks[b]) = (a + 1) .. d /\ d <= e /\ InChunks(Tail(chunks[b]), d, e)
    BY <1>2, <1>4, HeadInChunks DEF AudioAt
  <2>2. d \in Nat /\ a < d
    BY PrebufferAssumption
  <2>3. pushed'[b] = d
    BY <1>2, <2>1, <2>2, LastOfInterval
  <2>4. InChunks(chunks[b], d, e)'
    BY <1>2, <2>1 DEF InChunks
  <2>5. b \notin connected'
    BY <1>1, <1>2, <1>4 DEF AudioAt
  <2>6. AudioAt(b, d, e)'
    BY <1>1, <1>3, <1>4, <2>2, <2>3, <2>4, <2>5 DEF AudioAt
  <2> QED
    BY <2>2, <2>6
<1> QED
  BY <1>1, <1>4 DEF Audio

\* What is staged follows the last chunk, and nothing is left behind it.
LEMMA DrainEndKeepsAudio ==
  ASSUME RecognizerTypes, NEW b \in Cbs, Audio(b), DrainEnd(b)
  PROVE  Audio(b)'
<1> USE DEF DrainEnd
<1>1. UNCHANGED <<media, frame, frames, finished>> /\ callback'[b] = "none" /\ connected \subseteq connected'
  BY DEF RecognizerTypes
<1>2. chunks[b] = <<>> /\ chunks'[b] = <<>> /\ staging'[b] = {}
  BY DEF RecognizerTypes
<1>3. Written(b)' = Written(b) /\ Written(b) \in Nat
  BY <1>1, WrittenIsNat DEF Written
<1>4. ASSUME NEW a \in Nat, NEW e \in Nat, AudioAt(b, a, e), b \notin finished
      PROVE  pushed'[b] \in Nat /\ pushed'[b] <= Written(b)
  <2>1. staging[b] = (e + 1) .. Written(b) /\ pushed[b] \in Nat /\ pushed[b] <= a /\ e <= Written(b)
    BY <1>4 DEF AudioAt
  <2>2. a = e
    <3>1. e = a + Len(chunks[b]) * ChunkLen /\ ChunkLen \in Nat
      BY <1>4, PrebufferAssumption DEF AudioAt, InChunks
    <3>2. Len(chunks[b]) = 0
      BY <1>2
    <3> QED
      BY <3>1, <3>2
  <2>3. CASE staging[b] = {}
    <3>1. pushed'[b] = pushed[b]
      BY <2>3
    <3> QED
      BY <2>1, <2>2, <3>1, <1>3
  <2>4. CASE staging[b] # {}
    <3>1. e < Written(b)
      BY <2>1, <2>4, <1>3
    <3>2. LastOf(staging[b]) = Written(b)
      BY <2>1, <3>1, <1>3, LastOfInterval
    <3>3. pushed'[b] = LastOf(staging[b])
      BY <1>4, <2>4 DEF RecognizerTypes
    <3> QED
      BY <3>2, <3>3, <1>3
  <2> QED
    BY <2>3, <2>4
<1>5. b \notin finished' => \E a, e \in Nat : AudioAt(b, a, e)'
  BY <1>1, <1>2, <1>3, <1>4, EmptyInOrder DEF Audio
<1> QED
  BY <1>1, <1>5 DEF Audio

\* A frame that is in the media thread's hands was read, and write() has not dealt with it.
LEMMA FrameKeepsAudio ==
  ASSUME Control, NEW b \in Cbs, Audio(b), NEW r \in Cbs, Frame(r)
  PROVE  Audio(b)'
<1> USE DEF Control, TypeOK, RecognizerTypes, SessionTypes
<1>1. /\ UNCHANGED <<chunks, staging, pushed, callback, connected>> /\ finished \subseteq finished'
      /\ media = "idle" /\ frames' = [frames EXCEPT ![r] = @ + 1] /\ frames[r] \in Nat
  BY DEF Frame
<1>2. \/ UNCHANGED <<media, frame>> /\ r \in finished'
      \/ media' = "tell" /\ frame' = r /\ r \in finished'
      \/ media' \in {"push", "buffer"} /\ frame' = r /\ (media' = "push" => r \in connected)
  BY DEF Frame
<1>3. Written(b) = frames[b]
  BY <1>1 DEF Written
<1>4. b \notin finished' => Written(b)' = Written(b)
  <2>1. CASE b = r
    <3>1. frames'[b] = frames[b] + 1
      BY <1>1, <2>1
    <3> QED
      BY <1>1, <1>2, <1>3, <2>1, <3>1 DEF Written
  <2>2. CASE b # r
    <3>1. frames'[b] = frames[b]
      BY <1>1, <2>2
    <3> QED
      BY <1>1, <1>2, <1>3, <2>2, <3>1 DEF Written
  <2> QED
    BY <2>1, <2>2
<1>5. ASSUME NEW a \in Nat, NEW e \in Nat, AudioAt(b, a, e), b \notin finished' PROVE AudioAt(b, a, e)'
  BY <1>1, <1>4, <1>5 DEF AudioAt, InChunks
<1>6. b \notin finished' => \E a, e \in Nat : AudioAt(b, a, e)'
  BY <1>1, <1>5 DEF Audio
<1>7. callback'[b] = "tellDrain" => b \in finished'
  BY <1>1 DEF Audio
<1>8. frame' = b /\ media' \in {"buffer", "push"} => frames'[b] > 0
  BY <1>1, <1>2
<1> QED
  BY <1>1, <1>2, <1>6, <1>7, <1>8 DEF Audio

\* The n-th frame joins what is staged; what fills chunks goes into the prebuffer.
LEMMA StagedInOrder ==
  ASSUME NEW b \in Cbs, NEW n \in Nat, n > 0, Written(b) = n - 1, Written(b)' = n,
         NEW a \in Nat, NEW e \in Nat, AudioAt(b, a, e),
         chunks'[b] = WithChunks(chunks[b], staging[b] \cup {n}),
         staging'[b] = Remainder(staging[b] \cup {n}), pushed'[b] = pushed[b], b \notin connected'
  PROVE  \E d, f \in Nat : AudioAt(b, d, f)'
<1>1. /\ staging[b] = (e + 1) .. (n - 1) /\ e <= n - 1 /\ InChunks(chunks[b], a, e)
      /\ pushed[b] \in Nat /\ pushed[b] <= a
  BY DEF AudioAt
<1>2. staging[b] \cup {n} = (e + 1) .. n /\ e <= n
  BY <1>1
<1>3. PICK d, f \in Nat : /\ a <= d /\ f <= n /\ InChunks(WithChunks(chunks[b], (e + 1) .. n), d, f)
                          /\ Remainder((e + 1) .. n) = (f + 1) .. n
  BY <1>1, <1>2, ChunksInOrder
<1>4. chunks'[b] = WithChunks(chunks[b], (e + 1) .. n) /\ staging'[b] = (f + 1) .. n
  BY <1>2, <1>3
<1>5. InChunks(chunks[b], d, f)'
  BY <1>3, <1>4 DEF InChunks
<1>6. AudioAt(b, d, f)'
  BY <1>1, <1>3, <1>4, <1>5 DEF AudioAt
<1> QED
  BY <1>6

\* A frame that is put into the prebuffer comes behind all that waits there.
LEMMA BufferKeepsAudio ==
  ASSUME Control, NEW b \in Cbs, Audio(b), Buffer
  PROVE  Audio(b)'
<1> USE DEF Control, TypeOK, RecognizerTypes, SessionTypes
<1>1. /\ UNCHANGED <<frames, finished, connected, callback, pushed>> /\ media = "buffer" /\ frame \in Cbs
  BY DEF Buffer, MediaHolds
<1>2. CASE frame \in connected /\ MediaHas(frame, "push") /\ UNCHANGED <<chunks, staging>>
  <2>1. Written(b)' = Written(b)
    BY <1>1, <1>2 DEF Written
  <2>2. ASSUME NEW a \in Nat, NEW e \in Nat, AudioAt(b, a, e) PROVE AudioAt(b, a, e)'
    BY <1>1, <1>2, <2>1, <2>2 DEF AudioAt, InChunks
  <2> QED
    BY <1>1, <1>2, <2>2 DEF Audio
<1>3. CASE frame \notin connected /\ Staged(frames[frame]) /\ MediaDone
  <2>1. CASE b # frame
    <3>1. Written(b)' = Written(b) /\ chunks'[b] = chunks[b] /\ staging'[b] = staging[b]
      BY <1>1, <1>3, <2>1 DEF Written, Staged
    <3>2. ASSUME NEW a \in Nat, NEW e \in Nat, AudioAt(b, a, e) PROVE AudioAt(b, a, e)'
      BY <1>1, <3>1, <3>2 DEF AudioAt, InChunks
    <3> QED
      BY <1>1, <1>3, <3>2 DEF Audio
  <2>2. CASE b = frame
    <3> DEFINE n == frames[b]
    <3>1. n \in Nat /\ n > 0 /\ Written(b) = n - 1 /\ Written(b)' = n
      BY <1>1, <1>3, <2>2 DEF Audio, Written
    <3>2. /\ chunks'[b] = WithChunks(chunks[b], staging[b] \cup {n})
          /\ staging'[b] = Remainder(staging[b] \cup {n}) /\ pushed'[b] = pushed[b] /\ b \notin connected'
      BY <1>1, <1>3, <2>2 DEF Staged
    <3>3. ASSUME NEW a \in Nat, NEW e \in Nat, AudioAt(b, a, e)
          PROVE  \E d, f \in Nat : AudioAt(b, d, f)'
      <4>1. PICK m \in Nat : m = n
        BY <3>1
      <4> QED
        BY <3>1, <3>2, <3>3, <4>1, StagedInOrder
    <3> QED
      BY <1>1, <1>3, <3>3 DEF Audio
  <2> QED
    BY <2>1, <2>2
<1> QED
  BY <1>2, <1>3 DEF Buffer

\* A frame is pushed when nothing waits any more.
LEMMA PushKeepsAudio ==
  ASSUME Control, NEW b \in Cbs, Audio(b), Push
  PROVE  Audio(b)'
<1> USE DEF Control, TypeOK, RecognizerTypes, SessionTypes
<1>1. /\ UNCHANGED <<frames, connected, callback, chunks, staging>> /\ media = "push" /\ frame \in Cbs
      /\ finished \subseteq finished' /\ media' \in {"idle", "tell"}
  BY DEF Push, MediaHolds
<1>2. Written(b)' = frames[b] /\ frames[b] \in Nat
  BY <1>1 DEF Written
<1>3. CASE b # frame
  <2>1. Written(b)' = Written(b) /\ pushed'[b] = pushed[b]
    BY <1>1, <1>2, <1>3 DEF Written, Push
  <2>2. ASSUME NEW a \in Nat, NEW e \in Nat, AudioAt(b, a, e) PROVE AudioAt(b, a, e)'
    BY <1>1, <2>1, <2>2 DEF AudioAt, InChunks
  <2> QED
    BY <1>1, <2>2 DEF Audio
<1>4. CASE b = frame
  <2>1. CASE b \in finished'
    BY <1>1, <2>1 DEF Audio
  <2>2. CASE b \notin finished'
    <3>1. b \in connected /\ b \notin finished
      BY <1>1, <1>4, <2>2 DEF Audio
    <3>2. chunks'[b] = <<>> /\ staging'[b] = {}
      BY <1>1, <3>1 DEF Audio, AudioAt
    <3>3. pushed'[b] = frames[b]
      BY <1>4, <2>2 DEF Push
    <3>4. PICK w \in Nat : w = frames[b]
      BY <1>2
    <3>5. Written(b)' = w /\ pushed'[b] = w /\ w <= w
      BY <1>2, <3>3, <3>4
    <3>6. \E a, e \in Nat : AudioAt(b, a, e)'
      <4>1. pushed'[b] \in Nat /\ pushed'[b] <= w
        BY <3>5
      <4> QED
        BY ONLY <3>2, <3>5, <4>1, b \in Cbs, w \in Nat, EmptyInOrder
    <3> QED
      BY <1>1, <3>1, <3>6 DEF Audio
  <2> QED
    BY <2>1, <2>2
<1> QED
  BY <1>3, <1>4

\* Every step keeps the audio of every recognizer in order.
LEMMA AudioKept ==
  ASSUME Control, NEW b \in Cbs, Audio(b), [Next]_vars
  PROVE  Audio(b)'
<1> USE DEF TypeOK, RecognizerTypes
<1>t. TypeOK
  BY DEF Control
<1> USE <1>t
<1>1. ASSUME NEW c \in Callers, StartCommand(c) PROVE Audio(b)'
  BY <1>1, AudioPasses DEF StartCommand
<1>2. ASSUME NEW c \in Callers, Refused(c) PROVE Audio(b)'
  BY <1>2, AudioPasses DEF Refused
<1>3. ASSUME NEW c \in Callers, Construct(c) PROVE Audio(b)'
  BY <1>3, AudioPasses DEF Construct
<1>4. ASSUME NEW c \in Callers, KillCb(c) PROVE Audio(b)'
  <2>1. CASE UNCHANGED <<bufferVars, connected, callback>> /\ finished \subseteq finished'
    BY <1>4, <2>1, AudioPasses DEF KillCb
  <2>2. CASE Finished(cb[c], at, c) /\ Destroy(cb[c])
    <3>1. c \in Owners /\ at[c] \in Killing /\ at[c] \notin Idle
      BY <2>2
    <3>2. cb[c] \in Cbs /\ frame # cb[c]
      BY <3>1, HasCb DEF Control, Fresh
    <3>3. UNCHANGED <<media, frame, frames>>
      BY <1>4 DEF KillCb
    <3> QED
      BY <2>2, <3>2, <3>3, DestroyKeepsAudio
  <2> QED
    BY <1>4, <2>1, <2>2 DEF KillCb
<1>5. ASSUME NEW c \in Callers, BugAdd(c) PROVE Audio(b)'
  BY <1>5, AudioPasses DEF BugAdd
<1>6. ASSUME NEW c \in Callers, Publish(c) PROVE Audio(b)'
  BY <1>6, AudioPasses DEF Publish
<1>7. ASSUME NEW c \in Callers, StopCommand(c) PROVE Audio(b)'
  BY <1>7, AudioPasses DEF StopCommand
<1>8. ASSUME NEW o \in Owners, LockAndVerify(o) PROVE Audio(b)'
  BY <1>8, AudioPasses DEF LockAndVerify
<1>9. ASSUME NEW o \in Owners, Reap(o) PROVE Audio(b)'
  BY <1>9, AudioPasses DEF Reap
<1>10. ASSUME NEW o \in Owners, Remove(o) PROVE Audio(b)'
  BY <1>10, AudioPasses DEF Remove
<1>11. ASSUME NEW o \in Owners, Close(o) PROVE Audio(b)'
  BY <1>11, AudioPasses DEF Close
<1>12. ASSUME NEW r \in Cbs, SessionStarted(r) PROVE Audio(b)'
  BY <1>12, AudioPasses DEF SessionStarted
<1>13. ASSUME NEW r \in Cbs, DrainFails(r) PROVE Audio(b)'
  BY <1>13, AudioPasses DEF DrainFails
<1>14. ASSUME NEW r \in Cbs, TellDrain(r) PROVE Audio(b)'
  <2>1. callback'[b] # "tellDrain" \/ callback[b] = "tellDrain"
    BY <1>14 DEF TellDrain
  <2>2. CASE b = r
    <3>1. b \in finished' /\ callback'[b] = "none" /\ UNCHANGED <<media, frame, frames>> /\ connected \subseteq connected'
      BY <1>14, <2>2 DEF TellDrain, Audio
    <3> QED
      BY <3>1 DEF Audio
  <2>3. CASE b # r
    BY <1>14, <2>1, <2>3, AudioPasses DEF TellDrain
  <2> QED
    BY <2>2, <2>3
<1>15. ASSUME NEW r \in Cbs, DrainChunk(r) PROVE Audio(b)'
  <2>1. CASE b = r
    BY <1>15, <2>1, DrainChunkKeepsAudio
  <2>2. CASE b # r
    BY <1>15, <2>2, AudioPasses DEF DrainChunk
  <2> QED
    BY <2>1, <2>2
<1>16. ASSUME NEW r \in Cbs, DrainEnd(r) PROVE Audio(b)'
  <2>1. CASE b = r
    BY <1>16, <2>1, DrainEndKeepsAudio
  <2>2. CASE b # r
    BY <1>16, <2>2, AudioPasses DEF DrainEnd
  <2> QED
    BY <2>1, <2>2
<1>17. ASSUME NEW r \in Cbs, Canceled(r) PROVE Audio(b)'
  BY <1>17, AudioPasses DEF Canceled
<1>18. ASSUME NEW r \in Cbs, SessionStopped(r) PROVE Audio(b)'
  BY <1>18, AudioPasses DEF SessionStopped
<1>19. ASSUME NEW r \in Cbs, TellEnd(r) PROVE Audio(b)'
  BY <1>19, AudioPasses DEF TellEnd
<1>20. ASSUME NEW r \in Cbs, ReaperFinish(r) PROVE Audio(b)'
  <2>1. CASE UNCHANGED <<bufferVars, connected, callback>> /\ finished \subseteq finished'
    BY <1>20, <2>1, AudioPasses DEF ReaperFinish
  <2>2. CASE Finished(r, reaperAt, r) /\ Destroy(r)
    <3>1. frame # r
      BY <2>2 DEF Control, Taken, MediaHolds
    <3>2. UNCHANGED <<media, frame, frames>>
      BY <1>20 DEF ReaperFinish
    <3> QED
      BY <2>2, <3>1, <3>2, DestroyKeepsAudio
  <2> QED
    BY <1>20, <2>1, <2>2 DEF ReaperFinish
<1>21. ASSUME NEW r \in Cbs, CloseBug(r) PROVE Audio(b)'
  BY <1>21, AudioPasses DEF CloseBug
<1>22. ASSUME NEW r \in Cbs, Frame(r) PROVE Audio(b)'
  BY <1>22, FrameKeepsAudio
<1>23. CASE Buffer
  BY <1>23, BufferKeepsAudio
<1>24. CASE Push
  BY <1>24, PushKeepsAudio
<1>25. CASE MediaTell
  <2>1. /\ media = "tell" /\ media' = "idle"
        /\ UNCHANGED <<frames, finished, connected, callback, chunks, staging, pushed>>
    BY <1>25 DEF MediaTell
  <2>2. Written(b)' = Written(b)
    BY <2>1 DEF Written
  <2>3. ASSUME NEW a \in Nat, NEW e \in Nat, AudioAt(b, a, e) PROVE AudioAt(b, a, e)'
    BY <2>1, <2>2, <2>3 DEF AudioAt, InChunks
  <2> QED
    BY <2>1, <2>3 DEF Audio
<1>26. CASE SessionGone
  BY <1>26, AudioPasses DEF SessionGone
<1>27. CASE Unload
  BY <1>27, AudioPasses DEF Unload
<1>28. CASE UNCHANGED vars
  BY <1>28, AudioPasses DEF vars
<1> QED
  BY <1>1, <1>2, <1>3, <1>4, <1>5, <1>6, <1>7, <1>8, <1>9, <1>10, <1>11, <1>12, <1>13,
     <1>14, <1>15, <1>16, <1>17, <1>18, <1>19, <1>20, <1>21, <1>22, <1>23, <1>24, <1>25,
     <1>26, <1>27, <1>28
     DEF Next, CallerStep, StopStep, MediaStep, CallbackStep

\* What is pushed comes before what waits, and what waits is nothing once it was drained.
LEMMA OrderOfAudio ==
  ASSUME NEW b \in Cbs, NEW a \in Nat, NEW e \in Nat, AudioAt(b, a, e),
         NEW p \in staging[b] \cup UNION {chunks[b][i] : i \in DOMAIN chunks[b]}
  PROVE  pushed[b] < p
<1>1. pushed[b] \in Nat /\ pushed[b] <= a /\ InChunks(chunks[b], a, e) /\ staging[b] = (e + 1) .. Written(b)
  BY DEF AudioAt
<1>2. DOMAIN chunks[b] = 1 .. Len(chunks[b]) /\ Len(chunks[b]) \in Nat
  BY <1>1 DEF InChunks
<1>3. a <= e
  <2> DEFINE l == Len(chunks[b]) * ChunkLen
  <2>1. l \in Nat
    <3>1. \A k \in Nat : k * ChunkLen \in Nat
      BY ChunksGrow
    <3> QED
      BY <1>2, <3>1, Zenon
  <2>2. e = a + l
    BY ONLY <1>1, Zenon DEF InChunks, l
  <2> HIDE DEF l
  <2> QED
    BY <2>1, <2>2
<1>4. CASE p \in staging[b]
  BY <1>1, <1>3, <1>4
<1>5. ASSUME NEW i \in DOMAIN chunks[b], p \in chunks[b][i] PROVE pushed[b] < p
  <2>1. p \in (a + (i - 1) * ChunkLen + 1) .. (a + i * ChunkLen)
    BY <1>1, <1>2, <1>5 DEF InChunks
  <2>2. (i - 1) \in Nat /\ (i - 1) * ChunkLen \in Nat
    BY <1>2, ChunksGrow
  <2> QED
    BY <1>1, <2>1, <2>2
<1> QED
  BY <1>4, <1>5

-----------------------------------------------------------------------------
(* The theorems.                                                           *)

\* The invariant is inductive: the stop, the reaper, the start that fails and the media thread
\* hand a recognizer to each other so that it is never used or deleted twice.
THEOREM Inductive == Spec => []IInv
<1>1. Init => IInv
  <2> SUFFICES ASSUME Init, NEW b \in Cbs PROVE Audio(b)
    BY ControlInit DEF IInv
  <2>1. InChunks(<<>>, 0, 0)
    BY EmptyChunks
  <2>2. AudioAt(b, 0, 0)
    BY <2>1 DEF Init, AudioAt, Written
  <2> QED
    BY <2>2 DEF Init, Audio
<1>2. IInv /\ [Next]_vars => IInv'
  BY ControlKept, AudioKept DEF IInv
<1> QED
  BY <1>1, <1>2, PTL DEF Spec

\* Every variable stays in its type.
THEOREM TypeCorrect == Spec => []TypeOK
<1>1. IInv => TypeOK
  BY DEF IInv, Control
<1> QED
  BY <1>1, Inductive, PTL

\* GStreamer: what waits in the prebuffer of a recognizer is not overtaken by a later frame, and
\* nothing is left in it once m_connected is published, for every length of chunk and prebuffer.
THEOREM AudioIsInOrder == Spec => []AudioInOrder
<1>1. IInv => AudioInOrder
  <2> SUFFICES ASSUME IInv, NEW b \in Cbs \ finished
               PROVE  /\ \A p \in staging[b] \cup UNION {chunks[b][i] : i \in DOMAIN chunks[b]} : pushed[b] < p
                      /\ b \in connected /\ ~Draining(b) => chunks[b] = <<>> /\ staging[b] = {}
    BY DEF AudioInOrder
  <2>1. PICK a, e \in Nat : AudioAt(b, a, e)
    BY DEF IInv, Audio
  <2>2. b \in connected => chunks[b] = <<>> /\ staging[b] = {}
    BY <2>1 DEF AudioAt
  <2> QED
    BY <2>1, <2>2, OrderOfAudio
<1> QED
  BY <1>1, Inductive, PTL

\* azure_transcribe_session_stop, _close and reaper: when the session is gone and everybody has
\* returned, no recognizer is forgotten, for any number of commands at once.
THEOREM NothingIsLeft == Spec => []NothingLeft
<1>1. IInv => NothingLeft
  BY DEF IInv, Control, Kept, NothingLeft
<1> QED
  BY <1>1, Inductive, PTL

\* Canceled, SessionStopped and notifyWriteFailure: whoever ends a recognition tells the session
\* of it, whatever the other threads do.
THEOREM EndIsAlwaysTold == Spec => []EndIsTold
<1>1. IInv => EndIsTold
  BY DEF IInv, Control, Told, Doomed, EndIsTold
<1> QED
  BY <1>1, Inductive, PTL
=============================================================================
