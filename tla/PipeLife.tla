------------------------------ MODULE PipeLife -------------------------------
(***************************************************************************)
(* What an AudioPipe promises to the glue that owns it: a connection that  *)
(* only moves forward, at most one end, and memory that is released only   *)
(* when the end has been signalled.  AudioPipe implements it; AudioFork is *)
(* built on it.                                                            *)
(***************************************************************************)
EXTENDS Naturals

CONSTANT Pipes   \* the AudioPipe objects

VARIABLES
  own,       \* who may delete the pipe: unborn, user, reaper, freed
  state,     \* its LwsState_t
  signaled   \* its end has been signalled to waitForClose()

lifeVars == <<own, state, signaled>>

LifeInit == /\ own = [p \in Pipes |-> "unborn"]
            /\ state = [p \in Pipes |-> "IDLE"]
            /\ signaled = [p \in Pipes |-> FALSE]

Alive(p)     == own[p] \in {"user", "reaper"}
Owner(p, o)  == own' = [own EXCEPT ![p] = o] /\ UNCHANGED <<state, signaled>>
Becomes(p, s) == state' = [state EXCEPT ![p] = s] /\ UNCHANGED <<own, signaled>>

\* The owner's side: the constructor, the deletion of a pipe that was never connected,
\* the hand-over to a reaper, and the deletion by the reaper.
Make(p)    == own[p] = "unborn" /\ Owner(p, "user")
Drop(p)    == own[p] = "user" /\ state[p] = "IDLE" /\ Owner(p, "freed")
Hand(p)    == own[p] = "user" /\ Owner(p, "reaper")
Release(p) == own[p] = "reaper" /\ signaled[p] /\ Owner(p, "freed")

\* The connection's side.  One turn of the service thread takes several pipes at once.
Adopt == \E S \in SUBSET {p \in Pipes : Alive(p) /\ state[p] = "IDLE"} :
           /\ state' = [p \in Pipes |-> IF p \in S THEN "CONNECTING" ELSE state[p]]
           /\ UNCHANGED <<own, signaled>>
Fails(p)   == Alive(p) /\ state[p] \in {"IDLE", "CONNECTING"} /\ Becomes(p, "FAILED")
Up(p)      == Alive(p) /\ state[p] = "CONNECTING" /\ Becomes(p, "CONNECTED")
\* Only the reaper's close() takes a connection down from this side.
Closes(p)  == own[p] = "reaper" /\ state[p] = "CONNECTED" /\ Becomes(p, "DISCONNECTING")
Ends(p)    == /\ Alive(p) /\ state[p] \in {"CONNECTED", "DISCONNECTING"}
              /\ Becomes(p, "DISCONNECTED")
Signals(p) == /\ Alive(p) /\ state[p] \in {"FAILED", "DISCONNECTED"} /\ ~signaled[p]
              /\ signaled' = [signaled EXCEPT ![p] = TRUE] /\ UNCHANGED <<own, state>>

LifeStep(p) == Make(p) \/ Drop(p) \/ Hand(p) \/ Release(p) \/ Fails(p) \/ Up(p)
               \/ Closes(p) \/ Ends(p) \/ Signals(p)
LifeNext == Adopt \/ \E p \in Pipes : LifeStep(p)
LifeSpec == LifeInit /\ [][LifeNext]_lifeVars
=============================================================================
