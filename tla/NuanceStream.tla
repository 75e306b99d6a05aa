---------------------------- MODULE NuanceStream ----------------------------
(***************************************************************************)
(* mod_nuance_transcribe as module InheritedStream runs it: the order of   *)
(* the steps of each of its functions.                                     *)
(***************************************************************************)
EXTENDS Sequences

NuanceSessionInit == <<"resampler", "vad", "newGStreamer", "connectUnlessVad", "thread_create">>

\* The channel and the variables of the call go into the first message.
NuanceInitMessage == <<"initMessage">>

NuanceConnect == NuanceInitMessage \o <<"openStream", "promise", "writeConfig", "drain">>

NuanceStartCapture ==
  <<"pre_answer", "requiredVariable">> \o NuanceSessionInit \o <<"bug_add", "set_private">>

\* Mutant of NuanceCleanup: the mutex is released before the bug is removed, as in Google's.
NuanceCleanupUnlocked == <<"lock", "private", "writesDone", "join", "delete", "unlock", "bug_remove">>

NuanceCleanup == <<"lock", "private", "writesDone", "join", "delete", "bug_remove", "unlock">>

NuanceFrame == <<"gate", "trylock", "media_bug_read", "unlock">>

NuanceFramePassed == <<"vad", "write">>

\* A status, the start of speech or a result is told as an event.
NuanceResponse == [result |-> <<"locate", "tell">>, empty |-> <<"locate">>, none |-> <<"locate">>]

NuanceReadThread == <<"waitForConnect", "read">>

\* The command start_timers writes to the stream.
NuanceTimers == <<"lock", "startTimers", "unlock">>
=============================================================================
