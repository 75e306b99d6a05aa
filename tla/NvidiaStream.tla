---------------------------- MODULE NvidiaStream ----------------------------
(***************************************************************************)
(* mod_nvidia_transcribe as module InheritedStream runs it: the order of   *)
(* the steps of each of its functions.                                     *)
(***************************************************************************)
EXTENDS Sequences

NvidiaSessionInit == <<"resampler", "vad", "newGStreamer", "connectUnlessVad", "thread_create">>

\* The channel to the RIVA server and the variables of the call go into the first message.
NvidiaInitMessage == <<"initMessage">>

NvidiaConnect == NvidiaInitMessage \o <<"openStream", "promise", "writeConfig", "drain">>

NvidiaStartCapture ==
  <<"pre_answer", "requiredVariable">> \o NvidiaSessionInit \o <<"bug_add", "set_private">>

NvidiaCleanup == <<"lock", "private", "writesDone", "join", "delete", "bug_remove", "unlock">>

NvidiaFrame == <<"gate", "trylock", "media_bug_read", "unlock">>

NvidiaFramePassed == <<"vad", "write">>

\* One event for each result; a response without one is looked at in the same way.
NvidiaResponse == [result |-> <<"locate", "tell">>, empty |-> <<"locate">>, none |-> <<"locate">>]

NvidiaReadThread == <<"waitForConnect", "read">>
=============================================================================
