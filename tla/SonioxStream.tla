---------------------------- MODULE SonioxStream ----------------------------
(***************************************************************************)
(* mod_soniox_transcribe as module InheritedStream runs it: the order of   *)
(* the steps of each of its functions.                                     *)
(***************************************************************************)
EXTENDS Sequences

SonioxSessionInit == <<"resampler", "vad", "newGStreamer", "connectUnlessVad", "thread_create">>

\* The channel and the variables of the call go into the first message.
SonioxInitMessage == <<"initMessage">>

SonioxConnect == SonioxInitMessage \o <<"openStream", "promise", "writeConfig", "drain">>

SonioxStartCapture == <<"pre_answer">> \o SonioxSessionInit \o <<"bug_add", "set_private">>

SonioxCleanup == <<"lock", "private", "writesDone", "join", "delete", "bug_remove", "unlock">>

\* Mutant of SonioxFrame: no mutex.
SonioxFrameUnlocked == <<"gate", "media_bug_read", "unlock">>

SonioxFrame == <<"gate", "trylock", "media_bug_read", "unlock">>

SonioxFramePassed == <<"vad", "write">>

\* A response without a result is passed over before the session is looked up, one without
\* words after it.
SonioxResponse == [result |-> <<"locate", "tell">>, empty |-> <<"locate">>, none |-> <<>>]

SonioxReadThread == <<"waitForConnect", "read">>
=============================================================================
