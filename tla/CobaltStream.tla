---------------------------- MODULE CobaltStream ----------------------------
(***************************************************************************)
(* mod_cobalt_transcribe as module InheritedStream runs it: the order of   *)
(* the steps of each of its functions.                                     *)
(***************************************************************************)
EXTENDS Sequences

CobaltSessionInit == <<"resampler", "vad", "newGStreamer", "connectUnlessVad", "thread_create">>

\* The connection to the server of the command.
CobaltGrpcConnection == <<"initMessage">>

\* The config is put together after the stream was opened.
CobaltConnect == CobaltGrpcConnection \o <<"openStream", "config", "promise", "writeConfig", "drain">>

CobaltStartCapture == <<"pre_answer">> \o CobaltSessionInit \o <<"bug_add", "set_private">>

CobaltCleanup == <<"lock", "private", "writesDone", "join", "delete", "bug_remove", "unlock">>

CobaltFrame == <<"gate", "trylock", "media_bug_read", "unlock">>

CobaltFramePassed == <<"vad", "write">>

\* An error is only logged; without a result nothing is told.
CobaltResponse == [result |-> <<"locate", "tell">>, empty |-> <<"locate">>, none |-> <<"locate">>]

\* Finish is called, if the session is still there.
CobaltReadThread == <<"waitForConnect", "read", "locate", "finish">>
=============================================================================
