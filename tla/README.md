# drachtio-freeswitch-modules in TLA+

A verification development for the FreeSWITCH modules of this repository: TLA+
modules translated from the source, TLC configurations that check them on small
instances, and theorems that TLAPS checks for every value of the constants.
Paths without a prefix are relative to `src/modules/`.

Two designs make up the repository.  In one a session streams over a WebSocket
that a service thread of libwebsockets drives: **mod_audio_fork** and
**mod_deepgram_transcribe**.  In the other a session streams through a vendor's
SDK or a gRPC stream, with threads of its own: **mod_aws_transcribe**,
**mod_azure_transcribe**, **mod_google_transcribe** and the inherited gRPC modules.
Each of these is modelled here with the threads that meet in a session: the API's,
the hangup's, the media thread, the service, worker, read or callback thread, the
reapers and the unload.  The buffers that they share are modelled on their own.

## 1. Inventory

### 1.1 The components

Five modules are maintained here (`CHANGELOG.md`): mod_audio_fork and the
transcribe modules for Deepgram, AWS, Azure and Google.  The others are
inherited, and are older copies of the same designs.

| component | state it keeps | operations | modelled in |
|---|---|---|---|
| `mod_audio_fork/audio_pipe.cpp` | per pipe: `m_state`, `m_wsi`, `m_vhd`, text, audio, `m_gracefulShutdown`, `m_closePending`, the close promise; shared: three pending lists, the lws context | constructor, `connect`, `bufferForSending`, audio buffer lock/unlock, `do_graceful_shutdown`, `close`, `waitForClose`, destructor, `lws_callback`, `lws_service_thread` | `AudioPipe`, `PipeLife` |
| its receive buffer | `m_recv_buf`, length, write pointer, `m_recv_buf_discarding` | `CLIENT_RECEIVE` | `RecvBuffer` |
| its audio buffer | write offset, `m_audio_mutex`, overrun flag | `fork_frame`, `CLIENT_WRITEABLE` | `FrameBuffer` |
| `mod_audio_fork` glue (`mod_audio_fork.c`, `lws_glue.cpp`) | the channel's private, the media bug, `tech_pvt` (pipe pointer, mutex, playout list), `g_activePipes` | start, stop, send_text, pause/resume, graceful-shutdown, hangup (`CLOSE`), media frames, `eventCallback`, reaper, unload | `AudioFork` |
| `simple_buffer.h` of the maintained transcribe modules | slots, count, two cursors | `add`, `getNextChunk` | `SimpleBuffer`, `ChunkQueue`; as the streamers use it, `Prebuffer` |
| `simple_buffer.h` of the inherited modules | the same with the older reading order | the same | no (section 6) |
| mod_deepgram_transcribe | an AudioPipe with `finish()`, session, `g_activePipes` | start, stop, frame, events, reaper, unload | `DeepgramPipe`, `DeepgramTranscribe` |
| mod_aws_transcribe | `GStreamer`: queue of frames, prebuffer, `m_transcript`, flags `m_connected/m_connecting/m_finishing/m_finished`, gate `g_accepting` | `connect`, `write`, `finish`, `processData`, SDK callbacks, worker thread, stop, unload | `AwsStreamer` |
| mod_azure_transcribe | `GStreamer`: push stream, recognizer, flags, prebuffer, `g_activeStreamers` | `connect`, `write`, `finish`, SDK callbacks, `reaper`, `killcb`, start, stop, unload | `AzureTranscribe` |
| mod_google_transcribe | `GStreamer`: gRPC stream, connect promise, prebuffer, `g_activeSessions` | `connect`, `write`, `writesDone`, read thread, `reap_streamer`, start, stop, unload | `GoogleTranscribe` |
| inherited gRPC modules (nuance, nvidia, soniox, cobalt) | an older Google session | the same without `m_write_mutex`, count and gate; nuance's `start_timers` | `InheritedStream` with `NuanceStream`, `NvidiaStream`, `SonioxStream`, `CobaltStream` |
| inherited WebSocket modules (ibm, jambonz, assemblyai) | an older AudioPipe | as deepgram | no (section 6) |
| mod_simple_vad | one VAD per channel | start, stop, frame | no (section 6) |
| mod_aws_lex, mod_dialogflow, mod_google_tts | dialog and synthesis clients | | no (section 6) |
| parsers, base64 | none | pure conversions | no (section 6) |
| examples, tests, build files | | | read as documentation |

### 1.2 How they interact

    API thread ----- start/stop/command ----> glue ------ connect/text/close ---> AudioPipe
    session thread - hangup (CLOSE) --------> glue                                   |  ^
    media thread --- frame (READ) ----------> glue ------ audio ---------------------+  |
    reaper thread (one per stopped fork) ---- close, waitForClose, delete --------------+
    service thread (one) -- lws_callback --> AudioPipe -- eventCallback --> glue (a session looked up by id)

* `tech_pvt->mutex` guards the pipe pointer.  The glue holds it for every use of
  the pipe except `connect()`, which `fork_session_connect` calls without it.
* `session->bug_rwlock` belongs to the FreeSWITCH core: hangup holds it while it
  calls the `CLOSE` callback, which asks for `tech_pvt->mutex`; media frames run
  under its read side; `switch_core_media_bug_remove` takes it.
* The pending lists (`pendingConnects`, `pendingDisconnects`, `pendingWrites`,
  each with a mutex) and `lws_cancel_service` carry requests to the service
  thread.  `processPending...` copies entries under the mutex and uses them after
  it is released.
* `m_state`, `m_closePending`, `m_gracefulShutdown`, `m_closeSignaled` are
  atomics that are read and written without a lock from both sides.
* A stopped fork's pipe is handed to a detached reaper; `g_activePipes` keeps the
  module from being unloaded while a pipe or a reaper exists.

The transcribe modules with an SDK or a gRPC stream have the same API, session and
media threads, and a `cb->mutex` where this one has `tech_pvt->mutex`.  In place of
the service thread they have one of their own per session (AWS's worker, Google's
read thread), the SDK's threads (AWS, Azure), and a reaper (Azure).  What these
threads share is guarded by atomics and by a mutex for the stream or the buffer.
A new start under the name of a running session stops that one first; two starts
at once are kept apart by nothing.

### 1.3 What is hard, and what makes each component correct

*AudioPipe.*  `close()` runs against the handshake, against a drop by the far
end and against a graceful shutdown; the destructor runs while the service
thread holds list entries; a purge of one pipe's entry touches others' entries;
wake-ups coalesce.  Correct: every reaper ends, no entry dangles, no connect and
no close is lost, the state never goes back, every end is reported while the
fork is attached, events come in order, accepted text leaves the pipe.

*Receive buffer.*  Fragments of fragments, a cap enforced in two places, an
allocation that fails in the middle.  Correct: nothing is copied past the end, a
message is delivered whole or not at all, and one is given up only if its first frame
exceeds the cap or it has come within one growth of it (or for want of memory).

*Audio buffer.*  `switch_core_media_bug_read` checks one channel and writes two,
the resampler counts per channel.  Correct: in bounds, whole sample frames, nothing
given up for want of room without the one notice.

*Glue.*  bug_add, set_private and connect are three steps; stops overlap with
stops, with a new start and with the hangup; events look the fork up by its
name; two locks are taken in two orders by different threads.  Correct: a pipe in
use is alive and has one reaper, locks form no cycle, no pipe is left without a
reaper, the unload gate holds and opens again.

*Deepgram session.*  The pipe is not closed but asked to finish: a CloseStream
message goes out and the far end closes.  `finish()` runs on two threads, the
reaper's and, for a stop that came before the connection, the service thread's.
Correct: CloseStream goes out once, no reaper is stranded, the channel's private
never names a bug that is given up, overlapping stops and restarts leave no pipe.

*AWS session.*  Five threads meet in one object: the worker, the media thread,
the SDK's, a stop and the hangup; a stop may come before the object exists,
during the connect, or on a dead network.  Correct: audio is sent in the order it
was read and, at a stop, to its end; the last final transcript goes out though the
call is over; the object is deleted when nobody can use it any more; every stop
completes.

*Google session.*  A bidirectional gRPC stream that the media thread writes to,
that a stop, a hangup and the end of an utterance half-close, and that ends on its
own.  Correct: gRPC's contract (no write after a half-close, one half-close, one
Finish), audio without a gap, results and failures told after the call, the
streamer not deleted under a thread, nothing left, every stop completes.

*Azure session.*  The SDK calls back on threads of its own and ends recognition by
itself; the prebuffer is drained on its thread while frames arrive; two starts
may publish one over the other.  Correct: audio in order, the end is told, every
recognizer is reaped exactly once.

*Inherited gRPC session.*  The same as Google's before the corrections: what keeps
it from breaking is that the cleanup holds `cb->mutex` until the bug is removed,
and that is also what lets a stop and a hangup wait for each other.

*Ring buffer.*  Correct: it is a queue that forgets the oldest chunk.

Every hazard, with its line and the properties that watch it, is listed under
`hazards` in `PROJECT.json`.

## 2. The modules

| module | what it is |
|---|---|
| `PipeLife` | abstract: what a pipe promises to its owner (owner, state, end signalled) |
| `AudioPipe` | the AudioPipe with its lists and service thread; implements `PipeLife` |
| `RecvBuffer` | `CLIENT_RECEIVE` |
| `FrameBuffer` | `fork_frame` and the audio part of `CLIENT_WRITEABLE` |
| `AudioFork` | the glue, composed with pipes that behave as `PipeLife` |
| `ChunkQueue` | abstract: a bounded queue that forgets its oldest chunk |
| `SimpleBuffer` | the ring; implements `ChunkQueue` |
| `Prebuffer` | that queue as the transcribe sessions fill it, with the staging area for what is no whole chunk |
| `DeepgramPipe` | the AudioPipe of mod_deepgram_transcribe with `finish()`, lists, service thread, reapers |
| `DeepgramTranscribe` | its glue over these pipes: starts, stops, hangup, media thread, unload |
| `AwsStreamer` | one session of mod_aws_transcribe, from its start to the unload |
| `AzureTranscribe` | the recognizers of one channel under mod_azure_transcribe |
| `GoogleTranscribe` | one session of mod_google_transcribe, with a rival start |
| `InheritedStream` | one session of an inherited gRPC module: what each step does |
| `NuanceStream`, `NvidiaStream`, `SonioxStream`, `CobaltStream` | the order of the steps in each of the four |
| `MCAudioPipe`, `MCAudioFork`, `MCSimpleBuffer`, `MCAzureTranscribe`, `MCDeepgramTranscribe` | constraints and symmetry sets for TLC |
| `AudioPipe_proofs` | the theorems about mod_audio_fork's pipe, and those about `RecvBuffer`, `FrameBuffer` and `SimpleBuffer` |
| `Prebuffer_proofs` | lemmas about chunks of audio, shared by the next three |
| `AwsStreamer_proofs`, `AzureTranscribe_proofs`, `GoogleTranscribe_proofs` | the theorems about a session of each of these modules |
| `AudioFork_proofs`, `DeepgramTranscribe_proofs` | the theorems about a session of each of these modules |
| `InheritedStream_proofs` | the theorems about a session of the four inherited modules |

`AudioFork` composes its pipes from `PipeLife`; `DeepgramTranscribe` extends
`DeepgramPipe`, whose steps it interleaves with its own; the AWS, Azure and Google
sessions extend `Prebuffer`.

Definitions whose comment begins with "Mutant of" are deliberately wrong
variants of one action.  They are used by no specification; substituted for the
action they show that a property is able to fail.

### 2.1 AudioPipe

Three program counters per system: `upc[p]` for the threads that use pipe `p`
(they hold `tech_pvt->mutex`, so they are one process), `rpc[p]` for its reaper,
and `spc` for the service thread, with the pipe `cur` whose callback runs and the
local list `todo` of the `processPending` functions.  Each access to an atomic
and each critical section is one step; where an action joins two accesses its
comment says why no other thread can tell.

| action | code in `audio_pipe.cpp` |
|---|---|
| `Connect`, `PushConnect`, `WakeConnect`, `NoContext...` | `connect`, `addPendingConnect` |
| `SendText`, `AppendText`, `SendAudio`, `FillAudio`, `PushWrite`, `WakeWrite` | `bufferForSending`, `unlockAudioBuffer`, `addPendingWrite` |
| `GracefulShutdown`, `GracefulFlag`, `GracefulRecheck` | `do_graceful_shutdown` and its caller in the glue |
| `HandOff`, `CloseCheck` ... `CloseWake`, `WaitForClose`, `Unlink`, `Free` | the reaper: `close`, `addPendingDisconnect`, `waitForClose`, destructor, `removeFromPending` |
| `CollectConnects`, `ConnectClient`, `Fail...` | `processPendingConnects`, `connect_client` |
| `CollectDisconnects`, `CollectWrites`, `RequestWriteable`, `EndCancelled` | `processPendingDisconnects`, `processPendingWrites` |
| `ConnectionError`, `Established...` | the two outcomes of a handshake |
| `Writeable`, `WriteText`, `CloseOrWriteAudio` | `CLIENT_WRITEABLE` |
| `ClosedByUs`, `ClosedByFarEnd`, `ClosedState`, `ClosedSignal` | `CLIENT_CLOSED`, `setClosed` |

Data is reduced to whether something is waiting: `text` is a non-empty
`m_metadata`, `audio` a write offset behind `LWS_PRE`.  `flushed` and `note` are
history variables for the properties.  lws itself is modelled by what the code
relies on: it calls back on one thread, owes a `WRITEABLE` to a connection for
which `lws_callback_on_writable` was called, ends a handshake with
`ESTABLISHED` or `CONNECTION_ERROR`, and ends an open connection with `CLOSED`.
There is one service thread because `AudioPipe::initialize` caps the number to
one (`audio_pipe.cpp:587-598`).

### 2.2 RecvBuffer, FrameBuffer

Both keep lengths and offsets only.  One receive callback is one step, since only
the service thread touches the buffer.  `Arrives` is lws' contract: pieces of
frames, frames of messages.  In `FrameBuffer` a turn of `fork_frame` is `Begin`,
any number of `Read...` steps and an `End...` step under `m_audio_mutex`.
`WriteAudio` resets the offset whether lws took all of the audio or not, as the code
does; what is lost for want of room (`dropped`) and what a short or failed write loses
(`unsent`) are kept apart, because only the first has an event.

### 2.3 AudioFork

A thread `t` is at `pc[t]` and works for the fork `mine[t]`;
`fork_session_cleanup` is a procedure with the return point `ret[t]`, because
stop, hangup and the `CLOSE` inside `switch_core_media_bug_remove` all call it.
The pipes are composed from `PipeLife`: the glue's steps on `own` are checked to
be steps of `PipeLife` (`KeepsLife`), and the connection's steps are taken from
it (`Connection`).  So what is shown of `AudioFork` rests on `AudioPipe`
implementing `PipeLife`, which is both checked and proved.  `switch_core_*`
functions are modelled from their use here and from what the comments in the
code say of them, and are marked external in `PROJECT.json`.

The constant `Overlap` chooses how much the outside world interferes: `TRUE` is
any overlap of calls and hangup; `FALSE` means nothing else is begun on the
channel while a start runs.  Section 5 says why the distinction is needed.

### 2.4 SimpleBuffer

`Add` is the call, `AddChunk` one turn of its loop, `GetNextChunk` a read; the
cursors are slot numbers.  `Queue` maps it to `ChunkQueue`: the i-th chunk that
is held is in slot `SlotOf(i)`.

### 2.5 AwsStreamer

| process | label | actions | code in `aws_transcribe_glue.cpp` |
|---|---|---|---|
| owners `start`, `api`, `hangup` | `opc` | `Admit` ... `Publish`; `Lock`, `RequestStop`, `Finish`, `Join`, `KillCb`, `RemoveBug` | `start_capture` and `session_init`; `session_stop`, `session_close`, `session_cleanup` |
| worker | `wpc` | `Construct` ... `CloseStream` | `aws_transcribe_thread`, `processData`, `deliverTranscript` |
| media thread | `mpc` | `FrameLock`, `ReadBug`, `Write`, `Prebuffer`, `Push`, `FrameEnd` | `aws_transcribe_frame`, `write` |
| SDK | `rpc`, `sdk` | `StreamReady`, `Drain...`, `ReadyWake`, `Transcript`, `Outcome` | the three callbacks |

The three tear-downs run through the same steps; cleanup takes no mutex, and only
a stop looks at the channel's private again.  Everything done under `m_mutex` is
one step; `m_audioBufferMutex` is held over the whole drain, one chunk a step.
Audio is numbered pieces, so that order and loss can be told.  `m_cond` is
modelled with its lost notifications: `Notify` only wakes a worker that is
asleep.  Of the SDK the model assumes that the outcome is the last callback of a
request and that an aborted request has one; the code counts on both (comments at
lines 403-410 and 435).

### 2.6 DeepgramPipe, DeepgramTranscribe

`pc[t]` is where the service thread or the reaper of a pipe is.  `finish()` is a
procedure of both; its check of `m_state`, the flag and the second check are
steps of their own, as are the service thread's store of `CONNECTED` and its look
at the flag.  Audio is reduced to the lock of the audio buffer; received text and
the arithmetic of the buffer are the same code as in mod_audio_fork and modelled
there.  `DeepgramTranscribe` adds what the two API threads, the hangup and the
media thread do.  Two details of the source matter and are kept: the CLOSE
callback does not use its own bug but the one that is published under the bugname
(`Lookup`), and the check under the mutex (`Verify`) is what an overtaken stop
returns from.  `raced` remembers the bugs for which `NothingLeft` is not claimed:
two that were published one over the other, one that the hangup had closed before it
was published, and one that was published when the stop of such a bug cleared the
private.

### 2.7 AzureTranscribe

| process | state | actions |
|---|---|---|
| API threads, hangup | `at`, `cb`, `resume` | `StartCommand` ... `Publish`, `KillCb`; `StopCommand`, `LockAndVerify`, `Reap`, `Remove`, `CloseBug`, `Close` |
| SDK | `sdk`, `callback` | `SessionStarted`, `DrainChunk`, `DrainEnd`, `DrainFails`, `TellDrain`, `Canceled`, `SessionStopped`, `TellEnd` |
| media thread | `media`, `frame` | `Frame`, `Buffer`, `Push`, `MediaTell` |
| reapers | `reaperAt` | `ReaperFinish` |

`finish()` is used by the reaper and by `killcb`, so `FinishCheck`, `Disconnect`
and `Destroy` are parameterised by the function that says where the thread is.
`Disconnect` drops the handlers, as `DisconnectAll()` does; the callback that is
under way is waited for by `Finished`, which is what `Stop().get()` is counted on
to do.  Frames are numbered for each recognizer, and `pushed` is the last that
the push stream got.  Intermediate and final results change no state that is
shared and are left out.

### 2.8 GoogleTranscribe

| process | label | actions |
|---|---|---|
| owners `start`, `api`, `hangup` | `opc` | `Start` ... `Publish`; `ApiStop`, `CloseBug`, `Lock`, `Clear`, `ReapHalfClose`, `ReapJoin`, `ReapDelete`, `Unlock`, `RemoveBug`, `CloseRemoved` |
| media thread | `mpc` | `FrameGate`, `FrameTryLock`, `FrameEnter`, `ReadBug`, `SpeechConnect`, `WriteConfig`, `DrainChunk`, `DrainEnd`, `WriteFrame`, `FrameEnd` |
| read thread | `rpc` | `ReadWake`, `ReadResponse`, `UtteranceEnds`, `ReadFinish`, `ReadStatus` |
| the far end | `net` | `StreamEnds` |
| another start of the name | `rival` | `RivalStart`, `RivalPublish`, `RivalCleanup` |

Everything done under `m_write_mutex` is one step.  `broken` collects rules that
were broken, so that a property can say which may be.  Of a rival only its effect
on the channel's private is followed: it makes this session's cleanup find no
private, or find another's.

### 2.9 InheritedStream

The four glue files are copies of one another that have drifted apart.  The
module defines once what a step does ("writesDone", "bug_remove"); the four
small modules give, for each function of their own source, the order of its
steps, and a thread executes what is left in `todo[t]`.  That keeps a difference
in order visible: the variables that nuance and nvidia require, what soniox does
with a response that has no session, cobalt's configuration and `Finish`, and
nuance's `start_timers` are differences in these sequences and nowhere else.
`vendor` is chosen initially.

## 3. What is model-checked

States are distinct states.

| run | instance | states | what it shows |
|---|---|---|---|
| `AudioPipe` | 1 pipe, everything interleaved, fairness | 14 429 | `NoStrandedReaper`, `EventOrder`, `Lives` (refinement of `PipeLife`), `ReaperCompletes`, `TextLeaves` |
| `AudioPipeLists` | 2 pipes; constraint `ListsOnly` | 1 473 938 | `NoUseAfterFree`, `ConnectNotLost`, `CloseNotLost` |
| `RecvBuffer` | cap 7, growth 2, pieces to 2, messages to 10 bytes | 3 481 | `NoOverrun`, `WholeOrNothing` |
| `FrameBuffer` | header 3, buffer 33, packet 6, 5 frames | 484 | `InBounds`, `WholeSamples` |
| `AudioFork` | 2 forks, 2 API threads, overlap | 556 201 | `LiveWhileUsed`, `NoLockCycle`, `NoPipeAfterUnload`, `KeepsLife` |
| `AudioForkAlone` | 1 fork, 2 API threads, no overlap with a start, fairness | 10 491 | `NoOrphan`, `GateOpens` |
| `SimpleBuffer` | 3 slots, 3 chunks, up to 2 per call | 1 924 | `IsQueue` |
| `AwsStreamer` | one session, 2 frames of a chunk and a half, prebuffer of 1 chunk, queue of 2, 1 transcript, with and without VAD, fairness | 292 529 | `InOrder`, `TailSent`, `NoUseAfterDelete`, `LastTranscriptOut`, `StopCompletes` |
| `GoogleTranscribe` | one session and a rival, 2 frames of a chunk and a half, prebuffer of 1 chunk, 1 response, with and without VAD and single utterance, fairness | 207 876 | `StreamContract`, `NoGap`, `NoUseAfterDelete`, `TailDrained`, `NothingLeft`, `StopCompletes` |
| `InheritedStream` | each of the four modules, with and without VAD, 2 responses, fairness | 24 786 | `NoUseAfterDelete`, `StreamContract`, `StopCompletes` |
| `DeepgramTranscribe` | 2 bugs, a starting and a stopping thread, with and without an lws context, `FramesAlone`, `FailsAlone` | 5 578 027 | `FinishOnce`, `NoStrandedReaper`, `PublishedIsLive`, `NothingLeft` |
| `AzureTranscribe` | 2 recognizers, 2 API threads, 3 commands, 2 frames, chunks of 2, prebuffer of 1 chunk | 4 338 488 | `AudioInOrder`, `NothingLeft`, `EndIsTold` |

**Bounds, and why they are enough.**

* Pipes: what concerns one pipe alone (its handshake, close, graceful shutdown,
  its events) is checked with one.  Two pipes are the smallest number in which
  one pipe's purge can harm another's entry and in which a local list has two
  entries.  `ListsOnly` leaves audio and graceful shutdown out there, which touch
  no other pipe; text, which uses `pendingWrites`, stays in.  The safety
  invariants are proved for any number.
* Forks and API threads: two calls and the hangup are the smallest set in which a
  stop is overtaken by another stop and a new start; the second fork is the new
  one.  `Running` stops at a crash.
* A pipe and a fork live once: the model has no reuse of addresses.
* RecvBuffer: the cap is not a multiple of the growth, so both "just below" and
  "just above" occur; `MaxPiece <= Grow` is the relation of the code's sizes (the
  protocol's receive buffer is at most the 8 KB the buffer grows by).
* FrameBuffer: the buffer is not a multiple of a stereo packet, which is the case
  that the comment in `fork_frame` describes.
* AwsStreamer: frames of three pieces and chunks of two give a whole chunk and a
  remainder; two frames overflow the prebuffer of one chunk, or the queue of two,
  or fall on both sides of the connection.  The safety invariants also hold in
  larger instances (9 pieces; 2 transcripts; mixed frame lengths).
* GoogleTranscribe: the same lengths of frames and chunks.  One response is a
  result or the end of an utterance; which of them comes before which does not
  matter, since each is handled by itself.
* InheritedStream: no counts but the responses; two, so that one follows another.
* DeepgramTranscribe: two bugs are a session and the one that a restart puts in
  its place.  One thread starts and another stops, each again and again; that
  the start's own stop of a former session and an API stop overlap is what the
  two threads are for.  Two starts at once cannot occur in this instance, though
  the module allows them (`raced`); the theorems are about any number of starting
  threads, and Azure and Google have two starts in their instances.
  `FramesAlone` follows a frame only while no other pipe exists, and `FailsAlone` a
  failed connection only while every other pipe is not yet or no longer there:
  a frame and a failure touch one pipe, and two pipes meet in the lists and in the
  glue.  Without the two the instance has 9 069 168 states and the properties hold
  in it too; the theorems are about any number of pipes and every interleaving.
* AzureTranscribe: either thread may start or stop; three commands are two starts
  and a stop.  Two frames fill a chunk of the prebuffer, or leave one on each side
  of the drain.
* Symmetry: pipes, forks and callers, recognizers, and chunks are interchangeable; no run with
  a liveness property uses symmetry.
* `CHECK_DEADLOCK FALSE` in the AudioPipe and AudioFork runs: with all pipes
  deleted or all forks used up, the system may stop.  So may a session of a
  transcribe module when its call is over or its module is unloaded, and in
  `InheritedStream` a stop and a hangup that wait for each other.

**Fairness.**  `AudioPipe`: threads that can go on do go on (weak fairness of
the user's and the reaper's steps and of the service thread within a callback).
lws polls every socket and the wake-up pipe in each turn, hence strong fairness
for `CollectConnects`, a `WRITEABLE` that is owed and a handshake, which ends at
the latest by the context's `timeout_secs` of 10 (`audio_pipe.cpp:560`).  Locks
that others take again and again are got at some time (strong fairness of the
two steps that need one).  No operation is obliged to start, and the far end
need not close.  `AudioFork`: the same for its threads; a connection that was
asked for and is not up comes to an end, which is what `ReaperCompletes` shows
of `AudioPipe` when no graceful shutdown was asked for.  `AwsStreamer`: threads
run; the deadline of the shutdown is one point in time, so a worker that waits
again and again meets it (strong fairness of `Overdue`); `cb->mutex`, which the
media thread tries once in 20 ms, is got in the end.  A start, a stop, speech, the
stream, transcripts and an outcome that was not forced by the abort need not come.
`GoogleTranscribe` and `InheritedStream`: threads run, and the media thread gives
its locks back within each 20 ms, so that a lock which is asked for again and
again is got.  Of the far end one thing only is assumed: a stream that was
half-closed ends.  The code has no deadline there, its `join` waits for it without
a limit, and without this assumption a stop would not complete.
`DeepgramTranscribe` and `AzureTranscribe` are checked for safety only; that a
reaper of Deepgram's is never stranded is the invariant `NoStrandedReaper`.

## 4. What is proved

TLAPS checks every theorem for all values of the constants, from the named
assumptions in the modules:

* `NoPipeAssumption` (the null pipe is not a pipe);
* `RecvBufferAssumption` (naturals, and a piece is no longer than the growth);
* `FrameBufferAssumption` (a packet is even and at least 4 bytes; the buffer holds
  two packets: it holds at least a second of audio);
* `SimpleBufferAssumption` (at least one slot, and nullptr is not a chunk);
* `AudioForkAssumption`, `DeepgramPipeAssumption`, `DeepgramTranscribeAssumption` (the
  null values are no forks and no bugs, and the names of the hangup, the service and
  the media thread are not names of callers);
* `PrebufferAssumption` (a chunk has a length and the ring has slots),
  `AwsStreamerAssumption` and `GoogleAssumption` (the lengths of frames, the size of
  the queue and the caps of the counts are naturals; a frame and the queue are not
  empty);
* `AzureAssumption` (the null `cap_cb` is none, the caps of the counts are naturals, and
  the values of a mutex that nobody or the media thread holds are not names of callers).

**AudioPipe, any number of pipes.**  `TypeCorrect`, `NeverStranded`,
`VhdIsSet`, `AlwaysReported`, `NeverAfterFree`, `WritableIsOpen`,
`HandshakeIsFound`, `ConnectIsKept`, `CloseIsKept`, `EventsInOrder` and
`Implements` (the refinement of `PipeLife`).  None of the invariants is inductive
alone: that a freed pipe is in no list, for instance, depends on where its reaper
is, what the service thread remembers and which state the connection is in.  The
inductive invariant is `IInv`, the types and, for each pipe, what is known

* of its owner, its user and its reaper (`Owner`, `User`, `Reaper`);
* of the callback that runs and of the local list (`Callback`, `Todo`);
* in each state of the connection (`Idle`, `Handshaking`, `Up`, `Failed`,
  `Down`), with the wake-ups and `WRITEABLE`s that are under way (`OnItsWay`);
* while the reaper waits (`Waits`) and of what the application was told (`Told`).

TLC checks `IInv` on one and on two pipes.  The proof that a step keeps it has one
lemma per group of actions, since a step changes one pipe and the lists; the
step theorem combines them.  `NeverStranded` is the closed form of the
`close()`/`CLIENT_ESTABLISHED` handshake: a reaper that waits on a connected pipe
recorded its request before the service thread reads it.

The next three are at the end of `AudioPipe_proofs`, one after the other.

**RecvBuffer.** `RecvTypes`, `RecvInBounds`, `RecvCapped`, `RecvFlags`, `RecvWhole`,
`RecvDropsLarge`. The last says when a message is given up though memory was there:
its first frame, whose length is known, exceeds the cap; or a later piece finds no
room and the buffer plus one growth would exceed it, which is so only if what has
come, that piece included, is within one growth of the cap. So a fragmented message up
to 8 KB below the cap may be given up, and a single frame below it is not. The fixed
growth without a look at the length of the piece is safe exactly because of `MaxPiece
<= Grow`.

**FrameBuffer.** `FrameTypes`, `FrameInBounds`, `FrameWholeSamples`,
`FrameOverrunTold`, `FrameOverrunOnce`. `FrameOverrunTold` is about the samples that
find no room; its case that needs an argument is the resampler's, which stores a part
of a packet only when less than a packet of room is left. Nothing is claimed of what a
short or failed write loses (section 5). The bounds are inductive only with two facts
more: `available` is the free space while the lock is held, and the offset is a whole
number of sample frames behind `LWS_PRE`.

**SimpleBuffer.**  `RingTypes`, `RingCursors`, `RingIsQueue` (the refinement of
`ChunkQueue`).  The lemmas `SlotsApart` and `ReadMoves` are the arithmetic of the
ring; `AddChunkPuts` and `GetNextChunkTakes` are the two steps that are not
stutters.

**AudioFork, any number of forks and callers.**  `TypeCorrect`, `PipeOutlivesUse`
(`LiveWhileUsed`), `NoTwoThreadsWait` (`NoLockCycle`), `UnloadLeavesNoPipe`
(`NoPipeAfterUnload`) and `GlueKeepsLife` (`KeepsLife`) hold however stops, starts and
the hangup overlap.  The inductive invariant says of each thread which locks it
holds where it is (`Locks`) and what a start still has to itself (`StartInv`), of each
pipe how the pointer, the owner and the reaper agree (`Pipe`), and of the gate that
`g_activePipes` is the number of the forks that count (`Gate`): the increment comes
after the pipe is made and the decrement after it is deleted, so this set, and not
the pipes that are alive, is what the number stands for.  `GlueKeepsLife` is the half
of the composition that belongs to the glue: each of its steps is a step of
`PipeLife` or leaves it alone; `Implements` of `AudioPipe_proofs` is the other half.
`NothingIsOrphaned` (`NoOrphan`) has the premise `~Overlap`, as its run has, because
section 5 shows what an overlap does to it.  Its own invariant, `NoOverlapInv`, says
in whose hands each pipe is: those of its start, of the cleanup that took it, or of
the channel's private with a bug that is still attached.

**DeepgramTranscribe, any number of bugs, starting and stopping threads.**
`TypeCorrect`, `FinishIsOnce` (`FinishOnce`), `ReaperIsNotStranded`
(`NoStrandedReaper`), `PublishedIsAlwaysLive` (`PublishedIsLive`) and `NothingIsLeft`
(`NothingLeft`).  The invariant has a part about the pipes: what the service thread is
in the middle of (`ServiceInv`), where a connection is and who takes it further
(`Connection`), who has the right to send CloseStream after the exchange in
`finish()` (`Finish`), and that what a reaper asked for is on its way (`Asked`); and a
part about the glue: which bug holds its pipe (`Bug`), what each owner knows (`Owner`),
and in whose hands a pipe is (`InGoodHands`).  The second check of `m_state` in
`finish()` is what `Asked` rests on, the check under the mutex in the stop what
`Owner` rests on.  To find this invariant, the instance was enlarged to three bugs and two
starting threads, and there `NothingLeft` was violated as it was then stated;
section 5 tells how.  `raced` was made to include that case, the third of its kinds, and
nothing else: a stop whose own bug was not raced for finds it published when it clears
the private.  `PublishedIsLive` says more than that a published bug was not asked to finish:
it holds its pipe and is in the session's list, or the hangup that took it off is on its way
to clear the private, or it is one of `raced`.

**AwsStreamer, any lengths of frames, chunks, prebuffer and queue.**  `TypeCorrect`,
`SentInOrder` (`InOrder`), `TailIsSent` (`TailSent`), `StreamerOutlivesUse`
(`NoUseAfterDelete`) and `LastTranscriptGoesOut` (`LastTranscriptOut`).  `Control` is the
invariant of the threads and flags: who may be where while a start is secret or a stop is
under way (`Session`, `Stops`), why the worker has ended (`Object`), how far the request is
(`Request`), what a shutdown has found empty (`Flushed`) and where the last transcript is
(`Events`).  `AudioInv` is that of the audio: there are places m <= a <= b <= f <= g
in the call so that the worker's own queue lies up to m, the shared queue up to a, the
prebuffer up to b, the staging area up to f and the frame behind g, each in order; a
gap can be only where the queue or the prebuffer has dropped its oldest or where a frame was
given up.
That the five lie in this order is what `InOrder` says; that they do after each step
needs the exact bounds of the chunks and of the staging area.

**GoogleTranscribe, any lengths of frames and chunks, any number of responses.**
`TypeCorrect`, `ContractKept` (`StreamContract`), `SentWithoutGap` (`NoGap`),
`StreamerOutlivesUse` (`NoUseAfterDelete`), `TailIsDrained` (`TailDrained`) and
`NothingIsLeft` (`NothingLeft`).  `Control` says who is inside `cb->mutex` (`Locked`),
what nobody knows before bug_add (`Private`), who uses the streamer and who is going to
delete it (`Streamer`) and what the promise is worth (`Stream`); the read thread's promise
has one value because `connect()` and the cancelling of it both run under `cb->mutex`, which
the canceller keeps until the streamer is gone.  `Audio` says that what was read and not sent follows
what was sent without a gap, through prebuffer, staging area and frame, until the
stream is half-closed.  `NoGap` is part of the invariant, since after a half-close it is
only remembered.

**AzureTranscribe, any number of recognizers, API threads, frames and commands, any
lengths of chunk and prebuffer.**  `TypeCorrect`, `AudioIsInOrder` (`AudioInOrder`),
`NothingIsLeft` (`NothingLeft`) and `EndIsAlwaysTold` (`EndIsTold`).  `Control` is the
invariant of the recognizers and of who uses them.  `Kept` says in whose hands one is: its
reaper has it, or its `cap_cb` does and somebody is going to reap it, who is the start that
made it, the session that still has the bug, or the caller who removed the bug.  This is
what `NothingLeft` is the end of.  `Taken`, `Fresh`, `MediaHolds` and `MutexHeld` say why nobody
else gets it: before bug_add only its start knows it, a reaper's recognizer has no `cap_cb`
any more, and who uses or reaps one holds its mutex.  `Told` says who ends a recognition
and has not told it yet: a callback, the media thread, or a start that deletes what it made.
`Audio` is about each recognizer: there are places a <= e so that the push stream has
what lies up to a, the prebuffer what lies between a and e, and the staging area what follows
up to the last frame that `write()` dealt with; once `m_connected` is set both are empty.
The second look at `m_connected` under `m_mutex` is what keeps that: a frame is buffered only
while the drain, which runs under the same mutex, has not published the flag, and
it is pushed past the prebuffer only afterwards.

Common to the last three: the lemmas of `Prebuffer_proofs` (`HeadInChunks`,
`ConcatInChunks`, `DropOldest`, `ChunksInOrder` and what they rest on) say what
`SimpleBuffer`'s `add` and `getNextChunk`, as `Prebuffer` has them, do to audio that
is in order. Every inductive invariant was checked by TLC as an invariant of the run
of its module before it was proved.

**InheritedStream, each of the four modules, any number of responses.**  `TypeCorrect`,
`NobodyUsesADeletedStreamer` (`NoUseAfterDelete`) and `TheContractIsKept`
(`StreamContract`).  A thread's state is the sequence that it still has to do, so the
proof first makes a set of it.  `Rank` gives every step a place in one order; the
functions of the four modules, with the calls in them, are runs in that order
(`CodeFacts`), and every step of a thread leaves a run (`GoesOn`, `CallsOn`, `LeavesOn`,
`BeginsOn`).  So the set `Left(t)` of the steps that are left says where thread t is, and
its next step is the one of the lowest rank (`AtHead`).  The invariant is about these sets:
who locked has still to unlock (`Calling`, `Locks`); a cleanup does all that follows its next
step (`Upward`); the start has the session to itself until it sets the private (`Start`);
a cleanup that found the private, and only one can, joins the read thread before it
deletes and keeps `cb->mutex` until the media thread cannot come back (`Deletes`);
`connect()` runs on one thread, once, and not after `writesDone()` (`Connects`).  That the
order of the steps in each module is a premise of the proof, and not only of a run, is the
point of it: `NuanceCleanupUnlocked`, which is Google's order, is no such run.

Where a theorem states a property that no run lists (`TypeOK` of each, which
`AudioPipe_proofs` calls `RecvTypeOK`, `FrameTypeOK` and `RingTypeOK` for the buffers,
`VhdBeforeWake`, `EndIsReported`, `WritableOnOpenWsi`, `HandshakeFound`,
`CapHolds`, `BufferIffOpen`, `DroppedOnlyIfLarge`, `OverrunTold`, `OverrunOnce`,
`CursorsAgree`) the theorem is what shows it: a run of a small instance would add
nothing.

**Only model-checked.**  Liveness (`ReaperCompletes`, `TextLeaves`, `GateOpens`,
`StopCompletes` of three modules), since TLAPS has no rules for ENABLED, on which
fairness is built.  Every safety invariant and every other action property of the runs is
proved.

## 5. Where the code and its documentation disagree, and what the properties leave out

None of these is a run of its own.  Each was met while a module was written or
checked, and most of them are the reason for a premise or an exception in a
property.

**mod_audio_fork**

* Graceful shutdown of a connected pipe sends no zero-length frame:
  `do_graceful_shutdown` (`audio_pipe.cpp:724`) sets the flag only if the pipe is not
  connected, and `CLIENT_WRITEABLE` finds it clear.  `mod_audio_fork/README.md:45`
  promises the frame.
* Once the flag is set, the graceful branch of `CLIENT_WRITEABLE`
  (`audio_pipe.cpp:265`) returns before the branch for `DISCONNECTING`: a later stop
  does not close the connection, and its reaper waits for the far end.
  `NoStrandedReaper` and `ReaperCompletes` except this state.
* `CLIENT_WRITEABLE` looks for text (`audio_pipe.cpp:300`) before it looks at the
  state, so text that a stop sends just before its reaper closes can be left
  unsent.  `TextLeaves` is about pipes that are not being closed.
* A hangup between bug_add and set_private (`mod_audio_fork.c:119`) leaves a connected
  pipe that nobody reaps; a stop between set_private and `fork_session_connect`
  has already taken the pipe, and connect is called on null.  `NoOrphan` is
  checked with `Overlap = FALSE`.
* A stop that was overtaken by another stop and a new start clears the new fork's
  private and removes its bug (`lws_glue.cpp:600`): mod_deepgram_transcribe has the
  check that is missing here.
* `CLIENT_WRITEABLE` resets the audio buffer after `lws_write` whatever it returned
  (`audio_pipe.cpp:312-320`): audio that a short or failed write did not send is given up with a
  line in the log and no event.  The comment there says that failures used to be "silently
  discarded"; they still are discarded.  `OverrunTold` is about overruns only.
* A message of several pieces can be given up as "max buffer exceeded" though it is shorter
  than `MAX_RECV_BUF_SIZE`, because the test is of the buffer after one growth and not of
  what is needed (`audio_pipe.cpp:208-215`).  `DroppedOnlyIfLarge` states the exact limit.
* A playout file that is written while the cleanup runs is listed after the list
  was emptied (`lws_glue.cpp:138`), and stays on disk.  `AudioFork` follows the files, and
  no property is about them.

**mod_deepgram_transcribe**

* A stop clears the private before its reaper calls `finish()`, so the last
  responses find no session under this name and are dropped, or are told under
  that of a session that was started since; the comment at
  `dg_transcribe_glue.cpp:606` says "close connection and get final responses".
  With them goes the flag `finished` of the pipe that sent them, so a new session is told
  under its own name that it has finished (`eventCallback`, lines 349-410).
  `PublishedIsLive` does not exclude that, and implies it: the bug that is published
  was never asked to finish, so no event with the flag can be its own.
* The CLOSE that a stop's bug_remove fires is said to return early (642-643), but it
  looks up whatever is published under the name by then: if that is a newer
  session, it is torn down.
* Two starts at once publish one bug over the other, and a hangup between bug_add
  and set_private finds none: nobody hands these pipes to a reaper.
  `NothingLeft` excepts both by `raced`.
  A third session can be lost in the same way without a race of its own: a stop that
  has checked the first bug (line 613) and not yet cleared the private (624) holds only
  that bug's mutex.  When a second start publishes over it, is stopped itself, and
  another start publishes a third bug, the first stop clears the third one's private;
  the hangup finds none, and its pipe is never reaped.  `raced` includes it.
* `g_activePipes` is incremented after `connect()`, so an unload may come in
  between; that FreeSWITCH holds the interface's lock during the command is what
  keeps it out, unless the unload is forced.
* `CONNECT` events that come before set_private are dropped; audio may be sent after
  CloseStream; `do_stop` looks the bug up by `MY_BUG_NAME` and not by the name it was
  given.

**mod_aws_transcribe**

* `TailSent` needs `~early`: `OnStreamReady` publishes the stream before it drains
  the prebuffer, so a worker that is already finishing may close the stream
  before the prebuffered audio is in the queue.
  `mod_aws_transcribe/README.md:27` says that buffered audio is flushed on stop.
* `m_transcript` is one slot: a final transcript that the worker has not yet taken
  is overwritten by the next one.  `LastTranscriptOut` is about the last.
* An unload that was refused leaves `g_accepting` false: the module stays loaded and
  refuses every start.

**mod_azure_transcribe**

* `finish()` returns at once if `m_finished` is set, so for a recognizer that ended
  by itself the handlers are still connected when it is deleted, against the
  comments at 463-468 and 560-565 of `azure_transcribe_glue.cpp`; `CHANGELOG.md`
  defers this window.  The model does not follow a callback past the deletion, and
  assumes that `Stop().get()` returns after the callbacks that are under way; so it
  says nothing about this window.
* The destructor decrements `g_activeStreamers` in its body, before the members are
  destroyed: an unload may be granted in between.
* Two events with `finished=true` are possible for one recognizer (a failed drain
  and a failed write); the comment at 295-301 speaks of one.

**mod_google_transcribe**

* The CLOSE that a stop's bug_remove fires is said to return early
  (`google_glue.cpp:979`); if a new start has published in the meantime, its private
  is cleared (`CloseRemoved`).  `NothingLeft` holds in spite of it because the
  cleanup reaps its own `cb` with or without a private.
* The config is written without a look at `m_writesDone`, so a stop between
  `connect()` and the write puts it after the half-close.  `StreamContract` excepts
  this one message.
* `++g_activeSessions` comes after the stream and its thread exist; as in Deepgram
  the interface's lock of FreeSWITCH covers the window.

**The inherited gRPC modules**

* The cleanup calls bug_remove with `cb->mutex` held (`nuance_glue.cpp:741` and its
  copies).  A hangup that holds the bugs' lock and asks for the mutex meets it:
  both wait for ever.  `StopCompletes` excepts exactly this state,
  `StopMeetsHangup`.  Google's glue has the correction.
* cobalt's read thread calls `Finish` without a lock while the media thread may be
  writing; nuance's `start_timers` may write before a session with a VAD has its
  stream.  `StreamContract` excepts these two rules, "writeAfterFinish" and
  "noStream".
* The result of thread_create is not looked at; a failing bug_add returns and leaves
  the read thread; the resampler is freed and its pointer kept; what builds the
  first message may throw outside the try block.
* The older `getNextChunk` (`simple_buffer.h:33`) decrements the count even at 0, so it
  wraps around, and it starts to read at the write cursor of a buffer that is not
  full.  The maintained copy was corrected.

## 6. What is not modelled, and the plan

**Not modelled:**

* mod_audio_fork: `deinitialize`, several service threads, the basic-auth header,
  `parse_ws_uri` and the parsing of API arguments, message types other than
  playAudio (they only fire an event), load, and what
  `switch_core_media_bug_read` does after a change of codec.
* both AudioPipes: a `CLIENT_CONNECTION_ERROR` that lws fires from within
  `lws_client_connect_via_info`.  `m_wsi` is set only when that returns, so the callback finds
  no pipe; it can purge entries of failed connects, as every other terminal callback does.
* mod_deepgram_transcribe: received text and the arithmetic of the audio buffer (the
  same code as mod_audio_fork's, see `RecvBuffer` and `FrameBuffer`), the URL.
* the vendors' request options, the text of results, the parsing of arguments and
  the registration of the API in every module: no state is shared there.
* mod_aws_transcribe: two sessions of one name at once; interim transcripts;
  exceptions that the SDK's client throws after the constructor.
* mod_azure_transcribe: a callback that is under way while its recognizer is
  deleted (section 5).
* mod_google_transcribe: a second session beside the first in full; of the rival only
  what it does to the private.
* the inherited gRPC modules: two sessions of one name, the prebuffer's ring,
  utterance ends, a thread_create that fails.
* `simple_buffer.h` of the inherited modules: a ring that one thread uses, with the
  defect that section 5 names.
* the inherited WebSocket modules (ibm, jambonz, assemblyai): older copies of
  AudioPipe, whose flags are plain fields that two threads use without a lock, so
  that a model would be one of the compiler's choices; apart from that they do
  what `DeepgramPipe` does, without its repairs.
* mod_simple_vad: a media bug that counts frames on the session's own thread.
* mod_aws_lex, mod_dialogflow, mod_google_tts: other protocols than transcription.
* parsers and base64: pure conversions with unit tests.

**Plan**, in this order:

1. Liveness of the Deepgram and Azure reapers, under the fairness of the service
   thread and of the SDK.
2. The dialog clients mod_aws_lex and mod_dialogflow, which have a read thread and a
   playback each.
3. Load, unload and `deinitialize` as one module over all gates.

## 7. Running it

    tlc -workers 2 -config AudioPipe.cfg MCAudioPipe.tla
    tlapm AudioPipe_proofs.tla

The module and the cfg of each run, the mutants, the map from definitions to source
lines, the hazards and the theorems are in `PROJECT.json`.
