----------------------------- MODULE FrameBuffer -----------------------------
(***************************************************************************)
(* The audio buffer of one AudioPipe: fork_frame (lws_glue.cpp) fills it   *)
(* on the media thread, CLIENT_WRITEABLE (audio_pipe.cpp) empties it on    *)
(* the service thread, both under m_audio_mutex.  Only offsets are kept:   *)
(* what matters is where a frame is written and what is lost, for want of  *)
(* room (dropped) or by a write that lws does not complete (unsent).       *)
(* The caller's side of fork_frame, tech_pvt->mutex and the state of the   *)
(* pipe, is in AudioFork and AudioPipe.                                    *)
(***************************************************************************)
EXTENDS Integers

CONSTANTS
  Pre,       \* LWS_PRE: room for the header that lws_write puts in front
  MaxLen,    \* m_audio_buffer_max_len
  Packet,    \* m_audio_buffer_min_freespace: bytes of one packet of one channel
  MaxFrames  \* bound: sample frames the resampler makes of one packet

\* The buffer holds at least one second (nAudioBufferSecs), a packet is shorter, and a
\* sample has two bytes.
ASSUME FrameBufferAssumption ==
  /\ Pre \in Nat /\ MaxLen \in Nat /\ Packet \in Nat /\ MaxFrames \in Nat
  /\ Packet >= 4 /\ Packet % 2 = 0
  /\ MaxLen - Pre >= 2 * Packet

VARIABLES
  channels,    \* tech_pvt->channels: 1, or 2 for SMBF_STEREO
  resampling,  \* tech_pvt->resampler # NULL
  offset,      \* m_audio_buffer_write_offset
  locked,      \* m_audio_mutex, held by fork_frame
  available,   \* its local variable
  notified,    \* tech_pvt->buffer_overrun_notified
  notices,     \* history: EVENT_BUFFER_OVERRUN sent
  dropped,     \* history: samples found no room and were given up
  unsent       \* history: lws_write did not take all that was in the buffer

frameVars == <<channels, resampling, offset, locked, available, notified, notices, dropped, unsent>>

Space       == MaxLen - offset        \* binarySpaceAvailable
SampleFrame == 2 * channels           \* bytes of one sample of every channel

FrameInit ==
  /\ channels \in {1, 2} /\ resampling \in BOOLEAN
  /\ offset = Pre /\ locked = FALSE /\ available = 0
  /\ notified = FALSE /\ notices = 0 /\ dropped = FALSE /\ unsent = FALSE

\* lockAudioBuffer.
Begin ==
  /\ ~locked /\ locked' = TRUE
  /\ available' = Space
  /\ UNCHANGED <<channels, resampling, offset, notified, notices, dropped, unsent>>

\* The event is sent once in the life of a fork.
NotifyOverrun ==
  /\ notified' = TRUE
  /\ notices' = IF notified THEN notices ELSE notices + 1

\* The packet that switch_core_media_bug_read stores: it looks at the length of one
\* channel and writes all of them.
Stored == Packet * channels

\* Mutant of MinSpace: the free space is not scaled by the channel count.
MinSpaceOfOneChannel == Packet

MinSpace == Packet * channels

\* No resampler: the packet is read into the buffer; a full buffer is thrown away first.
ReadNative ==
  /\ locked /\ ~resampling
  /\ LET full  == available < MinSpace
         start == IF full THEN Pre ELSE offset
     IN  /\ IF full THEN NotifyOverrun ELSE UNCHANGED <<notified, notices>>
         /\ dropped' = (dropped \/ full)
         /\ offset' = start + Stored
         /\ available' = MaxLen - offset'
  /\ UNCHANGED <<channels, resampling, locked, unsent>>

\* Nothing more to read: a buffer that is found full is thrown away all the same.
EndNative ==
  /\ locked /\ ~resampling
  /\ IF available < MinSpace
     THEN NotifyOverrun /\ offset' = Pre /\ available' = MaxLen - Pre /\ dropped' = TRUE
     ELSE UNCHANGED <<notified, notices, offset, available, dropped>>
  /\ locked' = FALSE
  /\ UNCHANGED <<channels, resampling, unsent>>

\* Room for the resampler, in samples per channel.
OutLen == available \div SampleFrame

\* Mutant of ReadResampled: the bytes written are counted for one channel.
ReadResampledMonoCount(n) ==
  /\ locked /\ resampling
  /\ LET k == IF n <= OutLen THEN n ELSE OutLen
     IN  /\ offset' = offset + k * 2
         /\ available' = MaxLen - offset'
         /\ dropped' = (dropped \/ k < n)
  /\ IF available' < Packet THEN NotifyOverrun /\ locked' = FALSE
                            ELSE UNCHANGED <<notified, notices, locked>>
  /\ UNCHANGED <<channels, resampling, unsent>>

\* With a resampler: a packet becomes n sample frames, of which OutLen are stored at the
\* most; a nearly full buffer ends the turn of fork_frame.
ReadResampled(n) ==
  /\ locked /\ resampling
  /\ LET k == IF n <= OutLen THEN n ELSE OutLen
     IN  /\ offset' = offset + k * SampleFrame
         /\ available' = MaxLen - offset'
         /\ dropped' = (dropped \/ k < n)
  /\ IF available' < Packet THEN NotifyOverrun /\ locked' = FALSE
                            ELSE UNCHANGED <<notified, notices, locked>>
  /\ UNCHANGED <<channels, resampling, unsent>>

EndResampled ==
  /\ locked /\ resampling
  /\ locked' = FALSE
  /\ UNCHANGED <<channels, resampling, offset, available, notified, notices, dropped, unsent>>

\* CLIENT_WRITEABLE hands over what there is and starts again after the room for the header,
\* also if lws_write took less or failed (short): the rest is given up, with a line in the
\* log and no event.
WriteAudio ==
  /\ ~locked /\ offset > Pre
  /\ offset' = Pre
  /\ \E short \in BOOLEAN : unsent' = (unsent \/ short)
  /\ UNCHANGED <<channels, resampling, locked, available, notified, notices, dropped>>

FrameNext == Begin \/ ReadNative \/ EndNative \/ (\E n \in 0 .. MaxFrames : ReadResampled(n))
        \/ EndResampled \/ WriteAudio
FrameSpec == FrameInit /\ [][FrameNext]_frameVars

-----------------------------------------------------------------------------
\* Every variable has its type, and the data is after the room for the header: lws_write
\* writes before the pointer it gets (binaryWritePtrResetToZero).
FrameTypeOK ==
  /\ channels \in {1, 2} /\ resampling \in BOOLEAN /\ offset \in Nat /\ offset >= Pre
  /\ locked \in BOOLEAN /\ available \in Int
  /\ notified \in BOOLEAN /\ notices \in Nat /\ dropped \in BOOLEAN /\ unsent \in BOOLEAN

\* No frame is written past the end of the buffer, for mono and stereo, with and without
\* the resampler: media_bug_read checks one channel only and speex counts per channel
\* (the two comments in fork_frame).
InBounds == offset <= MaxLen

\* What is sent begins and ends at a sample of the first channel, however packets were
\* cut to the room that was left: the channels of a stereo fork are never swapped.
WholeSamples == (offset - Pre) % SampleFrame = 0

\* What finds no room is never given up without the buffer_overrun event, also where the
\* resampler stores a part only, and the event comes once in the life of a fork.  What a
\* short or failed lws_write leaves behind (unsent) has no event; nothing is claimed of it.
OverrunTold == dropped => notified
OverrunOnce == notices <= 1
=============================================================================
