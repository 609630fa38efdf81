------------------------------- MODULE Sender -------------------------------
(***************************************************************************)
(* The sending side: Server::run around PulseaudioBackend::record, its     *)
(* stream callbacks, the data callback with its encoder, and the RTP       *)
(* stream, which another thread may tear down with Server::stop.           *)
(*                                                                         *)
(* Everything PulseAudio does reaches the program inside                   *)
(* pa_mainloop_iterate, on the recording thread ("main").  Rtp's           *)
(* teardown_mutex is held by main exactly in "push"; the other holders     *)
(* take and release it in one step.                                        *)
(*                                                                         *)
(* Data: captured audio is numbered in units; FrameUnits of them make the  *)
(* 960 samples of one Opus frame, and a frame is named by its first unit.  *)
(***************************************************************************)
EXTENDS Naturals, Sequences

CONSTANTS
  FrameUnits,       \* units in 20 ms
  FragmentUnits,    \* the sizes a fragment may have
  MaxUnits,         \* bound: units captured in one behaviour
  Stopper           \* whether another thread calls Server::stop (today: none)

ASSUME SenderAssumption ==
  /\ FrameUnits \in Nat \ {0}
  /\ FragmentUnits \subseteq Nat \ {0}
  /\ MaxUnits \in Nat
  /\ Stopper \in BOOLEAN

VARIABLES
  main,                \* where the thread of Server::run is
  stream,              \* PulseaudioBackend::stream
  recording,           \* PulseaudioBackend::recording
  captured,            \* units handed to the data callback so far
  fragment,            \* size of the fragment it is looking at
  opus_enc_outbuf,     \* the encoded frame, 0 when opus_enc_outbuf_size is 0
  sent,                \* history: frames given to push_frame
  stopped,             \* Rtp::stopped
  destroyed,           \* history: how often the RTP stream was destroyed
  other,               \* the other thread, in Server::stop
  shutdown_requested

audio == <<captured, fragment, opus_enc_outbuf, sent>>
rtp   == <<stopped, destroyed>>
vars  == <<main, stream, recording, audio, rtp, other, shutdown_requested>>

Recording == {"start", "wait", "armed", "loop", "iterate", "peek", "callback",
              "write", "push", "close"}
Leaving   == {"stop", "quiet", "unwind", "free"}
Over      == {"ended", "aborted"}

Init ==
  /\ main = "start" /\ stream = "none" /\ recording = FALSE
  /\ captured = 0 /\ fragment = 0 /\ opus_enc_outbuf = 0 /\ sent = <<>>
  /\ stopped = FALSE /\ destroyed = 0
  /\ other = "idle" /\ shutdown_requested = FALSE

-----------------------------------------------------------------------------
(* PulseaudioBackend::record.                                              *)

Connect ==
  /\ main = "start" /\ main' = "wait" /\ stream' = "creating"
  /\ UNCHANGED <<recording, audio, rtp, other, shutdown_requested>>

\* Not a source, no stream, or the connect refused: nothing is left.
ConnectFails ==
  /\ main = "start" /\ main' = "unwind"
  /\ UNCHANGED <<stream, recording, audio, rtp, other, shutdown_requested>>

StreamReady ==
  /\ main = "wait" /\ main' = "armed" /\ stream' = "ready"
  /\ UNCHANGED <<recording, audio, rtp, other, shutdown_requested>>

\* wait_for_stream_ready throws; stream_state_cb ran before, the stream stays.
StreamNeverReady ==
  /\ main = "wait" /\ main' = "unwind" /\ stream' = "failed"
  /\ recording' = FALSE
  /\ UNCHANGED <<audio, rtp, other, shutdown_requested>>

Arm ==
  /\ main = "armed" /\ main' = "loop" /\ recording' = TRUE
  /\ UNCHANGED <<stream, audio, rtp, other, shutdown_requested>>

LoopEnds ==
  /\ main = "loop" /\ (~recording \/ shutdown_requested)
  /\ main' = "close" /\ recording' = FALSE
  /\ UNCHANGED <<stream, audio, rtp, other, shutdown_requested>>

LoopBlocks ==
  /\ main = "loop" /\ recording /\ ~shutdown_requested
  /\ main' = "iterate"
  /\ UNCHANGED <<stream, recording, audio, rtp, other, shutdown_requested>>

\* An event without data, such as a timing update.
Wake ==
  /\ main = "iterate" /\ main' = "loop"
  /\ UNCHANGED <<stream, recording, audio, rtp, other, shutdown_requested>>

\* stream_state_cb: failed or terminated.
StreamFailsUnnoticed ==
  /\ main = "iterate" /\ main' = "loop" /\ stream' = "failed"
  /\ UNCHANGED <<recording, audio, rtp, other, shutdown_requested>>
StreamFails ==
  /\ main = "iterate" /\ main' = "loop" /\ stream' = "failed"
  /\ recording' = FALSE
  /\ UNCHANGED <<audio, rtp, other, shutdown_requested>>

\* stream_read_cb: pa_stream_peek finds n units and calls the data callback,
\* until it finds none.
Peek ==
  /\ main \in {"iterate", "peek"} /\ stream = "ready"
  /\ \E n \in FragmentUnits :
       /\ captured + n <= MaxUnits
       /\ captured' = captured + n /\ fragment' = n
  /\ main' = "callback"
  /\ UNCHANGED <<stream, recording, opus_enc_outbuf, sent, rtp, other,
                 shutdown_requested>>

PeekEmpty ==
  /\ main = "peek" /\ main' = "loop"
  /\ UNCHANGED <<stream, recording, audio, rtp, other, shutdown_requested>>

Close ==
  /\ main = "close" /\ main' = "stop" /\ stream' = "none"
  /\ UNCHANGED <<recording, audio, rtp, other, shutdown_requested>>

-----------------------------------------------------------------------------
(* The data callback: Server::bytes_to_opus and Rtp::write_frames.         *)

\* The frame made of a fragment: its first 20 ms, the rest is dropped; a
\* shorter fragment makes none.
EncodedStale(first, n) == IF n < FrameUnits THEN opus_enc_outbuf ELSE first
EncodedPast(first, n) == IF n < FrameUnits THEN 0 ELSE first + n
Encoded(first, n) == IF n < FrameUnits THEN 0 ELSE first

Encode ==
  /\ main = "callback"
  /\ opus_enc_outbuf' = Encoded((captured - fragment) + 1, fragment)
  /\ main' = IF opus_enc_outbuf' = 0 THEN "peek" ELSE "write"
  /\ UNCHANGED <<stream, recording, captured, fragment, sent, rtp, other,
                 shutdown_requested>>

\* opus_encode fails: the exception leaves through libpulse's C frames, which
\* it may or may not get past; the stream stays.
EncodeFails ==
  /\ main = "callback" /\ fragment >= FrameUnits
  /\ opus_enc_outbuf' = 0
  /\ main' \in {"unwind", "aborted"}
  /\ UNCHANGED <<stream, recording, captured, fragment, sent, rtp, other,
                 shutdown_requested>>

\* Takes teardown_mutex; a stopped Rtp is left alone.
WriteStopped ==
  /\ main = "write" /\ stopped /\ main' = "peek"
  /\ UNCHANGED <<stream, recording, audio, rtp, other, shutdown_requested>>
WriteFrames ==
  /\ main = "write" /\ ~stopped /\ main' = "push"
  /\ UNCHANGED <<stream, recording, audio, rtp, other, shutdown_requested>>

\* push_frame sends it or fails; then the mutex is released.
Push ==
  /\ main = "push" /\ main' = "peek"
  /\ sent' \in {sent, Append(sent, opus_enc_outbuf)}
  /\ UNCHANGED <<stream, recording, captured, fragment, opus_enc_outbuf, rtp,
                 other, shutdown_requested>>

-----------------------------------------------------------------------------
(* Rtp::stop, Server::stop and what calls them.                            *)

RtpStopNoLock ==
  /\ stopped' = TRUE
  /\ destroyed' = IF stopped THEN destroyed ELSE destroyed + 1
RtpStop ==
  /\ main # "push"
  /\ stopped' = TRUE
  /\ destroyed' = IF stopped THEN destroyed ELSE destroyed + 1

\* server.stop() after run() returned.
StopRtp ==
  /\ main = "stop" /\ main' = "quiet"
  /\ RtpStop
  /\ UNCHANGED <<stream, recording, audio, other, shutdown_requested>>
StopRecording ==
  /\ main = "quiet" /\ main' = "unwind" /\ recording' = FALSE
  /\ UNCHANGED <<stream, audio, rtp, other, shutdown_requested>>

\* ~Server, also when an exception unwinds: stop() once more, the encoder and
\* the Rtp are destroyed.  Who called stop() from elsewhere has returned.
DestroyStops ==
  /\ main = "unwind" /\ other # "quiet" /\ main' = "free"
  /\ RtpStop
  /\ UNCHANGED <<stream, recording, audio, other, shutdown_requested>>
DestroyFrees ==
  /\ main = "free" /\ main' = "ended" /\ recording' = FALSE
  /\ RtpStop
  /\ UNCHANGED <<stream, audio, other, shutdown_requested>>

\* Another thread in Server::stop, while the Server exists.
OtherStopsRtp ==
  /\ Stopper /\ other = "idle" /\ other' = "quiet"
  /\ main \in Recording \union {"stop", "quiet"}
  /\ RtpStop
  /\ UNCHANGED <<main, stream, recording, audio, shutdown_requested>>
OtherStopsRecording ==
  /\ other = "quiet" /\ other' = "done" /\ recording' = FALSE
  /\ UNCHANGED <<main, stream, audio, rtp, shutdown_requested>>

SignalShutdown ==
  /\ ~shutdown_requested /\ shutdown_requested' = TRUE
  /\ UNCHANGED <<main, stream, recording, audio, rtp, other>>

-----------------------------------------------------------------------------
MainStep ==
  \/ Connect \/ ConnectFails \/ StreamReady \/ StreamNeverReady \/ Arm
  \/ LoopEnds \/ LoopBlocks \/ Wake \/ StreamFails \/ Peek \/ PeekEmpty
  \/ Encode \/ EncodeFails \/ WriteStopped \/ WriteFrames \/ Push \/ Close
  \/ StopRtp \/ StopRecording \/ DestroyStops \/ DestroyFrees

Next == MainStep \/ OtherStopsRtp \/ OtherStopsRecording \/ SignalShutdown

Spec == Init /\ [][Next]_vars

\* PulseAudio answers a connecting stream and wakes a recording one (timing
\* updates come without data); a call of Server::stop returns.
FairSpec == Spec /\ WF_vars(MainStep) /\ WF_vars(OtherStopsRecording)

-----------------------------------------------------------------------------
\* The types of the state.
TypeOK ==
  /\ main \in Recording \union Leaving \union Over
  /\ stream \in {"none", "creating", "ready", "failed"}
  /\ recording \in BOOLEAN /\ stopped \in BOOLEAN
  /\ captured \in 0..MaxUnits /\ fragment \in 0..captured
  /\ opus_enc_outbuf \in 0..captured
  /\ sent \in Seq(1..captured)
  /\ destroyed \in Nat
  /\ other \in {"idle", "quiet", "done"}
  /\ shutdown_requested \in BOOLEAN

\* Frames are sent in the order of the capture and never overlap: no unit is
\* sent twice, whatever sizes PulseAudio delivers; and each was captured whole.
SentInOrder ==
  /\ \A i \in 1..Len(sent) : sent[i] + FrameUnits <= captured + 1
  /\ \A i, j \in 1..Len(sent) : i < j => sent[i] + FrameUnits <= sent[j]

\* push_frame never works on a stream that another thread has destroyed.
PushesAlive == main = "push" => destroyed = 0

\* A shutdown, and a stream that fails, end the server.
Terminates ==
  shutdown_requested \/ (stream = "failed" /\ main \in Recording)
    ~> main \in Over

\* audio.hxx:48: record "Blocks until stop_recording() is called from another
\* thread or the stream fails".
StopEndsRecord == other = "done" ~> main \notin Recording

-----------------------------------------------------------------------------
EP == INSTANCE Endpoint WITH
        phase <- IF stopped THEN "stopped" ELSE "active",
        inUse <- main = "push"

\* The server meets its Rtp as Endpoint promises it to be: it pushes only into
\* an active stream, and every stop, from whichever thread, takes effect when
\* no push is inside, and for good.
UsesEndpoint == [][EP!Next]_(EP!endpointVars)

=============================================================================
