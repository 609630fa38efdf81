------------------------------ MODULE Playback ------------------------------
(***************************************************************************)
(* The data path of the receiving side: what happens to one audio frame    *)
(* from the RTP receive hook to the FIFO of the virtual microphone.        *)
(*                                                                         *)
(*   recv_callback --> compressed_queue --> opus_decode --> playback_queue *)
(*     (uvgRTP thread)     [bounded]        (mic thread)          |        *)
(*                                                                v        *)
(*                              write(fifo) <-- write_buf, filled by the   *)
(*                                              write callback             *)
(*                                                                         *)
(* Three threads touch this state: the uvgRTP receive thread ("hook"), the *)
(* virtual microphone thread ("mic") and main, which only stores flags.    *)
(* Every critical section of playback_queue_mutex is one action.           *)
(*                                                                         *)
(* Data: a frame is its rank among the queued frames; the PCM of frame f   *)
(* is cut in units <<f, 1>>, <<f, 2>>, ... (a unit stands for any fixed    *)
(* share of a frame's bytes).  `out` is a history variable, the bytes the  *)
(* FIFO accepted.                                                          *)
(***************************************************************************)
EXTENDS Naturals, Sequences

CONSTANTS
  MAX_COMPRESSED_QUEUE_FRAMES,  \* 256 in the code
  FrameUnits,                   \* units in 960 decoded samples (3840 bytes)
  BufUnits,                     \* units in PCM_WRITE_BUF_SIZE (3840 bytes)
  PipeBuf,                      \* units the kernel writes atomically to a pipe
  MaxFrames                     \* bound: frames queued in one behaviour

ASSUME PlaybackAssumption ==
  /\ MAX_COMPRESSED_QUEUE_FRAMES \in Nat \ {0}
  /\ FrameUnits \in Nat \ {0}
  /\ BufUnits \in Nat \ {0}
  /\ PipeBuf \in Nat \ {0}
  /\ MaxFrames \in Nat

VARIABLES
  compressed_queue,    \* frames waiting to be decoded
  frames_received,     \* Client::frames_received
  hook,                \* the receive thread: "idle", or "queue" past its check
  mic,                 \* where the virtual microphone thread is
  decoding,            \* frame moved out of the queue, 0 when there is none
  playback_queue,      \* decoded units not yet asked for
  dst,                 \* write_buf: the units produced by this callback
  offset,              \* units of dst the FIFO has accepted
  out,                 \* history: every unit the FIFO accepted, in order
  playback,            \* PulseaudioBackend::playback
  should_stop,         \* Client::should_stop
  healthy,             \* Client::healthy
  shutdown_requested   \* the process-wide flag of shutdown.cpp

hookVars == <<frames_received, hook>>
micVars  == <<mic, decoding, playback_queue, dst, offset, out>>
flags    == <<should_stop, healthy, shutdown_requested>>
vars     == <<compressed_queue, hookVars, micVars, playback, flags>>

Frames == 1..MaxFrames
Units  == Frames \X (1..FrameUnits)

MicStates == {"setup", "loop", "call", "drain", "pop", "decode", "write",
              "failing", "unhealthy", "stopping", "ended"}

Init ==
  /\ compressed_queue = <<>> /\ frames_received = 0 /\ hook = "idle"
  /\ mic = "setup" /\ decoding = 0
  /\ playback_queue = <<>> /\ dst = <<>> /\ offset = 0 /\ out = <<>>
  /\ playback = FALSE
  /\ should_stop = FALSE /\ healthy = TRUE /\ shutdown_requested = FALSE

-----------------------------------------------------------------------------
(* The receive thread: Client::recv_callback.                              *)

\* Push f, dropping the oldest frame first when the queue is at its limit.
EnqueueTooLate(q, f) ==
  Append(IF Len(q) > MAX_COMPRESSED_QUEUE_FRAMES THEN Tail(q) ELSE q, f)
EnqueueDropNewest(q, f) ==
  Append(IF Len(q) >= MAX_COMPRESSED_QUEUE_FRAMES
           THEN SubSeq(q, 1, Len(q) - 1) ELSE q, f)
Enqueue(q, f) ==
  Append(IF Len(q) >= MAX_COMPRESSED_QUEUE_FRAMES THEN Tail(q) ELSE q, f)

\* A frame arrives and passes the flag check.  (When the check fails the frame
\* is deallocated and nothing changes.)  The flags may change before RecvQueue.
RecvAdmit ==
  /\ hook = "idle" /\ frames_received < MaxFrames
  /\ ~should_stop /\ healthy
  /\ hook' = "queue"
  /\ UNCHANGED <<compressed_queue, frames_received, micVars, playback, flags>>

RecvQueue ==
  /\ hook = "queue"
  /\ compressed_queue' = Enqueue(compressed_queue, frames_received + 1)
  /\ frames_received' = frames_received + 1
  /\ hook' = "idle"
  /\ UNCHANGED <<micVars, playback, flags>>

\* A frame without payload passes the check and is deallocated, uncounted.
RecvEmpty ==
  /\ hook = "queue"
  /\ hook' = "idle"
  /\ UNCHANGED <<compressed_queue, frames_received, micVars, playback, flags>>

-----------------------------------------------------------------------------
(* The virtual microphone thread: Client::call_virtual_input_setup, the    *)
(* loop of PulseaudioBackend::run_virtual_input and the write callback the *)
(* Client constructor installs.                                            *)

\* set_virtual_input_error and the throw that follows; the callback's frame
\* and the buffer are unwound.
Die ==
  /\ mic' = "failing" /\ playback' = FALSE
  /\ decoding' = 0 /\ dst' = <<>> /\ offset' = 0

\* setup_virtual_input succeeds and run_virtual_input enters its loop.
SetupDone ==
  /\ mic = "setup"
  /\ mic' = "loop" /\ playback' = TRUE
  /\ UNCHANGED <<compressed_queue, hookVars, decoding, playback_queue, dst,
                 offset, out, flags>>

SetupFails ==
  /\ mic = "setup"
  /\ Die
  /\ UNCHANGED <<compressed_queue, hookVars, playback_queue, out, flags>>

LoopExit ==
  /\ mic = "loop" /\ (~playback \/ shutdown_requested)
  /\ mic' = "ended" /\ playback' = FALSE
  /\ UNCHANGED <<compressed_queue, hookVars, decoding, playback_queue, dst,
                 offset, out, flags>>

LoopEnter ==
  /\ mic = "loop" /\ playback /\ ~shutdown_requested
  /\ mic' = "call"
  /\ UNCHANGED <<compressed_queue, hookVars, decoding, playback_queue, dst,
                 offset, out, playback, flags>>

\* The write callback refuses, or passes its own check; the flags may have
\* changed since the loop read its own, and may change again at once.
CallbackEnterDeaf ==
  /\ mic = "call"
  /\ mic' = "drain"
  /\ UNCHANGED <<compressed_queue, hookVars, decoding, playback_queue, dst,
                 offset, out, playback, flags>>
CallbackEnter ==
  /\ mic = "call"
  /\ mic' = IF should_stop \/ ~healthy THEN "loop" ELSE "drain"
  /\ UNCHANGED <<compressed_queue, hookVars, decoding, playback_queue, dst,
                 offset, out, playback, flags>>

\* How many units one critical section copies: until dst is full or the
\* playback queue empty.
Taken(room, q) == IF Len(q) < room THEN Len(q) ELSE room

Drain ==
  LET k == Taken(BufUnits - Len(dst), playback_queue)
  IN  /\ mic = "drain"
      /\ dst' = dst \o SubSeq(playback_queue, 1, k)
      /\ playback_queue' =
           SubSeq(playback_queue, k + 1, Len(playback_queue))
      /\ mic' = IF Len(dst) + k = BufUnits THEN "write" ELSE "pop"
      /\ UNCHANGED <<compressed_queue, hookVars, decoding, offset, out,
                     playback, flags>>

\* Nothing left to decode: the callback returns what it has.
PopEmpty ==
  /\ mic = "pop" /\ compressed_queue = <<>>
  /\ mic' = IF dst = <<>> THEN "loop" ELSE "write"
  /\ UNCHANGED <<compressed_queue, hookVars, decoding, playback_queue, dst,
                 offset, out, playback, flags>>

PopFrame ==
  /\ mic = "pop" /\ compressed_queue # <<>>
  /\ decoding' = Head(compressed_queue)
  /\ compressed_queue' = Tail(compressed_queue)
  /\ mic' = "decode"
  /\ UNCHANGED <<hookVars, playback_queue, dst, offset, out, playback, flags>>

\* n units decoded out of frame f.
DecodedTwice(f, n) == [i \in 1..(2 * n) |-> <<f, i>>]
Decoded(f, n) == [i \in 1..n |-> <<f, i>>]

\* opus_decode returns at most 960 samples per channel, fewer for a packet of
\* a shorter duration.
DecodeFrame ==
  /\ mic = "decode"
  /\ \E n \in 1..FrameUnits :
       playback_queue' = playback_queue \o Decoded(decoding, n)
  /\ decoding' = 0 /\ mic' = "drain"
  /\ UNCHANGED <<compressed_queue, hookVars, dst, offset, out, playback, flags>>

\* opus_decode refuses the payload: it is skipped.
DecodeError ==
  /\ mic = "decode"
  /\ decoding' = 0 /\ mic' = "drain"
  /\ UNCHANGED <<compressed_queue, hookVars, playback_queue, dst, offset, out,
                 playback, flags>>

\* Inserting the decoded bytes throws (std::bad_alloc).
CallbackThrows ==
  /\ mic = "decode"
  /\ Die
  /\ UNCHANGED <<compressed_queue, hookVars, playback_queue, out, flags>>

\* What write(2) may accept of n units: a pipe takes a request of at most
\* PIPE_BUF whole, a longer one in any part.
Accepted(n) == IF n <= PipeBuf THEN {n} ELSE 1..n

\* The offset after `wrote` units of the buffer were accepted.
AdvanceForgets(from, wrote) == wrote
Advance(from, wrote) == from + wrote

\* EINTR retries the same write and is a stuttering step.
WriteSome ==
  /\ mic = "write"
  /\ \E n \in Accepted(Len(dst) - offset) :
       /\ out' = out \o SubSeq(dst, offset + 1, offset + n)
       /\ IF Advance(offset, n) < Len(dst)
            THEN /\ offset' = Advance(offset, n)
                 /\ UNCHANGED <<mic, dst>>
            ELSE /\ mic' = "loop" /\ dst' = <<>> /\ offset' = 0
  /\ UNCHANGED <<compressed_queue, hookVars, decoding, playback_queue,
                 playback, flags>>

\* EAGAIN (or a write of nothing): the rest of the buffer is given up.
WriteWouldBlock ==
  /\ mic = "write"
  /\ mic' = "loop" /\ dst' = <<>> /\ offset' = 0
  /\ playback' = (playback /\ ~shutdown_requested)
  /\ UNCHANGED <<compressed_queue, hookVars, decoding, playback_queue, out,
                 flags>>

\* EPIPE or any other error of write(2).
WriteFails ==
  /\ mic = "write"
  /\ Die
  /\ UNCHANGED <<compressed_queue, hookVars, playback_queue, out, flags>>

\* call_virtual_input_setup catches the exception and calls set_error, whose
\* stores the other threads see one by one: first healthy.exchange(false),
SetUnhealthy ==
  /\ mic = "failing"
  /\ mic' = IF healthy THEN "unhealthy" ELSE "ended"
  /\ healthy' = FALSE
  /\ UNCHANGED <<compressed_queue, hookVars, decoding, playback_queue, dst,
                 offset, out, playback, should_stop, shutdown_requested>>

\* then should_stop,
SetStop ==
  /\ mic = "unhealthy"
  /\ mic' = "stopping" /\ should_stop' = TRUE
  /\ UNCHANGED <<compressed_queue, hookVars, decoding, playback_queue, dst,
                 offset, out, playback, healthy, shutdown_requested>>

\* then playback.
SetQuiet ==
  /\ mic = "stopping"
  /\ mic' = "ended" /\ playback' = FALSE
  /\ UNCHANGED <<compressed_queue, hookVars, decoding, playback_queue, dst,
                 offset, out, flags>>

-----------------------------------------------------------------------------
(* The other threads store flags: the signal handler, and main, which      *)
(* calls Client::request_shutdown once it saw the shutdown or the error.   *)

SignalShutdown ==
  /\ ~shutdown_requested
  /\ shutdown_requested' = TRUE
  /\ UNCHANGED <<compressed_queue, hookVars, micVars, playback, should_stop,
                 healthy>>

StoreShouldStop ==
  /\ shutdown_requested \/ ~healthy
  /\ should_stop' = TRUE
  /\ UNCHANGED <<compressed_queue, hookVars, micVars, playback, healthy,
                 shutdown_requested>>

StopRecording ==
  /\ playback' = FALSE
  /\ UNCHANGED <<compressed_queue, hookVars, micVars, flags>>

-----------------------------------------------------------------------------
Hook == RecvAdmit \/ RecvQueue \/ RecvEmpty

Callback ==
  CallbackEnter \/ Drain \/ PopEmpty \/ PopFrame \/ DecodeFrame
  \/ DecodeError \/ CallbackThrows

Mic ==
  SetupDone \/ SetupFails \/ LoopExit \/ LoopEnter \/ Callback
  \/ WriteSome \/ WriteWouldBlock \/ WriteFails
  \/ SetUnhealthy \/ SetStop \/ SetQuiet

Main == SignalShutdown \/ StoreShouldStop \/ StopRecording

Next == Hook \/ Mic \/ Main

Spec == Init /\ [][Next]_vars

-----------------------------------------------------------------------------
\* The types of the state; in particular every unit anywhere is one a single
\* opus_decode call could have left in pcm_decbuf.
TypeOK ==
  /\ compressed_queue \in Seq(Frames)
  /\ frames_received \in 0..MaxFrames
  /\ hook \in {"idle", "queue"}
  /\ hook = "queue" => frames_received < MaxFrames
  /\ mic \in MicStates
  /\ decoding \in 0..MaxFrames
  /\ playback_queue \in Seq(Units)
  /\ dst \in Seq(Units)
  /\ offset \in 0..BufUnits
  /\ out \in Seq(Units)
  /\ playback \in BOOLEAN /\ should_stop \in BOOLEAN /\ healthy \in BOOLEAN
  /\ shutdown_requested \in BOOLEAN

\* No queue grows without limit whatever the network and the reader of the
\* FIFO do: the compressed queue holds at most 256 frames, the PCM queue never
\* more than one decoded frame (it has no limit of its own: the callback only
\* decodes once it is empty), and the callback keeps its contract of returning
\* at most max_len bytes.
QueuesBounded ==
  /\ Len(compressed_queue) <= MAX_COMPRESSED_QUEUE_FRAMES
  /\ Len(playback_queue) <= FrameUnits
  /\ Len(dst) <= BufUnits

\* The compressed queue is always the run of the newest frames, with no gap:
\* an overflow loses the oldest frame and only that, whatever the mic thread
\* takes out between the hook's check and its push.
QueueIsNewest ==
  \A i \in 1..Len(compressed_queue) :
    compressed_queue[i] = frames_received - Len(compressed_queue) + i

\* u comes before v in the stream the sender recorded.
Before(u, v) == u[1] < v[1] \/ (u[1] = v[1] /\ u[2] < v[2])

\* What the FIFO accepted and all that may still follow it.
Stream == out \o SubSeq(dst, offset + 1, Len(dst)) \o playback_queue

\* What the FIFO accepted is in the order of the stream with nothing twice, in
\* spite of partial writes, buffers given up, decoding errors and overflows;
\* so is what is still to be written, and it all comes later.
InOrder ==
  \A i, j \in 1..Len(Stream) : i < j => Before(Stream[i], Stream[j])

-----------------------------------------------------------------------------
\* The thread's position as MicFlow sees it: the callback's loop is one place.
FlowMic == IF mic \in {"drain", "pop"} THEN "fill" ELSE mic

Flow == INSTANCE MicFlow WITH
          QueueLimit <- MAX_COMPRESSED_QUEUE_FRAMES,
          queued <- Len(compressed_queue),
          mic <- FlowMic

\* With all its audio the data path coordinates its threads as MicFlow says:
\* which flag stops which thread where, and that the callback comes back to
\* the loop without data only after it found the compressed queue empty.
ImplementsFlow == Flow!FlowSpec

=============================================================================
