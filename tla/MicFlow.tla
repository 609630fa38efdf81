------------------------------ MODULE MicFlow ------------------------------
(***************************************************************************)
(* What the receiving side promises about its threads: the control of the  *)
(* receive hook and of the virtual microphone thread and the flags they    *)
(* and main stop each other with.  Audio is reduced to the number of       *)
(* compressed frames that wait.  Playback, which has the audio, implements *)
(* this module; Client puts it inside the life of a Client object.         *)
(***************************************************************************)
EXTENDS Naturals

CONSTANT QueueLimit   \* MAX_COMPRESSED_QUEUE_FRAMES

ASSUME FlowAssumption == QueueLimit \in Nat \ {0}

VARIABLES
  queued,              \* compressed_queue.size()
  hook,                \* the receive thread: "idle", or "queue" past its check
  mic,                 \* where the virtual microphone thread is
  playback,            \* PulseaudioBackend::playback
  should_stop,         \* Client::should_stop
  healthy,             \* Client::healthy
  shutdown_requested   \* the process-wide flag of shutdown.cpp

flags    == <<should_stop, healthy, shutdown_requested>>
flowVars == <<queued, hook, mic, playback, flags>>

FlowInit ==
  /\ queued = 0 /\ hook = "idle" /\ mic = "setup"
  /\ playback = FALSE
  /\ should_stop = FALSE /\ healthy = TRUE /\ shutdown_requested = FALSE

-----------------------------------------------------------------------------
(* The receive thread: Client::recv_callback.                              *)

RecvAdmit ==
  /\ hook = "idle" /\ ~should_stop /\ healthy
  /\ hook' = "queue"
  /\ UNCHANGED <<queued, mic, playback, flags>>

\* Queue the frame, or drop it because it is empty.
RecvDone ==
  /\ hook = "queue"
  /\ hook' = "idle"
  /\ \/ UNCHANGED queued
     \/ queued' = IF queued < QueueLimit THEN queued + 1 ELSE queued
  /\ UNCHANGED <<mic, playback, flags>>

Hook == RecvAdmit \/ RecvDone

-----------------------------------------------------------------------------
(* The virtual microphone thread: Client::call_virtual_input_setup,        *)
(* run_virtual_input and the write callback.  "fill" is the callback's     *)
(* while loop, "decode" one opus_decode inside it.                         *)

SetupDone ==
  /\ mic = "setup"
  /\ mic' = "loop" /\ playback' = TRUE
  /\ UNCHANGED <<queued, hook, flags>>

\* An exception leaves setup_virtual_input, the callback or the write.
Fail ==
  /\ mic \in {"setup", "decode", "write"}
  /\ mic' = "failing" /\ playback' = FALSE
  /\ UNCHANGED <<queued, hook, flags>>

LoopExitDeaf ==
  /\ mic = "loop" /\ ~playback
  /\ mic' = "ended" /\ playback' = FALSE
  /\ UNCHANGED <<queued, hook, flags>>
LoopExit ==
  /\ mic = "loop" /\ (~playback \/ shutdown_requested)
  /\ mic' = "ended" /\ playback' = FALSE
  /\ UNCHANGED <<queued, hook, flags>>

LoopEnter ==
  /\ mic = "loop" /\ playback /\ ~shutdown_requested
  /\ mic' = "call"
  /\ UNCHANGED <<queued, hook, playback, flags>>

CallbackEnter ==
  /\ mic = "call"
  /\ mic' = IF should_stop \/ ~healthy THEN "loop" ELSE "fill"
  /\ UNCHANGED <<queued, hook, playback, flags>>

PopFrame ==
  /\ mic = "fill" /\ queued > 0
  /\ mic' = "decode" /\ queued' = queued - 1
  /\ UNCHANGED <<hook, playback, flags>>

\* The payload was decoded, or was refused and is skipped.
DecodeDone ==
  /\ mic = "decode"
  /\ mic' = "fill"
  /\ UNCHANGED <<queued, hook, playback, flags>>

\* The callback returns: with something to write (the buffer is full, or
\* nothing is left to decode), or with nothing.
CallbackReturn ==
  /\ mic = "fill"
  /\ mic' \in {"write"} \union (IF queued = 0 THEN {"loop"} ELSE {})
  /\ UNCHANGED <<queued, hook, playback, flags>>

\* The buffer is written or given up.
WriteDone ==
  /\ mic = "write"
  /\ mic' = "loop"
  /\ playback' \in {playback, playback /\ ~shutdown_requested}
  /\ UNCHANGED <<queued, hook, flags>>

SetUnhealthyForgets ==
  /\ mic = "failing"
  /\ mic' = IF healthy THEN "unhealthy" ELSE "ended"
  /\ UNCHANGED <<queued, hook, playback, flags>>
SetUnhealthy ==
  /\ mic = "failing"
  /\ mic' = IF healthy THEN "unhealthy" ELSE "ended"
  /\ healthy' = FALSE
  /\ UNCHANGED <<queued, hook, playback, should_stop, shutdown_requested>>

SetStop ==
  /\ mic = "unhealthy"
  /\ mic' = "stopping" /\ should_stop' = TRUE
  /\ UNCHANGED <<queued, hook, playback, healthy, shutdown_requested>>

SetQuiet ==
  /\ mic = "stopping"
  /\ mic' = "ended" /\ playback' = FALSE
  /\ UNCHANGED <<queued, hook, flags>>

Callback == CallbackEnter \/ PopFrame \/ DecodeDone \/ CallbackReturn

\* Everything the thread does by itself once its setup is over.
MicRuns ==
  LoopExit \/ LoopEnter \/ Callback \/ WriteDone
  \/ SetUnhealthy \/ SetStop \/ SetQuiet

Mic == SetupDone \/ Fail \/ MicRuns

-----------------------------------------------------------------------------
(* What other threads store: the signal handler, and main by way of        *)
(* Client::request_shutdown.                                               *)

SignalShutdown ==
  /\ ~shutdown_requested
  /\ shutdown_requested' = TRUE
  /\ UNCHANGED <<queued, hook, mic, playback, should_stop, healthy>>

StoreShouldStop ==
  /\ shutdown_requested \/ ~healthy
  /\ should_stop' = TRUE
  /\ UNCHANGED <<queued, hook, mic, playback, healthy, shutdown_requested>>

StopRecording ==
  /\ playback' = FALSE
  /\ UNCHANGED <<queued, hook, mic, flags>>

Others == SignalShutdown \/ StoreShouldStop \/ StopRecording

FlowNext == Hook \/ Mic \/ Others

FlowSpec == FlowInit /\ [][FlowNext]_flowVars

=============================================================================
