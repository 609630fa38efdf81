------------------------------- MODULE Client -------------------------------
(***************************************************************************)
(* The life of the Client object of `audpipe client`: main constructs it   *)
(* (decoder, write callback, RTP with retries, microphone thread), watches *)
(* it, asks it to stop and destroys it, while the receive hook and the     *)
(* microphone thread of MicFlow use its members.                           *)
(***************************************************************************)
EXTENDS MicFlow

CONSTANT max_retries   \* ConnectionPolicy::max_retries

ASSUME ClientAssumption == max_retries \in Nat \ {0}

VARIABLES
  main,      \* where the main thread is
  attempt,   \* the attempt of the retry loop
  rtp,       \* the optional Rtp: "none", "active", "stopping" or "stopped"
  decoder,   \* opusdec: "none", "live" or "destroyed"
  queues,    \* the two queues and their mutex: "alive" or "destroyed"
  context    \* the backend's PulseAudio context: "none", "connecting",
             \* "ready" or "failed"

clientVars == <<main, attempt, rtp, decoder, queues, context>>
vars       == <<flowVars, clientVars>>

Finished == {"done", "threw", "crashed"}

MainStates ==
  {"decoder", "no_decoder", "callback", "connect", "backoff", "spawn",
   "unwind_rtp", "watch", "store_stop", "stop_rtp", "stop_recording",
   "free_decoder", "join", "free_members"} \union Finished

Init ==
  /\ queued = 0 /\ hook = "idle" /\ mic = "none" /\ playback = FALSE
  /\ should_stop = FALSE /\ healthy = TRUE /\ shutdown_requested = FALSE
  /\ main = "decoder" /\ attempt = 1
  /\ rtp = "none" /\ decoder = "none" /\ queues = "alive"
  /\ context = "none"

-----------------------------------------------------------------------------
(* The constructor.                                                        *)

\* The constructor throws: the members are destroyed, ~Client does not run.
\* Neither the hook nor the microphone thread exists yet.
Throw == main' = "threw" /\ queues' = "destroyed"

\* set_error before the throw, once the backend exists; alone as it is, its
\* stores are one step.
SetError ==
  /\ healthy' = FALSE /\ should_stop' = TRUE /\ playback' = FALSE
  /\ UNCHANGED <<queued, hook, mic, shutdown_requested>>

CreateDecoder ==
  /\ main = "decoder"
  /\ main' = "callback" /\ decoder' = "live"
  /\ UNCHANGED <<flowVars, attempt, rtp, queues, context>>

\* set_error stores its flags, and then needs the audio backend.
CreateDecoderFails ==
  /\ main = "decoder"
  /\ main' = "no_decoder" /\ healthy' = FALSE /\ should_stop' = TRUE
  /\ UNCHANGED <<queued, hook, mic, playback, shutdown_requested, attempt, rtp,
                 decoder, queues, context>>

\* The first call of AudioBackend::instance() makes the PulseaudioBackend.
FirstUse == main \in {"callback", "no_decoder"}

\* A pa_context_connect that fails at once is only logged.
ConnectContext ==
  /\ FirstUse /\ context = "none"
  /\ context' \in {"connecting", "failed"}
  /\ UNCHANGED <<flowVars, main, attempt, rtp, decoder, queues>>

ContextReady ==
  /\ FirstUse /\ context = "connecting"
  /\ context' = "ready"
  /\ UNCHANGED <<flowVars, main, attempt, rtp, decoder, queues>>

\* A context that fails while it is waited for: the state callback sees it.
NoAudioBackend ==
  /\ FirstUse /\ context = "connecting"
  /\ context' = "failed" /\ Throw
  /\ UNCHANGED <<flowVars, attempt, rtp, decoder>>

\* The state callback is installed after the call that connects, so it never
\* hears of a context that has failed there: wait_for_context_ready iterates
\* the mainloop for ever and looks at no flag.  No step leaves this place.
DeafWait == FirstUse /\ context = "failed"

InstallCallback ==
  /\ main = "callback" /\ context = "ready"
  /\ main' = "connect"
  /\ UNCHANGED <<flowVars, attempt, rtp, decoder, queues, context>>

\* The rest of set_error, and the exception.
NoDecoder ==
  /\ main = "no_decoder" /\ context = "ready"
  /\ StopRecording /\ Throw
  /\ UNCHANGED <<attempt, rtp, decoder, context>>

\* rtp.emplace succeeds: from here on the hook may run.
Connect ==
  /\ main = "connect"
  /\ main' = "spawn" /\ rtp' = "active"
  /\ UNCHANGED <<flowVars, attempt, decoder, queues, context>>

ConnectFailsOnceMore ==
  /\ main = "connect" /\ attempt <= max_retries
  /\ main' = "backoff"
  /\ UNCHANGED <<flowVars, attempt, rtp, decoder, queues, context>>
ConnectFails ==
  /\ main = "connect" /\ attempt < max_retries
  /\ main' = "backoff"
  /\ UNCHANGED <<flowVars, attempt, rtp, decoder, queues, context>>

ConnectGivesUp ==
  /\ main = "connect" /\ attempt = max_retries
  /\ SetError /\ Throw
  /\ UNCHANGED <<attempt, rtp, decoder, context>>

\* The wait ends because it is over or a shutdown was requested; either way
\* the flag is read once more.
BackoffEnds ==
  /\ main = "backoff" /\ ~shutdown_requested
  /\ main' = "connect" /\ attempt' = attempt + 1
  /\ UNCHANGED <<flowVars, rtp, decoder, queues, context>>

BackoffShutdown ==
  /\ main = "backoff" /\ shutdown_requested
  /\ SetError /\ Throw
  /\ UNCHANGED <<attempt, rtp, decoder, context>>

Spawn ==
  /\ main = "spawn"
  /\ main' = "watch" /\ mic' = "setup"
  /\ UNCHANGED <<queued, hook, playback, flags, attempt, rtp, decoder, queues,
                 context>>

\* Rtp::stop: destroying the stream ends the delivery of frames, then waits
\* for a hook that is running.
StopStreamNoWait(next) ==
  \/ rtp = "active" /\ rtp' = "stopping" /\ UNCHANGED main
  \/ rtp = "stopping" /\ rtp' = "stopped" /\ main' = next
StopStream(next) ==
  \/ rtp = "active" /\ rtp' = "stopping" /\ UNCHANGED main
  \/ rtp = "stopping" /\ hook = "idle" /\ rtp' = "stopped" /\ main' = next

\* std::thread throws: the members are destroyed in reverse order of their
\* declaration, the queues and the mutex first, and the Rtp with its hook last.
SpawnFails ==
  /\ main = "spawn"
  /\ main' = "unwind_rtp" /\ queues' = "destroyed"
  /\ UNCHANGED <<flowVars, attempt, rtp, decoder, context>>

UnwindRtp ==
  /\ main = "unwind_rtp"
  /\ StopStream("threw")
  /\ UNCHANGED <<flowVars, attempt, decoder, queues, context>>

-----------------------------------------------------------------------------
(* The main loop, Client::request_shutdown and Client::~Client.            *)

WatchEnds ==
  /\ main = "watch" /\ (shutdown_requested \/ ~healthy)
  /\ main' = "store_stop"
  /\ UNCHANGED <<flowVars, attempt, rtp, decoder, queues, context>>

RequestStopForgets ==
  /\ main = "store_stop"
  /\ main' = "stop_rtp"
  /\ UNCHANGED <<flowVars, attempt, rtp, decoder, queues, context>>
RequestStop ==
  /\ main = "store_stop"
  /\ StoreShouldStop
  /\ main' = "stop_rtp"
  /\ UNCHANGED <<attempt, rtp, decoder, queues, context>>

StopRtpNoWait ==
  /\ main = "stop_rtp"
  /\ main' = "stop_recording"
  /\ rtp' = IF rtp = "active" THEN "stopping" ELSE rtp
  /\ UNCHANGED <<flowVars, attempt, decoder, queues, context>>
StopRtp ==
  /\ main = "stop_rtp"
  /\ StopStream("stop_recording")
  /\ UNCHANGED <<flowVars, attempt, decoder, queues, context>>

RequestQuiet ==
  /\ main = "stop_recording"
  /\ StopRecording
  /\ main' = "free_decoder"
  /\ UNCHANGED <<attempt, rtp, decoder, queues, context>>

\* The decoder goes before the microphone thread is joined.
FreeDecoder ==
  /\ main = "free_decoder"
  /\ main' = "join" /\ decoder' = "destroyed"
  /\ UNCHANGED <<flowVars, attempt, rtp, queues, context>>

Join ==
  /\ main = "join" /\ mic = "ended"
  /\ main' = "free_members"
  /\ UNCHANGED <<flowVars, attempt, rtp, decoder, queues, context>>

FreeMembers ==
  /\ main = "free_members"
  /\ main' = "done" /\ queues' = "destroyed"
  /\ UNCHANGED <<flowVars, attempt, rtp, decoder, context>>

MainStep ==
  \/ CreateDecoder \/ CreateDecoderFails \/ ConnectContext \/ ContextReady
  \/ NoAudioBackend \/ InstallCallback \/ NoDecoder
  \/ Connect \/ ConnectFails \/ ConnectGivesUp \/ BackoffEnds
  \/ BackoffShutdown \/ Spawn \/ SpawnFails \/ UnwindRtp
  \/ WatchEnds \/ RequestStop \/ StopRtp \/ RequestQuiet
  \/ FreeDecoder \/ Join \/ FreeMembers

-----------------------------------------------------------------------------
(* The other threads.                                                      *)

Running == main \notin Finished /\ UNCHANGED clientVars

\* Frames arrive while the stream exists.
HookArrives == Running /\ rtp = "active" /\ RecvAdmit

HookReturns == Running /\ RecvDone

HookStep == HookArrives \/ HookReturns

MicSetup == Running /\ (SetupDone \/ (mic = "setup" /\ Fail))

MicStep == Running /\ (MicRuns \/ (mic # "setup" /\ Fail))

\* Undefined behaviour that ends the process: the decoder or the mutex is used
\* after its end.  (That it seems to work is one of the other steps.)
Crash ==
  /\ main \notin Finished
  /\ \/ mic = "decode" /\ decoder = "destroyed"
     \/ hook = "queue" /\ queues = "destroyed"
  /\ main' = "crashed"
  /\ UNCHANGED <<flowVars, attempt, rtp, decoder, queues, context>>

\* SIGINT or SIGTERM while the process is there to get it.
Signal == Running /\ SignalShutdown

Next == MainStep \/ HookStep \/ MicSetup \/ MicStep \/ Crash \/ Signal

\* Each thread runs; libpulse gives up a connection that is not answered.
\* Frames need not arrive and signals need not come, but a hook that was
\* entered returns.  The setup of the virtual microphone may
\* wait for PulseAudio to open the FIFO for as long as no shutdown is
\* requested; after that it ends.
Fairness ==
  /\ WF_vars(MainStep)
  /\ WF_vars(MicStep)
  /\ WF_vars(shutdown_requested /\ MicSetup)
  /\ WF_vars(HookReturns)

Spec == Init /\ [][Next]_vars /\ Fairness

-----------------------------------------------------------------------------
\* The types of the state; in particular, no attempt beyond max_retries.
TypeOK ==
  /\ queued \in 0..QueueLimit
  /\ hook \in {"idle", "queue"}
  /\ mic \in {"none", "setup", "loop", "call", "fill", "decode", "write",
              "failing", "unhealthy", "stopping", "ended"}
  /\ playback \in BOOLEAN /\ should_stop \in BOOLEAN /\ healthy \in BOOLEAN
  /\ shutdown_requested \in BOOLEAN
  /\ main \in MainStates /\ attempt \in 1..max_retries
  /\ rtp \in {"none", "active", "stopping", "stopped"}
  /\ decoder \in {"none", "live", "destroyed"}
  /\ queues \in {"alive", "destroyed"}
  /\ context \in {"none", "connecting", "ready", "failed"}

\* No thread works on the queues or locks their mutex after they were
\* destroyed: the hook is gone once the stream is destroyed and the microphone
\* thread once it is joined.  The one exception is the constructor unwinding
\* because the microphone thread could not be created.
QueuesOutliveThreads ==
  queues = "destroyed" =>
    /\ mic \in {"none", "ended"}
    /\ main \notin {"unwind_rtp", "crashed"} =>
         rtp \in {"none", "stopped"} /\ hook = "idle"

\* The microphone never dies alone: when its thread has ended, the shutdown was
\* requested or main can see that the client is not healthy.
NoSilentDeath ==
  mic = "ended" => shutdown_requested \/ ~healthy

\* A decoder that was destroyed is only ever reached by the call of the write
\* callback that was already under way: no new one gets past its check.
CallbackFindsDecoder ==
  [][mic = "call" /\ mic' = "fill" => decoder = "live"]_vars

\* Ctrl-C, a failure of the microphone and one of the constructor all end the
\* process, whatever the network sends and wherever main is: connecting, backing
\* off or watching, even when the stop is requested before the microphone
\* started to run.  The one place that nothing ends is the deaf wait for a
\* context whose connection failed at once.
Terminates ==
  (shutdown_requested \/ ~healthy) ~> main \in Finished \/ DeafWait

-----------------------------------------------------------------------------
EP == INSTANCE Endpoint WITH
        phase <- IF rtp # "none" THEN rtp
                 ELSE IF main = "threw" THEN "failed" ELSE "building",
        inUse <- hook = "queue"

\* The client meets its Rtp as Endpoint promises it to be: frames come in only
\* between its construction and the first stop, and the wait in request_shutdown
\* and in the destructor ends only when the hook has left.
UsesEndpoint == EP!Spec

=============================================================================
