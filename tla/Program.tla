------------------------------ MODULE Program ------------------------------
(***************************************************************************)
(* main and its signal thread, from the registration of the signals to the *)
(* end of the process.  What Client and Sender do in detail is one place   *)
(* here, `work`.                                                           *)
(***************************************************************************)
VARIABLES
  subcommand,          \* argv[1]: "client", "server", "help", or "other"
  main,                \* where main is
  sig,                 \* where the signal thread is
  registry,            \* spdlog's: "empty", "logger" or "destroyed"
  signalled,           \* SIGINT or SIGTERM has arrived
  io_stopped,
  shutdown_requested

vars == <<subcommand, main, sig, registry, signalled, io_stopped,
          shutdown_requested>>

Over == {"ended", "crashed"}

Init ==
  /\ subcommand \in {"client", "server", "help", "other"}
  /\ main = "thread" /\ sig = "none" /\ registry = "empty"
  /\ signalled = FALSE /\ io_stopped = FALSE /\ shutdown_requested = FALSE

-----------------------------------------------------------------------------
(* main.                                                                   *)

Step(from, to) == main = from /\ main' = to

StartThread ==
  /\ Step("thread", "logger") /\ sig' = "starting"
  /\ UNCHANGED <<subcommand, registry, signalled, io_stopped,
                 shutdown_requested>>

CreateLogger ==
  /\ Step("logger", "args") /\ registry' = "logger"
  /\ UNCHANGED <<subcommand, sig, signalled, io_stopped,
                 shutdown_requested>>

\* An exception outside the try block.
Terminate ==
  /\ main \in {"thread", "logger"} /\ main' = "crashed"
  /\ UNCHANGED <<subcommand, sig, registry, signalled, io_stopped,
                 shutdown_requested>>

Elsewhere == UNCHANGED <<subcommand, sig, registry, signalled, io_stopped,
                         shutdown_requested>>

\* No argument after the first is looked at.
Arguments ==
  /\ main = "args"
  /\ main' = IF subcommand \in {"client", "server"} THEN "setup" ELSE "exit"
  /\ Elsewhere

\* Config and KeyManager.
Setup == Step("setup", "audio") /\ Elsewhere

\* AudioBackend::instance() connects to PulseAudio and waits, in the Client's
\* constructor or before the server asks for a device.
AudioReady ==
  /\ Step("audio", IF subcommand = "server" THEN "ask" ELSE "build")
  /\ Elsewhere

\* When connecting fails at once, this is only logged, and the wait neither
\* hears of it nor looks at the flag: no step of main leaves it.
AudioDeaf == Step("audio", "deaf") /\ Elsewhere

\* A line was typed; without one, or with a wrong one, it is device 1.
Choose == Step("ask", "build") /\ Elsewhere

\* The Client or the Server is made.
Build == Step("build", "work") /\ Elsewhere

\* The client's watch loop or Server::run: over when a shutdown is requested or
\* the client is not healthy, the stream failed.
WorkEnds == /\ Step("work", "io_stop") /\ shutdown_requested
            /\ Elsewhere
WorkFails == Step("work", "io_stop") /\ Elsewhere

\* An exception; what was built is destroyed on the way to the handler.
Throw ==
  /\ main \in {"setup", "audio", "ask", "build", "work"}
  /\ main' = "catch_stop"
  /\ Elsewhere

\* io.stop(), at the end of main and in the handler.
StopIoForgets ==
  /\ Step("io_stop", "join") \/ Step("catch_stop", "catch_join")
  /\ Elsewhere
StopIo ==
  /\ Step("io_stop", "join") \/ Step("catch_stop", "catch_join")
  /\ io_stopped' = TRUE
  /\ UNCHANGED <<subcommand, sig, registry, signalled,
                 shutdown_requested>>

JoinNot ==
  /\ Step("join", "exit") \/ Step("catch_join", "exit")
  /\ Elsewhere
Join ==
  /\ sig = "ended"
  /\ Step("join", "exit") \/ Step("catch_join", "exit")
  /\ Elsewhere

\* exit, and a return from main: static objects are destroyed while other
\* threads, if there are any, go on; then the process is gone.
DestroyStatics ==
  /\ Step("exit", "statics") /\ registry' = "destroyed"
  /\ UNCHANGED <<subcommand, sig, signalled, io_stopped,
                 shutdown_requested>>

End == Step("statics", "ended") /\ Elsewhere

-----------------------------------------------------------------------------
(* The signal thread: io_context::run and asio_signal_handler.             *)

Alive == main \notin Over /\ UNCHANGED <<subcommand, main>>

Run ==
  /\ Alive /\ sig = "starting"
  /\ sig' = IF io_stopped THEN "ended" ELSE "waiting"
  /\ UNCHANGED <<registry, signalled, io_stopped, shutdown_requested>>

RunStopsCalls ==
  /\ Alive /\ sig = "waiting" /\ io_stopped /\ sig' = "get"
  /\ UNCHANGED <<registry, signalled, io_stopped, shutdown_requested>>
RunStops ==
  /\ Alive /\ sig = "waiting" /\ io_stopped /\ sig' = "ended"
  /\ UNCHANGED <<registry, signalled, io_stopped, shutdown_requested>>

Handle ==
  /\ Alive /\ sig = "waiting" /\ signalled /\ sig' = "get"
  /\ UNCHANGED <<registry, signalled, io_stopped, shutdown_requested>>

\* The logger is fetched from the registry and used.
Log ==
  /\ Alive /\ sig = "get" /\ registry # "empty" /\ sig' = "request"
  /\ UNCHANGED <<registry, signalled, io_stopped, shutdown_requested>>

\* There is no logger yet (a null pointer is used), or no registry any more
\* (which may also seem to work: Log).
Crash ==
  /\ sig = "get" /\ registry # "logger" /\ main \notin Over
  /\ main' = "crashed"
  /\ Elsewhere

RequestShutdownForgets ==
  /\ Alive /\ sig = "request" /\ sig' = "stop"
  /\ UNCHANGED <<registry, signalled, io_stopped, shutdown_requested>>
RequestShutdown ==
  /\ Alive /\ sig = "request" /\ sig' = "stop"
  /\ shutdown_requested' = TRUE
  /\ UNCHANGED <<registry, signalled, io_stopped>>

\* io_context.stop(): run returns after the handler, which waits for no other
\* signal.
HandlerStops ==
  /\ Alive /\ sig = "stop" /\ sig' = "ended" /\ io_stopped' = TRUE
  /\ UNCHANGED <<registry, signalled, shutdown_requested>>

\* A signal arrives.  When it is main that takes it while it reads a line, the
\* read ends without one.
Signal ==
  /\ main \notin Over /\ signalled' = TRUE
  /\ main' \in {main} \union (IF main = "ask" THEN {"build"} ELSE {})
  /\ UNCHANGED <<subcommand, sig, registry, io_stopped,
                 shutdown_requested>>

-----------------------------------------------------------------------------
MainStep ==
  \/ StartThread \/ CreateLogger \/ Arguments \/ Setup \/ AudioReady \/ Build
  \/ WorkEnds \/ StopIo \/ Join \/ DestroyStatics \/ End

SigStep ==
  Run \/ RunStops \/ Handle \/ Log \/ RequestShutdown \/ HandlerStops

Next ==
  \/ MainStep \/ Terminate \/ AudioDeaf \/ Throw \/ Choose \/ WorkFails
  \/ SigStep \/ Crash \/ Signal

\* Nobody has to type a line, nothing has to throw or fail and no signal has to
\* come.  A connection to PulseAudio that is under way comes to an end, one way
\* or the other; one that failed at once may leave main deaf.  That the work
\* ends once a shutdown is requested is Client!Terminates and
\* Sender!Terminates.
Fairness == WF_vars(MainStep) /\ WF_vars(SigStep \/ Crash)

Spec == Init /\ [][Next]_vars /\ Fairness

-----------------------------------------------------------------------------
\* The types of the state.
TypeOK ==
  /\ main \in {"thread", "logger", "args", "setup", "audio", "deaf", "ask",
               "build", "work", "io_stop", "join", "catch_stop", "catch_join",
               "exit", "statics"} \union Over
  /\ sig \in {"none", "starting", "waiting", "get", "request", "stop", "ended"}
  /\ registry \in {"empty", "logger", "destroyed"}
  /\ {signalled, io_stopped, shutdown_requested} \subseteq BOOLEAN
  /\ shutdown_requested => signalled

\* The handler may meet a program without a logger only before main made it
\* and after an exit over the arguments; every other way out, the exceptions
\* included, waits for the signal thread before anything it uses is destroyed.
HandlerHasLogger ==
  sig = "get" /\ registry # "logger" =>
    main = "logger" \/ subcommand \notin {"client", "server"}
      \/ (main = "crashed" /\ registry = "empty")

\* One signal ends the program wherever it arrives, before, during or after
\* the set-up, but at two waits that look at no flag: a server that reads its
\* device from the terminal may wait for the line first, and a backend whose
\* connection failed at once waits for ever.
SignalEnds == signalled ~> main \in Over \union {"ask", "deaf"}

\* The join at the end waits for no signal and for no handler that waits for
\* main, even when the thread has not started to run when the io is stopped.
JoinReturns == main \in {"join", "catch_join"} ~> main = "ended"

=============================================================================
