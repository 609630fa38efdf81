---------------------------- MODULE ProgramProofs ----------------------------
(***************************************************************************)
(* Proofs about main and its signal thread.                                *)
(***************************************************************************)
EXTENDS Program, Integers, TLAPS

Working == {"client", "server"}
Joining == {"join", "catch_join"}
Leaving == {"exit", "statics", "ended"}
Busy    == {"setup", "audio", "deaf", "ask", "build", "work", "io_stop",
            "catch_stop"}

\* The registry has the logger from its creation to the destruction of the
\* static objects.
LoggerLives ==
  /\ main \in {"thread", "logger"} => registry = "empty"
  /\ main \in {"args", "exit"} \union Busy \union Joining => registry = "logger"
  /\ registry = "empty" => main \in {"thread", "logger", "crashed"}
  /\ registry = "destroyed" => sig = "ended" \/ subcommand \notin Working

\* Where the signal thread is, seen from main: it starts in the first step, and
\* main leaves it behind only when it had nothing to work on.
ThreadLives ==
  /\ main = "thread" => sig = "none"
  /\ sig = "none" => main \in {"thread", "crashed"}
  /\ main \in Busy \union Joining => subcommand \in Working
  /\ main \in Leaving => sig = "ended" \/ subcommand \notin Working

\* The io is stopped by the handler, which requested the shutdown before, or by
\* main at its end.
IoStopped ==
  /\ main \in Joining => io_stopped
  /\ sig \in {"get", "request", "stop"} => signalled
  /\ sig = "stop" => shutdown_requested
  /\ sig = "ended" => io_stopped
  /\ io_stopped =>
       shutdown_requested \/ main \in Joining \union Leaving \union Over

IInv == TypeOK /\ LoggerLives /\ ThreadLives /\ IoStopped

-----------------------------------------------------------------------------
\* As long as main works, a signal that arrived was passed on, or the thread is
\* on its way to do so and waits for nothing else: no signal gets lost between
\* the start of the thread, the handler and a shutdown in progress.
NoSignalLost ==
  signalled /\ main \in Busy =>
    \/ shutdown_requested
    \/ sig \in {"starting", "waiting", "get", "request"}

\* What the thread still has to do before it ends, once the io is stopped.
ToGo ==
  CASE sig = "starting" -> 1 [] sig = "waiting" -> 4 [] sig = "get" -> 3
    [] sig = "request"  -> 2 [] sig = "stop"    -> 1 [] OTHER       -> 0

\* Where the thread waits for nobody: it has its own next step, or has ended.
Unblocked ==
  /\ sig # "none"
  /\ sig = "waiting" => io_stopped \/ signalled
  /\ sig = "get" => registry = "logger"

\* main waits for a thread that waits for nobody.
JoinsTheUnblocked == main \in Joining => Unblocked

\* While main waits, the thread only gets closer to its end.
JoinGetsCloser ==
  [][(main \in Joining /\ main' = main) => (sig' = sig \/ ToGo' < ToGo)]_vars

-----------------------------------------------------------------------------
LEMMA InitIInv == Init => IInv
  BY DEF Init, IInv, TypeOK, LoggerLives, ThreadLives, IoStopped, Busy,
     Joining, Leaving, Working, Over

\* main's own steps.
LEMMA MainKeepsIInv ==
  ASSUME IInv,
         MainStep \/ Terminate \/ AudioDeaf \/ Throw \/ Choose \/ WorkFails
  PROVE  IInv'
  <1> USE DEF IInv, TypeOK, LoggerLives, ThreadLives, IoStopped, Busy, Joining,
              Leaving, Working, Over
  <1>1. CASE StartThread \/ CreateLogger \/ Terminate
    BY <1>1 DEF StartThread, CreateLogger, Terminate, Step
  <1>2. CASE Arguments \/ Setup \/ Choose \/ Build
    BY <1>2 DEF Arguments, Setup, Choose, Build, Step, Elsewhere
  <1>3. CASE WorkEnds \/ WorkFails \/ Throw
    BY <1>3 DEF WorkEnds, WorkFails, Throw, Step, Elsewhere
  <1>4. CASE StopIo
    BY <1>4 DEF StopIo, Step
  <1>5. CASE Join
    BY <1>5 DEF Join, Step, Elsewhere
  <1>6. CASE DestroyStatics \/ End
    BY <1>6 DEF DestroyStatics, End, Step, Elsewhere
  <1>7. CASE AudioReady \/ AudioDeaf
    BY <1>7 DEF AudioReady, AudioDeaf, Step, Elsewhere
  <1> QED
    BY <1>1, <1>2, <1>3, <1>4, <1>5, <1>6, <1>7 DEF MainStep

\* The signal thread's steps, and a signal.
LEMMA SignalKeepsIInv ==
  ASSUME IInv, SigStep \/ Crash \/ Signal
  PROVE  IInv'
  <1> USE DEF IInv, TypeOK, LoggerLives, ThreadLives, IoStopped, Busy, Joining,
              Leaving, Working, Over, Alive
  <1>1. CASE Run
    BY <1>1 DEF Run
  <1>2. CASE RunStops \/ Handle
    BY <1>2 DEF RunStops, Handle
  <1>3. CASE Log
    BY <1>3 DEF Log
  <1>4. CASE Crash
    BY <1>4 DEF Crash, Elsewhere
  <1>5. CASE RequestShutdown
    BY <1>5 DEF RequestShutdown
  <1>6. CASE HandlerStops
    BY <1>6 DEF HandlerStops
  <1>7. CASE Signal
    BY <1>7 DEF Signal
  <1> QED
    BY <1>1, <1>2, <1>3, <1>4, <1>5, <1>6, <1>7 DEF SigStep

LEMMA IInvHolds == Spec => []IInv
  <1>1. IInv /\ [Next]_vars => IInv'
    <2>1. CASE UNCHANGED vars
      BY <2>1 DEF vars, IInv, TypeOK, LoggerLives, ThreadLives, IoStopped
    <2> QED
      BY <2>1, MainKeepsIInv, SignalKeepsIInv DEF Next
  <1> QED
    BY InitIInv, <1>1, PTL DEF Spec

-----------------------------------------------------------------------------
\* The places of both threads, the registry and the flags.
THEOREM TypeCorrect == Spec => []TypeOK
  <1>1. IInv => TypeOK
    BY DEF IInv
  <1> QED
    BY IInvHolds, <1>1, PTL

\* On every way out of main but the exit over the arguments the handler is over
\* before the registry with its logger is destroyed.
THEOREM LoggerForTheHandler == Spec => []HandlerHasLogger
  <1>1. IInv => HandlerHasLogger
    BY DEF IInv, TypeOK, LoggerLives, ThreadLives, HandlerHasLogger, Working
  <1> QED
    BY IInvHolds, <1>1, PTL

\* A signal reaches the loop that main runs, wherever main is when it comes.
THEOREM SignalsArrive == Spec => []NoSignalLost
  <1>1. IInv => NoSignalLost
    BY DEF IInv, TypeOK, ThreadLives, IoStopped, NoSignalLost, Busy, Joining,
       Leaving, Over
  <1> QED
    BY IInvHolds, <1>1, PTL

\* The safety part of JoinReturns: there is no circle of waiting at the end of
\* main, and no run of the thread that goes on for ever.
THEOREM JoinIsFinite == Spec => []JoinsTheUnblocked /\ JoinGetsCloser
  <1>1. IInv => JoinsTheUnblocked
    BY DEF IInv, TypeOK, LoggerLives, ThreadLives, IoStopped, Joining,
       JoinsTheUnblocked, Unblocked
  <1>2. IInv /\ [Next]_vars =>
          [(main \in Joining /\ main' = main)
             => (sig' = sig \/ ToGo' < ToGo)]_vars
    <2> SUFFICES ASSUME IInv, Next, main \in Joining, main' = main
                 PROVE  sig' = sig \/ ToGo' < ToGo
      OBVIOUS
    <2>1. CASE MainStep \/ Terminate \/ AudioDeaf \/ Throw \/ Choose
               \/ WorkFails
      BY <2>1 DEF MainStep, Terminate, AudioDeaf, Throw, Choose, WorkFails,
         StartThread, CreateLogger, Arguments, Setup, AudioReady, Build,
         WorkEnds, StopIo, Join, DestroyStatics, End, Step, Elsewhere, Joining
    <2>2. CASE SigStep
      <3>1. io_stopped
        BY DEF IInv, IoStopped
      <3>2. <<sig, sig'>> \in
              {<<"starting", "ended">>, <<"waiting", "ended">>,
               <<"waiting", "get">>, <<"get", "request">>,
               <<"request", "stop">>, <<"stop", "ended">>}
        BY <2>2, <3>1 DEF SigStep, Run, RunStops, Handle, Log,
           RequestShutdown, HandlerStops
      <3> QED
        BY <3>2 DEF ToGo
    <2>3. CASE Crash \/ Signal
      BY <2>3 DEF Crash, Signal, Elsewhere
    <2> QED
      BY <2>1, <2>2, <2>3 DEF Next
  <1> QED
    BY IInvHolds, <1>1, <1>2, PTL DEF Spec, JoinGetsCloser

=============================================================================
