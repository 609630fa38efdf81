---------------------------- MODULE ClientProofs ----------------------------
(***************************************************************************)
(* Proofs about Client for every queue limit and number of attempts.       *)
(***************************************************************************)
EXTENDS Client, Integers, TLAPS

Constructing == {"decoder", "no_decoder", "callback", "connect", "backoff",
                 "spawn"}
Stopping     == {"store_stop", "stop_rtp", "stop_recording"}
Destroying   == {"free_decoder", "join", "free_members", "done"}
InLoop       == {"loop", "call", "fill", "decode", "write"}

Ending == shutdown_requested \/ ~healthy

\* The microphone thread exists from Spawn to Join.
MicLives ==
  /\ main \in Constructing \union {"unwind_rtp", "threw"} => mic = "none"
  /\ main \in {"free_members", "done"} => mic = "ended"
  /\ mic # "none" => decoder # "none"

\* Where main is decides what is left of the Rtp and of the members.
Members ==
  /\ main \in Constructing \ {"spawn"} => rtp = "none"
  /\ main = "spawn" => rtp = "active"
  /\ main \in {"stop_recording"} \union Destroying => rtp = "stopped"
  /\ main = "threw" => rtp \in {"none", "stopped"}
  /\ hook = "queue" => rtp \in {"active", "stopping"}
  /\ main \in {"callback", "connect", "backoff", "spawn", "watch"}
               \union Stopping
       => decoder = "live"
  /\ queues = "destroyed" =>
       main \in {"unwind_rtp", "threw", "done", "crashed"}
         /\ mic \in {"none", "ended"}
  /\ main = "backoff" => attempt < max_retries

\* Which flags are up: a stop of the client has a cause that main can see, and
\* the flag that refuses new callbacks is up before the decoder goes.
Causes ==
  /\ main \in Stopping \union Destroying => Ending
  /\ mic \in InLoop /\ ~playback => Ending
  /\ mic \in {"unhealthy", "stopping", "ended"} => Ending
  /\ main \in (Stopping \ {"store_stop"}) \union Destroying => should_stop
  /\ decoder = "destroyed" => should_stop

IInv == TypeOK /\ MicLives /\ Members /\ Causes

-----------------------------------------------------------------------------
LEMMA InitIInv == Init => IInv
  <1> SUFFICES ASSUME Init PROVE IInv
    OBVIOUS
  <1> USE FlowAssumption, ClientAssumption DEF Init
  <1>1. queued \in 0..QueueLimit /\ attempt \in 1..max_retries
    OBVIOUS
  <1>2. TypeOK
    BY <1>1 DEF TypeOK, MainStates
  <1>3. MicLives /\ Members /\ Causes
    BY DEF MicLives, Members, Causes, Constructing, Stopping, Destroying,
       InLoop, Ending
  <1> QED
    BY <1>2, <1>3 DEF IInv

LEMMA MainInv == IInv /\ MainStep => IInv'
  <1> SUFFICES ASSUME IInv, MainStep PROVE IInv'
    OBVIOUS
  <1> USE FlowAssumption, ClientAssumption DEF IInv, flowVars, flags
  <1>1. CASE CreateDecoder
    <2>1. TypeOK'
      BY <1>1 DEF CreateDecoder, TypeOK, MainStates, Finished
    <2>2. MicLives'
      BY <1>1 DEF CreateDecoder, MicLives, Constructing
    <2>3. Members'
      BY <1>1 DEF CreateDecoder, TypeOK, MicLives, Members, Constructing,
         Stopping, Destroying
    <2>4. Causes'
      BY <1>1 DEF CreateDecoder, MicLives, Members, Causes, Constructing,
         Stopping, Destroying, InLoop, Ending
    <2> QED
      BY <2>1, <2>2, <2>3, <2>4
  <1>2. CASE CreateDecoderFails
    <2>1. TypeOK'
      <3>1. main' \in MainStates /\ healthy' \in BOOLEAN
              /\ should_stop' \in BOOLEAN
        BY <1>2 DEF CreateDecoderFails, MainStates
      <3> QED
        BY <1>2, <3>1 DEF CreateDecoderFails, TypeOK
    <2>2. MicLives'
      BY <1>2 DEF CreateDecoderFails, MicLives, Constructing
    <2>3. Members'
      BY <1>2 DEF CreateDecoderFails, TypeOK, MicLives, Members,
         Constructing, Stopping, Destroying
    <2>4. Causes'
      BY <1>2 DEF CreateDecoderFails, MicLives, Members, Causes,
         Constructing, Stopping, Destroying, InLoop, Ending
    <2> QED
      BY <2>1, <2>2, <2>3, <2>4
  <1>3. CASE InstallCallback
    <2>1. TypeOK'
      BY <1>3 DEF InstallCallback, TypeOK, MainStates, Finished
    <2>2. MicLives'
      BY <1>3 DEF InstallCallback, MicLives, Constructing
    <2>3. Members'
      BY <1>3 DEF InstallCallback, TypeOK, MicLives, Members, Constructing,
         Stopping, Destroying
    <2>4. Causes'
      BY <1>3 DEF InstallCallback, MicLives, Members, Causes, Constructing,
         Stopping, Destroying, InLoop, Ending
    <2> QED
      BY <2>1, <2>2, <2>3, <2>4
  <1>4. CASE NoAudioBackend
    <2>1. TypeOK'
      BY <1>4 DEF NoAudioBackend, FirstUse, Throw, TypeOK, MainStates, Finished
    <2>2. MicLives'
      BY <1>4 DEF NoAudioBackend, FirstUse, Throw, MicLives, Constructing
    <2>3. Members'
      BY <1>4 DEF NoAudioBackend, FirstUse, Throw, TypeOK, MicLives, Members,
         Constructing, Stopping, Destroying
    <2>4. Causes'
      BY <1>4 DEF NoAudioBackend, FirstUse, Throw, MicLives, Members, Causes,
         Constructing, Stopping, Destroying, InLoop, Ending
    <2> QED
      BY <2>1, <2>2, <2>3, <2>4
  <1>5. CASE Connect
    <2>1. TypeOK'
      BY <1>5 DEF Connect, TypeOK, MainStates, Finished
    <2>2. MicLives'
      BY <1>5 DEF Connect, MicLives, Constructing
    <2>3. Members'
      BY <1>5 DEF Connect, TypeOK, MicLives, Members, Constructing, Stopping,
         Destroying
    <2>4. Causes'
      BY <1>5 DEF Connect, MicLives, Members, Causes, Constructing, Stopping,
         Destroying, InLoop, Ending
    <2> QED
      BY <2>1, <2>2, <2>3, <2>4
  <1>6. CASE ConnectFails
    <2>1. TypeOK'
      BY <1>6 DEF ConnectFails, TypeOK, MainStates, Finished
    <2>2. MicLives'
      BY <1>6 DEF ConnectFails, MicLives, Constructing
    <2>3. Members'
      BY <1>6 DEF ConnectFails, TypeOK, MicLives, Members, Constructing,
         Stopping, Destroying
    <2>4. Causes'
      BY <1>6 DEF ConnectFails, MicLives, Members, Causes, Constructing,
         Stopping, Destroying, InLoop, Ending
    <2> QED
      BY <2>1, <2>2, <2>3, <2>4
  <1>7. CASE ConnectGivesUp
    <2>1. TypeOK'
      <3>1. main' \in MainStates
        BY <1>7 DEF ConnectGivesUp, Throw, MainStates, Finished
      <3> QED
        BY <1>7, <3>1 DEF ConnectGivesUp, SetError, Throw, TypeOK
    <2>2. MicLives'
      BY <1>7 DEF ConnectGivesUp, SetError, Throw, MicLives, Constructing
    <2>3. Members'
      BY <1>7 DEF ConnectGivesUp, SetError, Throw, TypeOK, MicLives, Members,
         Constructing, Stopping, Destroying
    <2>4. Causes'
      BY <1>7 DEF ConnectGivesUp, SetError, Throw, MicLives, Members, Causes,
         Constructing, Stopping, Destroying, InLoop, Ending
    <2> QED
      BY <2>1, <2>2, <2>3, <2>4
  <1>8. CASE BackoffEnds
    <2>1. TypeOK'
      <3>1. main' \in MainStates /\ attempt' \in 1..max_retries
        BY <1>8 DEF BackoffEnds, TypeOK, Members, MainStates
      <3> QED
        BY <1>8, <3>1 DEF BackoffEnds, TypeOK
    <2>2. MicLives'
      BY <1>8 DEF BackoffEnds, MicLives, Constructing
    <2>3. Members'
      BY <1>8 DEF BackoffEnds, TypeOK, MicLives, Members, Constructing,
         Stopping, Destroying
    <2>4. Causes'
      BY <1>8 DEF BackoffEnds, MicLives, Members, Causes, Constructing,
         Stopping, Destroying, InLoop, Ending
    <2> QED
      BY <2>1, <2>2, <2>3, <2>4
  <1>9. CASE BackoffShutdown
    <2>1. TypeOK'
      BY <1>9 DEF BackoffShutdown, SetError, Throw, TypeOK, MainStates,
         Finished
    <2>2. MicLives'
      BY <1>9 DEF BackoffShutdown, SetError, Throw, MicLives, Constructing
    <2>3. Members'
      BY <1>9 DEF BackoffShutdown, SetError, Throw, TypeOK, MicLives,
         Members, Constructing, Stopping, Destroying
    <2>4. Causes'
      BY <1>9 DEF BackoffShutdown, SetError, Throw, MicLives, Members,
         Causes, Constructing, Stopping, Destroying, InLoop, Ending
    <2> QED
      BY <2>1, <2>2, <2>3, <2>4
  <1>10. CASE Spawn
    <2>1. TypeOK'
      BY <1>10 DEF Spawn, TypeOK, MainStates, Finished
    <2>2. MicLives'
      BY <1>10 DEF Spawn, MicLives, Members, Constructing
    <2>3. Members'
      BY <1>10 DEF Spawn, TypeOK, MicLives, Members, Constructing, Stopping,
         Destroying
    <2>4. Causes'
      BY <1>10 DEF Spawn, MicLives, Members, Causes, Constructing, Stopping,
         Destroying, InLoop, Ending
    <2> QED
      BY <2>1, <2>2, <2>3, <2>4
  <1>11. CASE SpawnFails
    <2>1. TypeOK'
      BY <1>11 DEF SpawnFails, TypeOK, MainStates, Finished
    <2>2. MicLives'
      BY <1>11 DEF SpawnFails, MicLives, Constructing
    <2>3. Members'
      BY <1>11 DEF SpawnFails, TypeOK, MicLives, Members, Constructing,
         Stopping, Destroying
    <2>4. Causes'
      BY <1>11 DEF SpawnFails, MicLives, Members, Causes, Constructing,
         Stopping, Destroying, InLoop, Ending
    <2> QED
      BY <2>1, <2>2, <2>3, <2>4
  <1>12. CASE UnwindRtp
    <2>1. TypeOK'
      BY <1>12 DEF UnwindRtp, StopStream, TypeOK, MainStates, Finished
    <2>2. MicLives'
      BY <1>12 DEF UnwindRtp, StopStream, MicLives, Constructing
    <2>3. Members'
      BY <1>12 DEF UnwindRtp, StopStream, TypeOK, MicLives, Members,
         Constructing, Stopping, Destroying
    <2>4. Causes'
      BY <1>12 DEF UnwindRtp, StopStream, MicLives, Members, Causes,
         Constructing, Stopping, Destroying, InLoop, Ending
    <2> QED
      BY <2>1, <2>2, <2>3, <2>4
  <1>13. CASE WatchEnds
    <2>1. TypeOK'
      BY <1>13 DEF WatchEnds, TypeOK, MainStates, Finished
    <2>2. MicLives'
      BY <1>13 DEF WatchEnds, MicLives, Constructing
    <2>3. Members'
      BY <1>13 DEF WatchEnds, TypeOK, MicLives, Members, Constructing,
         Stopping, Destroying
    <2>4. Causes'
      BY <1>13 DEF WatchEnds, MicLives, Members, Causes, Constructing,
         Stopping, Destroying, InLoop, Ending
    <2> QED
      BY <2>1, <2>2, <2>3, <2>4
  <1>14. CASE RequestStop
    <2>1. TypeOK'
      BY <1>14 DEF RequestStop, StoreShouldStop, TypeOK, MainStates,
         Finished
    <2>2. MicLives'
      BY <1>14 DEF RequestStop, StoreShouldStop, MicLives, Constructing
    <2>3. Members'
      BY <1>14 DEF RequestStop, StoreShouldStop, TypeOK, MicLives, Members,
         Constructing, Stopping, Destroying
    <2>4. Causes'
      BY <1>14 DEF RequestStop, StoreShouldStop, MicLives, Members, Causes,
         Constructing, Stopping, Destroying, InLoop, Ending
    <2> QED
      BY <2>1, <2>2, <2>3, <2>4
  <1>15. CASE StopRtp
    <2>1. TypeOK'
      BY <1>15 DEF StopRtp, StopStream, TypeOK, MainStates, Finished
    <2>2. MicLives'
      BY <1>15 DEF StopRtp, StopStream, MicLives, Constructing
    <2>3. Members'
      BY <1>15 DEF StopRtp, StopStream, TypeOK, MicLives, Members,
         Constructing, Stopping, Destroying
    <2>4. Causes'
      BY <1>15 DEF StopRtp, StopStream, MicLives, Members, Causes,
         Constructing, Stopping, Destroying, InLoop, Ending
    <2> QED
      BY <2>1, <2>2, <2>3, <2>4
  <1>16. CASE RequestQuiet
    <2>1. TypeOK'
      <3>1. main' \in MainStates /\ playback' \in BOOLEAN
        BY <1>16 DEF RequestQuiet, StopRecording, MainStates
      <3> QED
        BY <1>16, <3>1 DEF RequestQuiet, StopRecording, TypeOK
    <2>2. MicLives'
      BY <1>16 DEF RequestQuiet, StopRecording, MicLives, Constructing
    <2>3. Members'
      BY <1>16 DEF RequestQuiet, StopRecording, TypeOK, MicLives, Members,
         Constructing, Stopping, Destroying
    <2>4. Causes'
      BY <1>16 DEF RequestQuiet, StopRecording, MicLives, Members, Causes,
         Constructing, Stopping, Destroying, InLoop, Ending
    <2> QED
      BY <2>1, <2>2, <2>3, <2>4
  <1>17. CASE FreeDecoder
    <2>1. TypeOK'
      BY <1>17 DEF FreeDecoder, TypeOK, MainStates, Finished
    <2>2. MicLives'
      BY <1>17 DEF FreeDecoder, MicLives, Constructing
    <2>3. Members'
      BY <1>17 DEF FreeDecoder, TypeOK, MicLives, Members, Constructing,
         Stopping, Destroying
    <2>4. Causes'
      BY <1>17 DEF FreeDecoder, MicLives, Members, Causes, Constructing,
         Stopping, Destroying, InLoop, Ending
    <2> QED
      BY <2>1, <2>2, <2>3, <2>4
  <1>18. CASE Join
    <2>1. TypeOK'
      BY <1>18 DEF Join, TypeOK, MainStates, Finished
    <2>2. MicLives'
      BY <1>18 DEF Join, MicLives, Constructing
    <2>3. Members'
      BY <1>18 DEF Join, TypeOK, MicLives, Members, Constructing, Stopping,
         Destroying
    <2>4. Causes'
      BY <1>18 DEF Join, MicLives, Members, Causes, Constructing, Stopping,
         Destroying, InLoop, Ending
    <2> QED
      BY <2>1, <2>2, <2>3, <2>4
  <1>19. CASE FreeMembers
    <2>1. TypeOK'
      BY <1>19 DEF FreeMembers, TypeOK, MainStates, Finished
    <2>2. MicLives'
      BY <1>19 DEF FreeMembers, MicLives, Constructing
    <2>3. Members'
      BY <1>19 DEF FreeMembers, TypeOK, MicLives, Members, Constructing,
         Stopping, Destroying
    <2>4. Causes'
      BY <1>19 DEF FreeMembers, MicLives, Members, Causes, Constructing,
         Stopping, Destroying, InLoop, Ending
    <2> QED
      BY <2>1, <2>2, <2>3, <2>4
  <1>20. CASE ConnectContext
    <2>1. TypeOK'
      BY <1>20 DEF ConnectContext, FirstUse, TypeOK, MainStates, Finished
    <2>2. MicLives'
      BY <1>20 DEF ConnectContext, FirstUse, MicLives, Constructing
    <2>3. Members'
      BY <1>20 DEF ConnectContext, FirstUse, TypeOK, MicLives, Members,
         Constructing, Stopping, Destroying
    <2>4. Causes'
      BY <1>20 DEF ConnectContext, FirstUse, MicLives, Members, Causes,
         Constructing, Stopping, Destroying, InLoop, Ending
    <2> QED
      BY <2>1, <2>2, <2>3, <2>4
  <1>21. CASE ContextReady
    <2>1. TypeOK'
      BY <1>21 DEF ContextReady, FirstUse, TypeOK, MainStates, Finished
    <2>2. MicLives'
      BY <1>21 DEF ContextReady, FirstUse, MicLives, Constructing
    <2>3. Members'
      BY <1>21 DEF ContextReady, FirstUse, TypeOK, MicLives, Members,
         Constructing, Stopping, Destroying
    <2>4. Causes'
      BY <1>21 DEF ContextReady, FirstUse, MicLives, Members, Causes,
         Constructing, Stopping, Destroying, InLoop, Ending
    <2> QED
      BY <2>1, <2>2, <2>3, <2>4
  <1>22. CASE NoDecoder
    <2>1. TypeOK'
      <3>1. main' \in MainStates /\ playback' \in BOOLEAN
        BY <1>22 DEF NoDecoder, StopRecording, Throw, MainStates, Finished
      <3> QED
        BY <1>22, <3>1 DEF NoDecoder, StopRecording, Throw, TypeOK
    <2>2. MicLives'
      BY <1>22 DEF NoDecoder, StopRecording, Throw, MicLives, Constructing
    <2>3. Members'
      BY <1>22 DEF NoDecoder, StopRecording, Throw, TypeOK, MicLives, Members,
         Constructing, Stopping, Destroying
    <2>4. Causes'
      BY <1>22 DEF NoDecoder, StopRecording, Throw, MicLives, Members, Causes,
         Constructing, Stopping, Destroying, InLoop, Ending
    <2> QED
      BY <2>1, <2>2, <2>3, <2>4
  <1> HIDE DEF IInv
  <1> QED
    BY <1>1, <1>2, <1>3, <1>4, <1>5, <1>6, <1>7, <1>8, <1>9, <1>10, <1>11,
       <1>12, <1>13, <1>14, <1>15, <1>16, <1>17, <1>18, <1>19, <1>20, <1>21,
       <1>22
       DEF MainStep

\* The microphone thread and the hook, while main is anywhere.
LEMMA OthersInv ==
  ASSUME IInv, HookStep \/ MicSetup \/ MicStep \/ Signal
  PROVE  IInv'
  <1> USE FlowAssumption, ClientAssumption
      DEF IInv, flags, clientVars
  <1>1. CASE HookArrives
    <2>1. TypeOK'
      BY <1>1 DEF HookArrives, Running, RecvAdmit, TypeOK
    <2>2. MicLives' /\ Members'
      BY <1>1 DEF HookArrives, Running, RecvAdmit, MicLives, Members,
         Constructing, Destroying, Finished
    <2>3. Causes'
      BY <1>1 DEF HookArrives, Running, RecvAdmit, TypeOK, Causes, InLoop,
         Ending
    <2> QED
      BY <2>1, <2>2, <2>3
  <1>2. CASE HookReturns
    <2>1. TypeOK'
      BY <1>2 DEF HookReturns, Running, RecvDone, TypeOK
    <2>2. MicLives' /\ Members'
      BY <1>2 DEF HookReturns, Running, RecvDone, MicLives, Members,
         Constructing, Destroying, Finished
    <2>3. Causes'
      BY <1>2 DEF HookReturns, Running, RecvDone, TypeOK, Causes, InLoop,
         Ending
    <2> QED
      BY <2>1, <2>2, <2>3
  <1>3. CASE Signal
    <2>1. TypeOK'
      BY <1>3 DEF Signal, Running, SignalShutdown, TypeOK
    <2>2. MicLives' /\ Members'
      BY <1>3 DEF Signal, Running, SignalShutdown, MicLives, Members,
         Constructing, Destroying, Finished
    <2>3. Causes'
      BY <1>3 DEF Signal, Running, SignalShutdown, TypeOK, Causes, InLoop,
         Ending
    <2> QED
      BY <2>1, <2>2, <2>3
  <1>4. CASE Running /\ SetupDone
    <2>1. TypeOK'
      BY <1>4 DEF SetupDone, Running, TypeOK
    <2>2. MicLives' /\ Members'
      BY <1>4 DEF SetupDone, Running, MicLives, Members, Constructing,
         Destroying, Finished
    <2>3. Causes'
      BY <1>4 DEF SetupDone, Running, TypeOK, Causes, InLoop, Ending
    <2> QED
      BY <2>1, <2>2, <2>3
  <1>5. CASE Running /\ Fail
    <2>1. TypeOK'
      BY <1>5 DEF Fail, Running, TypeOK
    <2>2. MicLives' /\ Members'
      BY <1>5 DEF Fail, Running, MicLives, Members, Constructing, Destroying,
         Finished
    <2>3. Causes'
      BY <1>5 DEF Fail, Running, TypeOK, Causes, InLoop, Ending
    <2> QED
      BY <2>1, <2>2, <2>3
  <1>6. CASE Running /\ LoopExit
    <2>1. TypeOK'
      BY <1>6 DEF LoopExit, Running, TypeOK
    <2>2. MicLives' /\ Members'
      BY <1>6 DEF LoopExit, Running, MicLives, Members, Constructing,
         Destroying, Finished
    <2>3. Causes'
      BY <1>6 DEF LoopExit, Running, TypeOK, Causes, InLoop, Ending
    <2> QED
      BY <2>1, <2>2, <2>3
  <1>7. CASE Running /\ LoopEnter
    <2>1. TypeOK'
      BY <1>7 DEF LoopEnter, Running, TypeOK
    <2>2. MicLives' /\ Members'
      BY <1>7 DEF LoopEnter, Running, MicLives, Members, Constructing,
         Destroying, Finished
    <2>3. Causes'
      BY <1>7 DEF LoopEnter, Running, TypeOK, Causes, InLoop, Ending
    <2> QED
      BY <2>1, <2>2, <2>3
  <1>8. CASE Running /\ CallbackEnter
    <2>1. TypeOK'
      BY <1>8 DEF CallbackEnter, Running, TypeOK
    <2>2. MicLives' /\ Members'
      BY <1>8 DEF CallbackEnter, Running, MicLives, Members, Constructing,
         Destroying, Finished
    <2>3. Causes'
      BY <1>8 DEF CallbackEnter, Running, TypeOK, Causes, InLoop, Ending
    <2> QED
      BY <2>1, <2>2, <2>3
  <1>9. CASE Running /\ PopFrame
    <2>1. TypeOK'
      BY <1>9 DEF PopFrame, Running, TypeOK
    <2>2. MicLives' /\ Members'
      BY <1>9 DEF PopFrame, Running, MicLives, Members, Constructing,
         Destroying, Finished
    <2>3. Causes'
      BY <1>9 DEF PopFrame, Running, TypeOK, Causes, InLoop, Ending
    <2> QED
      BY <2>1, <2>2, <2>3
  <1>10. CASE Running /\ DecodeDone
    <2>1. TypeOK'
      BY <1>10 DEF DecodeDone, Running, TypeOK
    <2>2. MicLives' /\ Members'
      BY <1>10 DEF DecodeDone, Running, MicLives, Members, Constructing,
         Destroying, Finished
    <2>3. Causes'
      BY <1>10 DEF DecodeDone, Running, TypeOK, Causes, InLoop, Ending
    <2> QED
      BY <2>1, <2>2, <2>3
  <1>11. CASE Running /\ CallbackReturn
    <2>1. TypeOK'
      BY <1>11 DEF CallbackReturn, Running, TypeOK
    <2>2. MicLives' /\ Members'
      BY <1>11 DEF CallbackReturn, Running, MicLives, Members, Constructing,
         Destroying, Finished
    <2>3. Causes'
      BY <1>11 DEF CallbackReturn, Running, TypeOK, Causes, InLoop, Ending
    <2> QED
      BY <2>1, <2>2, <2>3
  <1>12. CASE Running /\ WriteDone
    <2>1. TypeOK'
      <3>1. mic' = "loop" /\ playback' \in BOOLEAN
        BY <1>12 DEF WriteDone, TypeOK
      <3> QED
        BY <1>12, <3>1 DEF WriteDone, Running, TypeOK
    <2>2. MicLives' /\ Members'
      BY <1>12 DEF WriteDone, Running, MicLives, Members, Constructing,
         Destroying, Finished
    <2>3. Causes'
      BY <1>12 DEF WriteDone, Running, TypeOK, Causes, InLoop, Ending
    <2> QED
      BY <2>1, <2>2, <2>3
  <1>13. CASE Running /\ SetUnhealthy
    <2>1. TypeOK'
      <3>1. mic' \in {"unhealthy", "ended"} /\ healthy' = FALSE
        BY <1>13 DEF SetUnhealthy
      <3> QED
        BY <1>13, <3>1 DEF SetUnhealthy, Running, TypeOK
    <2>2. MicLives' /\ Members'
      BY <1>13 DEF SetUnhealthy, Running, MicLives, Members, Constructing,
         Destroying, Finished
    <2>3. Causes'
      BY <1>13 DEF SetUnhealthy, Running, TypeOK, Causes, InLoop, Ending
    <2> QED
      BY <2>1, <2>2, <2>3
  <1>14. CASE Running /\ SetStop
    <2>1. TypeOK'
      BY <1>14 DEF SetStop, Running, TypeOK
    <2>2. MicLives' /\ Members'
      BY <1>14 DEF SetStop, Running, MicLives, Members, Constructing,
         Destroying, Finished
    <2>3. Causes'
      BY <1>14 DEF SetStop, Running, TypeOK, Causes, InLoop, Ending
    <2> QED
      BY <2>1, <2>2, <2>3
  <1>15. CASE Running /\ SetQuiet
    <2>1. TypeOK'
      BY <1>15 DEF SetQuiet, Running, TypeOK
    <2>2. MicLives' /\ Members'
      BY <1>15 DEF SetQuiet, Running, MicLives, Members, Constructing,
         Destroying, Finished
    <2>3. Causes'
      BY <1>15 DEF SetQuiet, Running, TypeOK, Causes, InLoop, Ending
    <2> QED
      BY <2>1, <2>2, <2>3
  <1> HIDE DEF IInv
  <1> QED
    BY <1>1, <1>2, <1>3, <1>4, <1>5, <1>6, <1>7, <1>8, <1>9, <1>10, <1>11,
       <1>12, <1>13, <1>14, <1>15
       DEF HookStep, MicSetup, MicStep, MicRuns, Callback

LEMMA StepIInv == IInv /\ [Next]_vars => IInv'
  <1> SUFFICES ASSUME IInv, [Next]_vars PROVE IInv'
    OBVIOUS
  <1>1. CASE MainStep
    BY <1>1, MainInv
  <1>2. CASE HookStep \/ MicSetup \/ MicStep \/ Signal
    BY <1>2, OthersInv
  <1>3. CASE Crash
    <2>1. TypeOK'
      BY <1>3 DEF Crash, IInv, TypeOK, MainStates, Finished, flowVars, flags
    <2>2. MicLives' /\ Members' /\ Causes'
      BY <1>3 DEF Crash, IInv, MicLives, Members, Causes, Constructing,
         Stopping, Destroying, InLoop, Ending, flowVars, flags
    <2> QED
      BY <2>1, <2>2 DEF IInv
  <1>4. CASE UNCHANGED vars
    BY <1>4 DEF vars, flowVars, flags, clientVars, IInv, TypeOK, MicLives,
       Members, Causes, Ending
  <1> QED
    BY <1>1, <1>2, <1>3, <1>4 DEF Next

LEMMA Invariant == Spec => []IInv
  BY InitIInv, StepIInv, PTL DEF Spec

-----------------------------------------------------------------------------
\* The types of the client's state, for every queue limit and any number of
\* attempts.
THEOREM TypeCorrect == Spec => []TypeOK
  <1>1. IInv => TypeOK
    BY DEF IInv
  <1> QED
    BY Invariant, <1>1, PTL

\* The queues outlive the threads that use them, on every path but the one of
\* a thread that could not be created.
THEOREM QueuesSafe == Spec => []QueuesOutliveThreads
  <1>1. IInv => QueuesOutliveThreads
    BY DEF IInv, TypeOK, Members, QueuesOutliveThreads, Destroying
  <1> QED
    BY Invariant, <1>1, PTL

\* When the microphone's thread has ended, main has a reason to notice.
THEOREM MicNeverDiesAlone == Spec => []NoSilentDeath
  <1>1. IInv => NoSilentDeath
    BY DEF IInv, Causes, NoSilentDeath, Ending
  <1> QED
    BY Invariant, <1>1, PTL

\* No call of the write callback gets past its check to a decoder that
\* ~Client has destroyed.
THEOREM DecoderGuarded == Spec => CallbackFindsDecoder
  <1>1. IInv /\ [Next]_vars => (mic = "call" /\ mic' = "fill" => decoder = "live")
    <2> SUFFICES ASSUME IInv, [Next]_vars, mic = "call", mic' = "fill"
                 PROVE  decoder = "live"
      OBVIOUS
    <2>1. ~should_stop
      <3>1. CASE MainStep
        BY <3>1 DEF MainStep, CreateDecoder, CreateDecoderFails,
           ConnectContext, ContextReady, NoDecoder,
           InstallCallback, NoAudioBackend, Connect, ConnectFails,
           ConnectGivesUp, BackoffEnds, BackoffShutdown, Spawn, SpawnFails,
           UnwindRtp, WatchEnds, RequestStop, StoreShouldStop, StopRtp,
           RequestQuiet, StopRecording, FreeDecoder, Join, FreeMembers,
           SetError, flowVars
      <3>2. CASE HookStep \/ Signal \/ Crash \/ UNCHANGED vars
        BY <3>2 DEF HookStep, HookArrives, HookReturns, RecvAdmit, RecvDone,
           Signal, SignalShutdown, Crash, vars, flowVars
      <3>3. CASE MicSetup \/ MicStep
        BY <3>3 DEF MicSetup, SetupDone, Fail, MicStep, MicRuns, LoopExit,
           LoopEnter, Callback, CallbackEnter, PopFrame, DecodeDone,
           CallbackReturn, WriteDone, SetUnhealthy, SetStop, SetQuiet
      <3> QED
        BY <3>1, <3>2, <3>3 DEF Next
    <2>2. decoder # "destroyed" /\ decoder # "none"
      BY <2>1 DEF IInv, Causes, MicLives
    <2> QED
      BY <2>2 DEF IInv, TypeOK
  <1> QED
    BY Invariant, <1>1, PTL DEF Spec, CallbackFindsDecoder

-----------------------------------------------------------------------------
(* The client's Rtp is an Endpoint.                                        *)

\* Steps of main that leave the Rtp and the hook alone, and are not the end of
\* the constructor.
LEMMA Elsewhere ==
  ASSUME rtp' = rtp, hook' = hook, main' # "threw" \/ rtp # "none",
         main # "threw"
  PROVE  UNCHANGED EP!endpointVars
  BY DEF EP!endpointVars

\* A constructor that throws before it has an Rtp.
LEMMA ThrowRefines ==
  ASSUME rtp = "none", rtp' = rtp, hook' = hook, main # "threw",
         main' = "threw"
  PROVE  EP!Fail
  <1>1. (hook' = "queue") = (hook = "queue")
    OBVIOUS
  <1> QED
    BY <1>1 DEF EP!Fail

\* Rtp::stop, from request_shutdown or from the unwinding constructor.
LEMMA StopRefines ==
  ASSUME IInv, NEW next, main # "threw", StopStream(next), hook' = hook
  PROVE  EP!Stop \/ EP!Stopped
  <1>1. CASE rtp = "active" /\ rtp' = "stopping"
    BY <1>1 DEF EP!Stop
  <1>2. CASE rtp = "stopping" /\ hook = "idle" /\ rtp' = "stopped"
    BY <1>2 DEF EP!Stopped
  <1> QED
    BY <1>1, <1>2 DEF StopStream

LEMMA MainRefines == IInv /\ MainStep => [EP!Next]_EP!endpointVars
  <1> SUFFICES ASSUME IInv, MainStep PROVE [EP!Next]_EP!endpointVars
    OBVIOUS
  <1>1. main # "threw"
    BY DEF MainStep, CreateDecoder, CreateDecoderFails, FirstUse,
       ConnectContext, ContextReady, NoDecoder, InstallCallback,
       NoAudioBackend, Connect, ConnectFails, ConnectGivesUp, BackoffEnds,
       BackoffShutdown, Spawn, SpawnFails, UnwindRtp, WatchEnds, RequestStop,
       StopRtp, RequestQuiet, FreeDecoder, Join, FreeMembers
  <1>2. CASE NoDecoder \/ NoAudioBackend \/ ConnectGivesUp
             \/ BackoffShutdown
    <2>1. main' = "threw" /\ rtp' = rtp /\ hook' = hook
      BY <1>2 DEF NoDecoder, StopRecording, NoAudioBackend, ConnectGivesUp,
         BackoffShutdown, SetError, Throw, flowVars
    <2>2. rtp = "none"
      BY <1>2 DEF NoDecoder, NoAudioBackend, FirstUse, ConnectGivesUp,
         BackoffShutdown, IInv, Members, Constructing
    <2> QED
      BY <1>1, <2>1, <2>2, ThrowRefines DEF EP!Next
  <1>3. CASE Connect
    <2>1. rtp = "none" /\ rtp' = "active" /\ hook' = hook
      BY <1>3 DEF Connect, flowVars, IInv, Members, Constructing
    <2> QED
      BY <1>1, <2>1 DEF EP!Next, EP!Start
  <1>4. CASE UnwindRtp \/ StopRtp
    BY <1>1, <1>4, StopRefines DEF UnwindRtp, StopRtp, flowVars, EP!Next
  <1>5. CASE CreateDecoder \/ CreateDecoderFails \/ ConnectContext
             \/ ContextReady \/ InstallCallback \/ ConnectFails \/ BackoffEnds
             \/ Spawn \/ SpawnFails \/ WatchEnds \/ RequestStop
             \/ RequestQuiet \/ FreeDecoder \/ Join \/ FreeMembers
    <2>1. main' # "threw" /\ rtp' = rtp /\ hook' = hook
      BY <1>1, <1>5 DEF CreateDecoder, CreateDecoderFails, ConnectContext,
         ContextReady, InstallCallback, ConnectFails, BackoffEnds,
         Spawn, SpawnFails, WatchEnds, RequestStop, StoreShouldStop,
         RequestQuiet, StopRecording, FreeDecoder, Join, FreeMembers, flowVars
    <2> QED
      BY <1>1, <2>1, Elsewhere
  <1> QED
    BY <1>2, <1>3, <1>4, <1>5 DEF MainStep

LEMMA StepRefines == IInv /\ [Next]_vars => [EP!Next]_EP!endpointVars
  <1> SUFFICES ASSUME IInv, [Next]_vars PROVE [EP!Next]_EP!endpointVars
    OBVIOUS
  <1>1. CASE MainStep
    BY <1>1, MainRefines
  <1>2. CASE HookArrives
    BY <1>2 DEF HookArrives, RecvAdmit, Running, clientVars, EP!Next, EP!Enter
  <1>3. CASE HookReturns
    BY <1>3 DEF HookReturns, RecvDone, Running, clientVars, EP!Next, EP!Leave
  <1>4. CASE MicSetup \/ MicStep \/ Signal
    <2>1. main' = main /\ main # "threw" /\ rtp' = rtp
      BY <1>4 DEF MicSetup, MicStep, Signal, Running, clientVars, Finished
    <2>2. hook' = hook
      BY <1>4 DEF MicSetup, SetupDone, Fail, MicStep, MicRuns, LoopExit,
         LoopEnter, Callback, CallbackEnter, PopFrame, DecodeDone,
         CallbackReturn, WriteDone, SetUnhealthy, SetStop, SetQuiet, Signal,
         SignalShutdown
    <2> QED
      BY <2>1, <2>2, Elsewhere
  <1>5. CASE Crash
    BY <1>5, Elsewhere DEF Crash, Finished, flowVars
  <1>6. CASE UNCHANGED vars
    BY <1>6 DEF vars, flowVars, clientVars, EP!endpointVars
  <1> QED
    BY <1>1, <1>2, <1>3, <1>4, <1>5, <1>6 DEF Next, HookStep

\* What the client sees of its Rtp is an Endpoint: together with RtpEndpoint's
\* refinement, what Client assumes of the Rtp is what the Rtp does.
THEOREM EndpointUse == Spec => UsesEndpoint
  <1>1. Init => EP!Init
    BY DEF Init, EP!Init
  <1> QED
    BY Invariant, <1>1, StepRefines, PTL DEF Spec, UsesEndpoint, EP!Spec

-----------------------------------------------------------------------------
(* The client's threads are those of MicFlow, on which the proofs about    *)
(* the audio rest.                                                         *)

\* Until its thread is created the microphone is about to be set up, and the
\* flags that a failing constructor raises for nobody are not seen.
F == INSTANCE MicFlow WITH
       mic         <- IF mic = "none" THEN "setup" ELSE mic,
       healthy     <- mic = "none" \/ healthy,
       should_stop <- mic # "none" /\ should_stop

\* Main's stores, the hook and the microphone thread do what MicFlow allows
\* them to do, and never anything else.
UsesFlow == F!FlowSpec

\* The thread is there whenever somebody watches, stops or joins it; it is the
\* only one that makes a client unhealthy that has it; and before it came nobody
\* raised a flag but a constructor without a decoder.
Spawned ==
  /\ main \in {"watch"} \union Stopping \union Destroying => mic # "none"
  /\ mic # "none" /\ ~healthy => mic \in {"unhealthy", "stopping", "ended"}
  /\ main \in Constructing \ {"no_decoder"} => healthy /\ ~should_stop

LEMMA MainSpawned == IInv /\ Spawned /\ MainStep => Spawned'
  <1> SUFFICES ASSUME IInv, Spawned, MainStep PROVE Spawned'
    OBVIOUS
  <1> USE DEF Spawned, Constructing, Stopping, Destroying, flowVars, flags
  <1>1. CASE CreateDecoderFails \/ NoDecoder \/ NoAudioBackend
             \/ ConnectGivesUp \/ BackoffShutdown
    <2>1. mic = "none"
      BY <1>1 DEF CreateDecoderFails, NoDecoder, NoAudioBackend, FirstUse,
         ConnectGivesUp, BackoffShutdown, IInv, MicLives
    <2> QED
      BY <1>1, <2>1 DEF CreateDecoderFails, NoDecoder, StopRecording,
         NoAudioBackend, ConnectGivesUp, BackoffShutdown, SetError, Throw
  <1>2. CASE CreateDecoder \/ ConnectContext \/ ContextReady
             \/ InstallCallback \/ Connect \/ ConnectFails \/ BackoffEnds
             \/ SpawnFails
    BY <1>2 DEF CreateDecoder, ConnectContext, ContextReady, InstallCallback,
       Connect, ConnectFails, BackoffEnds, SpawnFails
  <1>3. CASE Spawn
    BY <1>3 DEF Spawn
  <1>4. CASE UnwindRtp \/ StopRtp
    BY <1>4 DEF UnwindRtp, StopRtp, StopStream
  <1>5. CASE WatchEnds \/ RequestStop \/ RequestQuiet \/ FreeDecoder
             \/ Join \/ FreeMembers
    BY <1>5 DEF WatchEnds, RequestStop, StoreShouldStop, RequestQuiet,
       StopRecording, FreeDecoder, Join, FreeMembers
  <1> QED
    BY <1>1, <1>2, <1>3, <1>4, <1>5 DEF MainStep

LEMMA StepSpawned == IInv /\ Spawned /\ [Next]_vars => Spawned'
  <1> SUFFICES ASSUME IInv, Spawned, [Next]_vars PROVE Spawned'
    OBVIOUS
  <1>1. CASE MainStep
    BY <1>1, MainSpawned
  <1> USE DEF Spawned, Constructing, Stopping, Destroying, flags
  <1>2. CASE HookStep \/ Signal
    BY <1>2 DEF HookStep, HookArrives, HookReturns, RecvAdmit, RecvDone, Signal,
       SignalShutdown, Running, clientVars
  <1>3. CASE MicSetup \/ MicStep
    <2>1. main' = main /\ mic # "none"
      BY <1>3 DEF MicSetup, SetupDone, MicStep, MicRuns, LoopExit, LoopEnter,
         Callback, CallbackEnter, PopFrame, DecodeDone, CallbackReturn,
         WriteDone, Fail, SetUnhealthy, SetStop, SetQuiet, Running, clientVars
    <2>2. main \notin Constructing
      BY <2>1 DEF IInv, MicLives
    <2>3. CASE SetUnhealthy \/ SetStop \/ SetQuiet
      BY <2>1, <2>2, <2>3 DEF SetUnhealthy, SetStop, SetQuiet
    <2>4. CASE SetupDone \/ Fail \/ LoopExit \/ LoopEnter \/ Callback
               \/ WriteDone
      BY <2>1, <2>2, <2>4 DEF SetupDone, Fail, LoopExit, LoopEnter, Callback,
         CallbackEnter, PopFrame, DecodeDone, CallbackReturn, WriteDone
    <2> QED
      BY <1>3, <2>3, <2>4 DEF MicSetup, MicStep, MicRuns
  <1>4. CASE Crash \/ UNCHANGED vars
    BY <1>4 DEF Crash, vars, flowVars, clientVars
  <1> QED
    BY <1>1, <1>2, <1>3, <1>4 DEF Next

LEMMA SpawnedHolds == Spec => []Spawned
  <1>1. Init => Spawned
    BY DEF Init, Spawned, Constructing, Stopping, Destroying
  <1> QED
    BY Invariant, <1>1, StepSpawned, PTL DEF Spec

LEMMA MainUsesFlow == IInv /\ Spawned /\ MainStep => [F!FlowNext]_F!flowVars
  <1> SUFFICES ASSUME IInv, Spawned, MainStep PROVE [F!FlowNext]_F!flowVars
    OBVIOUS
  <1> USE DEF F!flowVars, F!flags, flowVars, flags
  <1>1. CASE ConnectGivesUp \/ BackoffShutdown \/ NoDecoder
    <2>1. mic = "none" /\ (SetError \/ StopRecording)
      BY <1>1 DEF ConnectGivesUp, BackoffShutdown, NoDecoder, IInv, MicLives,
         Constructing
    <2>2. F!StopRecording
      BY <2>1 DEF SetError, StopRecording, F!StopRecording
    <2> QED
      BY <2>2 DEF F!FlowNext, F!Others
  <1>2. CASE NoAudioBackend \/ ConnectContext \/ ContextReady
             \/ CreateDecoder \/ InstallCallback \/ Connect
             \/ ConnectFails \/ BackoffEnds \/ SpawnFails \/ UnwindRtp
             \/ WatchEnds \/ StopRtp \/ FreeDecoder \/ Join \/ FreeMembers
    <2>1. UNCHANGED flowVars
      BY <1>2 DEF NoAudioBackend, ConnectContext, ContextReady, CreateDecoder,
         InstallCallback, Connect,
         ConnectFails, BackoffEnds, SpawnFails, UnwindRtp, WatchEnds, StopRtp,
         FreeDecoder, Join, FreeMembers
    <2> QED
      BY <2>1
  <1>3. CASE Spawn
    BY <1>3 DEF Spawn, IInv, MicLives, Spawned, Constructing
  <1>4. CASE RequestStop
    <2>1. mic # "none" /\ StoreShouldStop
      BY <1>4 DEF RequestStop, Spawned, Stopping
    <2>2. F!StoreShouldStop
      BY <2>1 DEF StoreShouldStop, F!StoreShouldStop
    <2> QED
      BY <2>2 DEF F!FlowNext, F!Others
  <1>5. CASE RequestQuiet
    BY <1>5 DEF RequestQuiet, StopRecording, F!StopRecording, F!FlowNext,
       F!Others
  <1>6. CASE CreateDecoderFails
    <2>1. mic = "none"
      BY <1>6 DEF CreateDecoderFails, IInv, MicLives, Constructing
    <2> QED
      BY <1>6, <2>1 DEF CreateDecoderFails
  <1> QED
    BY <1>1, <1>2, <1>3, <1>4, <1>5, <1>6 DEF MainStep

LEMMA StepUsesFlow == IInv /\ Spawned /\ [Next]_vars => [F!FlowNext]_F!flowVars
  <1> SUFFICES ASSUME IInv, Spawned, [Next]_vars
               PROVE  [F!FlowNext]_F!flowVars
    OBVIOUS
  <1>1. CASE MainStep
    BY <1>1, MainUsesFlow
  <1> USE DEF flags, F!flags
  <1>2. CASE HookArrives
    <2>1. F!RecvAdmit
      BY <1>2 DEF HookArrives, RecvAdmit, F!RecvAdmit
    <2> QED
      BY <2>1 DEF F!FlowNext, F!Hook
  <1>3. CASE HookReturns
    <2>1. F!RecvDone
      BY <1>3 DEF HookReturns, RecvDone, F!RecvDone
    <2> QED
      BY <2>1 DEF F!FlowNext, F!Hook
  <1>4. CASE Signal
    <2>1. F!SignalShutdown
      BY <1>4 DEF Signal, SignalShutdown, F!SignalShutdown
    <2> QED
      BY <2>1 DEF F!FlowNext, F!Others
  <1>5. CASE MicSetup \/ MicStep
    <2>1. CASE SetupDone
      BY <2>1 DEF SetupDone, F!SetupDone, F!Mic, F!FlowNext
    <2>2. CASE Fail
      BY <2>2 DEF Fail, F!Fail, F!Mic, F!FlowNext
    <2>3. CASE LoopExit \/ LoopEnter \/ WriteDone
      BY <2>3 DEF LoopExit, LoopEnter, WriteDone, F!LoopExit, F!LoopEnter,
         F!WriteDone, F!MicRuns, F!Mic, F!FlowNext
    <2>4. CASE CallbackEnter
      BY <2>4 DEF CallbackEnter, F!CallbackEnter, F!Callback, F!MicRuns, F!Mic,
         F!FlowNext
    <2>5. CASE PopFrame \/ DecodeDone
      BY <2>5 DEF PopFrame, DecodeDone, F!PopFrame, F!DecodeDone, F!Callback,
         F!MicRuns, F!Mic, F!FlowNext
    <2>6. CASE CallbackReturn
      BY <2>6 DEF CallbackReturn, F!CallbackReturn, F!Callback, F!MicRuns,
         F!Mic, F!FlowNext
    <2>7. CASE SetUnhealthy
      BY <2>7 DEF SetUnhealthy, F!SetUnhealthy, F!MicRuns, F!Mic, F!FlowNext
    <2>8. CASE SetStop \/ SetQuiet
      BY <2>8 DEF SetStop, SetQuiet, F!SetStop, F!SetQuiet, F!MicRuns, F!Mic,
         F!FlowNext
    <2> QED
      BY <1>5, <2>1, <2>2, <2>3, <2>4, <2>5, <2>6, <2>7, <2>8
         DEF MicSetup, MicStep, MicRuns, Callback
  <1>6. CASE Crash \/ UNCHANGED vars
    BY <1>6 DEF Crash, vars, flowVars, F!flowVars
  <1> QED
    BY <1>1, <1>2, <1>3, <1>4, <1>5, <1>6 DEF Next, HookStep

\* Playback, which has the audio, implements MicFlow (FlowRefinement), and so
\* does the life of the Client object around it: what the data path is proved
\* to do whatever MicFlow's other threads do, it does in this program.
THEOREM FlowUse == Spec => UsesFlow
  <1>1. Init => F!FlowInit
    BY DEF Init, F!FlowInit
  <1> QED
    BY Invariant, SpawnedHolds, <1>1, StepUsesFlow, PTL
       DEF Spec, UsesFlow, F!FlowSpec

-----------------------------------------------------------------------------
(* The join in ~Client.                                                    *)

\* What the microphone thread still has to do before it ends, once it has to.
MicToGo ==
  CASE mic = "setup"    -> 4              [] mic = "loop"      -> 1
    [] mic = "call"     -> 2              [] mic = "write"     -> 4
    [] mic = "fill"     -> 5 + 2 * queued [] mic = "decode"    -> 6 + 2 * queued
    [] mic = "failing"  -> 3              [] mic = "unhealthy" -> 2
    [] mic = "stopping" -> 1              [] OTHER             -> 0

\* The thread that ~Client joins was created, gets no more frames, and sees the
\* one flag that its place looks at: also when it set playback again after
\* request_shutdown cleared it.
JoinsTheStopped ==
  main = "join" =>
    /\ mic # "none" /\ hook = "idle" /\ should_stop
    /\ mic \in {"setup"} \union InLoop => shutdown_requested

\* While ~Client waits, each step of the thread brings it closer to its end: it
\* cannot go round the loop again, and the queue only runs dry.
JoinGetsCloser ==
  [][(main = "join" /\ main' = main)
       => (mic' = mic /\ queued' = queued) \/ MicToGo' < MicToGo]_vars

LEMMA Joins == IInv /\ Spawned => JoinsTheStopped
  <1> SUFFICES ASSUME IInv, Spawned, main = "join" PROVE JoinsTheStopped
    BY DEF JoinsTheStopped
  <1>1. mic # "none" /\ rtp = "stopped" /\ Ending /\ should_stop
    BY DEF Spawned, IInv, Members, Causes, Destroying
  <1>2. hook = "idle"
    BY <1>1 DEF IInv, Members, TypeOK
  <1>3. mic \in {"setup"} \union InLoop => shutdown_requested
    BY <1>1 DEF Spawned, Ending, InLoop
  <1> QED
    BY <1>1, <1>2, <1>3 DEF JoinsTheStopped

\* The safety part of Terminates at the one place where main waits for the
\* other thread.
THEOREM JoinIsFinite == Spec => []JoinsTheStopped /\ JoinGetsCloser
  <1>1. IInv /\ Spawned /\ [Next]_vars =>
          [(main = "join" /\ main' = main)
             => (mic' = mic /\ queued' = queued) \/ MicToGo' < MicToGo]_vars
    <2> SUFFICES ASSUME IInv, Spawned, Next, main = "join", main' = main
                 PROVE  (mic' = mic /\ queued' = queued) \/ MicToGo' < MicToGo
      OBVIOUS
    <2>1. JoinsTheStopped /\ queued \in Nat
      BY Joins DEF IInv, TypeOK
    <2>2. CASE MainStep
      BY <2>2 DEF MainStep, CreateDecoder, CreateDecoderFails, FirstUse,
         ConnectContext, ContextReady, NoDecoder, InstallCallback,
         NoAudioBackend, Connect, ConnectFails, ConnectGivesUp, BackoffEnds,
         BackoffShutdown, Spawn, SpawnFails, UnwindRtp, WatchEnds, RequestStop,
         StopRtp, RequestQuiet, FreeDecoder, Join, FreeMembers
    <2>3. CASE HookStep
      BY <2>1, <2>3 DEF HookStep, HookArrives, HookReturns, RecvAdmit, RecvDone,
         JoinsTheStopped
    <2>4. CASE Signal \/ Crash
      BY <2>4 DEF Signal, SignalShutdown, Crash
    <2>5. CASE MicSetup \/ MicStep
      <3>1. CASE PopFrame
        <4>1. /\ queued' = queued - 1 /\ mic = "fill" /\ mic' = "decode"
          BY <3>1 DEF PopFrame
        <4>2. MicToGo = 5 + 2 * queued /\ MicToGo' = 6 + 2 * (queued - 1)
          BY <4>1 DEF MicToGo
        <4> QED
          BY <2>1, <4>2
      <3>2. CASE DecodeDone
        <4>1. queued' = queued /\ mic = "decode" /\ mic' = "fill"
          BY <3>2 DEF DecodeDone
        <4>2. MicToGo = 6 + 2 * queued /\ MicToGo' = 5 + 2 * queued
          BY <4>1 DEF MicToGo
        <4> QED
          BY <2>1, <4>2
      <3>3. CASE CallbackReturn \/ (Fail /\ mic = "decode")
        <4>1. /\ queued' = queued /\ mic \in {"fill", "decode"}
              /\ mic' \in {"write", "loop", "failing"}
          BY <3>3 DEF CallbackReturn, Fail
        <4>2. MicToGo >= 5 + 2 * queued /\ MicToGo' <= 4
          BY <2>1, <4>1 DEF MicToGo
        <4> QED
          BY <2>1, <4>1, <4>2 DEF MicToGo
      <3>4. CASE SetupDone \/ (Fail /\ mic # "decode") \/ LoopExit \/ LoopEnter
                 \/ CallbackEnter \/ WriteDone \/ SetUnhealthy \/ SetStop
                 \/ SetQuiet
        <4>1. <<mic, mic'>> \in
                {<<"setup", "loop">>, <<"setup", "failing">>,
                 <<"write", "failing">>, <<"loop", "ended">>,
                 <<"call", "loop">>, <<"write", "loop">>,
                 <<"failing", "unhealthy">>, <<"failing", "ended">>,
                 <<"unhealthy", "stopping">>, <<"stopping", "ended">>}
          BY <2>1, <3>4 DEF SetupDone, Fail, LoopExit, LoopEnter,
             CallbackEnter, WriteDone, SetUnhealthy, SetStop, SetQuiet,
             JoinsTheStopped, InLoop
        <4> QED
          BY <4>1 DEF MicToGo
      <3> QED
        BY <2>5, <3>1, <3>2, <3>3, <3>4 DEF MicSetup, MicStep, MicRuns, Callback
    <2> QED
      BY <2>2, <2>3, <2>4, <2>5 DEF Next
  <1> QED
    BY Invariant, SpawnedHolds, Joins, <1>1, PTL DEF Spec, JoinGetsCloser

=============================================================================
