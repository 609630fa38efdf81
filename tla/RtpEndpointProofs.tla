------------------------- MODULE RtpEndpointProofs -------------------------
(***************************************************************************)
(* Proofs about RtpEndpoint for any number of threads and attempts, and    *)
(* that it implements Endpoint.                                            *)
(***************************************************************************)
EXTENDS RtpEndpoint, Integers, TLAPS

Held == {"push", "exchange", "destroy_stream", "wait", "destroy_session"}
Tearing == {"destroy_stream", "wait", "destroy_session"}

\* While it is being constructed nobody knows the object.
Fresh ==
  life \in Building \union {"failed"} =>
    /\ \A t \in Threads : pc[t] = "idle"
    /\ ~stopped /\ ~returned /\ hook = "idle"
    /\ stream = (IF life = "install_hook" THEN "open" ELSE "null")
    /\ session = IF life \in {"create_stream", "install_hook"} THEN attempt
                                                               ELSE 0
    /\ life = "create_session" => attempt \notin sessions
    /\ life = "install_hook" => ~sending
    /\ life = "backoff" => attempt < MaxAttempts

\* The mutex is held by the one thread that is past it.
Exclusive == \A t \in Threads : pc[t] \in Held <=> teardown_mutex = t

\* How far the teardown is, by the flag and the place of the thread in it.
Teardown ==
  life \notin Building \union {"failed"} =>
    /\ session \in {0, attempt} /\ (attempt \in sessions <=> session = attempt)
    /\ ~stopped => stream = "open" /\ session = attempt /\ ~returned
                   /\ \A t \in Threads : pc[t] \notin Tearing
    /\ stopped /\ (\A t \in Threads : pc[t] \notin Tearing)
         => stream = "null" /\ session = 0
    /\ \A t \in Threads :
         /\ pc[t] \in Tearing => session = attempt /\ ~returned
         /\ pc[t] = "destroy_stream" => stream = "open"
         /\ pc[t] = "wait" => stream = "closing"
         /\ pc[t] = "destroy_session" => stream = "null"
         /\ pc[t] = "push" => ~stopped /\ sending
    /\ hook = "running" => stream # "null" /\ ~sending

Ending ==
  /\ life = "destructor" => \A t \in Threads \ {Owner} : pc[t] = "idle"
  /\ life = "gone" => stopped /\ \A t \in Threads : pc[t] = "idle"

IInv == TypeOK /\ Fresh /\ Exclusive /\ Teardown /\ Ending

-----------------------------------------------------------------------------
LEMMA InitIInv == Init => IInv
  <1> SUFFICES ASSUME Init PROVE IInv
    OBVIOUS
  <1> USE RtpEndpointAssumption DEF Init, Building
  <1>1. attempt \in 1..MaxAttempts /\ sessions \in SUBSET (1..attempt)
    OBVIOUS
  <1>2. TypeOK
    BY <1>1 DEF TypeOK, Lives
  <1>3. Fresh /\ Exclusive /\ Teardown /\ Ending
    BY DEF Fresh, Exclusive, Held, Teardown, Ending
  <1> QED
    BY <1>2, <1>3 DEF IInv

LEMMA ConstructStep == IInv /\ Construct => IInv'
  <1> SUFFICES ASSUME IInv, Construct PROVE IInv'
    OBVIOUS
  <1> USE RtpEndpointAssumption
      DEF IInv, TypeOK, Lives, Building, Fresh, Exclusive, Teardown, Ending,
          object, calls, Held, Tearing
  <1>1. CASE CreateSession
    BY <1>1 DEF CreateSession
  <1>2. CASE CreateStream
    BY <1>2 DEF CreateStream
  <1>3. CASE InstallHook
    BY <1>3 DEF InstallHook
  <1>4. CASE ConstructorThrows
    BY <1>4 DEF ConstructorThrows
  <1>5. CASE Retry
    BY <1>5 DEF Retry
  <1>6. CASE GiveUp
    BY <1>6 DEF GiveUp
  <1> QED
    BY <1>1, <1>2, <1>3, <1>4, <1>5, <1>6 DEF Construct

LEMMA CallStep ==
  ASSUME IInv, NEW t \in Threads,
         WriteFrames(t) \/ Push(t) \/ CallStop(t) \/ StopStep(t)
  PROVE  IInv'
  <1> USE RtpEndpointAssumption DEF IInv, TypeOK, object, calls, Goto, Keep,
          Lock, Unlock
  <1>1. CASE WriteFrames(t)
    <2>1. TypeOK'
      BY <1>1 DEF WriteFrames, Lives, Building, InStop
    <2>2. life \notin Building \union {"failed"}
      BY <1>1 DEF WriteFrames, Fresh, InStop
    <2>3. Fresh'
      BY <1>1, <2>2 DEF WriteFrames, Fresh, Building
    <2>4. Exclusive'
      BY <1>1 DEF WriteFrames, Exclusive, Held
    <2>5. Teardown'
      BY <1>1, <2>2 DEF WriteFrames, Teardown, Exclusive, Held, Tearing, Building
    <2>6. Ending'
      BY <1>1, <2>2 DEF WriteFrames, Ending, Exclusive, Held, Teardown, Tearing
    <2> QED
      BY <2>1, <2>3, <2>4, <2>5, <2>6
  <1>2. CASE Push(t)
    <2>1. TypeOK'
      BY <1>2 DEF Push, Lives, Building, InStop
    <2>2. life \notin Building \union {"failed"}
      BY <1>2 DEF Push, Fresh, InStop
    <2>3. Fresh'
      BY <1>2, <2>2 DEF Push, Fresh, Building
    <2>4. Exclusive'
      BY <1>2 DEF Push, Exclusive, Held
    <2>5. Teardown'
      BY <1>2, <2>2 DEF Push, Teardown, Exclusive, Held, Tearing, Building
    <2>6. Ending'
      BY <1>2, <2>2 DEF Push, Ending, Exclusive, Held, Teardown, Tearing
    <2> QED
      BY <2>1, <2>3, <2>4, <2>5, <2>6
  <1>3. CASE CallStop(t)
    <2>1. TypeOK'
      <3>1. pc' \in [Threads -> {"idle", "push"} \union InStop]
        BY <1>3 DEF CallStop, InStop
      <3> QED
        BY <1>3, <3>1 DEF CallStop
    <2>2. life \notin Building \union {"failed"}
      BY <1>3 DEF CallStop, Building
    <2>3. Fresh'
      BY <1>3, <2>2 DEF CallStop, Fresh, Building
    <2>4. Exclusive'
      BY <1>3 DEF CallStop, Exclusive, Held
    <2>5. Teardown'
      BY <1>3, <2>2 DEF CallStop, Teardown, Exclusive, Held, Tearing, Building
    <2>6. Ending'
      BY <1>3, <2>2 DEF CallStop, Ending, Exclusive, Held, Teardown, Tearing
    <2> QED
      BY <2>1, <2>3, <2>4, <2>5, <2>6
  <1>4. CASE StopLock(t)
    <2>1. TypeOK'
      BY <1>4 DEF StopLock, Lives, Building, InStop
    <2>2. life \notin Building \union {"failed"}
      BY <1>4 DEF StopLock, Fresh, InStop
    <2>3. Fresh'
      BY <1>4, <2>2 DEF StopLock, Fresh, Building
    <2>4. Exclusive'
      BY <1>4 DEF StopLock, Exclusive, Held
    <2>5. Teardown'
      BY <1>4, <2>2 DEF StopLock, Teardown, Exclusive, Held, Tearing, Building
    <2>6. Ending'
      BY <1>4, <2>2 DEF StopLock, Ending, Exclusive, Held, Teardown, Tearing
    <2> QED
      BY <2>1, <2>3, <2>4, <2>5, <2>6
  <1>5. CASE StoppedBefore(t)
    <2>1. TypeOK'
      BY <1>5 DEF StoppedBefore, Return, Lives, Building, InStop
    <2>2. life \notin Building \union {"failed"}
      BY <1>5 DEF StoppedBefore, Fresh, InStop
    <2>3. Fresh'
      BY <1>5, <2>2 DEF StoppedBefore, Return, Fresh, Building
    <2>4. Exclusive'
      BY <1>5 DEF StoppedBefore, Return, Exclusive, Held
    <2>5. Teardown'
      BY <1>5, <2>2 DEF StoppedBefore, Return, Teardown, Exclusive, Held, Tearing, Building
    <2>6. Ending'
      BY <1>5, <2>2 DEF StoppedBefore, Return, Ending, Exclusive, Held, Teardown, Tearing
    <2> QED
      BY <2>1, <2>3, <2>4, <2>5, <2>6
  <1>6. CASE Exchange(t)
    <2>1. TypeOK'
      BY <1>6 DEF Exchange, Lives, Building, InStop
    <2>2. life \notin Building \union {"failed"}
      BY <1>6 DEF Exchange, Fresh, InStop
    <2>3. Fresh'
      BY <1>6, <2>2 DEF Exchange, Fresh, Building
    <2>4. Exclusive'
      BY <1>6 DEF Exchange, Exclusive, Held
    <2>5. Teardown'
      BY <1>6, <2>2 DEF Exchange, Teardown, Exclusive, Held, Tearing, Building
    <2>6. Ending'
      BY <1>6, <2>2 DEF Exchange, Ending, Exclusive, Held, Teardown, Tearing
    <2> QED
      BY <2>1, <2>3, <2>4, <2>5, <2>6
  <1>7. CASE DestroyStream(t)
    <2>1. TypeOK'
      BY <1>7 DEF DestroyStream, Lives, Building, InStop
    <2>2. life \notin Building \union {"failed"}
      BY <1>7 DEF DestroyStream, Fresh, InStop
    <2>3. Fresh'
      BY <1>7, <2>2 DEF DestroyStream, Fresh, Building
    <2>4. Exclusive'
      BY <1>7 DEF DestroyStream, Exclusive, Held
    <2>5. Teardown'
      BY <1>7, <2>2 DEF DestroyStream, Teardown, Exclusive, Held, Tearing, Building
    <2>6. Ending'
      BY <1>7, <2>2 DEF DestroyStream, Ending, Exclusive, Held, Teardown, Tearing
    <2> QED
      BY <2>1, <2>3, <2>4, <2>5, <2>6
  <1>8. CASE StreamDestroyed(t)
    <2>1. TypeOK'
      BY <1>8 DEF StreamDestroyed, Lives, Building, InStop
    <2>2. life \notin Building \union {"failed"}
      BY <1>8 DEF StreamDestroyed, Fresh, InStop
    <2>3. Fresh'
      BY <1>8, <2>2 DEF StreamDestroyed, Fresh, Building
    <2>4. Exclusive'
      BY <1>8 DEF StreamDestroyed, Exclusive, Held
    <2>5. Teardown'
      BY <1>8, <2>2 DEF StreamDestroyed, Teardown, Exclusive, Held, Tearing, Building
    <2>6. Ending'
      BY <1>8, <2>2 DEF StreamDestroyed, Ending, Exclusive, Held, Teardown, Tearing
    <2> QED
      BY <2>1, <2>3, <2>4, <2>5, <2>6
  <1>9. CASE DestroySession(t)
    <2>1. TypeOK'
      BY <1>9 DEF DestroySession, Return, Lives, Building, InStop
    <2>2. life \notin Building \union {"failed"}
      BY <1>9 DEF DestroySession, Fresh, InStop
    <2>3. Fresh'
      BY <1>9, <2>2 DEF DestroySession, Return, Fresh, Building
    <2>4. Exclusive'
      BY <1>9 DEF DestroySession, Return, Exclusive, Held
    <2>5. Teardown'
      BY <1>9, <2>2 DEF DestroySession, Return, Teardown, Exclusive, Held, Tearing, Building
    <2>6. Ending'
      BY <1>9, <2>2 DEF DestroySession, Return, Ending, Exclusive, Held, Teardown, Tearing
    <2> QED
      BY <2>1, <2>3, <2>4, <2>5, <2>6
  <1> QED
    BY <1>1, <1>2, <1>3, <1>4, <1>5, <1>6, <1>7, <1>8, <1>9 DEF StopStep

LEMMA StepIInv == IInv /\ [Next]_vars => IInv'
  <1> SUFFICES ASSUME IInv, [Next]_vars PROVE IInv'
    OBVIOUS
  <1>1. CASE Construct
    BY <1>1, ConstructStep
  <1>2. CASE \E t \in Threads :
               WriteFrames(t) \/ Push(t) \/ CallStop(t) \/ StopStep(t)
    BY <1>2, CallStep
  <1>3. CASE Destructor
    <2>1. /\ life = "alive" /\ life' = "destructor"
          /\ UNCHANGED <<sending, attempt, sessions, session, stream, stopped,
                         hook, teardown_mutex, returned>>
          /\ \A t \in Threads : pc[t] = "idle"
      BY <1>3 DEF Destructor, object
    <2>2. pc' \in [Threads -> {"idle", "push"} \union InStop]
      BY <1>3 DEF Destructor, Goto, IInv, TypeOK, InStop
    <2>3. \A t \in Threads : pc'[t] = IF t = Owner THEN "lock" ELSE "idle"
      BY <1>3, <2>1 DEF Destructor, Goto, IInv, TypeOK
    <2>4. \A t \in Threads : pc'[t] \notin Held \union Tearing
      BY <2>3 DEF Held, Tearing
    <2>5. TypeOK'
      BY <2>1, <2>2 DEF IInv, TypeOK, Lives
    <2>6. Fresh' /\ Ending'
      BY <2>1, <2>3 DEF Fresh, Ending, Building
    <2>7. Exclusive'
      BY <2>1, <2>4 DEF IInv, Exclusive, Held
    <2>8. Teardown'
      BY <2>1, <2>4 DEF IInv, Teardown, Tearing, Building, Held
    <2> QED
      BY <2>5, <2>6, <2>7, <2>8 DEF IInv
  <1>4. CASE HookRuns \/ HookReturns
    <2> USE <1>4, RtpEndpointAssumption
        DEF HookRuns, HookReturns, IInv, TypeOK, Keep, object, calls
    <2>1. TypeOK' /\ Exclusive' /\ Ending'
      BY DEF Exclusive, Ending
    <2>2. Fresh'
      BY DEF Fresh, Building
    <2>3. Teardown'
      BY DEF Teardown
    <2> QED
      BY <2>1, <2>2, <2>3
  <1>5. CASE UNCHANGED vars
    BY <1>5 DEF vars, object, calls, IInv, TypeOK, Fresh, Exclusive, Teardown,
       Ending
  <1> HIDE DEF IInv
  <1> QED
    BY <1>1, <1>2, <1>3, <1>4, <1>5 DEF Next

LEMMA Invariant == Spec => []IInv
  BY InitIInv, StepIInv, PTL DEF Spec

-----------------------------------------------------------------------------
\* The types of the endpoint, for any number of threads and attempts.
THEOREM TypeCorrect == Spec => []TypeOK
  <1>1. IInv => TypeOK
    BY DEF IInv
  <1> QED
    BY Invariant, <1>1, PTL

\* An Rtp that was constructed closes its session whoever stops it; uvgRTP
\* keeps only the sessions of constructors that threw.
THEOREM NoSessionLeaks == Spec => []OnlyFailuresLeak
  <1>1. IInv => OnlyFailuresLeak
    <2> SUFFICES ASSUME IInv PROVE OnlyFailuresLeak
      OBVIOUS
    <2>1. life \notin Building \union {"failed"}
            => (attempt \in sessions <=> session = attempt)
      BY DEF IInv, Teardown
    <2>2. life = "gone" => session = 0
      BY DEF IInv, Ending, Teardown, Building, Tearing
    <2>3. attempt # 0
      BY RtpEndpointAssumption DEF IInv, TypeOK
    <2> QED
      BY <2>1, <2>2, <2>3 DEF OnlyFailuresLeak, Building
  <1> QED
    BY Invariant, <1>1, PTL

\* After any call of stop has returned, the stream is gone and nobody is inside
\* it, however many threads stop and write.
THEOREM StopIsFinal == Spec => []StopMeansStopped
  <1>1. IInv => StopMeansStopped
    <2> SUFFICES ASSUME IInv, returned PROVE StopMeansStopped
      BY DEF StopMeansStopped
    <2>1. life \notin Building \union {"failed"}
      BY DEF IInv, Fresh
    <2>2. stopped /\ \A t \in Threads : pc[t] \notin Tearing
      BY <2>1 DEF IInv, Teardown
    <2>3. stream = "null" /\ session = 0
      BY <2>1, <2>2 DEF IInv, Teardown
    <2>4. hook = "idle" /\ \A t \in Threads : pc[t] # "push"
      BY <2>1, <2>2, <2>3 DEF IInv, TypeOK, Teardown
    <2> QED
      BY <2>2, <2>3, <2>4 DEF StopMeansStopped
  <1> QED
    BY Invariant, <1>1, PTL

-----------------------------------------------------------------------------
(* The refinement.                                                         *)

LEMMA InitRefines == Init => EP!Init
  BY RtpEndpointAssumption DEF Init, EP!Init, Phase, InUse, Building

\* A step inside the constructors is Start, Fail or a stutter.
LEMMA ConstructRefines ==
  IInv /\ Construct => EP!Start \/ EP!Fail \/ UNCHANGED EP!endpointVars
  <1> SUFFICES ASSUME IInv, Construct
               PROVE  EP!Start \/ EP!Fail \/ UNCHANGED EP!endpointVars
    OBVIOUS
  <1>1. InUse' = InUse
    BY DEF Construct, CreateSession, CreateStream, InstallHook,
       ConstructorThrows, Retry, GiveUp, calls, InUse
  <1>2. Phase = "building"
    BY DEF Construct, CreateSession, CreateStream, InstallHook,
       ConstructorThrows, Retry, GiveUp, Phase, Building
  <1>3. stream' = "open" \/ life' # "alive"
    BY DEF Construct, CreateSession, CreateStream, InstallHook,
       ConstructorThrows, Retry, GiveUp, object, IInv, Fresh, Building
  <1>4. life' \in Building \union {"failed", "alive"}
    BY DEF Construct, CreateSession, CreateStream, InstallHook,
       ConstructorThrows, Retry, GiveUp, Building
  <1>5. Phase' \in {"building", "failed", "active"}
    BY <1>3, <1>4 DEF Phase, Building
  <1> QED
    BY <1>1, <1>2, <1>5 DEF EP!Start, EP!Fail, EP!endpointVars

\* Which phase it is, and who is inside, when a thread may act.
LEMMA Seen ==
  ASSUME IInv, life \notin Building \union {"failed"}
  PROVE  /\ stream = "open" => Phase = "active"
         /\ stream = "closing" => Phase = "stopping"
         /\ stream = "null" => Phase = "stopped"
         /\ \A t \in Threads : pc[t] = "push" => stream = "open"
  BY DEF IInv, Teardown, Phase

LEMMA CallRefines ==
  ASSUME IInv, IInv', NEW t \in Threads,
         WriteFrames(t) \/ Push(t) \/ CallStop(t) \/ StopStep(t)
  PROVE  [EP!Next]_EP!endpointVars
  <1> DEFINE Abstract == [EP!Next]_EP!endpointVars
  <1>1. /\ life \notin Building \union {"failed"}
        /\ life' \notin Building \union {"failed"}
    <2>1. pc[t] # "idle" \/ life = "alive"
      BY DEF WriteFrames, CallStop, Push, StopStep, StopLock, StoppedBefore,
         Exchange, DestroyStream, StreamDestroyed, DestroySession
    <2>2. life \notin Building \union {"failed"}
      BY <2>1 DEF IInv, Fresh, Building
    <2>3. life' \in {life, "gone"}
      BY DEF WriteFrames, CallStop, Push, StopStep, StopLock, StoppedBefore,
         Exchange, DestroyStream, StreamDestroyed, DestroySession, Keep, Return
    <2> QED
      BY <2>2, <2>3 DEF Building
  <1>2. /\ stream' = stream => Phase' = Phase
        /\ stream \in {"null", "open", "closing"}
    BY <1>1 DEF Phase, IInv, TypeOK
  <1>3. pc \in [Threads -> {"idle", "push"} \union InStop]
    BY DEF IInv, TypeOK
  <1>4. CASE WriteFrames(t)
    <2>1. stream = "open" /\ stream' = stream
      BY <1>1, <1>4, Zenon DEF WriteFrames, IInv, Teardown, object
    <2>2. ~InUse
      BY <1>1, <1>4, RtpEndpointAssumption
         DEF WriteFrames, Lock, InUse, IInv, TypeOK, Teardown, Exclusive, Held
    <2>3. InUse'
      BY <1>3, <1>4 DEF WriteFrames, Goto, InUse
    <2> QED
      BY <1>1, <1>2, <2>1, <2>2, <2>3, Seen DEF EP!Next, EP!Enter
  <1>5. CASE Push(t)
    <2>1. stream' = stream /\ InUse
      BY <1>5 DEF Push, object, InUse
    <2>2. ~InUse'
      BY <1>1, <1>3, <1>5 DEF Push, Goto, InUse, IInv, TypeOK, Teardown,
         Exclusive, Held
    <2> QED
      BY <1>2, <2>1, <2>2 DEF EP!Next, EP!Leave
  <1>6. CASE CallStop(t) \/ StopLock(t) \/ StoppedBefore(t) \/ Exchange(t)
             \/ DestroySession(t)
    <2>1. stream' = stream /\ hook' = hook
      BY <1>6 DEF CallStop, StopLock, StoppedBefore, Exchange, DestroySession,
         Return, object
    <2>2. \A u \in Threads : pc'[u] = "push" <=> pc[u] = "push"
      BY <1>3, <1>6 DEF CallStop, StopLock, StoppedBefore, Exchange,
         DestroySession, Return, Goto
    <2> QED
      BY <1>2, <2>1, <2>2 DEF EP!endpointVars, InUse
  <1>7. CASE DestroyStream(t)
    <2>1. stream = "open" /\ stream' = "closing" /\ hook' = hook
      BY <1>1, <1>7 DEF DestroyStream, IInv, Teardown
    <2>2. \A u \in Threads : pc'[u] = "push" <=> pc[u] = "push"
      BY <1>3, <1>7 DEF DestroyStream, Goto
    <2>3. Phase = "active" /\ Phase' = "stopping"
      BY <1>1, <2>1 DEF Phase
    <2> QED
      BY <2>1, <2>2, <2>3 DEF EP!Next, EP!Stop, InUse
  <1>8. CASE StreamDestroyed(t)
    <2>1. stream = "closing" /\ stream' = "null" /\ hook = "idle"
          /\ hook' = hook
      BY <1>1, <1>8 DEF StreamDestroyed, IInv, Teardown
    <2>2. ~InUse /\ InUse' = InUse
      <3>1. \A u \in Threads : pc[u] # "push"
        BY <1>1, <2>1, Seen
      <3>2. \A u \in Threads : pc'[u] # "push"
        BY <1>3, <1>8, <3>1 DEF StreamDestroyed, Goto
      <3> QED
        BY <2>1, <3>1, <3>2 DEF InUse
    <2>3. Phase = "stopping" /\ Phase' = "stopped"
      BY <1>1, <2>1 DEF Phase
    <2> QED
      BY <2>2, <2>3 DEF EP!Next, EP!Stopped
  <1> QED
    BY <1>4, <1>5, <1>6, <1>7, <1>8 DEF StopStep

LEMMA StepRefines ==
  IInv /\ IInv' /\ [Next]_vars => [EP!Next]_EP!endpointVars
  <1> SUFFICES ASSUME IInv, IInv', [Next]_vars
               PROVE  [EP!Next]_EP!endpointVars
    OBVIOUS
  <1>1. CASE Construct
    BY <1>1, ConstructRefines DEF EP!Next
  <1>2. CASE \E t \in Threads :
               WriteFrames(t) \/ Push(t) \/ CallStop(t) \/ StopStep(t)
    BY <1>2, CallRefines
  <1>3. CASE Destructor
    <2>1. stream' = stream /\ hook' = hook
          /\ life = "alive" /\ life' = "destructor"
          /\ \A t \in Threads : pc[t] = "idle"
      BY <1>3 DEF Destructor, object
    <2>2. Phase' = Phase
      BY <2>1 DEF Phase, Building, IInv, TypeOK
    <2>3. \A t \in Threads : pc'[t] # "push"
      BY <1>3, <2>1 DEF Destructor, Goto, IInv, TypeOK
    <2>4. InUse' = InUse
      BY <2>1, <2>3 DEF InUse
    <2> QED
      BY <2>2, <2>4 DEF EP!endpointVars
  <1>4. CASE HookRuns
    <2>1. Phase = "active" /\ Phase' = "active"
      BY <1>4 DEF HookRuns, Keep, object, Phase, Building
    <2>2. ~InUse /\ InUse'
      BY <1>4 DEF HookRuns, InUse, IInv, Teardown, Building
    <2> QED
      BY <2>1, <2>2 DEF EP!Next, EP!Enter
  <1>5. CASE HookReturns
    <2>1. Phase' = Phase
      BY <1>5 DEF HookReturns, Keep, object, Phase
    <2>2. InUse /\ ~InUse'
      BY <1>5 DEF HookReturns, calls, InUse, IInv, Fresh, Teardown
    <2> QED
      BY <2>1, <2>2 DEF EP!Next, EP!Leave
  <1>6. CASE UNCHANGED vars
    BY <1>6 DEF vars, object, calls, EP!endpointVars, Phase, InUse
  <1> QED
    BY <1>1, <1>2, <1>3, <1>4, <1>5, <1>6 DEF Next

\* An Rtp object, with all its threads, constructors and calls, is an Endpoint:
\* after a stop began no hook and no push enters it, and it ends only when the
\* one that was inside has left.
THEOREM Refinement == Spec => ImplementsEndpoint
  BY Invariant, InitRefines, StepRefines, PTL
     DEF Spec, ImplementsEndpoint, EP!Spec

-----------------------------------------------------------------------------
(* Waiting.                                                                *)

\* What a call has to do before it releases the mutex.
ToGo(place) ==
  CASE place = "exchange" -> 4 [] place = "destroy_stream" -> 3
    [] place = "wait" -> 2 [] place \in {"destroy_session", "push"} -> 1
    [] OTHER -> 0

\* A thread that waits for the mutex waits for another one, which is past its
\* own wait for it; and the destructor, which no other call overlaps, for none.
NoCircularWait ==
  \A t \in Threads : pc[t] = "lock" =>
    /\ teardown_mutex # t
    /\ teardown_mutex # NoThread =>
         life = "alive" /\ pc[teardown_mutex] \in Held

\* A call that holds the mutex loses it to nobody, and each of its steps brings
\* the release closer.
Closer(t) ==
  \/ teardown_mutex' = t /\ ToGo(pc'[t]) < ToGo(pc[t])
  \/ teardown_mutex' = t /\ pc'[t] = pc[t]
  \/ teardown_mutex' = NoThread /\ pc'[t] = "idle"

\* So every stop is served; and the frame that a teardown waits for is the last.
HolderGetsCloser ==
  [][/\ \A t \in Threads : teardown_mutex = t => Closer(t)
     /\ (\E t \in Threads : pc[t] = "wait") /\ hook = "idle"
          => hook' = "idle"]_vars

LEMMA HolderOrStranger ==
  ASSUME IInv, NEW t \in Threads, teardown_mutex = t, NEW s \in Threads,
         WriteFrames(s) \/ Push(s) \/ CallStop(s) \/ StopStep(s)
  PROVE  Closer(t)
  <1>1. /\ pc \in [Threads -> {"idle", "push"} \union InStop] /\ t # NoThread
        /\ pc[t] \in Held /\ \A u \in Threads : pc[u] \in Held => u = t
    BY RtpEndpointAssumption DEF IInv, TypeOK, Exclusive
  <1>2. ~WriteFrames(s) /\ ~StopLock(s)
    BY <1>1 DEF WriteFrames, StopLock, Lock
  <1>3. CASE CallStop(s)
    <2>1. s # t /\ pc' = [pc EXCEPT ![s] = "lock"] /\ teardown_mutex' = t
      BY <1>1, <1>3 DEF CallStop, Goto, Held
    <2> QED
      BY <1>1, <2>1 DEF Closer
  <1>4. CASE Push(s) \/ StoppedBefore(s) \/ DestroySession(s)
    <2>1. s = t
      BY <1>1, <1>4 DEF Push, StoppedBefore, DestroySession, Held
    <2>2. teardown_mutex' = NoThread /\ pc' = [pc EXCEPT ![t] = "idle"]
      BY <1>4, <2>1 DEF Push, StoppedBefore, DestroySession, Return, Unlock, Goto
    <2> QED
      BY <1>1, <2>2 DEF Closer
  <1>5. CASE Exchange(s) \/ DestroyStream(s) \/ StreamDestroyed(s)
    <2>1. s = t
      BY <1>1, <1>5 DEF Exchange, DestroyStream, StreamDestroyed, Held
    <2>2. /\ teardown_mutex' = t
          /\ <<pc[t], pc'[t]>> \in {<<"exchange", "destroy_stream">>,
                                  <<"destroy_stream", "wait">>,
                                  <<"wait", "destroy_session">>}
      BY <1>1, <1>5, <2>1 DEF Exchange, DestroyStream, StreamDestroyed, Goto
    <2>3. ToGo(pc'[t]) < ToGo(pc[t])
      BY <2>2 DEF ToGo
    <2> QED
      BY <2>2, <2>3 DEF Closer
  <1> QED
    BY <1>2, <1>3, <1>4, <1>5 DEF StopStep

LEMMA StepGetsCloser ==
  ASSUME IInv, [Next]_vars, NEW t \in Threads, teardown_mutex = t
  PROVE  Closer(t)
  <1>1. pc[t] \in Held
    BY DEF IInv, Exclusive
  <1>2. CASE Construct
    <2>1. pc[t] = "idle"
      BY <1>2 DEF Construct, CreateSession, CreateStream, InstallHook,
         ConstructorThrows, Retry, GiveUp, IInv, Fresh, Building
    <2> QED
      BY <1>1, <2>1 DEF Held
  <1>3. CASE Destructor
    BY <1>1, <1>3 DEF Destructor, Held
  <1>4. CASE HookRuns \/ HookReturns \/ UNCHANGED vars
    BY <1>4 DEF HookRuns, HookReturns, vars, calls, Closer
  <1>5. CASE \E s \in Threads :
               WriteFrames(s) \/ Push(s) \/ CallStop(s) \/ StopStep(s)
    BY <1>5, HolderOrStranger
  <1> QED
    BY <1>2, <1>3, <1>4, <1>5 DEF Next

\* The stream of a teardown that waits delivers nothing more.
LEMMA LastFrame ==
  ASSUME IInv, [Next]_vars, NEW t \in Threads, pc[t] = "wait", hook = "idle"
  PROVE  hook' = "idle"
  <1>1. stream = "closing"
    BY DEF IInv, Fresh, Teardown
  <1>2. ~HookRuns
    BY <1>1 DEF HookRuns
  <1>3. ~Construct
    <2>1. life \notin Building
      BY DEF IInv, Fresh
    <2> QED
      BY <2>1 DEF Construct, CreateSession, CreateStream, InstallHook,
         ConstructorThrows, Retry, GiveUp, Building
  <1> QED
    BY <1>2, <1>3 DEF Next, Destructor, HookReturns, WriteFrames, Push, CallStop,
       StopStep, StopLock, StoppedBefore, Exchange, DestroyStream,
       StreamDestroyed, DestroySession, Return, vars

\* The safety part of StopReturns: no circle of waiting, and no wait that others
\* can prolong but by taking the mutex first.
THEOREM StopIsFinite == Spec => []NoCircularWait /\ HolderGetsCloser
  <1>1. IInv => NoCircularWait
    <2> SUFFICES ASSUME IInv, NEW t \in Threads, pc[t] = "lock"
                 PROVE  /\ teardown_mutex # t
                        /\ teardown_mutex # NoThread =>
                             life = "alive" /\ pc[teardown_mutex] \in Held
      BY DEF NoCircularWait
    <2>1. teardown_mutex # t
      BY DEF IInv, Exclusive, Held
    <2>2. ASSUME teardown_mutex # NoThread
          PROVE  life = "alive" /\ pc[teardown_mutex] \in Held
      <3>1. teardown_mutex \in Threads /\ pc[teardown_mutex] \in Held
        BY <2>2 DEF IInv, TypeOK, Exclusive
      <3>2. life \notin Building \union {"failed", "gone"}
        BY DEF IInv, Fresh, Ending
      <3>3. life # "destructor"
        <4>1. SUFFICES ASSUME life = "destructor" PROVE FALSE
          OBVIOUS
        <4>2. t = Owner /\ teardown_mutex = Owner
          BY <3>1, <4>1 DEF IInv, Ending, Held
        <4> QED
          BY <2>1, <4>2
      <3> QED
        BY <3>1, <3>2, <3>3 DEF IInv, TypeOK, Lives
    <2> QED
      BY <2>1, <2>2
  <1>2. IInv /\ [Next]_vars =>
          [/\ \A t \in Threads : teardown_mutex = t => Closer(t)
           /\ (\E t \in Threads : pc[t] = "wait") /\ hook = "idle"
                => hook' = "idle"]_vars
    BY StepGetsCloser, LastFrame
  <1> QED
    BY Invariant, <1>1, <1>2, PTL DEF Spec, HolderGetsCloser

=============================================================================
