---------------------------- MODULE RtpEndpoint ----------------------------
(***************************************************************************)
(* The Rtp object: its two constructors inside the retries of the Client   *)
(* or the single try of the Server, write_frames and stop by any thread,   *)
(* the destructor, and uvgRTP's sessions, which outlive the objects.       *)
(***************************************************************************)
EXTENDS Naturals

CONSTANTS
  Threads,      \* those that have a reference to the object
  Owner,        \* the one that constructs and destroys it
  NoThread,
  MaxAttempts   \* ConnectionPolicy::max_retries

ASSUME RtpEndpointAssumption ==
  /\ Owner \in Threads /\ NoThread \notin Threads
  /\ MaxAttempts \in Nat \ {0}

VARIABLES
  sending,    \* which constructor: the Server's or the Client's
  life,       \* of the object, see Lives
  attempt,    \* which object, as emplaced by the retry loop
  sessions,   \* the sessions open in uvgRTP, by the attempt that created them
  session,    \* the member: an attempt, or 0 for nullptr
  stream,     \* the member, and what destroy_stream does to it
  stopped,
  teardown_mutex,
  pc,         \* where each thread is inside write_frames or stop
  hook,       \* the receive hook on uvgRTP's thread
  returned    \* a call of stop has returned

object  == <<session, stream, stopped>>
calls   == <<teardown_mutex, pc, returned>>
vars    == <<sending, life, attempt, sessions, object, calls, hook>>

Building == {"create_session", "create_stream", "install_hook", "backoff"}
Lives    == Building \union {"alive", "destructor", "gone", "failed"}
InStop   == {"lock", "exchange", "destroy_stream", "wait", "destroy_session"}

Init ==
  /\ sending \in BOOLEAN /\ life = "create_session" /\ attempt = 1
  /\ sessions = {} /\ session = 0 /\ stream = "null" /\ stopped = FALSE
  /\ teardown_mutex = NoThread /\ pc = [t \in Threads |-> "idle"]
  /\ hook = "idle" /\ returned = FALSE

-----------------------------------------------------------------------------
(* The constructors.  Nobody else knows the object yet.                    *)

CreateSession ==
  /\ life = "create_session"
  /\ life' = "create_stream"
  /\ sessions' = sessions \union {attempt} /\ session' = attempt
  /\ UNCHANGED <<sending, attempt, stream, stopped, calls, hook>>

CreateStream ==
  /\ life = "create_stream"
  /\ life' = IF sending THEN "alive" ELSE "install_hook"
  /\ stream' = "open"
  /\ UNCHANGED <<sending, attempt, sessions, session, stopped, calls, hook>>

\* From here on the hook may run.
InstallHook ==
  /\ life = "install_hook" /\ life' = "alive"
  /\ UNCHANGED <<sending, attempt, sessions, object, calls, hook>>

\* create_session or create_stream returned nullptr: init_rtp throws.  The
\* object never existed, so ~Rtp does not run: the session, if there is one,
\* stays open.  The Client tries again after a backoff, except after its last
\* attempt; the Server gives up.
ConstructorThrows ==
  /\ life \in {"create_session", "create_stream"}
  /\ life' = IF sending \/ attempt = MaxAttempts THEN "failed" ELSE "backoff"
  /\ session' = 0
  /\ UNCHANGED <<sending, attempt, sessions, stream, stopped, calls, hook>>

Retry ==
  /\ life = "backoff" /\ life' = "create_session"
  /\ attempt' = attempt + 1
  /\ UNCHANGED <<sending, sessions, object, calls, hook>>

\* A shutdown in the backoff.
GiveUp ==
  /\ life = "backoff" /\ life' = "failed"
  /\ UNCHANGED <<sending, attempt, sessions, object, calls, hook>>

-----------------------------------------------------------------------------
(* Calls.  The object exists until its owner is in the destructor; other   *)
(* threads have returned from their calls by then.                         *)

Goto(t, place) == pc' = [pc EXCEPT ![t] = place]
Keep  == UNCHANGED <<sending, life, attempt>>
LockNot(t) == teardown_mutex' = t
Lock(t)   == teardown_mutex = NoThread /\ teardown_mutex' = t
Unlock(t) == teardown_mutex' = NoThread

\* write_frames: nothing is written to an object that is stopped.
WriteFrames(t) ==
  /\ sending /\ life = "alive" /\ pc[t] = "idle"
  /\ ~stopped /\ stream # "null"
  /\ Lock(t) /\ Goto(t, "push")
  /\ Keep /\ UNCHANGED <<sessions, object, hook, returned>>

Push(t) ==
  /\ pc[t] = "push"
  /\ Unlock(t) /\ Goto(t, "idle")
  /\ Keep /\ UNCHANGED <<sessions, object, hook, returned>>

CallStop(t) ==
  /\ life = "alive" /\ pc[t] = "idle"
  /\ Goto(t, "lock")
  /\ Keep /\ UNCHANGED <<sessions, object, hook, teardown_mutex, returned>>

Destructor ==
  /\ life = "alive" /\ \A t \in Threads : pc[t] = "idle"
  /\ life' = "destructor" /\ Goto(Owner, "lock")
  /\ UNCHANGED <<sending, attempt, sessions, object, hook, teardown_mutex,
                 returned>>

StopLock(t) ==
  /\ pc[t] = "lock"
  /\ Lock(t) /\ Goto(t, "exchange")
  /\ Keep /\ UNCHANGED <<sessions, object, hook, returned>>

\* The call returns; when it was the destructor's, the object is gone.
Return(t) ==
  /\ Unlock(t) /\ Goto(t, "idle") /\ returned' = TRUE
  /\ life' = IF life = "destructor" THEN "gone" ELSE life
  /\ UNCHANGED <<sending, attempt, hook>>

StoppedBeforeKeepsLock(t) ==
  /\ pc[t] = "exchange" /\ stopped
  /\ Goto(t, "idle") /\ returned' = TRUE
  /\ UNCHANGED <<sending, attempt, hook, sessions, object, teardown_mutex,
                 life>>
StoppedBefore(t) ==
  /\ pc[t] = "exchange" /\ stopped
  /\ Return(t) /\ UNCHANGED <<sessions, object>>

Exchange(t) ==
  /\ pc[t] = "exchange" /\ ~stopped
  /\ stopped' = TRUE /\ Goto(t, "destroy_stream")
  /\ Keep /\ UNCHANGED <<sessions, session, stream, hook, teardown_mutex,
                         returned>>

\* destroy_stream ends the delivery of frames and waits for a running hook.
DestroyStream(t) ==
  /\ pc[t] = "destroy_stream"
  /\ stream' = "closing" /\ Goto(t, "wait")
  /\ Keep /\ UNCHANGED <<sessions, session, stopped, hook, teardown_mutex,
                         returned>>

StreamDestroyedNoWait(t) ==
  /\ pc[t] = "wait"
  /\ stream' = "null" /\ Goto(t, "destroy_session")
  /\ Keep /\ UNCHANGED <<sessions, session, stopped, hook, teardown_mutex,
                         returned>>
StreamDestroyed(t) ==
  /\ pc[t] = "wait" /\ hook = "idle"
  /\ stream' = "null" /\ Goto(t, "destroy_session")
  /\ Keep /\ UNCHANGED <<sessions, session, stopped, hook, teardown_mutex,
                         returned>>

DestroySessionDangling(t) ==
  /\ pc[t] = "destroy_session"
  /\ sessions' = sessions \ {session}
  /\ UNCHANGED object
  /\ Return(t)
DestroySessionLeaks(t) ==
  /\ pc[t] = "destroy_session" /\ session' = 0
  /\ UNCHANGED <<sessions, stream, stopped>>
  /\ Return(t)
DestroySession(t) ==
  /\ pc[t] = "destroy_session"
  /\ sessions' = sessions \ {session} /\ session' = 0
  /\ UNCHANGED <<stream, stopped>>
  /\ Return(t)

-----------------------------------------------------------------------------
(* uvgRTP calls the hook for each frame, one at a time.                    *)

HookRuns ==
  /\ ~sending /\ stream = "open" /\ life \in {"alive", "destructor"}
  /\ hook = "idle" /\ hook' = "running"
  /\ Keep /\ UNCHANGED <<sessions, object, calls>>

HookReturns ==
  /\ hook = "running" /\ hook' = "idle"
  /\ Keep /\ UNCHANGED <<sessions, object, calls>>

StopStep(t) ==
  \/ StopLock(t) \/ StoppedBefore(t) \/ Exchange(t) \/ DestroyStream(t)
  \/ StreamDestroyed(t) \/ DestroySession(t)

Construct ==
  \/ CreateSession \/ CreateStream \/ InstallHook \/ ConstructorThrows
  \/ Retry \/ GiveUp

Next ==
  \/ Construct \/ Destructor \/ HookRuns \/ HookReturns
  \/ \E t \in Threads :
       WriteFrames(t) \/ Push(t) \/ CallStop(t) \/ StopStep(t)

Spec == Init /\ [][Next]_vars

\* A hook and a push return.  A thread that waits for the mutex gets it: the
\* others hold it for one call at a time, 20 ms of audio apart.
Fairness ==
  /\ WF_vars(HookReturns)
  /\ \A t \in Threads :
       WF_vars(Push(t)) /\ WF_vars(StopStep(t)) /\ SF_vars(StopLock(t))

FairSpec == Spec /\ Fairness

-----------------------------------------------------------------------------
\* The types of the state.
TypeOK ==
  /\ sending \in BOOLEAN /\ life \in Lives /\ attempt \in 1..MaxAttempts
  /\ sessions \in SUBSET (1..attempt)
  /\ session \in sessions \union {0}
  /\ stream \in {"null", "open", "closing"} /\ stopped \in BOOLEAN
  /\ teardown_mutex \in Threads \union {NoThread}
  /\ pc \in [Threads -> {"idle", "push"} \union InStop]
  /\ hook \in {"idle", "running"} /\ returned \in BOOLEAN

\* The object that came to exist closes its session, once and whoever stops it
\* first; what stays open in uvgRTP is at most one session for each attempt
\* whose constructor threw.
OnlyFailuresLeak ==
  /\ life \notin Building \union {"failed"} =>
       (attempt \in sessions <=> session = attempt)
  /\ life = "gone" => attempt \notin sessions

\* rtp.hxx:48, "Explicitly tear down stream/session. Safe to call multiple
\* times.": also the call that finds another one under way returns only when
\* the stream is gone and no hook runs, so that what the hook and the pushes
\* use may be destroyed after any stop() has returned.
StopMeansStopped ==
  returned =>
    /\ stopped /\ stream = "null" /\ session = 0 /\ hook = "idle"
    /\ \A t \in Threads : pc[t] # "push"

\* Every call of stop and the destructor return.
StopReturns ==
  \A t \in Threads : pc[t] \in InStop ~> pc[t] = "idle"

-----------------------------------------------------------------------------
\* The endpoint as its owner sees it.
Phase ==
  IF life \in Building THEN "building"
  ELSE IF life = "failed" THEN "failed"
  ELSE CASE stream = "open"    -> "active"
         [] stream = "closing" -> "stopping"
         [] stream = "null"    -> "stopped"

InUse == hook = "running" \/ \E t \in Threads : pc[t] = "push"

EP == INSTANCE Endpoint WITH phase <- Phase, inUse <- InUse

\* The constructors, calls and teardown implement the abstract endpoint.
ImplementsEndpoint == EP!Spec

=============================================================================
