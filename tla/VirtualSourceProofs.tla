------------------------- MODULE VirtualSourceProofs -------------------------
(***************************************************************************)
(* Proofs about VirtualSource for every number of programs.                *)
(***************************************************************************)
EXTENDS VirtualSource, TLAPS

\* What a program remembers of its module at each place.
Memory ==
  \A p \in Proc :
    /\ pc[p] \in Before \union {"open"} => ~loaded[p]
    /\ pc[p] \in {"ready", "run"} => loaded[p]
    /\ pc[p] \in Sourcing => mod_idx[p] = p
    /\ loaded[p] /\ pc[p] = "over" => mod_idx[p] = p
    /\ p \in modules => pc[p] \notin Before

\* Who answers for a module on the server.
Owned ==
  \A p \in Proc : p \in modules \ left =>
    \/ pc[p] \in Sourcing \union {"killed"}
    \/ pc[p] = "over" /\ loaded[p]

\* The cleanup only knows programs that already loaded their module, and each
\* loads but one: what it removed does not come back.
Swept ==
  \A p \in Proc :
    /\ swept[p] \subseteq stale[p]
    /\ pc[p] = "new" => swept[p] = {}
    /\ pc[p] \in Sourcing \union {"load"} => stale[p] = swept[p]
    /\ swept[p] \cap modules \subseteq left
    /\ \A m \in stale[p] : pc[m] \notin Before

IInv == TypeOK /\ Memory /\ Owned /\ Swept /\ NoFifoLeaked /\ LostOnlyToCleanup

-----------------------------------------------------------------------------
LEMMA InitIInv == Init => IInv
  BY VirtualSourceAssumption
     DEF Init, IInv, TypeOK, Memory, Owned, Swept, NoFifoLeaked,
         LostOnlyToCleanup, Places, Before, Sourcing, Finished

\* Only the removed module can be missing after an unload.
LEMMA UnloadEffect ==
  ASSUME NEW p \in Proc, NEW m \in Proc, TypeOK, Unload(p, m)
  PROVE  /\ modules' \subseteq modules /\ modules \ {m} \subseteq modules'
         /\ left \subseteq left' /\ left' \subseteq Proc
         /\ m \in modules' => m \in left'
         /\ Other \subseteq modules' /\ modules' \subseteq Proc \union Other
  BY VirtualSourceAssumption DEF Unload, TypeOK

\* Steps that change nothing on the server but move one program.
LEMMA ServerQuiet ==
  ASSUME IInv, NEW p \in Proc,
         List(p) \/ MakeFifo(p) \/ MakeFifoFails(p) \/ LoadFails(p)
         \/ OpenFifo(p) \/ Run(p) \/ RunEnds(p) \/ RunBreaks(p)
         \/ DestroyNothing(p) \/ Signal(p) \/ Kill(p) \/ Disconnect(p)
  PROVE  IInv'
  <1> USE VirtualSourceAssumption
      DEF IInv, Goto, world, list, mine
  <1>1. TypeOK'
    <2> USE DEF TypeOK, Places
    <2>1. CASE List(p)
      BY <2>1 DEF List, Listed
    <2>2. CASE MakeFifo(p) \/ MakeFifoFails(p) \/ LoadFails(p)
      BY <2>2 DEF MakeFifo, MakeFifoFails, LoadFails
    <2>3. CASE OpenFifo(p)
      BY <2>3 DEF OpenFifo
    <2>4. CASE Run(p) \/ RunEnds(p) \/ RunBreaks(p)
      <3>1. /\ pc' \in [Proc -> Places]
            /\ UNCHANGED <<world, connected, list, mine, shutdown>>
        BY <2>4 DEF Run, RunEnds, RunBreaks
      <3> QED
        BY <3>1
    <2>5. CASE DestroyNothing(p)
      BY <2>5 DEF DestroyNothing
    <2>6. CASE Kill(p)
      BY <2>6 DEF Kill
    <2>7. CASE Signal(p)
      BY <2>7 DEF Signal
    <2>8. CASE Disconnect(p)
      BY <2>8 DEF Disconnect
    <2> QED
      BY <2>1, <2>2, <2>3, <2>4, <2>5, <2>6, <2>7, <2>8
  <1>2. Memory'
    <2> USE DEF TypeOK, Memory, Before, Sourcing
    <2>1. CASE List(p) \/ MakeFifo(p) \/ MakeFifoFails(p) \/ LoadFails(p)
      BY <2>1 DEF List, MakeFifo, MakeFifoFails, LoadFails
    <2>2. CASE OpenFifo(p)
      BY <2>2 DEF OpenFifo
    <2>3. CASE Run(p) \/ RunEnds(p) \/ RunBreaks(p)
      BY <2>3 DEF Run, RunEnds, RunBreaks
    <2>4. CASE DestroyNothing(p) \/ Signal(p) \/ Kill(p) \/ Disconnect(p)
      BY <2>4 DEF DestroyNothing, Signal, Kill, Disconnect
    <2> QED
      BY <2>1, <2>2, <2>3, <2>4
  <1>3. Owned'
    <2> USE DEF TypeOK, Memory, Owned, Before, Sourcing
    <2>1. CASE List(p) \/ MakeFifo(p) \/ MakeFifoFails(p) \/ LoadFails(p)
      BY <2>1 DEF List, MakeFifo, MakeFifoFails, LoadFails
    <2>2. CASE OpenFifo(p) \/ Run(p) \/ RunEnds(p) \/ RunBreaks(p)
      BY <2>2 DEF OpenFifo, Run, RunEnds, RunBreaks, Ready
    <2>3. CASE DestroyNothing(p)
      BY <2>3 DEF DestroyNothing
    <2>4. CASE Signal(p) \/ Kill(p) \/ Disconnect(p)
      BY <2>4 DEF Signal, Kill, Disconnect
    <2> QED
      BY <2>1, <2>2, <2>3, <2>4
  <1>4. Swept'
    <2> USE DEF TypeOK, Swept, Before, Sourcing
    <2>1. CASE List(p)
      <3>1. \A m \in modules \cap Proc : pc[m] \notin Before
        BY DEF Memory
      <3> QED
        BY <2>1, <3>1 DEF List, Listed
    <2>2. CASE MakeFifo(p) \/ MakeFifoFails(p) \/ LoadFails(p)
      BY <2>2 DEF MakeFifo, MakeFifoFails, LoadFails, SweepOver
    <2>3. CASE OpenFifo(p) \/ Run(p) \/ RunEnds(p) \/ RunBreaks(p)
      BY <2>3 DEF OpenFifo, Run, RunEnds, RunBreaks
    <2>4. CASE DestroyNothing(p) \/ Signal(p) \/ Kill(p) \/ Disconnect(p)
      BY <2>4 DEF DestroyNothing, Signal, Kill, Disconnect
    <2> QED
      BY <2>1, <2>2, <2>3, <2>4
  <1>5. NoFifoLeaked'
    BY DEF TypeOK, NoFifoLeaked, Finished, List, MakeFifo, MakeFifoFails,
       LoadFails, OpenFifo, Run, RunEnds, RunBreaks, DestroyNothing, Signal,
       Kill, Disconnect
  <1>6. LostOnlyToCleanup'
    BY DEF TypeOK, LostOnlyToCleanup, Sourcing, List, MakeFifo, MakeFifoFails,
       LoadFails, OpenFifo, Run, RunEnds, RunBreaks, DestroyNothing, Signal,
       Kill, Disconnect
  <1> QED
    BY <1>1, <1>2, <1>3, <1>4, <1>5, <1>6

LEMMA NextIInv == IInv /\ [Next]_vars => IInv'
  <1> SUFFICES ASSUME IInv, [Next]_vars PROVE IInv'
    OBVIOUS
  <1>1. CASE UNCHANGED vars
    BY <1>1 DEF vars, world, list, mine, IInv, TypeOK, Memory, Owned, Swept,
       NoFifoLeaked, LostOnlyToCleanup
  <1>2. CASE ServerRestart
    BY <1>2, VirtualSourceAssumption DEF ServerRestart, list, mine, IInv,
       TypeOK, Memory, Owned, Swept, NoFifoLeaked, LostOnlyToCleanup, Sourcing
  <1>3. ASSUME NEW p \in Proc, Sweep(p)
        PROVE  IInv'
    <2>1. PICK m \in stale[p] \ swept[p] :
            Unload(p, m) /\ swept' = [swept EXCEPT ![p] = @ \union {m}]
      BY <1>3 DEF Sweep
    <2>2. m \in Proc /\ TypeOK
      BY <2>1 DEF IInv, TypeOK
    <2>3. /\ modules' \subseteq modules /\ modules \ {m} \subseteq modules'
          /\ left \subseteq left' /\ left' \subseteq Proc
          /\ m \in modules' => m \in left'
          /\ Other \subseteq modules' /\ modules' \subseteq Proc \union Other
      BY <2>1, <2>2, UnloadEffect
    <2>4. m # p
      BY <1>3, <2>1 DEF Sweep, IInv, Swept, Before
    <2> USE <1>3, <2>1, <2>2, <2>3 DEF Sweep, IInv, mine
    <2>5. TypeOK'
      <3>1. swept' \in [Proc -> SUBSET Proc]
        BY DEF TypeOK
      <3> QED
        BY <3>1 DEF TypeOK
    <2>6. Memory' /\ NoFifoLeaked'
      BY DEF Memory, NoFifoLeaked
    <2>7. Owned'
      BY DEF Owned
    <2>8. Swept'
      BY DEF Swept, TypeOK, Sourcing
    <2>9. LostOnlyToCleanup'
      BY <2>4 DEF LostOnlyToCleanup, TypeOK
    <2> QED
      BY <2>5, <2>6, <2>7, <2>8, <2>9
  <1>4. ASSUME NEW p \in Proc, Load(p) \/ LoadUnanswered(p)
        PROVE  IInv'
    <2> USE <1>4, VirtualSourceAssumption
        DEF Load, LoadUnanswered, Goto, IInv, TypeOK, list, mine
    <2>1. TypeOK'
      <3>1. pc' \in [Proc -> Places] /\ connected' \in [Proc -> BOOLEAN]
        BY DEF Places
      <3>2. /\ mod_idx' \in [Proc -> Proc \union {NONE}]
            /\ \A q \in Proc : mod_idx'[q] \in {NONE, q}
        OBVIOUS
      <3> QED
        BY <3>1, <3>2
    <2>2. Memory' /\ NoFifoLeaked'
      BY DEF Memory, NoFifoLeaked, Before, Sourcing, Finished
    <2>3. Owned'
      BY DEF Owned, Sourcing
    <2>4. Swept'
      BY DEF Swept, Before, Sourcing
    <2>5. LostOnlyToCleanup'
      BY DEF LostOnlyToCleanup, Sourcing
    <2> QED
      BY <2>1, <2>2, <2>3, <2>4, <2>5
  <1>5. ASSUME NEW p \in Proc, OpenFails(p) \/ DestroyModule(p)
        PROVE  IInv'
    <2>1. mod_idx[p] = p /\ TypeOK
      BY <1>5 DEF OpenFails, GiveUp, DestroyModule, IInv, Memory, Sourcing
    <2>2. Unload(p, p)
      BY <1>5, <2>1 DEF OpenFails, GiveUp, DestroyModule
    <2>3. /\ modules' \subseteq modules /\ modules \ {p} \subseteq modules'
          /\ left \subseteq left' /\ left' \subseteq Proc
          /\ p \in modules' => p \in left'
          /\ Other \subseteq modules' /\ modules' \subseteq Proc \union Other
      BY <2>1, <2>2, UnloadEffect
    <2> HIDE <2>2
    <2>4. /\ fifos' = fifos \ {p}
          /\ pc' \in {[pc EXCEPT ![p] = "over"], [pc EXCEPT ![p] = "destroyed"]}
          /\ pc[p] \in {"open", "over"}
          /\ UNCHANGED <<connected, list, shutdown>>
      BY <1>5 DEF OpenFails, GiveUp, DestroyModule, Goto
    <2>5. /\ pc' \in [Proc -> Places] /\ pc'[p] \in {"over", "destroyed"}
          /\ \A q \in Proc \ {p} : pc'[q] = pc[q]
      BY <2>1, <2>4 DEF TypeOK, Places
    <2>6. /\ fd' \in [Proc -> BOOLEAN] /\ loaded' \in [Proc -> BOOLEAN]
          /\ mod_idx' \in [Proc -> Proc \union {NONE}]
          /\ loaded'[p] = FALSE /\ mod_idx'[p] \in {p, NONE}
          /\ \A q \in Proc \ {p} : /\ loaded'[q] = loaded[q]
                                  /\ mod_idx'[q] = mod_idx[q]
      <3>1. CASE OpenFails(p)
        BY <2>1, <3>1 DEF OpenFails, GiveUp, mine, TypeOK, IInv, Memory
      <3>2. CASE DestroyModule(p)
        BY <2>1, <3>2 DEF DestroyModule, Forget, TypeOK
      <3> QED
        BY <1>5, <3>1, <3>2
    <2> USE <2>1, <2>3, <2>4, <2>5, <2>6 DEF IInv, list
    <2>7. TypeOK'
      BY DEF TypeOK
    <2>8. Memory' /\ NoFifoLeaked'
      BY DEF Memory, NoFifoLeaked, Before, Sourcing, Finished, TypeOK
    <2>9. Owned'
      BY DEF Owned, Sourcing
    <2>10. Swept'
      BY DEF Swept, Before, Sourcing, TypeOK
    <2>11. LostOnlyToCleanup'
      BY DEF LostOnlyToCleanup, Sourcing
    <2> QED
      BY <2>7, <2>8, <2>9, <2>10, <2>11
  <1> QED
    BY <1>1, <1>2, <1>3, <1>4, <1>5, ServerQuiet
       DEF Next, Setup, Open, Destroy

LEMMA IInvHolds == Spec => []IInv
  BY InitIInv, NextIInv, PTL DEF Spec

\* Type correctness, for any number of programs.
THEOREM TypeCorrect == Spec => []TypeOK
  <1>1. IInv => TypeOK
    BY DEF IInv
  <1> QED
    BY <1>1, IInvHolds, PTL

\* Every way out of a program that is not killed removes its FIFO and unloads
\* its module, unless PulseAudio failed to.
THEOREM NoLeak == Spec => []NothingLeaked
  <1>1. IInv => NothingLeaked
    BY DEF IInv, Owned, NothingLeaked, NoModuleLeaked, Finished, Sourcing
  <1> QED
    BY <1>1, IInvHolds, PTL

\* Only the cleanup of another program, or the loss of the connection, takes
\* the module from under a microphone.
THEOREM OnlyCleanupSteals == Spec => []LostOnlyToCleanup
  <1>1. IInv => LostOnlyToCleanup
    BY DEF IInv
  <1> QED
    BY <1>1, IInvHolds, PTL

-----------------------------------------------------------------------------
(* The next start after a crash.                                           *)

\* Where a program that found m killed can be with m still on the server and
\* nobody's failure to blame: it has not listed m yet, or not come to it, or it
\* never will have a source of its own.
Cleaning(p, m) ==
  /\ pc[m] = "killed"
  /\ m \in modules \ left =>
       \/ pc[p] \in {"new", "over", "killed"} \union Finished
       \/ pc[p] = "sweep" /\ m \in stale[p]
       \/ ~connected[p]

LEMMA CleaningStays ==
  ASSUME NEW p \in Proc, NEW m \in Proc, IInv, Cleaning(p, m), [Next]_vars
  PROVE  Cleaning(p, m)'
  <1> USE DEF IInv, TypeOK, Cleaning, Finished, list, mine, Goto
  <1>1. CASE UNCHANGED vars \/ ServerRestart
    BY <1>1, VirtualSourceAssumption DEF vars, world, ServerRestart
  <1> SUFFICES ASSUME NEW q \in Proc,
                      Setup(q) \/ Open(q) \/ Run(q) \/ RunEnds(q) \/ RunBreaks(q)
                      \/ Destroy(q) \/ Signal(q) \/ Kill(q) \/ Disconnect(q)
               PROVE  Cleaning(p, m)'
    BY <1>1 DEF Next
  <1>2. CASE List(q)
    BY <1>2 DEF List, Listed, world
  <1>3. CASE Sweep(q)
    <2>1. PICK n \in stale[q] : Unload(q, n)
      BY <1>3 DEF Sweep
    <2>2. n \in Proc
      BY <2>1
    <2>3. modules' \subseteq modules /\ left \subseteq left'
      BY <2>1, <2>2, UnloadEffect
    <2> QED
      BY <1>3, <2>3 DEF Sweep
  <1>4. CASE MakeFifo(q)
    BY <1>4 DEF MakeFifo, SweepOver, Swept
  <1>5. CASE MakeFifoFails(q) \/ LoadFails(q)
    BY <1>5 DEF MakeFifoFails, LoadFails, world
  <1>6. CASE Load(q) \/ LoadUnanswered(q)
    BY <1>6 DEF Load, LoadUnanswered
  <1>7. CASE OpenFifo(q) \/ Run(q) \/ RunEnds(q) \/ RunBreaks(q)
    BY <1>7 DEF OpenFifo, Run, RunEnds, RunBreaks, world
  <1>8. CASE OpenFails(q) \/ DestroyModule(q)
    <2>1. mod_idx[q] = q
      BY <1>8 DEF OpenFails, GiveUp, DestroyModule, Memory, Sourcing
    <2>2. modules' \subseteq modules /\ left \subseteq left'
      BY <1>8, <2>1, UnloadEffect DEF OpenFails, GiveUp, DestroyModule
    <2> QED
      BY <1>8, <2>2 DEF OpenFails, GiveUp, DestroyModule
  <1>9. CASE DestroyNothing(q) \/ Signal(q) \/ Kill(q) \/ Disconnect(q)
    BY <1>9 DEF DestroyNothing, Signal, Kill, Disconnect, world
  <1> QED
    BY <1>2, <1>3, <1>4, <1>5, <1>6, <1>7, <1>8, <1>9 DEF Setup, Open, Destroy

\* What a crash leaves on the server, the next start removes.
THEOREM CrashIsCleanedUp == Spec => NextStartCleansUp
  <1>1. ASSUME NEW CONSTANT p \in Proc, NEW CONSTANT m \in Proc
        PROVE  Spec => KilledIsCleanedUp(p, m)
    <2>1. IInv /\ Cleaning(p, m) /\ [Next]_vars => Cleaning(p, m)'
      BY CleaningStays
    <2>2. pc[p] = "new" /\ pc[m] = "killed" => Cleaning(p, m)
      BY DEF Cleaning
    <2>3. Cleaning(p, m)
            => (pc[p] \in Sourcing \union {"load"} /\ connected[p] /\ m \in modules
                  => m \in left)
      BY DEF Cleaning, Sourcing, Finished
    <2> QED
      BY IInvHolds, <2>1, <2>2, <2>3, PTL DEF Spec, KilledIsCleanedUp
  <1> QED
    BY <1>1 DEF NextStartCleansUp

-----------------------------------------------------------------------------
(* The abstract microphones.                                               *)

LEMMA Phases ==
  /\ \A place \in Before : Phase(place) = "starting"
  /\ Phase("open") = "made"
  /\ Phase("ready") = "inUse" /\ Phase("run") = "inUse"
  /\ Phase("over") = "leaving"
  /\ \A place \in Finished : Phase(place) = "gone"
  /\ Phase("killed") = "killed"
  BY DEF Phase, Before, Finished

\* Moving one program in its places moves it in its phases.
LEMMA TurnPhase ==
  ASSUME NEW p \in Proc, NEW place, NEW name, pc \in [Proc -> Places],
         Goto(p, place), Phase(place) = name
  PROVE  M!Turn(p, name)
  BY DEF Goto, M!Turn

\* A move within a phase is none.
LEMMA SamePhase ==
  ASSUME NEW p \in Proc, NEW place, pc \in [Proc -> Places],
         Goto(p, place), Phase(place) = Phase(pc[p])
  PROVE  [q \in Proc |-> Phase(pc[q])]' = [q \in Proc |-> Phase(pc[q])]
  BY DEF Goto

LEMMA UnloadRefines ==
  ASSUME NEW p \in Proc, NEW m \in Proc, Unload(p, m)
  PROVE  M!Unload(m)
  BY VirtualSourceAssumption DEF Unload, M!Unload

\* Setup, but for the wait for the reader.
LEMMA SetupRefines ==
  ASSUME IInv, NEW p \in Proc, Setup(p)
  PROVE  [M!Next]_M!microphoneVars
  <1> USE DEF M!microphoneVars, list, mine, world
  <1>0. pc \in [Proc -> Places]
    BY DEF IInv, TypeOK
  <1>1. CASE List(p)
    <2>1. Goto(p, "sweep") /\ Phase(pc[p]) = Phase("sweep")
      BY <1>1, Phases DEF List, Before
    <2>2. [q \in Proc |-> Phase(pc[q])]' = [q \in Proc |-> Phase(pc[q])]
      BY <1>0, <2>1, SamePhase
    <2> QED
      BY <1>1, <2>2 DEF List
  <1>2. CASE Sweep(p)
    <2>1. PICK m \in stale[p] \ swept[p] : Unload(p, m)
      BY <1>2 DEF Sweep
    <2>2. m \in Proc /\ pc[p] \in Before /\ pc[m] \notin Before
      BY <1>2, <2>1 DEF Sweep, IInv, TypeOK, Swept, Before
    <2>3. Phase(pc[p]) = "starting" /\ Phase(pc[m]) # "starting"
      <3>1. Phase(pc[p]) = "starting"
        BY <2>2, Phases
      <3>2. pc[m] \in {"open", "ready", "run", "over", "killed"} \union Finished
        BY <1>0, <2>2 DEF Places, Before, Finished
      <3> QED
        BY <3>1, <3>2, Phases
    <2>4. M!Clear(p, m) /\ m \in Proc \ {p}
      BY <1>2, <2>1, <2>2, <2>3, UnloadRefines DEF Sweep, M!Clear
    <2> QED
      BY <2>4 DEF M!Next
  <1>3. CASE MakeFifo(p)
    <2>1. /\ Goto(p, "load") /\ Phase("load") = "starting"
          /\ Phase(pc[p]) = "starting"
      BY <1>3, Phases DEF MakeFifo, Before
    <2>2. [q \in Proc |-> Phase(pc[q])]' = [q \in Proc |-> Phase(pc[q])]
      BY <1>0, <2>1, SamePhase
    <2>3. M!Pipe(p)
      BY <1>3, <2>1, <2>2 DEF MakeFifo, M!Pipe
    <2> QED
      BY <2>3 DEF M!Next
  <1>4. CASE MakeFifoFails(p) \/ LoadFails(p)
    <2>1. /\ Goto(p, "over") /\ Phase("over") = "leaving"
          /\ Phase(pc[p]) = "starting"
      BY <1>4, Phases DEF MakeFifoFails, LoadFails, Before, Finished
    <2>2. M!Turn(p, "leaving")
      BY <1>0, <2>1, TurnPhase
    <2>3. M!Leave(p)
      BY <1>4, <2>1, <2>2 DEF MakeFifoFails, LoadFails, M!Leave
    <2> QED
      BY <2>3 DEF M!Next
  <1>5. CASE Load(p)
    <2>1. /\ Goto(p, "open") /\ Phase("open") = "made"
          /\ Phase(pc[p]) = "starting"
      BY <1>5, Phases DEF Load, Before, Finished
    <2>2. M!Turn(p, "made")
      BY <1>0, <2>1, TurnPhase
    <2>3. M!Make(p)
      BY <1>5, <2>1, <2>2, VirtualSourceAssumption DEF Load, M!Make
    <2> QED
      BY <2>3 DEF M!Next
  <1>6. CASE LoadUnanswered(p)
    <2>1. /\ Goto(p, "over") /\ Phase("over") = "leaving"
          /\ Phase(pc[p]) = "starting"
      BY <1>6, Phases DEF LoadUnanswered, Before, Finished
    <2>2. M!Turn(p, "leaving")
      BY <1>0, <2>1, TurnPhase
    <2>3. M!MakeUnknown(p)
      BY <1>6, <2>1, <2>2, VirtualSourceAssumption DEF LoadUnanswered, M!MakeUnknown
    <2> QED
      BY <2>3 DEF M!Next
  <1> QED
    BY <1>1, <1>2, <1>3, <1>4, <1>5, <1>6 DEF Setup

\* The use and the end of the source.
LEMMA UseRefines ==
  ASSUME IInv, NEW p \in Proc,
         Open(p) \/ Run(p) \/ RunEnds(p) \/ RunBreaks(p) \/ Destroy(p)
  PROVE  [M!Next]_M!microphoneVars
  <1> USE DEF M!microphoneVars, list, mine, world
  <1>0. pc \in [Proc -> Places]
    BY DEF IInv, TypeOK
  <1>1. CASE OpenFifo(p)
    <2>1. /\ Goto(p, "ready") /\ Phase("ready") = "inUse"
          /\ Phase(pc[p]) = "made"
      BY <1>1, Phases DEF OpenFifo, Before, Finished
    <2>2. M!Turn(p, "inUse")
      BY <1>0, <2>1, TurnPhase
    <2>3. M!Use(p)
      BY <1>1, <2>1, <2>2, VirtualSourceAssumption DEF OpenFifo, M!Use
    <2> QED
      BY <2>3 DEF M!Next
  <1>2. CASE OpenFails(p)
    <2>1. /\ Goto(p, "over") /\ Phase("over") = "leaving"
          /\ Phase(pc[p]) = "made"
      BY <1>2, Phases DEF OpenFails, GiveUp, Before, Finished
    <2>2. M!Turn(p, "leaving")
      BY <1>0, <2>1, TurnPhase
    <2>3. Unload(p, p)
      BY <1>2 DEF OpenFails, GiveUp, IInv, Memory, Sourcing
    <2>4. M!Leave(p)
      BY <1>2, <2>1, <2>2, <2>3, UnloadRefines DEF OpenFails, GiveUp, M!Leave
    <2> QED
      BY <2>4 DEF M!Next
  <1>3. CASE Run(p) /\ Ready(p)
    <2>1. Goto(p, "run") /\ Phase(pc[p]) = Phase("run")
      BY <1>3, Phases DEF Run
    <2>2. [q \in Proc |-> Phase(pc[q])]' = [q \in Proc |-> Phase(pc[q])]
      BY <1>0, <2>1, SamePhase
    <2> QED
      BY <1>3, <2>2 DEF Run
  <1>4. CASE (Run(p) /\ ~Ready(p)) \/ RunEnds(p) \/ RunBreaks(p)
    <2>1. /\ Goto(p, "over") /\ Phase("over") = "leaving"
          /\ Phase(pc[p]) = "inUse"
      BY <1>4, Phases DEF Run, RunEnds, RunBreaks, Before, Finished
    <2>2. M!Turn(p, "leaving")
      BY <1>0, <2>1, TurnPhase
    <2>3. M!Leave(p)
      BY <1>4, <2>1, <2>2 DEF Run, RunEnds, RunBreaks, M!Leave
    <2> QED
      BY <2>3 DEF M!Next
  <1>5. CASE DestroyNothing(p)
    <2>1. /\ Goto(p, "ended") /\ Phase("ended") = "gone"
          /\ Phase(pc[p]) \in {"starting", "leaving"}
      BY <1>5, Phases DEF DestroyNothing, Before, Finished
    <2>2. M!Turn(p, "gone")
      BY <1>0, <2>1, TurnPhase
    <2>3. p \in modules => p \in left
      BY <1>5, VirtualSourceAssumption
         DEF DestroyNothing, IInv, Owned, Memory, Sourcing, Before
    <2>4. M!Unload(p)
      BY <1>5, <2>3, VirtualSourceAssumption DEF DestroyNothing, M!Unload
    <2>5. M!Go(p)
      BY <1>5, <2>1, <2>2, <2>4 DEF DestroyNothing, M!Go
    <2> QED
      BY <2>5 DEF M!Next
  <1>6. CASE DestroyModule(p)
    <2>1. /\ Goto(p, "destroyed") /\ Phase("destroyed") = "gone"
          /\ Phase(pc[p]) = "leaving"
      BY <1>6, Phases DEF DestroyModule, Before, Finished
    <2>2. M!Turn(p, "gone")
      BY <1>0, <2>1, TurnPhase
    <2>3. Unload(p, p)
      BY <1>6 DEF DestroyModule, IInv, Memory
    <2>4. M!Go(p)
      BY <1>6, <2>1, <2>2, <2>3, UnloadRefines DEF DestroyModule, M!Go
    <2> QED
      BY <2>4 DEF M!Next
  <1> QED
    BY <1>1, <1>2, <1>3, <1>4, <1>5, <1>6 DEF Open, Destroy

LEMMA StepRefines ==
  ASSUME IInv, [Next]_vars
  PROVE  [M!Next]_M!microphoneVars
  <1> USE DEF M!microphoneVars, list, mine, world
  <1>1. CASE \E p \in Proc : Setup(p)
    BY <1>1, SetupRefines
  <1>2. CASE \E p \in Proc : \/ Open(p) \/ Run(p) \/ RunEnds(p) \/ RunBreaks(p)
                             \/ Destroy(p)
    BY <1>2, UseRefines
  <1>3. CASE \E p \in Proc : Kill(p)
    <2>1. PICK p \in Proc : Kill(p)
      BY <1>3
    <2>2. pc \in [Proc -> Places] /\ pc[p] \in Places
      BY DEF IInv, TypeOK
    <2>3. Goto(p, "killed") /\ Phase(pc[p]) \notin {"gone", "killed"}
      BY <2>1, <2>2 DEF Kill, Phase, Before, Places, Finished
    <2>4. M!Turn(p, "killed")
      BY <2>2, <2>3, Phases, TurnPhase
    <2>5. M!Kill(p)
      BY <2>1, <2>3, <2>4 DEF Kill, M!Kill
    <2> QED
      BY <2>5 DEF M!Next
  <1>4. CASE ServerRestart
    <2>1. M!ServerRestart
      BY <1>4 DEF ServerRestart, M!ServerRestart
    <2> QED
      BY <2>1 DEF M!Next
  <1>5. CASE UNCHANGED vars \/ \E p \in Proc : Signal(p) \/ Disconnect(p)
    BY <1>5 DEF vars, Signal, Disconnect
  <1> QED
    BY <1>1, <1>2, <1>3, <1>4, <1>5 DEF Next

\* The programs implement the abstract microphones, whatever number of them set
\* up, clean up, are killed or lose their connection.
THEOREM Refinement == Spec => ImplementsMicrophones
  <1>1. Init => M!Init
    BY Phases DEF Init, M!Init, Before
  <1> QED
    BY <1>1, StepRefines, IInvHolds, PTL DEF Spec, ImplementsMicrophones, M!Spec

=============================================================================
