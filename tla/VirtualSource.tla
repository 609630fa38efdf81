---------------------------- MODULE VirtualSource ----------------------------
(***************************************************************************)
(* The virtual microphone as several programs set it up on one PulseAudio  *)
(* server: setup_virtual_input, run_virtual_input, destroy_virtual_input   *)
(* and the cleanup of stale sources.  A program may be killed at any step, *)
(* lose its connection at any step, and the server may restart.            *)
(*                                                                         *)
(* Data: a program loads at most one module-pipe-source in its life (its   *)
(* name and FIFO carry the pid), so module, FIFO and index are named by    *)
(* the program.  An index is worthless after a restart of the server, and  *)
(* so is the connection of whoever holds it.  The loop inside              *)
(* run_virtual_input is module Playback.                                   *)
(***************************************************************************)
CONSTANTS
  Proc,     \* programs, each with its own pid
  Other,    \* modules of other software on the server
  NONE      \* PA_INVALID_INDEX

ASSUME VirtualSourceAssumption == Proc \cap Other = {} /\ NONE \notin Proc

VARIABLES
  modules,    \* the server: loaded modules
  fifos,      \* /tmp: the programs whose FIFO exists
  pc,         \* pc[p]: where p's microphone thread is, then p itself
  connected,  \* connected[p]: the state of ctx is PA_CONTEXT_READY
  stale,      \* stale[p]: stale_indices
  swept,      \* swept[p]: those of stale[p] the loop has been through
  mod_idx,    \* mod_idx[p]: virtual_source_mod_idx
  fd,         \* fd[p]: virtual_source_fd >= 0
  loaded,     \* loaded[p]: virtual_source_loaded
  shutdown,   \* shutdown[p]: shutdown_requested
  left        \* history: modules that a failed operation left on the server

world == <<modules, fifos, left>>
list  == <<stale, swept>>
mine  == <<mod_idx, fd, loaded>>
vars  == <<world, pc, connected, list, mine, shutdown>>

Places == {"new", "sweep", "load", "open", "ready", "run", "over",
           "destroyed", "ended", "killed"}

Init ==
  /\ modules = Other /\ fifos = {} /\ left = {}
  /\ pc = [p \in Proc |-> "new"]
  /\ connected = [p \in Proc |-> TRUE]
  /\ stale = [p \in Proc |-> {}] /\ swept = [p \in Proc |-> {}]
  /\ mod_idx = [p \in Proc |-> NONE]
  /\ fd = [p \in Proc |-> FALSE] /\ loaded = [p \in Proc |-> FALSE]
  /\ shutdown = [p \in Proc |-> FALSE]

Goto(p, place) == pc' = [pc EXCEPT ![p] = place]

-----------------------------------------------------------------------------
(* PulseAudio operations.                                                  *)

\* pa_context_unload_module and the wait for it.  Without a connection there
\* is no operation; one that is refused or cancelled leaves the module.  No
\* caller does anything but log the difference.
Unload(p, m) ==
  \/ /\ connected[p]
     /\ modules' = modules \ {m} /\ UNCHANGED left
  \/ UNCHANGED modules /\ left' = left \union ({m} \cap modules)

\* pa_module_list_cb keeps the pipe sources whose name starts as ours do.
ListedAll(loadedModules) == loadedModules
Listed(loadedModules) == loadedModules \cap Proc

-----------------------------------------------------------------------------
(* setup_virtual_input, run on the microphone thread.                      *)

\* The list the cleanup works from: what the server has loaded now.  Without
\* a connection there is no list, and the cleanup goes on without one.
List(p) ==
  /\ pc[p] = "new" /\ Goto(p, "sweep")
  /\ stale' = [stale EXCEPT ![p] =
                 IF connected[p] THEN Listed(modules) ELSE {}]
  /\ UNCHANGED <<world, connected, swept, mine, shutdown>>

Sweep(p) ==
  /\ pc[p] = "sweep"
  /\ \E m \in stale[p] \ swept[p] :
       /\ Unload(p, m)
       /\ swept' = [swept EXCEPT ![p] = @ \union {m}]
  /\ UNCHANGED <<fifos, pc, connected, stale, mine, shutdown>>

\* The loop goes on after an unload that failed, and waits for each.
SweepOverUnwaited(p) == TRUE
SweepOver(p) == stale[p] = swept[p]

MakeFifo(p) ==
  /\ pc[p] = "sweep" /\ SweepOver(p) /\ Goto(p, "load")
  /\ fifos' = fifos \union {p}
  /\ UNCHANGED <<modules, left, connected, list, mine, shutdown>>

MakeFifoFails(p) ==
  /\ pc[p] = "sweep" /\ SweepOver(p) /\ Goto(p, "over")
  /\ UNCHANGED <<world, connected, list, mine, shutdown>>

Load(p) ==
  /\ pc[p] = "load" /\ connected[p] /\ Goto(p, "open")
  /\ modules' = modules \union {p}
  /\ mod_idx' = [mod_idx EXCEPT ![p] = p]
  /\ UNCHANGED <<fifos, left, connected, list, fd, loaded, shutdown>>

\* No operation, or no index: the FIFO is removed.
LoadFails(p) ==
  /\ pc[p] = "load" /\ Goto(p, "over")
  /\ fifos' = fifos \ {p}
  /\ UNCHANGED <<modules, left, connected, list, mine, shutdown>>

\* The connection is lost between the server's load and its answer: the index
\* never arrives, the module stays.
LoadUnanswered(p) ==
  /\ pc[p] = "load" /\ connected[p] /\ Goto(p, "over")
  /\ modules' = modules \union {p} /\ left' = left \union {p}
  /\ fifos' = fifos \ {p}
  /\ connected' = [connected EXCEPT ![p] = FALSE]
  /\ UNCHANGED <<list, mine, shutdown>>

\* open succeeds once the module reads the FIFO; until then ENXIO, and the loop
\* stutters.
OpenFifo(p) ==
  /\ pc[p] = "open" /\ p \in modules /\ Goto(p, "ready")
  /\ fd' = [fd EXCEPT ![p] = TRUE]
  /\ loaded' = [loaded EXCEPT ![p] = TRUE]
  /\ UNCHANGED <<world, connected, list, mod_idx, shutdown>>

\* open failed and the shutdown was requested, or it failed with another error
\* than ENXIO: roll back.  The index keeps its value.
GiveUp(p) ==
  /\ pc[p] = "open" /\ Goto(p, "over")
  /\ Unload(p, mod_idx[p])
  /\ fifos' = fifos \ {p}
  /\ UNCHANGED <<connected, list, mine, shutdown>>

OpenForgetsModule(p) ==
  /\ pc[p] = "open" /\ Goto(p, "over")
  /\ fifos' = fifos \ {p}
  /\ UNCHANGED <<modules, left, connected, list, mine, shutdown>>
OpenDeaf(p) == ~shutdown[p] /\ GiveUp(p)
OpenFails(p) == GiveUp(p)

-----------------------------------------------------------------------------
(* run_virtual_input, and the end of the program.                          *)

Ready(p) == loaded[p] /\ fd[p]

Run(p) ==
  /\ pc[p] = "ready"
  /\ Goto(p, IF Ready(p) THEN "run" ELSE "over")
  /\ UNCHANGED <<world, connected, list, mine, shutdown>>

\* The loop sees the shutdown.
RunEnds(p) ==
  /\ pc[p] = "run" /\ shutdown[p] /\ Goto(p, "over")
  /\ UNCHANGED <<world, connected, list, mine, shutdown>>

\* The callback throws or a write fails: EPIPE when the module is gone, or any
\* other error.  (EPIPE without SIGPIPE; with it the program is killed.)
RunBreaks(p) ==
  /\ pc[p] = "run" /\ Goto(p, "over")
  /\ UNCHANGED <<world, connected, list, mine, shutdown>>

\* The destructor of the backend: destroy_virtual_input without a module ...
DestroyNothing(p) ==
  /\ pc[p] \in {"new", "over"} /\ (~loaded[p] \/ mod_idx[p] = NONE)
  /\ Goto(p, "ended")
  /\ fd' = [fd EXCEPT ![p] = FALSE]
  /\ fifos' = fifos \ {p}
  /\ UNCHANGED <<modules, left, connected, list, mod_idx, loaded, shutdown>>

\* ... and with one: it forgets the module whether or not the unload worked.
Forget(p) ==
  /\ fd' = [fd EXCEPT ![p] = FALSE]
  /\ loaded' = [loaded EXCEPT ![p] = FALSE]
  /\ mod_idx' = [mod_idx EXCEPT ![p] = NONE]

DestroyByPrefix(p) ==
  /\ pc[p] = "over" /\ loaded[p] /\ mod_idx[p] # NONE /\ Goto(p, "destroyed")
  /\ Forget(p)
  /\ fifos' = fifos \ {p}
  /\ modules' = modules \ Listed(modules)
  /\ UNCHANGED <<left, connected, list, shutdown>>
DestroyModule(p) ==
  /\ pc[p] = "over" /\ loaded[p] /\ mod_idx[p] # NONE /\ Goto(p, "destroyed")
  /\ Unload(p, mod_idx[p]) /\ Forget(p)
  /\ fifos' = fifos \ {p}
  /\ UNCHANGED <<connected, list, shutdown>>

-----------------------------------------------------------------------------
(* What happens to a program.                                              *)

Signal(p) ==
  /\ ~shutdown[p]
  /\ shutdown' = [shutdown EXCEPT ![p] = TRUE]
  /\ UNCHANGED <<world, pc, connected, list, mine>>

\* SIGKILL, or the SIGPIPE of a write to a FIFO nobody reads: the kernel closes
\* what was open, nothing else is undone.
Kill(p) ==
  /\ pc[p] \notin {"destroyed", "ended", "killed"} /\ Goto(p, "killed")
  /\ fd' = [fd EXCEPT ![p] = FALSE]
  /\ connected' = [connected EXCEPT ![p] = FALSE]
  /\ UNCHANGED <<world, list, mod_idx, loaded, shutdown>>

Disconnect(p) ==
  /\ connected[p]
  /\ connected' = [connected EXCEPT ![p] = FALSE]
  /\ UNCHANGED <<world, pc, list, mine, shutdown>>

\* The server restarts: the modules are gone and so is every connection but
\* those of programs that have yet to connect.
ServerRestart ==
  /\ modules' = Other /\ left' = {}
  /\ connected' = [p \in Proc |-> pc[p] = "new" /\ connected[p]]
  /\ UNCHANGED <<fifos, pc, list, mine, shutdown>>

-----------------------------------------------------------------------------
Setup(p) ==
  List(p) \/ Sweep(p) \/ MakeFifo(p) \/ MakeFifoFails(p) \/ Load(p)
  \/ LoadFails(p) \/ LoadUnanswered(p)

Open(p) == OpenFifo(p) \/ OpenFails(p)

Destroy(p) == DestroyNothing(p) \/ DestroyModule(p)

Next ==
  \/ \E p \in Proc :
       Setup(p) \/ Open(p) \/ Run(p) \/ RunEnds(p) \/ RunBreaks(p)
       \/ Destroy(p) \/ Signal(p) \/ Kill(p) \/ Disconnect(p)
  \/ ServerRestart

Spec == Init /\ [][Next]_vars

\* The server answers or drops the connection, so every step of setup ends; the
\* wait for a reader has no limit of its own, but it polls the shutdown flag.
\* Writes need not fail.
Progress(p) ==
  Setup(p) \/ (shutdown[p] /\ Open(p)) \/ Run(p) \/ RunEnds(p) \/ Destroy(p)

FairSpec == Spec /\ \A p \in Proc : WF_vars(Progress(p))

-----------------------------------------------------------------------------
\* The types; in particular the cleanup only ever looks at audpipe's modules.
TypeOK ==
  /\ Other \subseteq modules /\ modules \subseteq Proc \union Other
  /\ fifos \subseteq Proc /\ left \subseteq Proc
  /\ pc \in [Proc -> Places]
  /\ connected \in [Proc -> BOOLEAN]
  /\ stale \in [Proc -> SUBSET Proc] /\ swept \in [Proc -> SUBSET Proc]
  /\ mod_idx \in [Proc -> Proc \union {NONE}]
  /\ \A p \in Proc : mod_idx[p] \in {NONE, p}
  /\ fd \in [Proc -> BOOLEAN] /\ loaded \in [Proc -> BOOLEAN]
  /\ shutdown \in [Proc -> BOOLEAN]

Finished == {"destroyed", "ended"}
Before   == {"new", "sweep", "load"}
Sourcing == {"open", "ready", "run"}

\* A program that ends on its own leaves its module on the server only when an
\* operation on it failed: every path out of setup and run unloads what it
\* loaded, though setup's failures never set virtual_source_loaded.
NoModuleLeaked ==
  \A p \in Proc : pc[p] \in Finished /\ p \in modules => p \in left

\* It never leaves its FIFO behind.
NoFifoLeaked == \A p \in Proc : pc[p] \in Finished => p \notin fifos

\* Neither: every way out of a program that is not killed undoes its setup.
NothingLeaked == NoModuleLeaked /\ NoFifoLeaked

\* The module under a program that waits for it or writes to it goes away only
\* with the server's connection or by the cleanup of another program.
LostOnlyToCleanup ==
  \A p \in Proc :
    pc[p] \in Sourcing /\ p \notin modules =>
      ~connected[p] \/ \E q \in Proc \ {p} : p \in swept[q]

\* pulseaudio_backend.hxx:79: the cleanup unloads instances "from previous
\* runs"; so a running program that is connected has its module.
SparesTheLiving ==
  \A p \in Proc : pc[p] = "run" /\ connected[p] => p \in modules

\* A program asked to stop ends, although a module that another program
\* unloaded makes it wait for a reader that never comes.
ShutdownEnds ==
  \A p \in Proc : shutdown[p] ~> pc[p] \in Finished \union {"killed"}

-----------------------------------------------------------------------------
\* What the next start does about a crash.  A program that starts after m was
\* killed, gets as far as a source of its own and is still connected has seen
\* m's module unloaded, or an unload fail: then, and in every later state,
\* whoever else starts, cleans up or dies meanwhile.
KilledIsCleanedUp(p, m) ==
  [](pc[p] = "new" /\ pc[m] = "killed"
       => [](pc[p] \in Sourcing \union {"load"} /\ connected[p] /\ m \in modules
               => m \in left))

NextStartCleansUp == \A p, m \in Proc : KilledIsCleanedUp(p, m)

Phase(place) ==
  CASE place \in Before           -> "starting"
    [] place = "open"             -> "made"
    [] place \in {"ready", "run"} -> "inUse"
    [] place = "over"             -> "leaving"
    [] place \in Finished         -> "gone"
    [] OTHER                      -> "killed"

M == INSTANCE Microphones WITH
       phase  <- [p \in Proc |-> Phase(pc[p])],
       there  <- modules \ Other,
       broken <- left,
       pipes  <- fifos

\* The programs together are what Microphones promises: each way out of a
\* program undoes its setup or blames the server, a program uses only a source
\* that is there, and nobody but its owner and the cleanup of a start takes a
\* source away.
ImplementsMicrophones == M!Spec

=============================================================================
