----------------------------- MODULE Microphones -----------------------------
(***************************************************************************)
(* What the virtual microphones of all programs on one PulseAudio server   *)
(* promise, without connections, lists and indices: each program has one   *)
(* source in its life, only the owner and a program that is starting take  *)
(* a source away, and a program that ends by itself leaves nothing behind  *)
(* but what the server failed to unload.                                   *)
(***************************************************************************)
CONSTANT Proc

VARIABLES
  phase,   \* phase[p]: "starting", "made", "inUse", "leaving", "gone", "killed"
  there,   \* the programs whose source is on the server
  broken,  \* those of them that an operation failed on
  pipes    \* the programs whose FIFO exists

microphoneVars == <<phase, there, broken, pipes>>

Init == /\ phase = [p \in Proc |-> "starting"]
        /\ there = {} /\ broken = {} /\ pipes = {}

Turn(p, next) == phase' = [phase EXCEPT ![p] = next]

\* The source of m is taken away, or stays because the server fails to.
Unload(m) ==
  \/ there' = there \ {m} /\ UNCHANGED broken
  \/ UNCHANGED there /\ broken' = broken \union ({m} \cap there)

\* A starting program takes away the source of one that has started before.
Clear(p, m) ==
  /\ phase[p] = "starting" /\ phase[m] # "starting" /\ Unload(m)
  /\ UNCHANGED <<phase, pipes>>

Pipe(p) ==
  /\ phase[p] = "starting" /\ pipes' = pipes \union {p}
  /\ UNCHANGED <<phase, there, broken>>

Make(p) ==
  /\ phase[p] = "starting" /\ Turn(p, "made") /\ there' = there \union {p}
  /\ UNCHANGED <<broken, pipes>>

\* The source was made, but its program never learns of it.
MakeUnknown(p) ==
  /\ phase[p] = "starting" /\ Turn(p, "leaving")
  /\ there' = there \union {p} /\ broken' = broken \union {p}
  /\ pipes' = pipes \ {p}

\* A source that was taken away before it could be used is never used.
Use(p) ==
  /\ phase[p] = "made" /\ p \in there /\ Turn(p, "inUse")
  /\ UNCHANGED <<there, broken, pipes>>

Leave(p) ==
  /\ phase[p] \in {"starting", "made", "inUse"} /\ Turn(p, "leaving")
  /\ Unload(p) \/ UNCHANGED <<there, broken>>
  /\ pipes' \in {pipes, pipes \ {p}}

\* Nothing of p is left now, unless it is broken.
Go(p) ==
  /\ phase[p] \in {"starting", "leaving"} /\ Turn(p, "gone")
  /\ Unload(p)
  /\ pipes' = pipes \ {p}

Kill(p) ==
  /\ phase[p] \notin {"gone", "killed"} /\ Turn(p, "killed")
  /\ UNCHANGED <<there, broken, pipes>>

ServerRestart == there' = {} /\ broken' = {} /\ UNCHANGED <<phase, pipes>>

Next ==
  \/ \E p \in Proc :
       \/ Pipe(p) \/ Make(p) \/ MakeUnknown(p) \/ Use(p) \/ Leave(p) \/ Go(p)
       \/ Kill(p)
       \/ \E m \in Proc \ {p} : Clear(p, m)
  \/ ServerRestart

Spec == Init /\ [][Next]_microphoneVars
=============================================================================
