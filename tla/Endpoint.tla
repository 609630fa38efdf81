------------------------------ MODULE Endpoint ------------------------------
(***************************************************************************)
(* What an RTP endpoint promises to the Client or the Server that owns it: *)
(* its stream is used only while it is active, and once a stop is over     *)
(* nobody is inside any more.  A use is a run of the receive hook or a     *)
(* push of a frame.                                                        *)
(***************************************************************************)
VARIABLES
  phase,   \* "building", "active", "stopping", "stopped" or "failed"
  inUse    \* a hook or a push is inside the stream

endpointVars == <<phase, inUse>>

Init == phase = "building" /\ inUse = FALSE

Start == phase = "building" /\ phase' = "active" /\ UNCHANGED inUse
Fail  == phase = "building" /\ phase' = "failed" /\ UNCHANGED inUse

Enter == phase = "active" /\ ~inUse /\ inUse' = TRUE /\ UNCHANGED phase
Leave == inUse /\ inUse' = FALSE /\ UNCHANGED phase

\* A stop first keeps new users out and then waits for the one inside; when
\* there is none, both at once.
Stop    == phase = "active" /\ phase' = "stopping" /\ UNCHANGED inUse
Stopped == /\ phase \in {"active", "stopping"} /\ ~inUse
           /\ phase' = "stopped" /\ UNCHANGED inUse

Next == Start \/ Fail \/ Enter \/ Leave \/ Stop \/ Stopped

Spec == Init /\ [][Next]_endpointVars
=============================================================================
