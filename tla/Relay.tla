------------------------------- MODULE Relay -------------------------------
(***************************************************************************)
(* What audpipe as a whole promises about audio: what is heard at the far  *)
(* end was captured at the near one, and on a network that neither         *)
(* reorders nor repeats it is heard in the order of the capture, with      *)
(* gaps but without repetition.  What was heard is never taken back.       *)
(***************************************************************************)
EXTENDS Naturals, Sequences

VARIABLES
  orderly,    \* the network neither reorders nor repeats
  captured,   \* units captured so far: 1, 2, ..., captured
  heard       \* the units heard so far

relayVars == <<orderly, captured, heard>>

Init == orderly \in BOOLEAN /\ captured = 0 /\ heard = <<>>

Capture ==
  /\ captured' \in Nat /\ captured' > captured
  /\ UNCHANGED <<orderly, heard>>

Increasing(s) == \A i, j \in 1..Len(s) : i < j => s[i] < s[j]

Hear ==
  /\ Len(heard') > Len(heard)
  /\ \A i \in 1..Len(heard) : heard'[i] = heard[i]
  /\ \A i \in 1..Len(heard') : heard'[i] \in 1..captured
  /\ orderly => Increasing(heard')
  /\ UNCHANGED <<orderly, captured>>

Next == Capture \/ Hear

Spec == Init /\ [][Next]_relayVars
=============================================================================
