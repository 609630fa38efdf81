-------------------------------- MODULE Link --------------------------------
(***************************************************************************)
(* The whole program: the server of Sender, a network that may lose frames *)
(* and, unless it is orderly, repeat and reorder them, and the client's    *)
(* data path of Playback, which numbers frames as they arrive.             *)
(***************************************************************************)
EXTENDS Playback

CONSTANTS FragmentUnits, MaxUnits, Stopper   \* of Sender

ASSUME LinkAssumption ==
  /\ FragmentUnits \subseteq Nat \ {0} /\ MaxUnits \in Nat
  /\ Stopper \in BOOLEAN

VARIABLES
  main, stream, recording, captured, fragment, opus_enc_outbuf, sent, stopped,
  destroyed, other,
  server_shutdown,   \* the flag of the server's process
  orderly,           \* the network neither reorders nor repeats
  arrived            \* history: which of the sent frames the client queued

S == INSTANCE Sender WITH shutdown_requested <- server_shutdown

serverVars == <<main, stream, recording, captured, fragment, opus_enc_outbuf,
                sent, stopped, destroyed, other, server_shutdown>>
linkVars   == <<vars, serverVars, orderly, arrived>>

LinkInit == Init /\ S!Init /\ orderly \in BOOLEAN /\ arrived = <<>>

-----------------------------------------------------------------------------
ServerStep == S!Next /\ UNCHANGED <<vars, orderly, arrived>>

\* What the network may deliver next, of what was sent.
Deliverable ==
  {i \in 1..Len(sent) : orderly => \A n \in 1..Len(arrived) : arrived[n] < i}

\* The hook queues frames as they come: there is no jitter buffer, and nobody
\* looks at RTP's sequence numbers.
Arrive ==
  /\ RecvQueue
  /\ \E i \in Deliverable : arrived' = Append(arrived, i)
  /\ UNCHANGED <<serverVars, orderly>>

ClientStep ==
  /\ RecvAdmit \/ RecvEmpty \/ Mic \/ Main
  /\ UNCHANGED <<serverVars, orderly, arrived>>

LinkNext == ServerStep \/ Arrive \/ ClientStep

LinkSpec == LinkInit /\ [][LinkNext]_linkVars

-----------------------------------------------------------------------------
\* The client's ranks and the network agree on how much arrived.
LinkTypeOK ==
  /\ orderly \in BOOLEAN
  /\ arrived \in Seq(1..Len(sent)) /\ Len(arrived) = frames_received

\* The unit of the capture that a unit of the client's stream was.
Origin(u) == sent[arrived[u[1]]] + (u[2] - 1)

Heard == [n \in 1..Len(out) |-> Origin(out[n])]

R == INSTANCE Relay WITH heard <- Heard

\* Fragments that are cut, an encoder that reuses its buffer, a queue that
\* overflows, buffers given up and writes that are split: end to end, what
\* comes out of the FIFO is still a part of what was captured, in its order
\* when the network keeps it.
ImplementsRelay == R!Spec

=============================================================================
