---------------------------- MODULE SenderProofs ----------------------------
(***************************************************************************)
(* Proofs about Sender for every frame size and every size of fragments.   *)
(***************************************************************************)
EXTENDS Sender, SequenceTheorems, TLAPS

\* The frames sent so far end before unit n.
SentBefore(n) == \A i \in 1..Len(sent) : sent[i] + FrameUnits <= n

\* What the data callback looks at was captured after all that was sent.
Fresh ==
  /\ SentBefore(captured + 1)
  /\ main = "callback" => fragment # 0 /\ SentBefore((captured - fragment) + 1)
  /\ main \in {"write", "push"} =>
       /\ opus_enc_outbuf # 0
       /\ opus_enc_outbuf + FrameUnits <= captured + 1
       /\ SentBefore(opus_enc_outbuf)

\* The flag and the stream agree; main holds the mutex only over a live stream.
Teardown ==
  /\ destroyed = IF stopped THEN 1 ELSE 0
  /\ main = "push" => ~stopped
  /\ main \in {"free", "ended"} => stopped

IInv == TypeOK /\ SentInOrder /\ Fresh /\ Teardown

-----------------------------------------------------------------------------
LEMMA InitIInv == Init => IInv
  <1> SUFFICES ASSUME Init PROVE IInv
    OBVIOUS
  <1> USE SenderAssumption DEF Init
  <1>1. <<>> \in Seq(1..captured) /\ Len(<<>>) = 0
    BY EmptySeq
  <1>2. captured \in 0..MaxUnits /\ fragment \in 0..captured
        /\ opus_enc_outbuf \in 0..captured /\ sent \in Seq(1..captured)
    BY <1>1
  <1>3. TypeOK
    BY <1>2 DEF TypeOK, Recording, Leaving, Over
  <1> QED
    BY <1>1, <1>3 DEF IInv, SentInOrder, Fresh, SentBefore, Teardown

\* A sequence of units stays one when more are captured.
LEMMA MoreUnits ==
  ASSUME NEW c \in Nat, NEW d \in Nat, c <= d, NEW s \in Seq(1..c)
  PROVE  s \in Seq(1..d)
  <1>1. \A i \in 1..Len(s) : s[i] \in 1..c
    BY ElementOfSeq
  <1>2. \A i \in 1..Len(s) : s[i] \in 1..d
    BY <1>1
  <1>3. Len(s) \in Nat /\ s = [i \in 1..Len(s) |-> s[i]]
    OBVIOUS
  <1>4. s \in [1..Len(s) -> 1..d]
    BY <1>2, <1>3
  <1> QED
    BY <1>3, <1>4, SeqDef

\* Sending one more frame that lies after all others.
LEMMA SendNext ==
  ASSUME NEW c \in Nat, NEW s \in Seq(1..c), NEW f \in 1..c,
         f + FrameUnits <= c + 1,
         \A i \in 1..Len(s) : s[i] + FrameUnits <= f,
         \A i, j \in 1..Len(s) : i < j => s[i] + FrameUnits <= s[j]
  PROVE  LET t == Append(s, f)
         IN  /\ t \in Seq(1..c)
             /\ \A i \in 1..Len(t) : t[i] + FrameUnits <= c + 1
             /\ \A i, j \in 1..Len(t) : i < j => t[i] + FrameUnits <= t[j]
  <1> DEFINE t == Append(s, f)
  <1>1. /\ t \in Seq(1..c) /\ Len(s) \in Nat /\ Len(t) = Len(s) + 1
        /\ t[Len(s) + 1] = f
        /\ \A i \in 1..Len(s) : t[i] = s[i] /\ s[i] \in 1..c
    BY AppendProperties
  <1> HIDE DEF t
  <1>2. ASSUME NEW i \in 1..Len(t)
        PROVE  t[i] + FrameUnits <= c + 1
    <2>1. CASE i \in 1..Len(s)
      <3>1. t[i] = s[i] /\ s[i] \in 1..c
        BY <1>1, <2>1
      <3>2. f \in Nat /\ f <= c /\ FrameUnits \in Nat
        BY SenderAssumption
      <3>3. s[i] + FrameUnits <= f
        BY <2>1
      <3>4. s[i] \in Nat
        BY <3>1
      <3> HIDE <1>1, <1>2
      <3> QED
        BY <3>1, <3>2, <3>3, <3>4
    <2>2. CASE i = Len(s) + 1
      BY <1>1, <2>2
    <2> QED
      BY <1>1, <2>1, <2>2
  <1>3. ASSUME NEW i \in 1..Len(t), NEW j \in 1..Len(t), i < j
        PROVE  t[i] + FrameUnits <= t[j]
    <2>1. i \in 1..Len(s)
      BY <1>1, <1>3
    <2>2. CASE j \in 1..Len(s)
      BY <1>1, <1>3, <2>1, <2>2
    <2>3. CASE j = Len(s) + 1
      BY <1>1, <2>1, <2>3
    <2> QED
      BY <1>1, <2>2, <2>3
  <1> QED
    BY <1>1, <1>2, <1>3 DEF t

LEMMA NextIInv == IInv /\ [Next]_vars => IInv'
  <1> SUFFICES ASSUME IInv, [Next]_vars PROVE IInv'
    OBVIOUS
  <1> USE SenderAssumption DEF IInv, TypeOK, Recording, Leaving, Over
  <1>1. CASE Connect \/ ConnectFails \/ StreamReady \/ StreamNeverReady \/ Arm
             \/ LoopEnds \/ LoopBlocks \/ Wake \/ StreamFails \/ PeekEmpty
             \/ WriteStopped \/ WriteFrames \/ Close \/ StopRecording
             \/ OtherStopsRecording \/ SignalShutdown
    <2>1. /\ UNCHANGED <<captured, fragment, opus_enc_outbuf, sent, stopped,
                         destroyed>>
          /\ main' # "callback" \/ main = "callback"
          /\ main' \in {"write", "push"} => main \in {"write", "push"}
          /\ main' = "push" => ~stopped
          /\ main' \in {"free", "ended"} => main \in {"free", "ended"}
      BY <1>1 DEF Connect, ConnectFails, StreamReady, StreamNeverReady, Arm,
         LoopEnds, LoopBlocks, Wake, StreamFails, PeekEmpty, WriteStopped,
         WriteFrames, Close, StopRecording, OtherStopsRecording,
         SignalShutdown, audio, rtp, Teardown
    <2>2. TypeOK'
      <3>1. CASE Connect \/ ConnectFails \/ StreamReady \/ StreamNeverReady
                 \/ Arm
        BY <2>1, <3>1 DEF Connect, ConnectFails, StreamReady,
           StreamNeverReady, Arm
      <3>2. CASE LoopEnds \/ LoopBlocks \/ Wake \/ StreamFails
        BY <2>1, <3>2 DEF LoopEnds, LoopBlocks, Wake, StreamFails
      <3>3. CASE PeekEmpty \/ WriteStopped \/ WriteFrames \/ Close
        BY <2>1, <3>3 DEF PeekEmpty, WriteStopped, WriteFrames, Close
      <3>4. CASE StopRecording
        BY <2>1, <3>4 DEF StopRecording
      <3>5. CASE OtherStopsRecording
        BY <2>1, <3>5 DEF OtherStopsRecording
      <3>6. CASE SignalShutdown
        BY <2>1, <3>6 DEF SignalShutdown
      <3> QED
        BY <1>1, <3>1, <3>2, <3>3, <3>4, <3>5, <3>6
    <2> QED
      BY <2>1, <2>2 DEF SentInOrder, Fresh, SentBefore, Teardown
  <1>2. CASE Peek
    <2>1. PICK n \in FragmentUnits : /\ captured + n <= MaxUnits
                                     /\ captured' = captured + n
                                     /\ fragment' = n
      BY <1>2 DEF Peek
    <2>2. n \in Nat \ {0}
      BY <2>1
    <2>3. UNCHANGED <<stream, recording, opus_enc_outbuf, sent, rtp, other,
                      shutdown_requested>> /\ main' = "callback"
      BY <1>2 DEF Peek
    <2>4. sent' \in Seq(1..captured')
      BY <2>1, <2>2, <2>3, MoreUnits
    <2>5. TypeOK'
      BY <2>1, <2>2, <2>3, <2>4 DEF rtp
    <2>6. SentInOrder' /\ Fresh'
      <3>1. (captured' - fragment') + 1 = captured + 1
        BY <2>1, <2>2
      <3>2. captured + 1 <= captured' + 1
        BY <2>1, <2>2
      <3>3. \A i \in 1..Len(sent) : sent[i] \in Nat
        OBVIOUS
      <3> QED
        BY <2>1, <2>2, <2>3, <3>1, <3>2, <3>3 DEF SentInOrder, Fresh, SentBefore
    <2>7. Teardown'
      BY <2>3 DEF Teardown, rtp
    <2> QED
      BY <2>5, <2>6, <2>7
  <1>3. CASE Encode \/ EncodeFails
    <2>1. /\ UNCHANGED <<captured, sent, stopped, destroyed, stream, recording,
                         fragment, other, shutdown_requested>>
          /\ main' \in {"peek", "write", "unwind", "aborted"}
          /\ opus_enc_outbuf' \in 0..captured
          /\ main' = "write" =>
               /\ opus_enc_outbuf' = (captured - fragment) + 1
               /\ opus_enc_outbuf' # 0 /\ fragment >= FrameUnits
               /\ main = "callback"
      BY <1>3 DEF Encode, EncodeFails, Encoded, rtp, Fresh
    <2>2. TypeOK'
      BY <2>1
    <2>3. main' = "write" =>
            /\ opus_enc_outbuf' + FrameUnits <= captured + 1
            /\ SentBefore(opus_enc_outbuf')
      BY <2>1 DEF Fresh
    <2>4. Fresh'
      BY <2>1, <2>3 DEF Fresh, SentBefore
    <2> QED
      BY <2>1, <2>2, <2>4 DEF SentInOrder, Teardown
  <1>4. CASE Push
    <2>1. /\ opus_enc_outbuf \in 1..captured
          /\ opus_enc_outbuf + FrameUnits <= captured + 1
          /\ SentBefore(opus_enc_outbuf)
      BY <1>4 DEF Push, Fresh
    <2>2. /\ UNCHANGED <<captured, fragment, opus_enc_outbuf, rtp, stream,
                         recording, other, shutdown_requested>>
          /\ main' = "peek"
          /\ sent' = sent \/ sent' = Append(sent, opus_enc_outbuf)
      BY <1>4 DEF Push
    <2>3. /\ sent' \in Seq(1..captured)
          /\ \A i \in 1..Len(sent') : sent'[i] + FrameUnits <= captured + 1
          /\ \A i, j \in 1..Len(sent') :
               i < j => sent'[i] + FrameUnits <= sent'[j]
      <3>1. CASE sent' = sent
        BY <3>1 DEF SentInOrder
      <3>2. CASE sent' = Append(sent, opus_enc_outbuf)
        BY <2>1, <3>2, SendNext DEF SentInOrder, SentBefore
      <3> QED
        BY <2>2, <3>1, <3>2
    <2>4. TypeOK'
      BY <2>2, <2>3 DEF rtp
    <2> QED
      BY <2>2, <2>3, <2>4 DEF SentInOrder, Fresh, SentBefore, Teardown, rtp
  <1>5. CASE StopRtp \/ DestroyStops \/ DestroyFrees \/ OtherStopsRtp
    <2>1. /\ UNCHANGED audio /\ RtpStop
          /\ main' = main \/ main' \in {"quiet", "free", "ended"}
      BY <1>5 DEF StopRtp, DestroyStops, DestroyFrees, OtherStopsRtp
    <2>2. /\ stopped' = TRUE /\ destroyed' \in Nat
          /\ UNCHANGED <<captured, fragment, opus_enc_outbuf, sent>>
      BY <2>1 DEF RtpStop, audio
    <2>3. /\ main' \in Recording \union Leaving \union Over
          /\ UNCHANGED <<stream, shutdown_requested>>
          /\ recording' \in BOOLEAN /\ other' \in {"idle", "quiet", "done"}
      BY <1>5, <2>1 DEF StopRtp, DestroyStops, DestroyFrees, OtherStopsRtp
    <2>4. TypeOK'
      BY <2>2, <2>3
    <2> QED
      BY <2>1, <2>4 DEF RtpStop, audio, SentInOrder, Fresh, SentBefore, Teardown
  <1>6. CASE UNCHANGED vars
    BY <1>6 DEF vars, audio, rtp, SentInOrder, Fresh, SentBefore, Teardown
  <1> QED
    BY <1>1, <1>2, <1>3, <1>4, <1>5, <1>6 DEF Next, MainStep

LEMMA IInvHolds == Spec => []IInv
  BY InitIInv, NextIInv, PTL DEF Spec

\* Type correctness, for every value of the constants.
THEOREM TypeCorrect == Spec => []TypeOK
  <1>1. IInv => TypeOK
    BY DEF IInv
  <1> QED
    BY <1>1, IInvHolds, PTL

\* No unit of audio is sent twice or out of order, whatever fragments arrive.
THEOREM OrderOfSending == Spec => []SentInOrder
  <1>1. IInv => SentInOrder
    BY DEF IInv
  <1> QED
    BY <1>1, IInvHolds, PTL

\* No frame is pushed into a stream that another thread destroyed.
THEOREM LivePush == Spec => []PushesAlive
  <1>1. IInv => PushesAlive
    BY DEF IInv, Teardown, PushesAlive
  <1> QED
    BY <1>1, IInvHolds, PTL

-----------------------------------------------------------------------------
(* The server's Rtp is an Endpoint.                                        *)

\* Rtp::stop by anybody: the end of the endpoint, or nothing any more.
LEMMA StopRefines ==
  ASSUME RtpStop, main' # "push", stopped \in BOOLEAN
  PROVE  [EP!Stopped]_(EP!endpointVars)
  BY DEF RtpStop, EP!Stopped, EP!endpointVars

LEMMA StepRefines ==
  ASSUME stopped \in BOOLEAN, [Next]_vars
  PROVE  [EP!Next]_(EP!endpointVars)
  <1>1. CASE StopRtp \/ DestroyStops \/ DestroyFrees \/ OtherStopsRtp
    <2>1. RtpStop /\ main' # "push"
      BY <1>1 DEF StopRtp, DestroyStops, DestroyFrees, OtherStopsRtp, RtpStop
    <2> QED
      BY <2>1, StopRefines DEF EP!Next
  <1>2. CASE WriteFrames
    BY <1>2 DEF WriteFrames, rtp, EP!Next, EP!Enter
  <1>3. CASE Push
    BY <1>3 DEF Push, rtp, EP!Next, EP!Leave
  <1>4. CASE \/ Connect \/ ConnectFails \/ StreamReady \/ StreamNeverReady
             \/ Arm \/ LoopEnds \/ LoopBlocks \/ Wake \/ StreamFails \/ Peek
             \/ PeekEmpty \/ Encode \/ EncodeFails \/ WriteStopped \/ Close
             \/ StopRecording
    <2>1. stopped' = stopped /\ main # "push" /\ main' # "push"
      BY <1>4 DEF Connect, ConnectFails, StreamReady, StreamNeverReady, Arm,
         LoopEnds, LoopBlocks, Wake, StreamFails, Peek, PeekEmpty, Encode,
         EncodeFails, WriteStopped, Close, StopRecording, rtp
    <2> QED
      BY <2>1 DEF EP!endpointVars
  <1>5. CASE OtherStopsRecording \/ SignalShutdown \/ UNCHANGED vars
    <2>1. stopped' = stopped /\ main' = main
      BY <1>5 DEF OtherStopsRecording, SignalShutdown, vars, rtp
    <2> QED
      BY <2>1 DEF EP!endpointVars
  <1> QED
    BY <1>1, <1>2, <1>3, <1>4, <1>5 DEF Next, MainStep

\* What the server sees of its Rtp, with the stops of another thread, is an
\* Endpoint: RtpEndpoint's refinement justifies that a stop is one step here.
THEOREM EndpointUse == Spec => UsesEndpoint
  <1>1. IInv => stopped \in BOOLEAN
    BY DEF IInv, TypeOK
  <1> QED
    BY IInvHolds, <1>1, StepRefines, PTL DEF Spec, UsesEndpoint

=============================================================================
