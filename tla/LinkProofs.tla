----------------------------- MODULE LinkProofs -----------------------------
(***************************************************************************)
(* Proofs about the audio.  First about Playback, the client's data path,  *)
(* for every queue limit, buffer size and frame size; then that the whole, *)
(* Link, implements Relay.  Of the server's end Link needs what is proved  *)
(* in SenderProofs: each end of Link behaves as its own specification      *)
(* allows.                                                                 *)
(***************************************************************************)
EXTENDS Link, SequenceTheorems, TLAPS

\* What the position of the mic thread says of its data: the callback decodes
\* only after it emptied playback_queue without filling dst, and dst and offset
\* are meaningful only inside the callback and the write loop.
Phase ==
  /\ decoding # 0 <=> mic = "decode"
  /\ mic \in {"pop", "decode"} => playback_queue = <<>> /\ Len(dst) < BufUnits
  /\ mic = "drain" => Len(dst) < BufUnits
  /\ mic = "write" => offset < Len(dst)
  /\ mic # "write" => offset = 0
  /\ mic \notin {"drain", "pop", "decode", "write"} => dst = <<>>

\* The inductive invariant behind TypeOK and QueuesBounded.
IInv == TypeOK /\ QueuesBounded /\ Phase

-----------------------------------------------------------------------------
(* The operators on sequences.                                             *)

\* Enqueue: the queue stays within its limit whatever it held.
LEMMA EnqueueType ==
  ASSUME NEW q \in Seq(Frames), NEW f \in Frames,
         Len(q) <= MAX_COMPRESSED_QUEUE_FRAMES
  PROVE  /\ Enqueue(q, f) \in Seq(Frames)
         /\ Len(Enqueue(q, f)) <= MAX_COMPRESSED_QUEUE_FRAMES
  BY PlaybackAssumption DEF Enqueue

\* Taken: a critical section takes no more than there is or than fits, and
\* leaves dst full or the queue empty.
LEMMA TakenBounds ==
  ASSUME NEW room \in Nat, NEW q \in Seq(Units)
  PROVE  /\ Taken(room, q) \in 0..Len(q)
         /\ Taken(room, q) <= room
         /\ Taken(room, q) = room \/ Taken(room, q) = Len(q)
  BY DEF Taken

\* Decoded: what one opus_decode call leaves in pcm_decbuf.
LEMMA DecodedType ==
  ASSUME NEW f \in Frames, NEW n \in 1..FrameUnits
  PROVE  /\ Decoded(f, n) \in Seq(Units)
         /\ Len(Decoded(f, n)) = n
         /\ \A i \in 1..n : Decoded(f, n)[i] = <<f, i>>
  <1>1. \A i \in 1..n : <<f, i>> \in Units
    BY PlaybackAssumption DEF Units
  <1>2. n \in Nat
    BY PlaybackAssumption
  <1> QED
    BY <1>1, <1>2, IsASeq DEF Decoded

\* Accepted: a write takes at least one unit and at most what it was given.
LEMMA AcceptedBounds ==
  ASSUME NEW k \in Nat \ {0}, NEW n \in Accepted(k)
  PROVE  n \in 1..k
  BY DEF Accepted

\* The empty queue and the empty buffer.
LEMMA Empties ==
  /\ <<>> \in Seq(Frames) /\ <<>> \in Seq(Units)
  /\ Len(<<>>) = 0
  BY EmptySeq

\* What Drain takes, what it leaves, and what dst becomes.
LEMMA Prefix ==
  ASSUME NEW q \in Seq(Units), NEW k \in 0..Len(q)
  PROVE  SubSeq(q, 1, k) \in Seq(Units) /\ Len(SubSeq(q, 1, k)) = k
  BY LenProperties, SubSeqProperties

LEMMA Suffix ==
  ASSUME NEW q \in Seq(Units), NEW k \in 0..Len(q)
  PROVE  /\ SubSeq(q, k + 1, Len(q)) \in Seq(Units)
         /\ Len(SubSeq(q, k + 1, Len(q))) = Len(q) - k
  BY LenProperties, SubSeqProperties

LEMMA Joined ==
  ASSUME NEW q \in Seq(Units), NEW r \in Seq(Units)
  PROVE  q \o r \in Seq(Units) /\ Len(q \o r) = Len(q) + Len(r)
  BY ConcatProperties

-----------------------------------------------------------------------------
(* Type correctness and the bounds of the queues.                          *)

LEMMA InitIInv == Init => IInv
  <1> SUFFICES ASSUME Init PROVE IInv
    OBVIOUS
  <1> USE PlaybackAssumption, Empties DEF Init
  <1>1. compressed_queue \in Seq(Frames) /\ playback_queue \in Seq(Units)
    OBVIOUS
  <1>2. dst \in Seq(Units) /\ out \in Seq(Units)
    OBVIOUS
  <1>3. decoding \in 0..MaxFrames /\ offset \in 0..BufUnits
    OBVIOUS
  <1>4. TypeOK
    BY <1>1, <1>2, <1>3 DEF TypeOK, MicStates
  <1>5. QueuesBounded
    BY DEF QueuesBounded
  <1>6. Phase
    BY DEF Phase
  <1> QED
    BY <1>4, <1>5, <1>6 DEF IInv

LEMMA NextIInv == IInv /\ [Next]_vars => IInv'
  <1> SUFFICES ASSUME IInv, [Next]_vars PROVE IInv'
    OBVIOUS
  <1> USE PlaybackAssumption, Empties DEF IInv, TypeOK, QueuesBounded, Phase, MicStates
  <1>1. CASE RecvAdmit
    BY <1>1 DEF RecvAdmit, micVars, flags
  <1>2. CASE RecvQueue
    <2>1. frames_received + 1 \in Frames
      BY <1>2 DEF RecvQueue, Frames
    <2>2. /\ compressed_queue' \in Seq(Frames)
          /\ Len(compressed_queue') <= MAX_COMPRESSED_QUEUE_FRAMES
      BY <1>2, <2>1, EnqueueType DEF RecvQueue
    <2> QED
      BY <1>2, <2>1, <2>2 DEF RecvQueue, Frames, micVars, flags
  <1>3. CASE RecvEmpty
    BY <1>3 DEF RecvEmpty, micVars, flags
  <1>4. CASE SetupDone
    BY <1>4 DEF SetupDone, hookVars, flags
  <1>5. CASE SetupFails
    BY <1>5 DEF SetupFails, Die, hookVars, flags
  <1>6. CASE LoopExit
    BY <1>6 DEF LoopExit, hookVars, flags
  <1>7. CASE CallbackEnter
    BY <1>7 DEF CallbackEnter, hookVars, flags
  <1>8. CASE Drain
    <2> DEFINE k == Taken(BufUnits - Len(dst), playback_queue)
    <2>1. BufUnits - Len(dst) \in Nat
      BY <1>8 DEF Drain
    <2>2. /\ k \in 0..Len(playback_queue)
          /\ k <= BufUnits - Len(dst)
          /\ k = BufUnits - Len(dst) \/ k = Len(playback_queue)
      BY <2>1, TakenBounds
    <2>3. /\ dst' = dst \o SubSeq(playback_queue, 1, k)
          /\ playback_queue' =
               SubSeq(playback_queue, k + 1, Len(playback_queue))
          /\ mic' = IF Len(dst) + k = BufUnits THEN "write" ELSE "pop"
          /\ UNCHANGED <<compressed_queue, hookVars, decoding, offset, out,
                         playback, flags>>
      BY <1>8 DEF Drain
    <2> HIDE DEF k
    <2>4. /\ SubSeq(playback_queue, 1, k) \in Seq(Units)
          /\ Len(SubSeq(playback_queue, 1, k)) = k
      BY <2>2, Prefix
    <2>5. /\ playback_queue' \in Seq(Units)
          /\ Len(playback_queue') = Len(playback_queue) - k
      BY <2>2, <2>3, Suffix
    <2>6. dst' \in Seq(Units) /\ Len(dst') = Len(dst) + k
      <3> DEFINE t == SubSeq(playback_queue, 1, k)
      <3>1. dst \in Seq(Units) /\ t \in Seq(Units) /\ Len(t) = k
            /\ dst' = dst \o t
        BY <2>3, <2>4
      <3> HIDE DEF t, IInv, TypeOK, QueuesBounded, Phase, MicStates
      <3> QED
        BY <3>1, Joined
    <2>7. Len(dst) + k # BufUnits => playback_queue' = <<>>
      <3>1. Len(dst) \in Nat /\ Len(playback_queue) \in Nat /\ k \in Nat
        BY <2>2
      <3>2. Len(dst) + k # BufUnits => Len(playback_queue') = 0
        BY <2>2, <2>5, <3>1
      <3> QED
        BY <2>5, <3>2, EmptySeq
    <2>8. TypeOK'
      BY <1>8, <2>3, <2>5, <2>6 DEF Drain, hookVars, flags
    <2>9. QueuesBounded'
      BY <2>2, <2>3, <2>5, <2>6
    <2>10. Phase'
      <3>1. /\ mic = "drain" /\ mic' \in {"write", "pop"}
            /\ UNCHANGED <<decoding, offset>> /\ offset = 0 /\ decoding = 0
        BY <1>8, <2>3 DEF Drain
      <3>2. mic' = "pop" => Len(dst') < BufUnits
        <4>1. Len(dst) \in Nat /\ k \in Nat /\ Len(dst) + k <= BufUnits
          BY <2>2
        <4>2. mic' = "pop" => Len(dst) + k # BufUnits
          BY <2>3
        <4> HIDE DEF IInv, TypeOK, QueuesBounded, Phase, MicStates
        <4> QED
          BY <2>6, <4>1, <4>2
      <3>3. mic' = "pop" => playback_queue' = <<>>
        BY <2>3, <2>7
      <3>4. mic' = "write" => 0 < Len(dst')
        BY <2>3, <2>6, <3>1
      <3> QED
        BY <3>1, <3>2, <3>3, <3>4
    <2> QED
      BY <2>8, <2>9, <2>10
  <1>9. CASE PopEmpty
    BY <1>9 DEF PopEmpty, hookVars, flags
  <1>10. CASE PopFrame
    BY <1>10 DEF PopFrame, hookVars, flags, Frames
  <1>11. CASE DecodeFrame
    <2>1. decoding \in Frames
      BY <1>11 DEF DecodeFrame, Frames
    <2>2. PICK n \in 1..FrameUnits :
            playback_queue' = playback_queue \o Decoded(decoding, n)
      BY <1>11 DEF DecodeFrame
    <2>3. playback_queue' \in Seq(Units) /\ Len(playback_queue') <= FrameUnits
      BY <1>11, <2>1, <2>2, DecodedType DEF DecodeFrame
    <2> QED
      BY <1>11, <2>3 DEF DecodeFrame, hookVars, flags
  <1>12. CASE DecodeError
    BY <1>12 DEF DecodeError, hookVars, flags
  <1>13. CASE CallbackThrows
    <2>1. decoding' \in 0..MaxFrames /\ offset' \in 0..BufUnits
      BY <1>13 DEF CallbackThrows, Die
    <2>2. dst' \in Seq(Units)
      BY <1>13 DEF CallbackThrows, Die
    <2>3. TypeOK'
      BY <1>13, <2>1, <2>2 DEF CallbackThrows, Die, hookVars, flags
    <2>4. QueuesBounded' /\ Phase'
      BY <1>13 DEF CallbackThrows, Die
    <2> QED
      BY <2>3, <2>4
  <1>14. CASE WriteSome
    <2>1. Len(dst) - offset \in Nat \ {0}
      BY <1>14 DEF WriteSome
    <2>2. PICK n \in Accepted(Len(dst) - offset) :
            /\ out' = out \o SubSeq(dst, offset + 1, offset + n)
            /\ IF Advance(offset, n) < Len(dst)
                 THEN /\ offset' = Advance(offset, n)
                      /\ UNCHANGED <<mic, dst>>
                 ELSE /\ mic' = "loop" /\ dst' = <<>> /\ offset' = 0
      BY <1>14 DEF WriteSome
    <2>3. n \in 1..(Len(dst) - offset)
      BY <2>1, <2>2, AcceptedBounds
    <2>4. out' \in Seq(Units)
      BY <2>2, <2>3
    <2>5. UNCHANGED <<compressed_queue, hookVars, decoding, playback_queue,
                      playback, flags>>
      BY <1>14 DEF WriteSome
    <2>6. CASE offset + n < Len(dst)
      BY <1>14, <2>2, <2>3, <2>4, <2>5, <2>6
         DEF WriteSome, Advance, hookVars, flags
    <2>7. CASE ~(offset + n < Len(dst))
      <3>1. mic' = "loop" /\ dst' = <<>> /\ offset' = 0
        BY <2>2, <2>3, <2>7 DEF Advance
      <3>2. TypeOK'
        BY <2>4, <2>5, <3>1 DEF hookVars, flags
      <3>3. QueuesBounded' /\ Phase'
        BY <1>14, <2>5, <3>1 DEF WriteSome
      <3> QED
        BY <3>2, <3>3
    <2> QED
      BY <2>6, <2>7
  <1>15. CASE WriteWouldBlock
    BY <1>15 DEF WriteWouldBlock, hookVars, flags
  <1>16. CASE WriteFails
    <2>1. decoding' \in 0..MaxFrames /\ offset' \in 0..BufUnits
      BY <1>16 DEF WriteFails, Die
    <2>2. dst' \in Seq(Units)
      BY <1>16 DEF WriteFails, Die
    <2>3. TypeOK'
      BY <1>16, <2>1, <2>2 DEF WriteFails, Die, hookVars, flags
    <2>4. QueuesBounded' /\ Phase'
      BY <1>16 DEF WriteFails, Die
    <2> QED
      BY <2>3, <2>4
  <1>17. CASE SetUnhealthy
    BY <1>17 DEF SetUnhealthy, hookVars
  <1>18. CASE SignalShutdown
    BY <1>18 DEF SignalShutdown, hookVars, micVars, flags
  <1>19. CASE StoreShouldStop
    BY <1>19 DEF StoreShouldStop, hookVars, micVars, flags
  <1>20. CASE StopRecording
    <2>1. playback' \in BOOLEAN
      BY <1>20 DEF StopRecording
    <2>2. UNCHANGED <<compressed_queue, hookVars, micVars, flags>>
      BY <1>20 DEF StopRecording
    <2> QED
      BY <2>1, <2>2 DEF hookVars, micVars, flags
  <1>21. CASE LoopEnter
    BY <1>21 DEF LoopEnter, hookVars, flags
  <1>22. CASE SetStop
    BY <1>22 DEF SetStop, hookVars
  <1>23. CASE SetQuiet
    BY <1>23 DEF SetQuiet, hookVars, flags
  <1>24. CASE UNCHANGED vars
    BY <1>24 DEF vars, hookVars, micVars, flags
  <1> HIDE DEF IInv, TypeOK, QueuesBounded, Phase, MicStates
  <1> QED
    BY <1>1, <1>2, <1>3, <1>4, <1>5, <1>6, <1>7, <1>8, <1>9, <1>10, <1>11,
       <1>12, <1>13, <1>14, <1>15, <1>16, <1>17, <1>18, <1>19, <1>20, <1>21,
       <1>22, <1>23, <1>24
       DEF Next, Hook, Mic, Callback, Main

\* Every behaviour of the data path keeps its types and its queues bounded.
LEMMA IInvHolds == Spec => []IInv
  BY InitIInv, NextIInv, PTL DEF Spec

\* Type correctness, for every value of the constants.
THEOREM TypeCorrect == Spec => []TypeOK
  <1>1. IInv => TypeOK
    BY DEF IInv
  <1> QED
    BY <1>1, IInvHolds, PTL

\* No queue and no buffer of the data path exceeds its limit: the hook's
\* overflow rule and the order in which the callback drains and decodes
\* suffice, whatever the network and the reader of the FIFO do.
THEOREM BoundedMemory == Spec => []QueuesBounded
  <1>1. IInv => QueuesBounded
    BY DEF IInv
  <1> QED
    BY <1>1, IInvHolds, PTL

-----------------------------------------------------------------------------
(* The overflow rule.                                                      *)

\* The queue q is the run of frames that ends with frame f.
Newest(q, f) == \A i \in 1..Len(q) : q[i] = f - Len(q) + i

LEMMA EnqueueNewest ==
  ASSUME NEW q \in Seq(Frames), NEW f \in Nat, f + 1 \in Frames, Newest(q, f)
  PROVE  Newest(Enqueue(q, f + 1), f + 1)
  <1>1. CASE Len(q) >= MAX_COMPRESSED_QUEUE_FRAMES
    <2> DEFINE r == Append(Tail(q), f + 1)
    <2>1. q # <<>> /\ Len(q) \in Nat \ {0}
      BY <1>1, PlaybackAssumption, Empties
    <2>2. Tail(q) \in Seq(Frames) /\ Len(Tail(q)) = Len(q) - 1
      BY <2>1, HeadTailProperties
    <2>3. \A i \in 1..(Len(q) - 1) : Tail(q)[i] = q[i + 1]
      BY <2>1, <2>2, HeadTailProperties
    <2>4. Len(r) = Len(q) /\ r[Len(q)] = f + 1
      BY <2>1, <2>2
    <2>5. ASSUME NEW i \in 1..(Len(q) - 1)
          PROVE  r[i] = f + 1 - Len(q) + i
      <3>1. r[i] = Tail(q)[i]
        BY <2>2
      <3>2. Tail(q)[i] = q[i + 1]
        BY <2>3
      <3>3. q[i + 1] = f - Len(q) + (i + 1)
        BY <2>1 DEF Newest
      <3> QED
        BY <2>1, <3>1, <3>2, <3>3
    <2>6. Enqueue(q, f + 1) = r
      BY <1>1 DEF Enqueue
    <2> HIDE DEF r
    <2>7. ASSUME NEW i \in 1..Len(q)
          PROVE  r[i] = f + 1 - Len(q) + i
      BY <2>1, <2>4, <2>5
    <2> QED
      BY <2>4, <2>6, <2>7 DEF Newest
  <1>2. CASE ~(Len(q) >= MAX_COMPRESSED_QUEUE_FRAMES)
    <2> DEFINE r == Append(q, f + 1)
    <2>1. Enqueue(q, f + 1) = r
      BY <1>2 DEF Enqueue
    <2>2. /\ Len(q) \in Nat
          /\ Len(r) = Len(q) + 1 /\ r[Len(q) + 1] = f + 1
          /\ \A i \in 1..Len(q) : r[i] = q[i]
      BY AppendProperties
    <2> HIDE DEF r
    <2>3. ASSUME NEW i \in 1..Len(r)
          PROVE  r[i] = f + 1 - Len(r) + i
      BY <2>2 DEF Newest
    <2> QED
      BY <2>1, <2>3 DEF Newest
  <1> QED
    BY <1>1, <1>2

LEMMA NewestStep ==
  ASSUME IInv, QueueIsNewest, [Next]_vars
  PROVE  QueueIsNewest'
  <1>1. CASE RecvQueue
    <2> DEFINE q == compressed_queue
               f == frames_received
    <2>1. /\ f \in Nat /\ f + 1 \in Frames
          /\ q \in Seq(Frames)
          /\ q' = Enqueue(q, f + 1) /\ f' = f + 1
      BY <1>1, PlaybackAssumption DEF RecvQueue, IInv, TypeOK, Frames
    <2>2. Newest(q, f)
      BY DEF QueueIsNewest, Newest
    <2> HIDE DEF q, f
    <2>3. Newest(Enqueue(q, f + 1), f + 1)
      BY <2>1, <2>2, EnqueueNewest
    <2>4. Newest(q', f')
      BY <2>1, <2>3
    <2> USE DEF q, f
    <2> QED
      BY <2>4 DEF QueueIsNewest, Newest
  <1>2. CASE PopFrame
    <2>1. /\ compressed_queue # <<>>
          /\ compressed_queue' = Tail(compressed_queue)
          /\ frames_received' = frames_received
      BY <1>2 DEF PopFrame, hookVars
    <2>2. compressed_queue \in Seq(Frames) /\ frames_received \in Nat
      BY DEF IInv, TypeOK
    <2>3. /\ Len(compressed_queue') = Len(compressed_queue) - 1
          /\ \A i \in 1..Len(compressed_queue') :
               compressed_queue'[i] = compressed_queue[i + 1]
      BY <2>1, <2>2, HeadTailProperties
    <2>4. Len(compressed_queue) \in Nat
      BY <2>2
    <2>5. ASSUME NEW i \in 1..Len(compressed_queue')
          PROVE  compressed_queue'[i]
                   = frames_received' - Len(compressed_queue') + i
      <3>1. i + 1 \in 1..Len(compressed_queue)
        BY <2>3, <2>4
      <3> QED
        BY <2>1, <2>2, <2>3, <2>4, <3>1 DEF QueueIsNewest
    <2> QED
      BY <2>5 DEF QueueIsNewest
  <1>3. CASE UNCHANGED <<compressed_queue, frames_received>>
    BY <1>3 DEF QueueIsNewest
  <1>4. ASSUME Next, ~RecvQueue, ~PopFrame
        PROVE  UNCHANGED <<compressed_queue, frames_received>>
    BY <1>4 DEF Next, Hook, Mic, Callback, Main, RecvAdmit, RecvEmpty,
       SetupDone, SetupFails, LoopExit, CallbackEnter, Drain, PopEmpty,
       DecodeFrame, DecodeError, CallbackThrows, WriteSome, WriteWouldBlock,
       WriteFails, LoopEnter, SetUnhealthy, SetStop, SetQuiet,
       SignalShutdown, StoreShouldStop, StopRecording, hookVars, micVars, flags
  <1> QED
    BY <1>1, <1>2, <1>3, <1>4 DEF vars, hookVars

\* An overflow loses the oldest frames and nothing else.
THEOREM OverflowDropsOldest == Spec => []QueueIsNewest
  <1>1. Init => QueueIsNewest
    BY Empties DEF Init, QueueIsNewest
  <1>2. IInv /\ QueueIsNewest /\ [Next]_vars => QueueIsNewest'
    BY NewestStep
  <1> QED
    BY <1>1, <1>2, IInvHolds, PTL DEF Spec

-----------------------------------------------------------------------------
(* The order of the stream.                                                *)

Ordered(s) == \A i, j \in 1..Len(s) : i < j => Before(s[i], s[j])

\* All units of s come from frames up to m, or before m.
Upto(s, m)  == \A i \in 1..Len(s) : s[i][1] <= m
Older(s, m) == \A i \in 1..Len(s) : s[i][1] < m

\* The units that wait to be written.
Rest == SubSeq(dst, offset + 1, Len(dst))

\* The stream is ordered, older than the frame being decoded, which is older
\* than the frames still in the compressed queue.
OrderInv ==
  /\ Ordered(Stream)
  /\ Upto(Stream, frames_received - Len(compressed_queue))
  /\ decoding <= frames_received - Len(compressed_queue)
  /\ decoding # 0 => Older(Stream, decoding)

LEMMA OrderedConcat ==
  ASSUME NEW s \in Seq(Units), NEW t \in Seq(Units), Ordered(s), Ordered(t),
         \A i \in 1..Len(s), j \in 1..Len(t) : s[i][1] < t[j][1]
  PROVE  Ordered(s \o t)
  <1> DEFINE c == s \o t
  <1>1. /\ Len(s) \in Nat /\ Len(t) \in Nat
        /\ Len(c) = Len(s) + Len(t)
        /\ \A i \in 1..Len(s) : c[i] = s[i]
        /\ \A i \in 1..Len(t) : c[Len(s) + i] = t[i]
    BY ConcatProperties
  <1> HIDE DEF c
  <1>2. ASSUME NEW i \in 1..Len(c), NEW j \in 1..Len(c), i < j
        PROVE  Before(c[i], c[j])
    <2>1. CASE j <= Len(s)
      <3>1. i \in 1..Len(s) /\ j \in 1..Len(s)
        BY <1>1, <1>2, <2>1
      <3> QED
        BY <1>1, <1>2, <3>1 DEF Ordered
    <2>2. CASE i <= Len(s) /\ Len(s) < j
      <3>1. i \in 1..Len(s) /\ j - Len(s) \in 1..Len(t)
        <4>1. Len(s) \in Nat /\ Len(t) \in Nat /\ Len(c) = Len(s) + Len(t)
          BY <1>1
        <4> QED
          BY <2>2, <4>1
      <3>2. c[i] = s[i] /\ c[j] = t[j - Len(s)]
        <4>1. c[Len(s) + (j - Len(s))] = t[j - Len(s)]
          BY <1>1, <3>1
        <4>2. Len(s) \in Nat /\ j \in Int /\ Len(s) + (j - Len(s)) = j
          BY <1>1
        <4> QED
          BY <1>1, <3>1, <4>1, <4>2
      <3>3. s[i][1] < t[j - Len(s)][1]
        BY <3>1
      <3> QED
        BY <3>2, <3>3 DEF Before
    <2>3. CASE Len(s) < i
      <3>1. /\ i - Len(s) \in 1..Len(t) /\ j - Len(s) \in 1..Len(t)
            /\ Len(s) + (i - Len(s)) = i /\ Len(s) + (j - Len(s)) = j
        <4>1. Len(s) \in Nat /\ Len(t) \in Nat /\ Len(c) = Len(s) + Len(t)
          BY <1>1
        <4>2. i \in Nat /\ j \in Nat /\ i <= Len(c) /\ j <= Len(c)
          BY <4>1
        <4> QED
          BY <1>2, <2>3, <4>1, <4>2
      <3>2. c[i] = t[i - Len(s)] /\ c[j] = t[j - Len(s)]
        <4>1. \A k \in 1..Len(t) : c[Len(s) + k] = t[k]
          BY <1>1
        <4>2. /\ c[Len(s) + (i - Len(s))] = t[i - Len(s)]
              /\ c[Len(s) + (j - Len(s))] = t[j - Len(s)]
          BY <3>1, <4>1
        <4> QED
          BY <3>1, <4>2
      <3>3. Before(t[i - Len(s)], t[j - Len(s)])
        <4>1. i - Len(s) < j - Len(s)
          <5>1. Len(s) \in Nat /\ i \in Int /\ j \in Int
            BY <1>1
          <5> QED
            BY <1>2, <5>1
        <4> HIDE <1>2
        <4> QED
          BY <3>1, <4>1 DEF Ordered
      <3> QED
        BY <3>2, <3>3
    <2> QED
      BY <1>1, <1>2, <2>1, <2>2, <2>3
  <1> QED
    BY <1>2 DEF Ordered, c

\* Leaving out the middle of a sequence keeps its order and its bounds.
LEMMA DropMiddle ==
  ASSUME NEW a \in Seq(Units), NEW b \in Seq(Units), NEW c \in Seq(Units)
  PROVE  /\ Ordered(a \o b \o c) => Ordered(a \o c)
         /\ \A m : Upto(a \o b \o c, m) => Upto(a \o c, m)
  <1> DEFINE whole == a \o b \o c
             short == a \o c
             at(i) == IF i <= Len(a) THEN i ELSE i + Len(b)
  <1>1. /\ Len(a) \in Nat /\ Len(b) \in Nat /\ Len(c) \in Nat
        /\ Len(whole) = Len(a) + Len(b) + Len(c)
        /\ Len(short) = Len(a) + Len(c)
    OBVIOUS
  <1>2. /\ \A i \in 1..Len(a) : whole[i] = a[i] /\ short[i] = a[i]
        /\ \A i \in 1..Len(c) : /\ whole[Len(a) + Len(b) + i] = c[i]
                                /\ short[Len(a) + i] = c[i]
    <2>1. /\ a \o b \in Seq(Units) /\ Len(a \o b) = Len(a) + Len(b)
          /\ \A i \in 1..Len(a) : (a \o b)[i] = a[i]
      BY <1>1
    <2>2. /\ \A i \in 1..Len(a \o b) : whole[i] = (a \o b)[i]
          /\ \A i \in 1..Len(c) : whole[Len(a \o b) + i] = c[i]
      BY <1>1, <2>1, ConcatProperties
    <2>3. /\ \A i \in 1..Len(a) : short[i] = a[i]
          /\ \A i \in 1..Len(c) : short[Len(a) + i] = c[i]
      BY <1>1, ConcatProperties
    <2> QED
      BY <1>1, <2>1, <2>2, <2>3
  <1> HIDE DEF whole, short
  <1>3. \A i \in 1..Len(short) :
          at(i) \in 1..Len(whole) /\ short[i] = whole[at(i)]
    <2> TAKE i \in 1..Len(short)
    <2>1. CASE i <= Len(a)
      BY <1>1, <1>2, <2>1
    <2>2. CASE ~(i <= Len(a))
      <3>1. i - Len(a) \in 1..Len(c)
        BY <1>1, <2>2
      <3>2. /\ Len(a) + (i - Len(a)) = i
            /\ Len(a) + Len(b) + (i - Len(a)) = i + Len(b)
        BY <1>1, <2>2
      <3>3. at(i) = i + Len(b)
        BY <2>2
      <3>4. at(i) \in 1..Len(whole)
        BY <1>1, <2>2, <3>3
      <3>5. /\ short[Len(a) + (i - Len(a))] = c[i - Len(a)]
            /\ whole[Len(a) + Len(b) + (i - Len(a))] = c[i - Len(a)]
        BY <1>2, <3>1
      <3> QED
        BY <3>2, <3>3, <3>4, <3>5
    <2> QED
      BY <2>1, <2>2
  <1>4. \A i, j \in 1..Len(short) : i < j => at(i) < at(j)
    BY <1>1
  <1> HIDE DEF at
  <1>5. Ordered(whole) => Ordered(short)
    BY <1>3, <1>4 DEF Ordered
  <1>6. \A m : Upto(whole, m) => Upto(short, m)
    BY <1>3 DEF Upto
  <1> QED
    BY <1>5, <1>6 DEF whole, short

\* One more frame at the end of the stream.
LEMMA DecodedOrder ==
  ASSUME NEW s \in Seq(Units), NEW f \in Frames, NEW n \in 1..FrameUnits,
         Ordered(s), Older(s, f)
  PROVE  Ordered(s \o Decoded(f, n)) /\ Upto(s \o Decoded(f, n), f)
  <1> DEFINE t == Decoded(f, n)
  <1>1. n \in Nat /\ f \in Nat
    BY PlaybackAssumption DEF Frames
  <1>2. /\ t \in Seq(Units) /\ Len(t) = n
        /\ \A i \in 1..n : t[i] = <<f, i>>
    BY DecodedType
  <1> HIDE DEF t
  <1>3. Ordered(t)
    BY <1>1, <1>2 DEF Ordered, Before
  <1>4. \A i \in 1..Len(s), j \in 1..Len(t) : s[i][1] < t[j][1]
    BY <1>2 DEF Older
  <1>5. Ordered(s \o t)
    BY <1>2, <1>3, <1>4, OrderedConcat
  <1>6. Upto(s \o t, f)
    <2> SUFFICES ASSUME NEW i \in 1..Len(s \o t) PROVE (s \o t)[i][1] <= f
      BY DEF Upto
    <2>1. /\ Len(s) \in Nat /\ Len(s \o t) = Len(s) + n
          /\ (s \o t)[i] = IF i <= Len(s) THEN s[i] ELSE t[i - Len(s)]
      <3>1. /\ Len(s \o t) = Len(s) + Len(t)
            /\ \A k \in 1..Len(s) + Len(t) :
                 (s \o t)[k] = IF k <= Len(s) THEN s[k] ELSE t[k - Len(s)]
        BY <1>2, ConcatProperties
      <3>2. Len(s) \in Nat
        OBVIOUS
      <3> QED
        BY <1>2, <3>1, <3>2
    <2>2. CASE i <= Len(s)
      <3>1. i \in 1..Len(s)
        BY <2>1, <2>2
      <3>2. s[i][1] < f /\ s[i] \in Frames \X (1..FrameUnits)
        BY <3>1 DEF Older, Units
      <3>3. s[i][1] \in Nat
        BY <3>2 DEF Frames
      <3>4. s[i][1] <= f
        BY <1>1, <3>2, <3>3
      <3> QED
        BY <2>1, <2>2, <3>4
    <2>3. CASE ~(i <= Len(s))
      <3>1. i - Len(s) \in 1..n
        BY <1>1, <2>1, <2>3
      <3> QED
        BY <1>1, <1>2, <2>1, <2>3, <3>1
    <2> QED
      BY <2>2, <2>3
  <1> QED
    BY <1>5, <1>6 DEF t

LEMMA StreamType ==
  ASSUME IInv
  PROVE  Rest \in Seq(Units) /\ Stream = (out \o Rest) \o playback_queue
         /\ Stream \in Seq(Units) /\ out \in Seq(Units)
         /\ playback_queue \in Seq(Units)
         /\ frames_received - Len(compressed_queue) \in Int
         /\ decoding \in Nat
  BY PlaybackAssumption DEF IInv, TypeOK, Rest, Stream

\* Sequences of units are regrouped, and cut at any place k.
LEMMA Regroup ==
  ASSUME NEW s \in Seq(Units), NEW t \in Seq(Units), NEW u \in Seq(Units)
  PROVE  (s \o t) \o u = s \o (t \o u)
  BY ConcatAssociative

LEMMA Cut ==
  ASSUME NEW s \in Seq(Units), NEW m \in 1..(Len(s) + 1),
         NEW k \in (m - 1)..Len(s)
  PROVE  SubSeq(s, m, k) \o SubSeq(s, k + 1, Len(s)) = SubSeq(s, m, Len(s))
  <1>1. Len(s) \in k..Len(s)
    OBVIOUS
  <1> QED
    BY <1>1, ConcatAdjacentSubSeq

LEMMA PartsType ==
  ASSUME NEW s \in Seq(Units), NEW t \in Seq(Units), NEW u \in Seq(Units),
         NEW k \in Nat
  PROVE  (s \o SubSeq(t, k + 1, Len(t))) \o u \in Seq(Units)
  OBVIOUS

\* The critical section of the callback moves units along the stream.
LEMMA DrainKeepsStream ==
  ASSUME IInv, Drain
  PROVE  Stream' = Stream
  <1> DEFINE k == Taken(BufUnits - Len(dst), playback_queue)
             took == SubSeq(playback_queue, 1, k)
             left == SubSeq(playback_queue, k + 1, Len(playback_queue))
  <1>1. /\ dst \in Seq(Units) /\ out \in Seq(Units)
        /\ playback_queue \in Seq(Units)
        /\ offset = 0 /\ BufUnits - Len(dst) \in Nat
    BY PlaybackAssumption DEF IInv, TypeOK, Phase, QueuesBounded, Drain
  <1>2. k \in 0..Len(playback_queue)
    BY <1>1, TakenBounds
  <1>3. /\ dst' = dst \o took /\ playback_queue' = left
        /\ offset' = 0 /\ out' = out
    BY <1>1 DEF Drain
  <1> HIDE DEF k
  <1>4. took \in Seq(Units) /\ left \in Seq(Units)
    BY <1>1, <1>2
  <1>5. took \o left = playback_queue
    <2>1. SubSeq(playback_queue, 1, Len(playback_queue)) = playback_queue
      BY <1>1, SubSeqFull
    <2>2. /\ k \in (1 - 1)..Len(playback_queue)
          /\ 1 \in 1..(Len(playback_queue) + 1)
      BY <1>1, <1>2
    <2>3. took \o left = SubSeq(playback_queue, 1, Len(playback_queue))
      BY <1>1, <2>2, Cut
    <2> QED
      BY <2>1, <2>3
  <1> HIDE DEF took, left
  <1>6. SubSeq(dst, 1, Len(dst)) = dst
    BY <1>1, SubSeqFull
  <1>7. dst \o took \in Seq(Units)
    BY <1>1, <1>4
  <1>8. SubSeq(dst', 1, Len(dst')) = dst \o took
    BY <1>3, <1>7, SubSeqFull
  <1>9. Stream = (out \o dst) \o (took \o left)
    <2>1. offset + 1 = 1
      BY <1>1
    <2>2. SubSeq(dst, offset + 1, Len(dst)) = dst
      BY <1>6, <2>1
    <2> QED
      BY <1>5, <2>2 DEF Stream
  <1>10. Stream' = (out \o (dst \o took)) \o left
    <2>1. offset' + 1 = 1
      BY <1>3
    <2>2. SubSeq(dst', offset' + 1, Len(dst')) = dst \o took
      BY <1>8, <2>1
    <2> QED
      BY <1>3, <2>2 DEF Stream
  <1>11. out \o (dst \o took) = (out \o dst) \o took
    BY <1>1, <1>4, Regroup
  <1>12. ((out \o dst) \o took) \o left = (out \o dst) \o (took \o left)
    <2>1. out \o dst \in Seq(Units)
      BY <1>1
    <2> QED
      BY <1>4, <2>1, Regroup
  <1> QED
    BY <1>9, <1>10, <1>11, <1>12

\* So does a partial write: what the FIFO took is what the buffer lost.
LEMMA WriteKeepsStream ==
  ASSUME IInv, WriteSome
  PROVE  Stream' = Stream
  <1>1. /\ dst \in Seq(Units) /\ out \in Seq(Units)
        /\ playback_queue \in Seq(Units)
        /\ offset \in Nat /\ Len(dst) \in Nat /\ offset < Len(dst)
        /\ playback_queue' = playback_queue
    BY PlaybackAssumption DEF IInv, TypeOK, Phase, WriteSome
  <1>2. PICK n \in Accepted(Len(dst) - offset) :
          /\ out' = out \o SubSeq(dst, offset + 1, offset + n)
          /\ IF Advance(offset, n) < Len(dst)
               THEN /\ offset' = Advance(offset, n)
                    /\ UNCHANGED <<mic, dst>>
               ELSE /\ mic' = "loop" /\ dst' = <<>> /\ offset' = 0
    BY DEF WriteSome
  <1>3. n \in 1..(Len(dst) - offset)
    BY <1>1, <1>2, AcceptedBounds
  <1> DEFINE wrote == SubSeq(dst, offset + 1, offset + n)
             more  == SubSeq(dst, (offset + n) + 1, Len(dst))
  <1>4. wrote \in Seq(Units) /\ more \in Seq(Units)
    BY <1>1, <1>3
  <1>5. wrote \o more = Rest
    <2> DEFINE m == offset + 1
               k == offset + n
    <2>1. m \in 1..(Len(dst) + 1) /\ k \in (m - 1)..Len(dst)
      BY <1>1, <1>3
    <2> HIDE DEF m, k
    <2>2. SubSeq(dst, m, k) \o SubSeq(dst, k + 1, Len(dst))
            = SubSeq(dst, m, Len(dst))
      BY <1>1, <2>1, Cut
    <2> QED
      BY <2>2 DEF Rest, m, k
  <1>6. Rest' = more
    <2>1. CASE offset + n < Len(dst)
      BY <1>2, <2>1 DEF Rest, Advance
    <2>2. CASE ~(offset + n < Len(dst))
      <3>1. dst' = <<>> /\ offset' = 0
        BY <1>2, <2>2 DEF Advance
      <3>2. Rest' = <<>>
        BY <3>1, Empties, SubSeqEmpty DEF Rest
      <3>3. more = <<>>
        <4>1. Len(dst) < offset + n + 1 /\ offset + n + 1 \in Int
          BY <1>1, <1>3, <2>2
        <4> QED
          BY <1>1, <4>1, SubSeqEmpty
      <3> QED
        BY <3>2, <3>3
    <2> QED
      BY <2>1, <2>2
  <1> HIDE DEF wrote, more
  <1>7. out' = out \o wrote
    BY <1>2 DEF wrote
  <1>8. (out \o wrote) \o more = out \o Rest
    BY <1>1, <1>4, <1>5, Regroup
  <1>9. Stream = (out \o Rest) \o playback_queue
        /\ Stream' = (out' \o Rest') \o playback_queue'
    BY DEF Stream, Rest
  <1> QED
    BY <1>1, <1>6, <1>7, <1>8, <1>9

\* Giving up the buffer leaves the stream in order.
LEMMA GivingUpDropsMiddle ==
  ASSUME IInv, dst' = <<>>, offset' = 0,
         UNCHANGED <<out, playback_queue>>
  PROVE  /\ Ordered(Stream) => Ordered(Stream')
         /\ \A m : Upto(Stream, m) => Upto(Stream', m)
  <1>1. Rest' = <<>>
    BY Empties, SubSeqEmpty DEF Rest
  <1>2. /\ out \in Seq(Units) /\ Rest \in Seq(Units)
        /\ playback_queue \in Seq(Units)
        /\ Stream = (out \o Rest) \o playback_queue
    BY StreamType
  <1>3. Stream' = (out \o <<>>) \o playback_queue
    BY <1>1 DEF Stream, Rest
  <1>4. out \o <<>> = out
    BY <1>2
  <1> QED
    BY <1>2, <1>3, <1>4, DropMiddle

\* No step takes frames back into the compressed queue.
LEMMA QueueStep ==
  ASSUME IInv, [Next]_vars, ~PopFrame
  PROVE  /\ frames_received - Len(compressed_queue)
              <= frames_received' - Len(compressed_queue')
         /\ frames_received' - Len(compressed_queue') \in Int
  <1>1. /\ compressed_queue \in Seq(Frames)
        /\ Len(compressed_queue) \in Nat /\ frames_received \in Nat
    BY DEF IInv, TypeOK
  <1>2. CASE RecvQueue
    <2> DEFINE q == compressed_queue
               f == frames_received + 1
    <2>1. compressed_queue' = Enqueue(q, f) /\ frames_received' = f
      BY <1>2 DEF RecvQueue
    <2>2. f \in Frames
      BY <1>2, PlaybackAssumption DEF RecvQueue, IInv, TypeOK, Frames
    <2>3. Enqueue(q, f) \in Seq(Frames) /\ Len(Enqueue(q, f)) <= Len(q) + 1
      BY <1>1, <2>2, PlaybackAssumption DEF Enqueue
    <2>4. Len(compressed_queue') \in Nat
          /\ Len(compressed_queue') <= Len(compressed_queue) + 1
      BY <2>1, <2>3
    <2> QED
      BY <1>1, <2>1, <2>4
  <1>3. CASE UNCHANGED <<compressed_queue, frames_received>>
    BY <1>1, <1>3
  <1>4. ASSUME Next, ~RecvQueue
        PROVE  UNCHANGED <<compressed_queue, frames_received>>
    BY <1>4 DEF Next, Hook, Mic, Callback, Main, RecvAdmit, RecvEmpty,
       SetupDone, SetupFails, LoopExit, CallbackEnter, Drain, PopEmpty,
       DecodeFrame, DecodeError, CallbackThrows, WriteSome, WriteWouldBlock,
       WriteFails, LoopEnter, SetUnhealthy, SetStop, SetQuiet,
       SignalShutdown, StoreShouldStop, StopRecording, hookVars, micVars, flags
  <1> QED
    BY <1>2, <1>3, <1>4 DEF vars, hookVars

\* A step that neither pops nor decodes keeps the order, as long as it leaves
\* the stream alone or gives up its middle.
LEMMA OrderKept ==
  ASSUME IInv, OrderInv, [Next]_vars, ~PopFrame,
         \/ Stream' = Stream /\ decoding' = decoding
         \/ /\ Ordered(Stream) => Ordered(Stream')
            /\ \A m : Upto(Stream, m) => Upto(Stream', m)
            /\ decoding' = 0
  PROVE  OrderInv'
  <1> DEFINE m == frames_received - Len(compressed_queue)
  <1>1. m \in Int /\ m' \in Int /\ m <= m' /\ decoding \in Nat
    BY QueueStep, StreamType
  <1>2. IInv'
    BY NextIInv
  <1>3. Stream' \in Seq(Units)
    <2>1. /\ out' \in Seq(Units) /\ dst' \in Seq(Units)
          /\ playback_queue' \in Seq(Units) /\ offset' \in Nat
      BY <1>2, PlaybackAssumption DEF IInv, TypeOK
    <2> QED
      BY <2>1, PartsType DEF Stream
  <1>4. Ordered(Stream') /\ Upto(Stream', m)
    BY DEF OrderInv
  <1> HIDE DEF m
  <1>5. Upto(Stream', m')
    <2>1. \A i \in 1..Len(Stream') : Stream'[i] \in Units
      BY <1>3
    <2>2. \A i \in 1..Len(Stream') : Stream'[i][1] \in Nat
      BY <2>1 DEF Units, Frames
    <2> QED
      BY <1>1, <1>4, <2>2 DEF Upto
  <1>6. decoding' <= m'
    <2>1. decoding <= m
      BY DEF OrderInv, m
    <2>2. decoding' = decoding \/ decoding' = 0
      OBVIOUS
    <2> QED
      BY <1>1, <2>1, <2>2
  <1>7. decoding' # 0 => Older(Stream', decoding')
    BY DEF OrderInv
  <1> QED
    BY <1>4, <1>5, <1>6, <1>7 DEF OrderInv, Ordered, Upto, Older, m

\* The frame taken out of the queue is newer than everything decoded before.
LEMMA PopOrder ==
  ASSUME IInv, OrderInv, QueueIsNewest, PopFrame
  PROVE  OrderInv'
  <1> DEFINE m == frames_received - Len(compressed_queue)
  <1>1. /\ compressed_queue \in Seq(Frames) /\ compressed_queue # <<>>
        /\ Len(compressed_queue) \in Nat /\ frames_received \in Nat
    BY DEF IInv, TypeOK, PopFrame
  <1>2. 1 \in 1..Len(compressed_queue)
        /\ Len(Tail(compressed_queue)) = Len(compressed_queue) - 1
    BY <1>1, Empties, HeadTailProperties
  <1>3. Head(compressed_queue) = m + 1
    <2>1. Head(compressed_queue) = compressed_queue[1]
      BY <1>1
    <2> QED
      BY <1>2, <2>1 DEF QueueIsNewest
  <1>4. m' = m + 1 /\ decoding' = m + 1
    BY <1>1, <1>2, <1>3 DEF PopFrame, hookVars
  <1>5. Stream' = Stream
    BY DEF PopFrame, Stream
  <1>6. m \in Int /\ Stream \in Seq(Units) /\ Upto(Stream, m)
    BY <1>1, StreamType DEF OrderInv
  <1> HIDE DEF m
  <1>7. \A i \in 1..Len(Stream) : Stream[i][1] \in Nat
    <2>1. \A i \in 1..Len(Stream) : Stream[i] \in Units
      BY <1>6
    <2> QED
      BY <2>1 DEF Units, Frames
  <1>8. Upto(Stream, m + 1) /\ Older(Stream, m + 1)
    BY <1>6, <1>7 DEF Upto, Older
  <1>9. Ordered(Stream)
    BY DEF OrderInv
  <1>10. decoding' <= m'
    BY <1>4, <1>6
  <1>11. Ordered(Stream') /\ Upto(Stream', m') /\ Older(Stream', decoding')
    BY <1>4, <1>5, <1>8, <1>9
  <1> QED
    BY <1>10, <1>11 DEF OrderInv, Ordered, Upto, Older, m

\* Decoding appends the units of its frame to the stream.
LEMMA DecodeOrder ==
  ASSUME IInv, OrderInv, DecodeFrame
  PROVE  OrderInv'
  <1> DEFINE m == frames_received - Len(compressed_queue)
  <1>1. /\ decoding \in Frames /\ playback_queue = <<>>
        /\ decoding' = 0 /\ m' = m /\ m \in Int /\ decoding <= m
        /\ UNCHANGED <<dst, offset, out>>
    BY StreamType DEF IInv, TypeOK, Phase, DecodeFrame, Frames, hookVars,
       OrderInv
  <1>2. PICK n \in 1..FrameUnits :
          playback_queue' = playback_queue \o Decoded(decoding, n)
    BY DEF DecodeFrame
  <1>3. /\ Decoded(decoding, n) \in Seq(Units)
        /\ out \o Rest \in Seq(Units)
    BY <1>1, DecodedType, StreamType
  <1>4. Stream = out \o Rest
    BY <1>1, <1>3, StreamType
  <1>5. Stream' = Stream \o Decoded(decoding, n)
    <2>1. playback_queue' = Decoded(decoding, n)
      BY <1>1, <1>2, <1>3
    <2>2. Stream' = (out \o Rest) \o playback_queue'
      BY <1>1 DEF Stream, Rest
    <2> QED
      BY <1>4, <2>1, <2>2
  <1>6. Ordered(Stream) /\ Older(Stream, decoding) /\ Stream \in Seq(Units)
    BY <1>1, StreamType DEF OrderInv, Frames
  <1>7. Ordered(Stream') /\ Upto(Stream', decoding)
    BY <1>1, <1>5, <1>6, DecodedOrder
  <1>8. Upto(Stream', m)
    <2>1. Stream' \in Seq(Units)
      BY <1>3, <1>5, <1>6
    <2>2. \A i \in 1..Len(Stream') : Stream'[i] \in Units
      BY <2>1
    <2>3. \A i \in 1..Len(Stream') : Stream'[i][1] \in Nat
      BY <2>2 DEF Units, Frames
    <2>4. decoding \in Nat
      BY <1>1 DEF Frames
    <2> HIDE DEF m
    <2> QED
      BY <1>1, <1>7, <2>3, <2>4 DEF Upto
  <1>9. decoding' <= m' /\ decoding' = 0
    BY <1>1, <1>2 DEF Frames
  <1>10. Upto(Stream', m')
    BY <1>1, <1>8
  <1> HIDE DEF m
  <1> QED
    BY <1>7, <1>9, <1>10 DEF OrderInv, Ordered, Upto, Older, m

LEMMA OrderStep ==
  ASSUME IInv, OrderInv, QueueIsNewest, [Next]_vars
  PROVE  OrderInv'
  <1>1. CASE PopFrame
    BY <1>1, PopOrder
  <1>2. CASE DecodeFrame
    BY <1>2, DecodeOrder
  <1> USE DEF PopFrame
  <1>3. CASE Drain
    <2>1. ~PopFrame /\ decoding' = decoding
      BY <1>3 DEF Drain
    <2> QED
      BY <1>3, <2>1, DrainKeepsStream, OrderKept
  <1>4. CASE WriteSome
    <2>1. ~PopFrame /\ decoding' = decoding
      BY <1>4 DEF WriteSome
    <2> QED
      BY <1>4, <2>1, WriteKeepsStream, OrderKept
  <1>5. CASE WriteWouldBlock \/ WriteFails \/ CallbackThrows \/ SetupFails
    <2>1. dst' = <<>> /\ offset' = 0 /\ UNCHANGED <<out, playback_queue>>
      BY <1>5 DEF WriteWouldBlock, WriteFails, CallbackThrows, SetupFails, Die
    <2>2. ~PopFrame
      BY <1>5 DEF WriteWouldBlock, WriteFails, CallbackThrows, SetupFails, Die
    <2>3. decoding' = 0
      BY <1>5 DEF WriteWouldBlock, WriteFails, CallbackThrows, SetupFails, Die,
                  IInv, Phase
    <2> QED
      BY <2>1, <2>2, <2>3, GivingUpDropsMiddle, OrderKept
  <1>6. CASE DecodeError
    <2>1. ~PopFrame /\ decoding' = 0 /\ Stream' = Stream
      BY <1>6 DEF DecodeError, Stream
    <2> QED
      BY <2>1, OrderKept
  <1>7. CASE UNCHANGED <<decoding, playback_queue, dst, offset, out>>
    <2>1. Stream' = Stream /\ decoding' = decoding
      BY <1>7 DEF Stream
    <2>2. CASE ~PopFrame
      BY <2>1, <2>2, OrderKept
    <2> QED
      BY <1>1, <2>2
  <1>8. ASSUME Next, ~PopFrame, ~DecodeFrame, ~Drain, ~WriteSome,
               ~(WriteWouldBlock \/ WriteFails \/ CallbackThrows \/ SetupFails),
               ~DecodeError
        PROVE  UNCHANGED <<decoding, playback_queue, dst, offset, out>>
    BY <1>8 DEF Next, Hook, Mic, Callback, Main, RecvAdmit, RecvEmpty,
       RecvQueue, SetupDone, LoopExit, CallbackEnter, PopEmpty, LoopEnter,
       SetUnhealthy, SetStop, SetQuiet, SignalShutdown, StoreShouldStop,
       StopRecording, micVars
  <1> QED
    BY <1>1, <1>2, <1>3, <1>4, <1>5, <1>6, <1>7, <1>8 DEF vars, micVars

LEMMA OrderInvHolds == Spec => []OrderInv
  <1>1. Init => OrderInv
    <2> SUFFICES ASSUME Init PROVE OrderInv
      OBVIOUS
    <2>1. Len(<<>>) = 0 /\ SubSeq(<<>>, 1, 0) = <<>>
      BY Empties, SubSeqEmpty
    <2>2. Stream = <<>>
      BY <2>1 DEF Init, Stream
    <2> QED
      BY <2>1, <2>2 DEF Init, OrderInv, Ordered, Upto
  <1>2. IInv /\ QueueIsNewest /\ OrderInv /\ [Next]_vars => OrderInv'
    BY OrderStep
  <1> QED
    BY <1>1, <1>2, IInvHolds, OverflowDropsOldest, PTL DEF Spec

\* What the FIFO accepts is in the order of the stream, with nothing twice, and
\* so is what is still to be written: for every size of the buffers, however
\* the kernel splits the writes and whichever frames are lost.
THEOREM StreamInOrder == Spec => []InOrder
  <1>1. OrderInv => InOrder
    BY DEF OrderInv, Ordered, InOrder
  <1> QED
    BY <1>1, OrderInvHolds, PTL

-----------------------------------------------------------------------------
(* The data path implements MicFlow: each of its steps, seen without the    *)
(* audio, is a step of MicFlow or none.                                     *)

\* The hook's steps; an overflowing queue keeps its length.
LEMMA HookRefines == IInv /\ Hook => Flow!FlowNext
  <1> SUFFICES ASSUME IInv, Hook PROVE Flow!FlowNext
    OBVIOUS
  <1> USE DEF IInv, TypeOK
  <1>1. CASE RecvAdmit
    <2>1. Flow!RecvAdmit
      BY <1>1 DEF RecvAdmit, micVars, flags, Flow!RecvAdmit, Flow!flags, FlowMic
    <2> QED
      BY <2>1 DEF Flow!FlowNext, Flow!Hook
  <1>2. CASE RecvQueue
    <2>1. Len(compressed_queue') =
            IF Len(compressed_queue) < MAX_COMPRESSED_QUEUE_FRAMES
              THEN Len(compressed_queue) + 1 ELSE Len(compressed_queue)
      BY <1>2, PlaybackAssumption DEF RecvQueue, Enqueue, QueuesBounded
    <2>2. Flow!RecvDone
      BY <1>2, <2>1 DEF RecvQueue, micVars, flags, Flow!RecvDone, Flow!flags,
         FlowMic
    <2> QED
      BY <2>2 DEF Flow!FlowNext, Flow!Hook
  <1>3. CASE RecvEmpty
    <2>1. Flow!RecvDone
      BY <1>3 DEF RecvEmpty, micVars, flags, Flow!RecvDone, Flow!flags, FlowMic
    <2> QED
      BY <2>1 DEF Flow!FlowNext, Flow!Hook
  <1> QED
    BY <1>1, <1>2, <1>3 DEF Hook

\* The callback's steps.  Its two places "drain" and "pop" are one of
\* MicFlow's, which it leaves without data only when it found no frame.
LEMMA CallbackRefines == IInv /\ Callback => [Flow!FlowNext]_Flow!flowVars
  <1> SUFFICES ASSUME IInv, Callback PROVE [Flow!FlowNext]_Flow!flowVars
    OBVIOUS
  <1> USE DEF FlowMic, hookVars, flags, Flow!flags
  <1>1. CASE CallbackEnter
    <2>1. Flow!CallbackEnter
      BY <1>1 DEF CallbackEnter, Flow!CallbackEnter
    <2> QED
      BY <2>1 DEF Flow!FlowNext, Flow!Mic, Flow!MicRuns, Flow!Callback
  <1>2. CASE Drain
    <2>1. CASE mic' = "pop"
      BY <1>2, <2>1 DEF Drain, Flow!flowVars
    <2>2. CASE mic' = "write"
      <3>1. Flow!CallbackReturn
        BY <1>2, <2>2 DEF Drain, Flow!CallbackReturn
      <3> QED
        BY <3>1 DEF Flow!FlowNext, Flow!Mic, Flow!MicRuns, Flow!Callback
    <2> QED
      BY <1>2, <2>1, <2>2 DEF Drain
  <1>3. CASE PopEmpty
    <2>1. Len(compressed_queue) = 0
      BY <1>3, Empties DEF PopEmpty
    <2>2. Flow!CallbackReturn
      BY <1>3, <2>1 DEF PopEmpty, Flow!CallbackReturn
    <2> QED
      BY <2>2 DEF Flow!FlowNext, Flow!Mic, Flow!MicRuns, Flow!Callback
  <1>4. CASE PopFrame
    <2>1. /\ Len(compressed_queue) > 0
          /\ Len(compressed_queue') = Len(compressed_queue) - 1
      BY <1>4 DEF PopFrame, IInv, TypeOK
    <2>2. Flow!PopFrame
      BY <1>4, <2>1 DEF PopFrame, Flow!PopFrame
    <2> QED
      BY <2>2 DEF Flow!FlowNext, Flow!Mic, Flow!MicRuns, Flow!Callback
  <1>5. CASE DecodeFrame \/ DecodeError
    <2>1. Flow!DecodeDone
      BY <1>5 DEF DecodeFrame, DecodeError, Flow!DecodeDone
    <2> QED
      BY <2>1 DEF Flow!FlowNext, Flow!Mic, Flow!MicRuns, Flow!Callback
  <1>6. CASE CallbackThrows
    <2>1. Flow!Fail
      BY <1>6 DEF CallbackThrows, Die, Flow!Fail
    <2> QED
      BY <2>1 DEF Flow!FlowNext, Flow!Mic
  <1> QED
    BY <1>1, <1>2, <1>3, <1>4, <1>5, <1>6 DEF Callback

\* The rest of the microphone thread.  A buffer that is written in parts is one
\* write to MicFlow.
LEMMA MicRefines == IInv /\ Mic => [Flow!FlowNext]_Flow!flowVars
  <1> SUFFICES ASSUME IInv, Mic PROVE [Flow!FlowNext]_Flow!flowVars
    OBVIOUS
  <1> USE DEF FlowMic, hookVars, flags, Flow!flags
  <1>1. CASE SetupDone
    <2>1. Flow!SetupDone
      BY <1>1 DEF SetupDone, Flow!SetupDone
    <2> QED
      BY <2>1 DEF Flow!FlowNext, Flow!Mic
  <1>2. CASE SetupFails \/ WriteFails
    <2>1. Flow!Fail
      BY <1>2 DEF SetupFails, WriteFails, Die, Flow!Fail
    <2> QED
      BY <2>1 DEF Flow!FlowNext, Flow!Mic
  <1>3. CASE LoopExit \/ LoopEnter
    <2>1. Flow!LoopExit \/ Flow!LoopEnter
      BY <1>3 DEF LoopExit, LoopEnter, Flow!LoopExit, Flow!LoopEnter
    <2> QED
      BY <2>1 DEF Flow!FlowNext, Flow!Mic, Flow!MicRuns
  <1>4. CASE Callback
    BY <1>4, CallbackRefines
  <1>5. CASE WriteSome
    <2>1. \/ mic' = mic
          \/ mic = "write" /\ mic' = "loop"
      BY <1>5 DEF WriteSome
    <2>2. UNCHANGED <<compressed_queue, hook, playback, flags>>
      BY <1>5 DEF WriteSome
    <2>3. CASE mic' = mic
      BY <2>2, <2>3 DEF Flow!flowVars
    <2>4. CASE mic = "write" /\ mic' = "loop"
      <3>1. Flow!WriteDone
        BY <2>2, <2>4 DEF Flow!WriteDone
      <3> QED
        BY <3>1 DEF Flow!FlowNext, Flow!Mic, Flow!MicRuns
    <2> QED
      BY <2>1, <2>3, <2>4
  <1>6. CASE WriteWouldBlock
    <2>1. Flow!WriteDone
      BY <1>6 DEF WriteWouldBlock, Flow!WriteDone
    <2> QED
      BY <2>1 DEF Flow!FlowNext, Flow!Mic, Flow!MicRuns
  <1>7. CASE SetUnhealthy \/ SetStop \/ SetQuiet
    <2>1. Flow!SetUnhealthy \/ Flow!SetStop \/ Flow!SetQuiet
      BY <1>7 DEF SetUnhealthy, SetStop, SetQuiet, Flow!SetUnhealthy,
         Flow!SetStop, Flow!SetQuiet
    <2> QED
      BY <2>1 DEF Flow!FlowNext, Flow!Mic, Flow!MicRuns
  <1> QED
    BY <1>1, <1>2, <1>3, <1>4, <1>5, <1>6, <1>7 DEF Mic

LEMMA MainRefines == Main => Flow!FlowNext
  <1> SUFFICES ASSUME Main PROVE Flow!FlowNext
    OBVIOUS
  <1>1. Flow!SignalShutdown \/ Flow!StoreShouldStop \/ Flow!StopRecording
    BY DEF Main, SignalShutdown, StoreShouldStop, StopRecording, micVars,
       hookVars, flags, FlowMic, Flow!flags, Flow!SignalShutdown,
       Flow!StoreShouldStop, Flow!StopRecording
  <1> QED
    BY <1>1 DEF Flow!FlowNext, Flow!Others

\* For every limit and size, the data path coordinates its threads as MicFlow
\* says, so that what is shown of Client, which is built on MicFlow, is about
\* the threads that move the audio.
THEOREM FlowRefinement == Spec => ImplementsFlow
  <1>1. Init => Flow!FlowInit
    BY Empties DEF Init, Flow!FlowInit, FlowMic
  <1>2. IInv /\ [Next]_vars => [Flow!FlowNext]_Flow!flowVars
    <2> SUFFICES ASSUME IInv, [Next]_vars
                 PROVE  [Flow!FlowNext]_Flow!flowVars
      OBVIOUS
    <2>1. CASE UNCHANGED vars
      BY <2>1 DEF vars, hookVars, micVars, flags, FlowMic, Flow!flowVars,
         Flow!flags
    <2> QED
      BY <2>1, HookRefines, MicRefines, MainRefines DEF Next
  <1> QED
    BY <1>1, <1>2, IInvHolds, PTL DEF Spec, ImplementsFlow, Flow!FlowSpec

-----------------------------------------------------------------------------
(* The two ends of Link.                                                   *)

SP == INSTANCE SenderProofs WITH shutdown_requested <- server_shutdown

LEMMA ServerStepIsSenders == S!Next => SP!Next
  BY DEF S!Connect, SP!Connect, S!ConnectFails, SP!ConnectFails,
         S!StreamReady, SP!StreamReady, S!StreamNeverReady,
         SP!StreamNeverReady, S!Arm, SP!Arm, S!LoopEnds, SP!LoopEnds,
         S!LoopBlocks, SP!LoopBlocks, S!Wake, SP!Wake, S!StreamFails,
         SP!StreamFails, S!Peek, SP!Peek, S!PeekEmpty, SP!PeekEmpty,
         S!Encode, SP!Encode, S!EncodeFails, SP!EncodeFails,
         S!WriteStopped, SP!WriteStopped, S!WriteFrames, SP!WriteFrames,
         S!Push, SP!Push, S!Close, SP!Close, S!StopRtp, SP!StopRtp,
         S!StopRecording, SP!StopRecording, S!DestroyStops,
         SP!DestroyStops, S!DestroyFrees, SP!DestroyFrees, S!OtherStopsRtp,
         SP!OtherStopsRtp, S!OtherStopsRecording, SP!OtherStopsRecording,
         S!SignalShutdown, SP!SignalShutdown, S!Next, SP!Next, S!MainStep,
         SP!MainStep, S!Encoded, SP!Encoded, S!RtpStop, SP!RtpStop,
         S!Recording, SP!Recording, S!audio, SP!audio, S!rtp, SP!rtp

LEMMA ServerBehaves == LinkSpec => SP!Spec
  <1>1. LinkInit => SP!Init
    BY DEF LinkInit, S!Init, SP!Init
  <1>2. [LinkNext]_linkVars => [SP!Next]_(SP!vars)
    BY ServerStepIsSenders DEF LinkNext, linkVars, serverVars, ServerStep,
       Arrive, ClientStep, SP!vars, SP!audio, SP!rtp
  <1> QED
    BY <1>1, <1>2, PTL DEF LinkSpec, SP!Spec

LEMMA ClientBehaves == LinkSpec => Spec
  <1>1. LinkInit => Init
    BY DEF LinkInit
  <1>2. [LinkNext]_linkVars => [Next]_vars
    BY DEF LinkNext, linkVars, ServerStep, Arrive, ClientStep, Next, Hook
  <1> QED
    BY <1>1, <1>2, PTL DEF LinkSpec, Spec

LEMMA ServerAssumption == SP!SenderAssumption
  BY PlaybackAssumption, LinkAssumption DEF SP!SenderAssumption

LEMMA ServerInvariants == LinkSpec => [](SP!TypeOK /\ SP!SentInOrder)
  <1>1. SP!Spec => []SP!TypeOK
    BY SP!TypeCorrect, ServerAssumption
  <1>2. SP!Spec => []SP!SentInOrder
    BY SP!OrderOfSending, ServerAssumption
  <1> QED
    BY <1>1, <1>2, ServerBehaves, PTL

LEMMA ClientInvariants == LinkSpec => [](IInv /\ OrderInv)
  BY IInvHolds, OrderInvHolds, ClientBehaves, PTL

\* What a step of the server may do to the frames sent.
LEMMA SentChanges ==
  ASSUME SP!Next
  PROVE  \/ SP!Peek /\ sent' = sent
         \/ /\ captured' = captured
            /\ sent' = sent \/ sent' = Append(sent, opus_enc_outbuf)
  <1>1. CASE SP!Peek
    BY <1>1 DEF SP!Peek
  <1>2. CASE SP!Push
    BY <1>2 DEF SP!Push
  <1>3. ASSUME ~SP!Peek, ~SP!Push PROVE UNCHANGED <<captured, sent>>
    BY <1>3 DEF SP!Next, SP!MainStep, SP!audio,
         SP!Connect, SP!ConnectFails, SP!StreamReady,
         SP!StreamNeverReady, SP!Arm, SP!LoopEnds, SP!LoopBlocks,
         SP!Wake, SP!StreamFails, SP!PeekEmpty, SP!Encode,
         SP!EncodeFails, SP!WriteStopped, SP!WriteFrames, SP!Close,
         SP!StopRtp, SP!StopRecording, SP!DestroyStops, SP!DestroyFrees,
         SP!OtherStopsRtp, SP!OtherStopsRecording, SP!SignalShutdown
  <1> QED
    BY <1>1, <1>2, <1>3

\* The server only adds to what it captured and sent.
LEMMA ServerGrows ==
  ASSUME SP!TypeOK, SP!Next
  PROVE  /\ captured' = captured \/ (captured' \in Nat /\ captured' > captured)
         /\ Len(sent) <= Len(sent')
         /\ \A i \in 1..Len(sent) : sent'[i] = sent[i]
  <1>1. captured \in Nat /\ sent \in Seq(1..captured) /\ Len(sent) \in Nat
        /\ opus_enc_outbuf \in 0..captured
    BY LinkAssumption DEF SP!TypeOK
  <1>2. CASE SP!Peek /\ sent' = sent
    BY <1>1, <1>2, LinkAssumption DEF SP!Peek
  <1>3. CASE captured' = captured /\ sent' = sent
    BY <1>1, <1>3
  <1>4. CASE captured' = captured /\ sent' = Append(sent, opus_enc_outbuf)
    <2>1. \A i \in 1..Len(sent) : sent[i] \in 0..captured
      BY <1>1
    <2>2. sent \in Seq(0..captured)
      BY <1>1, <2>1
    <2> QED
      BY <1>1, <1>4, <2>2, AppendProperties
  <1> QED
    BY <1>2, <1>3, <1>4, SentChanges

\* Only RecvQueue counts frames.
LEMMA NoArrival ==
  ASSUME RecvAdmit \/ RecvEmpty \/ Mic \/ Main
  PROVE  frames_received' = frames_received
  BY DEF RecvAdmit, RecvEmpty, Mic, Callback, Main, SetupDone, SetupFails,
     LoopExit, LoopEnter, CallbackEnter, Drain, PopEmpty, PopFrame,
     DecodeFrame, DecodeError, CallbackThrows, WriteSome, WriteWouldBlock,
     WriteFails, SetUnhealthy, SetStop, SetQuiet, SignalShutdown,
     StoreShouldStop, StopRecording, hookVars

\* Only WriteSome adds to what the FIFO accepted,
LEMMA OnlyWritesAreHeard ==
  ASSUME RecvAdmit \/ RecvEmpty \/ Mic \/ Main
  PROVE  WriteSome \/ out' = out
  BY DEF RecvAdmit, RecvEmpty, Mic, Callback, Main, SetupDone, SetupFails,
     LoopExit, LoopEnter, CallbackEnter, Drain, PopEmpty, PopFrame,
     DecodeFrame, DecodeError, CallbackThrows, WriteWouldBlock,
     WriteFails, SetUnhealthy, SetStop, SetQuiet, SignalShutdown,
     StoreShouldStop, StopRecording, micVars

\* and it adds something at the end.
LEMMA WriteAppends ==
  ASSUME IInv, WriteSome
  PROVE  Len(out) < Len(out') /\ \A i \in 1..Len(out) : out'[i] = out[i]
  <1>1. /\ out \in Seq(Units) /\ dst \in Seq(Units)
        /\ offset \in Nat /\ Len(dst) \in Nat /\ offset < Len(dst)
    BY PlaybackAssumption DEF IInv, TypeOK, Phase, WriteSome
  <1>2. PICK n \in Accepted(Len(dst) - offset) :
          out' = out \o SubSeq(dst, offset + 1, offset + n)
    BY DEF WriteSome
  <1>3. n \in 1..(Len(dst) - offset)
    BY <1>1, AcceptedBounds
  <1>4. /\ SubSeq(dst, offset + 1, offset + n) \in Seq(Units)
        /\ Len(SubSeq(dst, offset + 1, offset + n)) = n
    BY <1>1, <1>3, SubSeqProperties
  <1> QED
    BY <1>1, <1>2, <1>3, <1>4, ConcatProperties

-----------------------------------------------------------------------------
(* What arrived.                                                           *)

Arrivals ==
  /\ LinkTypeOK
  /\ orderly => \A m, n \in 1..Len(arrived) : m < n => arrived[m] < arrived[n]

LEMMA InitArrivals == LinkInit => Arrivals
  BY EmptySeq DEF LinkInit, Init, Arrivals, LinkTypeOK

\* Indices into a sequence stay indices when it grows.
LEMMA MoreIndices ==
  ASSUME NEW k \in Nat, NEW l \in Nat, k <= l, NEW s \in Seq(1..k)
  PROVE  s \in Seq(1..l)
  <1>1. \A i \in 1..Len(s) : s[i] \in 1..l
    BY ElementOfSeq
  <1>2. Len(s) \in Nat /\ s = [i \in 1..Len(s) |-> s[i]]
    OBVIOUS
  <1>3. s \in [1..Len(s) -> 1..l]
    BY <1>1, <1>2
  <1> QED
    BY <1>2, <1>3, SeqDef

LEMMA ArrivalsStep ==
  ASSUME Arrivals, IInv, SP!TypeOK, [LinkNext]_linkVars
  PROVE  Arrivals'
  <1> USE DEF Arrivals, LinkTypeOK
  <1>1. Len(sent) \in Nat /\ Len(arrived) \in Nat /\ frames_received \in Nat
    BY DEF IInv, TypeOK, SP!TypeOK
  <1>2. CASE ServerStep
    <2>1. SP!Next /\ UNCHANGED <<arrived, orderly, frames_received>>
      BY <1>2, ServerStepIsSenders DEF ServerStep, vars, hookVars
    <2>2. Len(sent) <= Len(sent')
      BY <2>1, ServerGrows
    <2>3. Len(sent') \in Nat
      <3>1. sent' = sent \/ sent' = Append(sent, opus_enc_outbuf)
        BY <2>1, SentChanges
      <3>2. sent \in Seq(1..captured)
        BY DEF SP!TypeOK
      <3> QED
        BY <3>1, <3>2
    <2> QED
      BY <1>1, <2>1, <2>2, <2>3, MoreIndices
  <1>3. CASE Arrive
    <2>1. PICK i \in Deliverable : arrived' = Append(arrived, i)
      BY <1>3 DEF Arrive
    <2>2. /\ UNCHANGED <<sent, orderly>>
          /\ frames_received' = frames_received + 1
      BY <1>3 DEF Arrive, serverVars, RecvQueue
    <2>3. /\ i \in 1..Len(sent)
          /\ orderly => \A n \in 1..Len(arrived) : arrived[n] < i
      BY DEF Deliverable
    <2>4. /\ arrived' \in Seq(1..Len(sent))
          /\ Len(arrived') = Len(arrived) + 1
          /\ arrived'[Len(arrived) + 1] = i
          /\ \A n \in 1..Len(arrived) : arrived'[n] = arrived[n]
      BY <2>1, <2>3, AppendProperties
    <2>5. LinkTypeOK'
      BY <2>2, <2>4
    <2>6. ASSUME orderly, NEW m \in 1..Len(arrived'), NEW n \in 1..Len(arrived'),
                 m < n
          PROVE  arrived'[m] < arrived'[n]
      <3>1. m \in 1..Len(arrived) /\ arrived'[m] = arrived[m]
        BY <1>1, <2>4, <2>6
      <3>2. CASE n \in 1..Len(arrived)
        BY <2>4, <2>6, <3>1, <3>2
      <3>3. CASE n = Len(arrived) + 1
        BY <2>3, <2>4, <2>6, <3>1, <3>3
      <3> QED
        BY <1>1, <2>4, <3>2, <3>3
    <2> QED
      BY <2>2, <2>5, <2>6
  <1>4. CASE ClientStep
    <2>1. UNCHANGED <<sent, orderly, arrived>>
      BY <1>4 DEF ClientStep, serverVars
    <2>2. frames_received' = frames_received
      BY <1>4, NoArrival DEF ClientStep
    <2> QED
      BY <2>1, <2>2
  <1>5. CASE UNCHANGED linkVars
    BY <1>5 DEF linkVars, serverVars, vars, hookVars
  <1> QED
    BY <1>2, <1>3, <1>4, <1>5 DEF LinkNext

LEMMA ArrivalsHold == LinkSpec => []Arrivals
  <1>1. Arrivals /\ (IInv /\ OrderInv) /\ (SP!TypeOK /\ SP!SentInOrder)
          /\ [LinkNext]_linkVars => Arrivals'
    BY ArrivalsStep
  <1> QED
    BY InitArrivals, <1>1, ClientInvariants, ServerInvariants, PTL DEF LinkSpec

\* The client's ranks are the positions of the frames that arrived.
THEOREM LinkTypeCorrect == LinkSpec => []LinkTypeOK
  <1>1. Arrivals => LinkTypeOK
    BY DEF Arrivals
  <1> QED
    BY <1>1, ArrivalsHold, PTL

-----------------------------------------------------------------------------
(* What is heard.                                                          *)

\* The accepted units are the beginning of the client's stream.
LEMMA OutUnits ==
  ASSUME IInv, OrderInv
  PROVE  /\ out \in Seq(Units) /\ Len(out) \in Nat
         /\ \A i \in 1..Len(out) :
              /\ out[i][1] \in 1..frames_received
              /\ out[i][2] \in 1..FrameUnits
         /\ \A i, j \in 1..Len(out) : i < j => Before(out[i], out[j])
  <1>1. /\ out \in Seq(Units) /\ Rest \in Seq(Units)
        /\ playback_queue \in Seq(Units) /\ Stream \in Seq(Units)
        /\ Stream = (out \o Rest) \o playback_queue
    BY StreamType
  <1>2. /\ frames_received \in Nat /\ Len(compressed_queue) \in Nat
        /\ Len(out) \in Nat
    BY <1>1 DEF IInv, TypeOK
  <1>3. \A i \in 1..Len(out) : i \in 1..Len(Stream) /\ Stream[i] = out[i]
    BY <1>1, ConcatProperties
  <1>4. \A i \in 1..Len(out) : out[i] \in Units
    BY <1>1
  <1>5. \A i \in 1..Len(out) :
          out[i][1] <= frames_received - Len(compressed_queue)
    BY <1>3 DEF OrderInv, Upto
  <1>6. \A i \in 1..Len(out) : out[i][1] \in Nat \ {0}
                                /\ out[i][2] \in 1..FrameUnits
    BY <1>4 DEF Units, Frames
  <1>7. \A i \in 1..Len(out) : out[i][1] \in 1..frames_received
    BY <1>2, <1>5, <1>6
  <1> QED
    BY <1>1, <1>2, <1>3, <1>6, <1>7 DEF OrderInv, Ordered

Invariant ==
  IInv /\ OrderInv /\ SP!TypeOK /\ SP!SentInOrder /\ Arrivals

\* What was sent was captured whole.
LEMMA SentUnits ==
  ASSUME Invariant
  PROVE  /\ captured \in Nat /\ FrameUnits \in Nat
         /\ \A k \in 1..Len(sent) : /\ sent[k] \in Nat \ {0}
                                   /\ sent[k] + FrameUnits <= captured + 1
  <1>1. sent \in Seq(1..captured) /\ captured \in Nat
    BY LinkAssumption DEF Invariant, SP!TypeOK
  <1>2. \A k \in 1..Len(sent) : sent[k] \in 1..captured
    BY <1>1, ElementOfSeq
  <1>3. \A k \in 1..Len(sent) : sent[k] \in Nat \ {0}
    BY <1>1, <1>2
  <1> QED
    BY <1>1, <1>3, PlaybackAssumption DEF Invariant, SP!SentInOrder

\* A unit that arrived is one of the capture.
LEMMA OriginType ==
  ASSUME Invariant, NEW f \in 1..frames_received, NEW i \in 1..FrameUnits
  PROVE  /\ arrived[f] \in 1..Len(sent)
         /\ Origin(<<f, i>>) \in 1..captured
  <1>1. f \in 1..Len(arrived) /\ arrived[f] \in 1..Len(sent)
    BY DEF Invariant, Arrivals, LinkTypeOK
  <1>2. /\ sent[arrived[f]] \in Nat \ {0} /\ captured \in Nat
        /\ FrameUnits \in Nat
        /\ sent[arrived[f]] + FrameUnits <= captured + 1
    BY <1>1, SentUnits
  <1>3. Origin(<<f, i>>) = sent[arrived[f]] + (i - 1)
    BY DEF Origin
  <1>4. Origin(<<f, i>>) \in 1..captured
    BY <1>2, <1>3
  <1> QED
    BY <1>1, <1>4

\* On an orderly network the order of the client is the order of the capture.
LEMMA OriginOrder ==
  ASSUME Invariant, orderly,
         NEW f \in 1..frames_received, NEW i \in 1..FrameUnits,
         NEW g \in 1..frames_received, NEW j \in 1..FrameUnits,
         Before(<<f, i>>, <<g, j>>)
  PROVE  Origin(<<f, i>>) < Origin(<<g, j>>)
  <1>1. /\ Origin(<<f, i>>) = sent[arrived[f]] + (i - 1)
        /\ Origin(<<g, j>>) = sent[arrived[g]] + (j - 1)
    BY DEF Origin
  <1>2. arrived[f] \in 1..Len(sent) /\ arrived[g] \in 1..Len(sent)
    BY OriginType
  <1>3. sent[arrived[f]] \in Nat /\ sent[arrived[g]] \in Nat
    BY <1>2, SentUnits
  <1>4. FrameUnits \in Nat
    BY PlaybackAssumption
  <1>5. CASE f < g
    <2>1. arrived[f] < arrived[g]
      BY <1>5 DEF Invariant, Arrivals, LinkTypeOK
    <2>2. sent[arrived[f]] + FrameUnits <= sent[arrived[g]]
      BY <1>2, <2>1 DEF Invariant, SP!SentInOrder
    <2> QED
      BY <1>1, <1>3, <1>4, <2>2
  <1>6. CASE f = g /\ i < j
    BY <1>1, <1>3, <1>6
  <1> QED
    BY <1>5, <1>6 DEF Before

LEMMA InvariantHolds == LinkSpec => []Invariant
  BY ClientInvariants, ServerInvariants, ArrivalsHold, PTL DEF Invariant

\* What is heard belongs to the capture, in its order on an orderly network.
HeardWell ==
  /\ Len(Heard) = Len(out) /\ Len(out) \in Nat
  /\ \A n \in 1..Len(Heard) :
       Heard[n] = Origin(out[n]) /\ Heard[n] \in 1..captured
  /\ orderly => R!Increasing(Heard)

LEMMA HeardUnits ==
  ASSUME Invariant
  PROVE  HeardWell
  <1>1. /\ Len(out) \in Nat
        /\ \A i \in 1..Len(out) :
             /\ out[i][1] \in 1..frames_received
             /\ out[i][2] \in 1..FrameUnits
        /\ \A i, j \in 1..Len(out) : i < j => Before(out[i], out[j])
    BY OutUnits DEF Invariant
  <1>2. \A i \in 1..Len(out) : out[i] = <<out[i][1], out[i][2]>>
    BY OutUnits DEF Invariant, Units
  <1>3. Len(Heard) = Len(out) /\ \A n \in 1..Len(out) : Heard[n] = Origin(out[n])
    BY <1>1 DEF Heard
  <1>4. \A n \in 1..Len(out) : Origin(out[n]) \in 1..captured
    BY <1>1, <1>2, OriginType
  <1>5. ASSUME orderly, NEW m \in 1..Len(out), NEW n \in 1..Len(out), m < n
        PROVE  Origin(out[m]) < Origin(out[n])
    <2>1. Before(<<out[m][1], out[m][2]>>, <<out[n][1], out[n][2]>>)
      BY <1>1, <1>5 DEF Before
    <2> QED
      BY <1>1, <1>2, <1>5, <2>1, OriginOrder
  <1> QED
    BY <1>1, <1>3, <1>4, <1>5 DEF HeardWell, R!Increasing

\* Steps that neither send, deliver nor write change nothing that is heard;
\* sending and delivering only add what is not heard yet.
LEMMA HeardKept ==
  ASSUME Invariant, out' = out,
         Len(sent) <= Len(sent'), Len(sent') \in Nat,
         \A i \in 1..Len(sent) : sent'[i] = sent[i],
         \A f \in 1..frames_received : arrived'[f] = arrived[f]
  PROVE  Heard' = Heard
  <1>1. ASSUME NEW n \in 1..Len(out)
        PROVE  Origin(out[n])' = Origin(out[n])
    <2>1. out[n][1] \in 1..frames_received /\ out[n][2] \in 1..FrameUnits
      BY OutUnits DEF Invariant
    <2>2. arrived[out[n][1]] \in 1..Len(sent)
      BY <2>1, OriginType
    <2> QED
      BY <2>1, <2>2 DEF Origin
  <1> QED
    BY <1>1 DEF Heard

LEMMA InitRefines == LinkInit => R!Init
  <1> SUFFICES ASSUME LinkInit PROVE R!Init
    OBVIOUS
  <1>1. out = <<>> /\ captured = 0 /\ orderly \in BOOLEAN
    BY DEF LinkInit, Init, S!Init
  <1>2. Len(out) = 0
    BY <1>1
  <1>3. Heard = <<>>
    BY <1>2 DEF Heard
  <1> QED
    BY <1>1, <1>3 DEF R!Init

LEMMA StepRefines ==
  ASSUME Invariant, SP!TypeOK', HeardWell', [LinkNext]_linkVars
  PROVE  [R!Next]_(R!relayVars)
  <1> USE DEF R!relayVars
  <1>1. CASE ServerStep
    <2>1. SP!Next /\ UNCHANGED <<out, orderly, arrived, frames_received>>
      BY <1>1, ServerStepIsSenders DEF ServerStep, vars, hookVars, micVars
    <2>2. /\ captured' = captured \/ (captured' \in Nat /\ captured' > captured)
          /\ Len(sent) <= Len(sent')
          /\ \A i \in 1..Len(sent) : sent'[i] = sent[i]
      BY <2>1, ServerGrows DEF Invariant
    <2>3. Len(sent') \in Nat
      BY DEF SP!TypeOK
    <2>4. Heard' = Heard
      BY <2>1, <2>2, <2>3, HeardKept
    <2> QED
      BY <2>1, <2>2, <2>4 DEF R!Next, R!Capture
  <1>2. CASE Arrive
    <2>1. /\ UNCHANGED <<sent, orderly, captured, out>>
          /\ \E i \in Deliverable : arrived' = Append(arrived, i)
      BY <1>2 DEF Arrive, RecvQueue, serverVars, micVars
    <2>2. \A f \in 1..frames_received : arrived'[f] = arrived[f]
      BY <2>1, AppendProperties DEF Invariant, Arrivals, LinkTypeOK, Deliverable
    <2>3. /\ Len(sent) <= Len(sent') /\ Len(sent') \in Nat
          /\ \A i \in 1..Len(sent) : sent'[i] = sent[i]
      <3>1. Len(sent) \in Nat
        BY DEF Invariant, SP!TypeOK
      <3> QED
        BY <2>1, <3>1
    <2>4. Heard' = Heard
      BY <2>1, <2>2, <2>3, HeardKept
    <2> QED
      BY <2>1, <2>4
  <1>3. CASE ClientStep \/ UNCHANGED linkVars
    <2>1. UNCHANGED <<sent, orderly, captured, arrived>>
      BY <1>3 DEF ClientStep, linkVars, serverVars
    <2>2. Len(sent) \in Nat
      BY DEF Invariant, SP!TypeOK
    <2>3. CASE out' = out
      <3>1. /\ Len(sent) <= Len(sent') /\ Len(sent') \in Nat
            /\ \A i \in 1..Len(sent) : sent'[i] = sent[i]
            /\ \A f \in 1..frames_received : arrived'[f] = arrived[f]
        BY <2>1, <2>2
      <3>2. Heard' = Heard
        BY <2>3, <3>1, HeardKept
      <3> QED
        BY <2>1, <3>2
    <2>4. CASE WriteSome
      <3>1. /\ Len(out) < Len(out')
            /\ \A i \in 1..Len(out) : out'[i] = out[i]
        BY <2>4, WriteAppends DEF Invariant
      <3>2. HeardWell
        BY HeardUnits
      <3>3. \A n \in 1..Len(out) : Origin(out[n])' = Origin(out[n])
        BY <2>1, <3>1 DEF Origin
      <3>4. \A n \in 1..Len(Heard) : Heard'[n] = Heard[n]
        BY <3>1, <3>2, <3>3 DEF HeardWell
      <3> QED
        BY <2>1, <3>1, <3>2, <3>4 DEF HeardWell, R!Next, R!Hear, R!Increasing
    <2> QED
      BY <1>3, <2>3, <2>4, OnlyWritesAreHeard DEF ClientStep, linkVars, vars,
         micVars
  <1> QED
    BY <1>1, <1>2, <1>3 DEF LinkNext

\* End to end: whatever is lost, dropped, cut or split on the way, what comes
\* out of the FIFO was captured, and on an orderly network it comes out in the
\* order of the capture and never twice.
THEOREM EndToEnd == LinkSpec => ImplementsRelay
  <1>1. Invariant => HeardWell /\ SP!TypeOK
    BY HeardUnits DEF Invariant
  <1>2. Invariant /\ SP!TypeOK' /\ HeardWell' /\ [LinkNext]_linkVars
          => [R!Next]_(R!relayVars)
    BY StepRefines
  <1> QED
    BY <1>1, <1>2, InitRefines, InvariantHolds, PTL
       DEF LinkSpec, ImplementsRelay, R!Spec

=============================================================================
