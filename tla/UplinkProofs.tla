----------------------------- MODULE UplinkProofs -----------------------------
(***************************************************************************)
(* Proofs about Uplink, for every set of packets and sizes, every bound    *)
(* and every number of links: the types of its variables, the inductive    *)
(* invariant StreamInv, the order and the retention of the packets that    *)
(* follow from it, and the refinement of ReliablePipe.                     *)
(***************************************************************************)
EXTENDS Uplink, BufferProofs

-----------------------------------------------------------------------------
(* Links.                                                                  *)

\* Sending leaves the frames of the other links alone and appends at most f.
LEMMA TransmitProperties ==
  ASSUME frames \in [Links -> Seq(Frame)], NEW l \in Links, NEW f \in Frame, Transmit(l, f)
  PROVE  /\ frames' \in [Links -> Seq(Frame)]
         /\ \A k \in Links : frames'[k] = frames[k] \/ frames'[k] = Append(frames[k], f)
BY DEF Transmit

\* Closing links keeps their states well-formed.
LEMMA ClosedProperties ==
  ASSUME LinkTypes, NEW L
  PROVE  Closed(L) \in [Links -> {"unused", "open", "broken"}]
BY DEF LinkTypes, Closed

-----------------------------------------------------------------------------
(* Types.                                                                  *)

\* The constants are numbers where they should be.
LEMMA ConstantTypes ==
  /\ MaxNonce \in Nat /\ MaxLinks \in Nat \ {0} /\ MaxFailed \in Nat
  /\ Control \notin Data /\ 1 \in Links /\ NoLink \notin Links
BY BufferAssumption, UplinkAssumption DEF Links, NoLink

\* A session that has just been accepted on its first connection is well-formed.
LEMMA TypeInit == Init => TypeOK
<1>. SUFFICES ASSUME Init PROVE TypeOK
  OBVIOUS
<1>. USE ConstantTypes DEF Init
<1>1. IsChunks(NoChunks)
  BY DEF IsChunks, NoChunks
<1>2. ClientTypes
  BY <1>1 DEF ClientTypes, SendSeq, EmptySendBuffer
<1>3. SwitchTypes
  BY DEF SwitchTypes
<1>4. LinkTypes
  BY DEF LinkTypes
<1>5. ServerTypes
  BY DEF ServerTypes
<1>6. StreamTypes
  BY <1>1 DEF StreamTypes, EmptyReceiveBuffer, NoChunks
<1>. QED BY <1>2, <1>3, <1>4, <1>5, <1>6 DEF TypeOK

\* The steps of the client keep the types.
LEMMA ClientTypeStep ==
  ASSUME TypeOK
  PROVE  /\ \A d \in Data : SendPacket(d) => TypeOK'
         /\ SendControl => TypeOK'
         /\ ClientRecvAck => TypeOK'
         /\ ClientRecvOther => TypeOK'
<1>. USE ConstantTypes DEF TypeOK
<1>1. ASSUME NEW d \in Data, SendPacket(d) PROVE TypeOK'
  <2>1. Len(sent) \in Seqs /\ [seq |-> SendSeq, data |-> d] \in Frame
    BY <1>1 DEF ClientTypes, SendPacket, SendSeq, Seqs, Frame, Contents
  <2>2. IsChunks(sendBuf'.chunks)
    BY <1>1, <2>1, PushProperties DEF ClientTypes, SendPacket, SendSeq
  <2>3. sent' \in Seq(Contents) /\ Len(sent') <= MaxNonce /\ accepted' \in Seq(Data)
    BY <1>1 DEF ClientTypes, SendPacket, SendSeq, Contents
  <2>4. rejected' \subseteq Seqs
    BY <1>1, <2>1 DEF ClientTypes, SendPacket, SendSeq
  <2>5. LinkTypes'
    BY <1>1, <2>1, TransmitProperties DEF LinkTypes, SwitchTypes, SendPacket
  <2>. QED BY <1>1, <2>2, <2>3, <2>4, <2>5
       DEF ClientTypes, SwitchTypes, ServerTypes, StreamTypes, SendPacket, SendSeq, switchVars,
           serverVars, streamVars
<1>2. ASSUME SendControl PROVE TypeOK'
  <2>1. [seq |-> SendSeq, data |-> Control] \in Frame
    BY <1>2 DEF ClientTypes, SendControl, SendSeq, Seqs, Frame, Contents
  <2>2. LinkTypes'
    BY <1>2, <2>1, TransmitProperties DEF LinkTypes, SwitchTypes, SendControl
  <2>3. ClientTypes'
    BY <1>2 DEF ClientTypes, SendControl, SendSeq, Contents
  <2>. QED BY <1>2, <2>2, <2>3
       DEF SwitchTypes, ServerTypes, StreamTypes, SendControl, switchVars, serverVars, streamVars
<1>3. ASSUME ClientRecvAck PROVE TypeOK'
  <2>1. ClientTypes'
    BY <1>3, ApplyAckProperties DEF ClientTypes, ClientRecvAck, SendSeq
  <2>2. LinkTypes'
    BY <1>3, ClosedProperties, LinkUpdate, HeadTailProperties
    DEF LinkTypes, SwitchTypes, ClientRecvAck, DrainOld
  <2>. QED BY <1>3, <2>1, <2>2
       DEF SwitchTypes, ServerTypes, StreamTypes, ClientRecvAck, DrainOld, serverVars, streamVars
<1>4. ASSUME ClientRecvOther PROVE TypeOK'
  <2>1. LinkTypes'
    BY <1>4, ClosedProperties DEF LinkTypes, ClientRecvOther, DrainOld
  <2>. QED BY <1>4, <2>1
       DEF ClientTypes, SwitchTypes, ServerTypes, StreamTypes, SendSeq, ClientRecvOther, DrainOld,
           clientVars, serverVars, streamVars
<1>. QED BY <1>1, <1>2, <1>3, <1>4

\* The steps of a switch keep the types.
LEMMA SwitchTypeStep ==
  ASSUME TypeOK
  PROVE  /\ \A l \in Links : PrepareStandby(l) => TypeOK'
         /\ ResumeFails => TypeOK'
         /\ NoStandby => TypeOK'
         /\ BeginReplay => TypeOK'
         /\ \A s \in Seqs : ReplayChunk(s) => TypeOK'
         /\ SwitchOver => TypeOK'
         /\ ReplayFails => TypeOK'
<1>. USE ConstantTypes DEF TypeOK, clientVars, serverVars, streamVars, linkVars
<1>1. ASSUME NEW l \in Links, PrepareStandby(l) PROVE TypeOK'
  BY <1>1 DEF ClientTypes, SwitchTypes, LinkTypes, ServerTypes, StreamTypes, SendSeq, PrepareStandby
<1>2. ASSUME ResumeFails PROVE TypeOK'
  BY <1>2 DEF ClientTypes, SwitchTypes, LinkTypes, ServerTypes, StreamTypes, SendSeq, ResumeFails
<1>3. ASSUME CountFailure, UNCHANGED <<active, draining, resumeAt, cursor>> PROVE SwitchTypes'
  BY <1>3 DEF SwitchTypes, CountFailure
<1>4. ASSUME NoStandby PROVE TypeOK'
  <2>1. LinkTypes'
    BY <1>4, ClosedProperties DEF NoStandby, LinkTypes
  <2>2. SwitchTypes'
    BY <1>3, <1>4 DEF NoStandby
  <2>. QED BY <1>4, <2>1, <2>2 DEF ClientTypes, ServerTypes, StreamTypes, SendSeq, NoStandby
<1>5. ASSUME BeginReplay PROVE TypeOK'
  <2>1. ClientTypes'
    BY <1>5, ApplyAckProperties DEF ClientTypes, BeginReplay, SendSeq
  <2>2. SwitchTypes'
    BY <1>5 DEF SwitchTypes, BeginReplay
  <2>. QED BY <1>5, <2>1, <2>2 DEF LinkTypes, ServerTypes, StreamTypes, BeginReplay
<1>6. ASSUME NEW s \in Seqs, ReplayChunk(s) PROVE TypeOK'
  <2>1. [seq |-> s, data |-> sendBuf.chunks[s]] \in Frame
    BY <1>6 DEF ClientTypes, ReplayChunk, IsNextChunk, Remaining, IsChunks, Frame, Contents
  <2>2. standby \in Links
    BY <1>6 DEF SwitchTypes, ReplayChunk
  <2>3. LinkTypes'
    BY <1>6, <2>1, <2>2, TransmitProperties DEF LinkTypes, ReplayChunk
  <2>4. SwitchTypes'
    BY <1>6 DEF SwitchTypes, ReplayChunk, Seqs
  <2>. QED BY <1>6, <2>3, <2>4 DEF ClientTypes, ServerTypes, StreamTypes, SendSeq, ReplayChunk
<1>7. ASSUME SwitchOver PROVE TypeOK'
  <2>1. LinkTypes'
    BY <1>7, ClosedProperties DEF SwitchOver, LinkTypes
  <2>. QED BY <1>7, <2>1
       DEF ClientTypes, SwitchTypes, ServerTypes, StreamTypes, SendSeq, SwitchOver
<1>8. ASSUME ReplayFails PROVE TypeOK'
  <2>1. LinkTypes'
    BY <1>8, ClosedProperties DEF ReplayFails, LinkTypes
  <2>2. SwitchTypes'
    BY <1>3, <1>8 DEF ReplayFails
  <2>. QED BY <1>8, <2>1, <2>2 DEF ClientTypes, ServerTypes, StreamTypes, SendSeq, ReplayFails
<1>. QED BY <1>1, <1>2, <1>4, <1>5, <1>6, <1>7, <1>8

\* The faults and the steps of the server keep the types.
LEMMA ServerTypeStep ==
  ASSUME TypeOK, NEW l \in Links
  PROVE  /\ Break(l) => TypeOK'
         /\ ServerAttach(l) => TypeOK'
         /\ ServerResumeFails(l) => TypeOK'
         /\ ServerRecv(l) => TypeOK'
<1>. USE ConstantTypes DEF TypeOK, clientVars, switchVars, serverVars, streamVars, linkVars
<1>1. ASSUME Break(l) PROVE TypeOK'
  <2>1. LinkTypes'
    BY <1>1, PrefixProperties, LinkUpdate DEF LinkTypes, Break
  <2>. QED BY <1>1, <2>1 DEF ClientTypes, SwitchTypes, ServerTypes, StreamTypes, SendSeq, Break
<1>2. ASSUME ServerAttach(l) PROVE TypeOK'
  <2>1. LinkTypes'
    <3>1. CASE writer = NoLink
      BY <1>2, <3>1 DEF LinkTypes, ServerAttach
    <3>2. CASE writer # NoLink
      <4>1. writer \in Links
        BY <3>2 DEF ServerTypes
      <4>2. PICK j \in 0 .. Len(acks[writer]) :
              acks' = [acks EXCEPT ![writer] = SubSeq(@, 1, j)]
        BY <1>2, <3>2 DEF ServerAttach
      <4>3. SubSeq(acks[writer], 1, j) \in Seq(Ack)
        BY <4>1, PrefixProperties DEF LinkTypes
      <4>. QED BY <1>2, <4>1, <4>2, <4>3, LinkUpdate DEF LinkTypes, ServerAttach
    <3>. QED BY <3>1, <3>2
  <2>2. ServerTypes'
    BY <1>2 DEF ServerTypes, ServerAttach
  <2>. QED BY <1>2, <2>1, <2>2 DEF ClientTypes, SwitchTypes, StreamTypes, SendSeq, ServerAttach
<1>3. ASSUME ServerResumeFails(l) PROVE TypeOK'
  BY <1>3 DEF ClientTypes, SwitchTypes, LinkTypes, ServerTypes, StreamTypes, SendSeq,
              ServerResumeFails
<1>4. ASSUME EndReader(l)
      PROVE  /\ serving' \in [Links -> {"none", "resumed", "reading", "forwarding", "ended"}]
             /\ writer' \in Links \cup {NoLink}
             /\ up' \in [Links -> {"unused", "open", "broken"}]
             /\ frames' \in [Links -> Seq(Frame)]
  <2>1. <<>> \in Seq(Frame)
    OBVIOUS
  <2>. QED BY <1>4, <2>1, ClosedProperties, LinkUpdate DEF LinkTypes, ServerTypes, EndReader
<1>5. ASSUME frames[l] # <<>>, frames' = [frames EXCEPT ![l] = Tail(@)]
      PROVE  frames' \in [Links -> Seq(Frame)] /\ Head(frames[l]) \in Frame
  BY <1>5, LinkUpdate, HeadTailProperties DEF LinkTypes
<1>6. ASSUME ServerSkips(l) PROVE TypeOK'
  BY <1>5, <1>6
  DEF ClientTypes, SwitchTypes, LinkTypes, ServerTypes, StreamTypes, SendSeq, ServerSkips
<1>7. ASSUME ServerAccepts(l) PROVE TypeOK'
  <2>. DEFINE f == Head(frames[l])
              packets == Ready(recvBuf, f.seq, f.data)
              stretch == [i \in 1 .. Len(packets) |-> Len(released) + i]
  <2>1. f.seq \in Seqs /\ f.data \in Data /\ Accepts(recvBuf, f.seq, f.data)
    BY <1>5, <1>7 DEF ServerAccepts, Frame
  <2>2. /\ recvBuf' = Accept(recvBuf, f.seq, f.data) /\ released' = released \o packets
        /\ ready' = [ready EXCEPT ![l] = stretch]
    BY <1>7 DEF ServerAccepts
  <2>3. /\ recvBuf'.next \in 0 .. MaxNonce /\ IsChunks(recvBuf'.pending)
        /\ \A s \in DOMAIN recvBuf'.pending : s > recvBuf'.next
        /\ packets \in Seq(Data)
    BY <2>1, <2>2, AcceptTypes DEF StreamTypes
  <2>. HIDE DEF packets
  <2>4. released' \in Seq(Data)
    BY <2>2, <2>3, ConcatProperties DEF StreamTypes
  <2>5. stretch \in Seq(Nat)
    <3>1. Len(packets) \in Nat /\ Len(released) \in Nat
      BY <2>3 DEF StreamTypes
    <3>. QED BY <3>1, FunctionIsSeq
  <2>6. StreamTypes'
    <3>1. ready \in [Links -> Seq(Nat)] /\ forwarded \in Seq(Nat) /\ l \in Links
      BY DEF StreamTypes
    <3>. HIDE DEF stretch
    <3>2. ready' \in [Links -> Seq(Nat)]
      BY <2>2, <2>5, <3>1, LinkUpdate, Zenon
    <3>3. forwarded' = forwarded
      BY <1>7 DEF ServerAccepts
    <3>. QED BY <2>3, <2>4, <3>1, <3>2, <3>3 DEF StreamTypes
  <2>. QED BY <1>5, <1>7, <2>6
       DEF ClientTypes, SwitchTypes, LinkTypes, ServerTypes, SendSeq, ServerAccepts
<1>8. ASSUME ServerForwards(l) PROVE TypeOK'
  <2>1. StreamTypes'
    BY <1>8, LinkUpdate, HeadTailProperties, AppendProperties DEF StreamTypes, ServerForwards
  <2>. QED BY <1>8, <2>1
       DEF ClientTypes, SwitchTypes, LinkTypes, ServerTypes, SendSeq, ServerForwards
<1>9. ASSUME ServerCounts(l) PROVE TypeOK'
  <2>1. ServerTypes'
    BY <1>9 DEF ServerTypes, ServerCounts
  <2>. QED BY <1>9, <2>1
       DEF ClientTypes, SwitchTypes, LinkTypes, StreamTypes, SendSeq, ServerCounts
<1>10. ASSUME ServerAcks(l) PROVE TypeOK'
  <2>1. BuildAck(recvBuf) \in Ack
    <3>1. BuildAck(recvBuf) = [next |-> recvBuf.next, ranges |-> BuildAck(recvBuf).ranges]
      BY DEF BuildAck
    <3>2. BuildAck(recvBuf).ranges \subseteq SackRange
      BY BuildAckProperties DEF StreamTypes, SackRange
    <3>. QED BY <3>1, <3>2 DEF StreamTypes, Ack
  <2>2. CASE writer = l /\ up[l] = "open"
    <3>1. LinkTypes'
      <4>1. Append(acks[l], BuildAck(recvBuf)) \in Seq(Ack)
        BY <2>1, AppendProperties DEF LinkTypes
      <4>2. acks' = [acks EXCEPT ![l] = Append(@, BuildAck(recvBuf))]
            /\ UNCHANGED <<up, frames>>
        BY <1>10, <2>2 DEF ServerAcks
      <4>. QED BY <4>1, <4>2, LinkUpdate DEF LinkTypes
    <3>2. ServerTypes'
      BY <1>10, <2>2 DEF ServerTypes, ServerAcks
    <3>. QED BY <1>10, <3>1, <3>2
         DEF ClientTypes, SwitchTypes, StreamTypes, SendSeq, ServerAcks
  <2>3. CASE writer = l /\ up[l] # "open"
    BY <1>10, <2>3
    DEF ClientTypes, SwitchTypes, LinkTypes, ServerTypes, StreamTypes, SendSeq, ServerAcks
  <2>4. CASE writer # l
    <3>1. EndReader(l) /\ UNCHANGED <<clientVars, switchVars, streamVars, acks>>
          /\ unacked' = [unacked EXCEPT ![l] = 0]
      BY <1>10, <2>4 DEF ServerAcks
    <3>. QED BY <3>1, <1>4
         DEF ClientTypes, SwitchTypes, LinkTypes, ServerTypes, StreamTypes, SendSeq
  <2>. QED BY <2>2, <2>3, <2>4
<1>11. ASSUME ServerRecvControl(l) PROVE TypeOK'
  BY <1>4, <1>5, <1>11
  DEF ClientTypes, SwitchTypes, LinkTypes, ServerTypes, StreamTypes, SendSeq, ServerRecvControl
<1>12. ASSUME ServerReadError(l) PROVE TypeOK'
  BY <1>4, <1>12
  DEF ClientTypes, SwitchTypes, LinkTypes, ServerTypes, StreamTypes, SendSeq, ServerReadError
<1>. QED BY <1>1, <1>2, <1>3, <1>6, <1>7, <1>8, <1>9, <1>10, <1>11, <1>12 DEF ServerRecv

\* Whatever run_pipeline, the network or serve does keeps the types.
LEMMA TypeStep == TypeOK /\ [Next]_vars => TypeOK'
<1>. SUFFICES ASSUME TypeOK, [Next]_vars PROVE TypeOK'
  OBVIOUS
<1>1. CASE Next
  BY <1>1, ClientTypeStep, SwitchTypeStep, ServerTypeStep DEF Next
<1>2. CASE UNCHANGED vars
  BY <1>2 DEF vars, clientVars, switchVars, linkVars, serverVars, streamVars, TypeOK,
              ClientTypes, SwitchTypes, LinkTypes, ServerTypes, StreamTypes, SendSeq
<1>. QED BY <1>1, <1>2

\* Every variable of run_pipeline and serve keeps its shape, and a standby
\* exists exactly between its resumption and the end of its replay.
THEOREM TypeCorrect == Spec => []TypeOK
BY TypeInit, TypeStep, PTL DEF Spec

-----------------------------------------------------------------------------
(* What a step can do to each part of the state.                           *)

\* Only a reader accepting a chunk touches the receive buffer.
LEMMA ReceiverSteps ==
  ASSUME Next
  PROVE  UNCHANGED <<recvBuf, released>> \/ \E l \in Links : ServerAccepts(l)
BY DEF Next, SendPacket, SendControl, ClientRecvAck, ClientRecvOther, PrepareStandby, ResumeFails,
       NoStandby, BeginReplay, ReplayChunk, SwitchOver, ReplayFails, Break, ServerAttach,
       ServerResumeFails, ServerRecv, ServerSkips, ServerForwards, ServerCounts, ServerAcks,
       ServerRecvControl, ServerReadError, EndReader, serverVars, streamVars

\* Only the client's sends and the acknowledgements it applies touch what it
\* has sent and retains.
LEMMA SenderSteps ==
  ASSUME Next
  PROVE  \/ UNCHANGED clientVars
         \/ \E d \in Data : SendPacket(d)
         \/ SendControl
         \/ ClientRecvAck
         \/ BeginReplay
BY DEF Next, PrepareStandby, ResumeFails, ClientRecvOther,
       NoStandby, ReplayChunk, SwitchOver, ReplayFails, Break, ServerAttach,
       ServerResumeFails, ServerRecv, ServerSkips, ServerAccepts, ServerForwards, ServerCounts,
       ServerAcks, ServerRecvControl, ServerReadError

\* What was sent stays what was sent.
LEMMA SentMonotone ==
  ASSUME TypeOK, Next
  PROVE  /\ SendSeq \in Nat /\ SendSeq' \in Nat /\ SendSeq <= SendSeq'
         /\ \A i \in 1 .. SendSeq : sent'[i] = sent[i]
<1>. USE DEF TypeOK, ClientTypes, SendSeq
<1>1. CASE sent' = sent
  BY <1>1
<1>2. ASSUME NEW c \in Contents, sent' = Append(sent, c)
      PROVE  Len(sent') = Len(sent) + 1 /\ \A i \in 1 .. Len(sent) : sent'[i] = sent[i]
  BY <1>2, AppendProperties
<1>3. sent' = sent \/ \E c \in Contents : sent' = Append(sent, c)
  BY SenderSteps DEF SendPacket, SendControl, ClientRecvAck, BeginReplay, clientVars, Contents
<1>. QED BY <1>1, <1>2, <1>3

\* What one acceptance does, given that the buffers and frames carry what was
\* sent: the instance of AcceptProperties for the stream of the session.
LEMMA ServerAcceptsProperties ==
  ASSUME TypeOK, FramesCarrySent, BuffersHoldSent, NEW l \in Links, ServerAccepts(l)
  PROVE  \E seq \in Seqs, ready_ \in Seq(Data) :
           /\ seq < SendSeq /\ seq = Head(frames[l]).seq
           /\ recvBuf'.next \in recvBuf.next .. MaxNonce
           /\ \A s \in DOMAIN recvBuf'.pending :
                s > recvBuf'.next /\ recvBuf'.pending[s] = sent[s + 1]
           /\ DOMAIN recvBuf'.pending \subseteq DOMAIN recvBuf.pending \cup {seq}
           /\ \A s \in DOMAIN recvBuf.pending \cup {seq} :
                s < recvBuf'.next \/ s \in DOMAIN recvBuf'.pending
           /\ \A s \in recvBuf.next .. (recvBuf'.next - 1) : s \in DOMAIN recvBuf.pending \cup {seq}
           /\ released' = released \o ready_
           /\ Len(ready_) = recvBuf'.next - recvBuf.next
           /\ \A i \in 1 .. Len(ready_) : ready_[i] = sent[recvBuf.next + i]
<1>. DEFINE f == Head(frames[l])
            r == Ready(recvBuf, f.seq, f.data)
<1>1. /\ f.data \in Data /\ Accepts(recvBuf, f.seq, f.data)
      /\ recvBuf' = Accept(recvBuf, f.seq, f.data) /\ released' = released \o r
      /\ frames[l] # <<>>
  BY DEF ServerAccepts
<1>2. f = frames[l][1] /\ 1 \in 1 .. Len(frames[l]) /\ f \in Frame
  BY <1>1, HeadTailProperties DEF TypeOK, LinkTypes
<1>3. f.seq \in Seqs /\ f.seq < SendSeq /\ f.data = sent[f.seq + 1]
  BY <1>2 DEF FramesCarrySent, ChunkOf, Frame
<1>4. /\ recvBuf.next \in 0 .. MaxNonce /\ IsChunks(recvBuf.pending)
      /\ \A s \in DOMAIN recvBuf.pending :
           s > recvBuf.next /\ recvBuf.pending[s] = sent[s + 1]
  BY DEF TypeOK, StreamTypes, BuffersHoldSent
<1>. HIDE DEF f
<1>5. /\ recvBuf'.next \in recvBuf.next .. MaxNonce
      /\ \A s \in DOMAIN recvBuf'.pending :
           s > recvBuf'.next /\ recvBuf'.pending[s] = sent[s + 1]
      /\ DOMAIN recvBuf'.pending \subseteq DOMAIN recvBuf.pending \cup {f.seq}
      /\ \A s \in DOMAIN recvBuf.pending \cup {f.seq} :
           s < recvBuf'.next \/ s \in DOMAIN recvBuf'.pending
      /\ \A s \in recvBuf.next .. (recvBuf'.next - 1) :
           s \in DOMAIN recvBuf.pending \cup {f.seq}
      /\ r \in Seq(Data)
      /\ Len(r) = recvBuf'.next - recvBuf.next
      /\ \A i \in 1 .. Len(r) : r[i] = sent[recvBuf.next + i]
  BY <1>1, <1>3, <1>4, AcceptProperties
<1>. HIDE DEF r
<1>6. f.seq = Head(frames[l]).seq
  BY DEF f
<1>. QED BY <1>1, <1>3, <1>5, <1>6

\* What the server has received it never forgets.
LEMMA ReceivedMonotone ==
  ASSUME TypeOK, FramesCarrySent, BuffersHoldSent, Next
  PROVE  /\ recvBuf.next <= recvBuf'.next
         /\ \A s \in Nat : Received(s) => Received(s)'
<1>1. CASE UNCHANGED <<recvBuf, released>>
  BY <1>1 DEF TypeOK, StreamTypes, Received
<1>2. ASSUME NEW l \in Links, ServerAccepts(l)
      PROVE  /\ recvBuf.next <= recvBuf'.next
             /\ \A s \in Nat : Received(s) => Received(s)'
  BY <1>2, ServerAcceptsProperties, ConstantTypes DEF TypeOK, StreamTypes, Received
<1>. QED BY <1>1, <1>2, ReceiverSteps

-----------------------------------------------------------------------------
(* The inductive invariant.                                                *)

\* A fresh session satisfies the invariant: both buffers are empty.
LEMMA StreamInit == Init => StreamInv
<1>. SUFFICES ASSUME Init PROVE StreamInv
  OBVIOUS
<1>1. TypeOK
  BY TypeInit
<1>2. SendSeq = 0 /\ Len(accepted) = 0 /\ Len(released) = 0
  BY DEF Init, SendSeq
<1>3. FramesCarrySent /\ AcksClaimReceived
  BY DEF Init, FramesCarrySent, AcksClaimReceived, EmptyReceiveBuffer
<1>4. BuffersHoldSent
  BY DEF Init, BuffersHoldSent, EmptySendBuffer, EmptyReceiveBuffer, NoChunks
<1>5. ReleasedIsSent /\ AcceptedIsSent
  BY <1>2 DEF Init, ReleasedIsSent, AcceptedIsSent, EmptyReceiveBuffer
<1>6. RetainedUntilReceived
  BY <1>2 DEF RetainedUntilReceived
<1>. QED BY <1>1, <1>3, <1>4, <1>5, <1>6 DEF StreamInv

\* A frame of the next state is one of this state, or one just sent.
LEMMA FrameSteps ==
  ASSUME TypeOK, Next, NEW k \in Links, NEW i \in 1 .. Len(frames'[k])
  PROVE  \/ \E j \in 1 .. Len(frames[k]) : frames'[k][i] = frames[k][j]
         \/ /\ frames'[k][i] = [seq |-> SendSeq, data |-> sent'[SendSeq + 1]]
            /\ SendSeq' = SendSeq + 1
         \/ \E s \in DOMAIN sendBuf.chunks :
              frames'[k][i] = [seq |-> s, data |-> sendBuf.chunks[s]]
<1>. DEFINE Same == \E j \in 1 .. Len(frames[k]) : frames'[k][i] = frames[k][j]
<1>0. frames \in [Links -> Seq(Frame)] /\ TypeOK'
  BY TypeStep DEF TypeOK, LinkTypes
<1>1. CASE frames' = frames
  BY <1>1
<1>2. ASSUME NEW f \in Frame, NEW l \in Links, Transmit(l, f)
      PROVE  Same \/ frames'[k][i] = f
  <2>1. frames'[k] = frames[k] \/ frames'[k] = Append(frames[k], f)
    BY <1>0, <1>2, TransmitProperties
  <2>2. frames[k] \in Seq(Frame)
    BY <1>0
  <2>. QED BY <2>1, <2>2
<1>3. ASSUME NEW l \in Links, frames' = [frames EXCEPT ![l] = Tail(@)], frames[l] # <<>>
      PROVE  Same
  <2>1. CASE k = l
    <3>1. frames'[k] = Tail(frames[k]) /\ frames[k] \in Seq(Frame) /\ frames[k] # <<>>
      BY <1>0, <1>3, <2>1
    <3>2. i + 1 \in 1 .. Len(frames[k]) /\ frames'[k][i] = frames[k][i + 1]
      BY <3>1, HeadTailProperties
    <3>. QED BY <3>2
  <2>2. CASE k # l
    BY <1>0, <1>3, <2>2
  <2>. QED BY <2>1, <2>2
<1>4. ASSUME NEW l \in Links, EndReader(l)
      PROVE  Same
  BY <1>0, <1>4 DEF EndReader
<1>5. ASSUME NEW d \in Data, SendPacket(d)
      PROVE  Same \/ /\ frames'[k][i] = [seq |-> SendSeq, data |-> sent'[SendSeq + 1]]
                     /\ SendSeq' = SendSeq + 1
  <2>1. [seq |-> SendSeq, data |-> d] \in Frame /\ active \in Links
    BY <1>5, ConstantTypes
    DEF TypeOK, ClientTypes, SwitchTypes, SendPacket, SendSeq, Seqs, Frame, Contents
  <2>2. SendSeq' = SendSeq + 1 /\ sent'[SendSeq + 1] = d
    BY <1>5 DEF TypeOK, ClientTypes, SendPacket, SendSeq, Contents
  <2>. QED BY <1>2, <1>5, <2>1, <2>2 DEF SendPacket
<1>6. ASSUME SendControl
      PROVE  Same \/ /\ frames'[k][i] = [seq |-> SendSeq, data |-> sent'[SendSeq + 1]]
                     /\ SendSeq' = SendSeq + 1
  <2>1. [seq |-> SendSeq, data |-> Control] \in Frame /\ active \in Links
    BY <1>6, ConstantTypes
    DEF TypeOK, ClientTypes, SwitchTypes, SendControl, SendSeq, Seqs, Frame, Contents
  <2>2. SendSeq' = SendSeq + 1 /\ sent'[SendSeq + 1] = Control
    BY <1>6 DEF TypeOK, ClientTypes, SendControl, SendSeq, Contents
  <2>. QED BY <1>2, <1>6, <2>1, <2>2 DEF SendControl
<1>7. ASSUME NEW s \in Seqs, ReplayChunk(s)
      PROVE  \/ Same
             \/ \E t \in DOMAIN sendBuf.chunks :
                  frames'[k][i] = [seq |-> t, data |-> sendBuf.chunks[t]]
  <2>1. s \in DOMAIN sendBuf.chunks /\ [seq |-> s, data |-> sendBuf.chunks[s]] \in Frame
    BY <1>7 DEF TypeOK, ClientTypes, ReplayChunk, IsNextChunk, Remaining, IsChunks, Frame, Contents
  <2>2. standby \in Links
    BY <1>7 DEF TypeOK, SwitchTypes, ReplayChunk
  <2>. QED BY <1>2, <1>7, <2>1, <2>2 DEF ReplayChunk
<1>8. ASSUME NEW l \in Links, Break(l) PROVE Same
  <2>1. PICK n \in 0 .. Len(frames[l]) : frames' = [frames EXCEPT ![l] = SubSeq(@, 1, n)]
    BY <1>8 DEF Break
  <2>2. CASE k = l
    <3>1. frames'[k] = SubSeq(frames[k], 1, n) /\ frames[k] \in Seq(Frame)
      BY <1>0, <2>1, <2>2
    <3>2. i \in 1 .. Len(frames[k]) /\ frames'[k][i] = frames[k][i]
      BY <2>1, <2>2, <3>1, PrefixProperties
    <3>. QED BY <3>2
  <2>3. CASE k # l
    BY <1>0, <2>1, <2>3
  <2>. QED BY <2>2, <2>3
<1>9. ASSUME NEW l \in Links, ServerRecv(l) PROVE Same
  <2>1. CASE ServerSkips(l) \/ ServerAccepts(l)
    BY <1>3, <2>1 DEF ServerSkips, ServerAccepts
  <2>2. CASE ServerForwards(l) \/ ServerCounts(l)
    BY <1>1, <2>2 DEF ServerForwards, ServerCounts, linkVars
  <2>3. CASE ServerAcks(l)
    BY <1>1, <1>4, <2>3 DEF ServerAcks, linkVars
  <2>4. CASE ServerRecvControl(l)
    BY <1>3, <1>4, <2>4 DEF ServerRecvControl
  <2>5. CASE ServerReadError(l)
    BY <1>4, <2>5 DEF ServerReadError
  <2>. QED BY <1>9, <2>1, <2>2, <2>3, <2>4, <2>5 DEF ServerRecv
<1>. HIDE DEF Same
<1>10. \/ frames' = frames
       \/ \E d \in Data : SendPacket(d)
       \/ SendControl
       \/ \E s \in Seqs : ReplayChunk(s)
       \/ \E l \in Links : Break(l) \/ ServerRecv(l)
  BY DEF Next, ClientRecvAck, ClientRecvOther, PrepareStandby, ResumeFails, NoStandby, BeginReplay,
         SwitchOver, ReplayFails, ServerAttach, ServerResumeFails, linkVars
<1>11. Same => \E j \in 1 .. Len(frames[k]) : frames'[k][i] = frames[k][j]
  BY DEF Same
<1>. QED BY <1>1, <1>5, <1>6, <1>7, <1>8, <1>9, <1>10, <1>11

\* An acknowledgement in flight is one of this state, or one just built.
LEMMA AckSteps ==
  ASSUME TypeOK, Next, NEW k \in Links, NEW i \in 1 .. Len(acks'[k])
  PROVE  \/ \E j \in 1 .. Len(acks[k]) : acks'[k][i] = acks[k][j]
         \/ acks'[k][i] = BuildAck(recvBuf) /\ recvBuf' = recvBuf
<1>. DEFINE Same == \E j \in 1 .. Len(acks[k]) : acks'[k][i] = acks[k][j]
<1>0. acks \in [Links -> Seq(Ack)]
  BY DEF TypeOK, LinkTypes
<1>1. CASE acks' = acks
  BY <1>1
<1>2. ASSUME NEW l \in Links, NEW n \in 0 .. Len(acks[l]),
             acks' = [acks EXCEPT ![l] = SubSeq(@, 1, n)]
      PROVE  Same
  <2>1. CASE k = l
    <3>1. acks'[k] = SubSeq(acks[k], 1, n) /\ acks[k] \in Seq(Ack)
      BY <1>0, <1>2, <2>1
    <3>2. i \in 1 .. Len(acks[k]) /\ acks'[k][i] = acks[k][i]
      BY <2>1, <3>1, PrefixProperties
    <3>. QED BY <3>2
  <2>2. CASE k # l
    BY <1>0, <1>2, <2>2
  <2>. QED BY <2>1, <2>2
<1>3. ASSUME ClientRecvAck PROVE Same
  <2>1. CASE k = active
    <3>1. acks'[k] = Tail(acks[k]) /\ acks[k] \in Seq(Ack) /\ acks[k] # <<>>
      BY <1>0, <1>3, <2>1 DEF ClientRecvAck
    <3>2. i + 1 \in 1 .. Len(acks[k]) /\ acks'[k][i] = acks[k][i + 1]
      BY <3>1, HeadTailProperties
    <3>. QED BY <3>2
  <2>2. CASE k # active
    BY <1>0, <1>3, <2>2 DEF ClientRecvAck
  <2>. QED BY <2>1, <2>2
<1>4. ASSUME NEW l \in Links, Break(l) PROVE Same
  BY <1>2, <1>4 DEF Break
<1>5. ASSUME NEW l \in Links, ServerAttach(l) PROVE Same
  BY <1>1, <1>2, <1>5 DEF ServerAttach, TypeOK, ServerTypes
<1>6. ASSUME NEW l \in Links, ServerAcks(l)
      PROVE  Same \/ (acks'[k][i] = BuildAck(recvBuf) /\ recvBuf' = recvBuf)
  <2>1. recvBuf' = recvBuf
    BY <1>6 DEF ServerAcks, streamVars
  <2>2. CASE acks' = [acks EXCEPT ![l] = Append(@, BuildAck(recvBuf))]
    <3>1. acks'[k] = acks[k] \/ acks'[k] = Append(acks[k], BuildAck(recvBuf))
      BY <1>0, <2>2
    <3>2. acks[k] \in Seq(Ack)
      BY <1>0
    <3>. QED BY SMTT(30), <2>1, <3>1, <3>2
  <2>. QED BY <1>1, <1>6, <2>2 DEF ServerAcks, linkVars
<1>. HIDE DEF Same
<1>7. \/ acks' = acks
      \/ ClientRecvAck
      \/ \E l \in Links : Break(l) \/ ServerAttach(l) \/ ServerAcks(l)
  BY DEF Next, SendPacket, SendControl, ClientRecvOther, PrepareStandby, ResumeFails, NoStandby,
         BeginReplay, ReplayChunk, SwitchOver, ReplayFails, ServerResumeFails, ServerRecv,
         ServerSkips, ServerAccepts, ServerForwards, ServerCounts, ServerRecvControl,
         ServerReadError, linkVars
<1>8. Same => \E j \in 1 .. Len(acks[k]) : acks'[k][i] = acks[k][j]
  BY DEF Same
<1>. QED BY <1>1, <1>3, <1>4, <1>5, <1>6, <1>7, <1>8

\* Whatever releases retained chunks, an acknowledgement or the resume position,
\* claims only what the server has received.
LEMMA ReleaseSteps ==
  ASSUME TypeOK, AcksClaimReceived, ClientRecvAck \/ BeginReplay
  PROVE  /\ UNCHANGED <<accepted, sent, rejected, recvBuf, released>>
         /\ DOMAIN sendBuf'.chunks \subseteq DOMAIN sendBuf.chunks
         /\ \A s \in DOMAIN sendBuf'.chunks : sendBuf'.chunks[s] = sendBuf.chunks[s]
         /\ \A s \in DOMAIN sendBuf.chunks : s \in DOMAIN sendBuf'.chunks \/ Received(s)
<1>0. IsChunks(sendBuf.chunks) /\ DOMAIN sendBuf.chunks \subseteq Nat
  BY DEF TypeOK, ClientTypes, IsChunks, Seqs
<1>1. UNCHANGED <<accepted, sent, rejected, recvBuf, released>>
  BY DEF ClientRecvAck, BeginReplay, serverVars, streamVars
<1>2. \E ack \in Ack : ClaimsReceived(ack) /\ sendBuf' = ApplyAck(sendBuf, ack)
  <2>1. CASE ClientRecvAck
    <3>1. /\ acks[active] \in Seq(Ack) /\ acks[active] # <<>>
          /\ sendBuf' = ApplyAck(sendBuf, Head(acks[active]))
      BY <2>1 DEF ClientRecvAck, TypeOK, LinkTypes, SwitchTypes
    <3>2. /\ Head(acks[active]) = acks[active][1] /\ 1 \in 1 .. Len(acks[active])
          /\ Head(acks[active]) \in Ack
      BY <3>1, HeadTailProperties
    <3>3. ClaimsReceived(Head(acks[active]))
      BY <3>2 DEF AcksClaimReceived, TypeOK, SwitchTypes
    <3>. QED BY <3>1, <3>2, <3>3
  <2>2. CASE BeginReplay
    <3>1. /\ ClaimsReceived([next |-> resumeAt, ranges |-> {}])
          /\ [next |-> resumeAt, ranges |-> {}] \in Ack
      BY DEF AcksClaimReceived, ClaimsReceived, TypeOK, SwitchTypes, Ack
    <3>. QED BY <2>2, <3>1 DEF BeginReplay
  <2>. QED BY <2>1, <2>2
<1>3. PICK ack \in Ack : ClaimsReceived(ack) /\ sendBuf' = ApplyAck(sendBuf, ack)
  BY <1>2
<1>4. /\ DOMAIN sendBuf'.chunks = DOMAIN sendBuf.chunks \ Covers(ack, DOMAIN sendBuf.chunks)
      /\ \A s \in DOMAIN sendBuf'.chunks : sendBuf'.chunks[s] = sendBuf.chunks[s]
  BY <1>0, <1>3, ApplyAckProperties
<1>5. /\ ack.next \in Int /\ recvBuf.next \in Int
      /\ \A r \in ack.ranges : r.start \in Int /\ r.end \in Int
  BY ConstantTypes DEF Ack, SackRange, TypeOK, StreamTypes
<1>6. \A s \in Covers(ack, DOMAIN sendBuf.chunks) : Received(s)
  <2>. SUFFICES ASSUME NEW s \in DOMAIN sendBuf.chunks,
                       s < ack.next \/ \E r \in ack.ranges : r.start <= s /\ s <= r.end
                PROVE  Received(s)
    BY DEF Covers
  <2>1. CASE s < ack.next
    <3>1. s \in Nat /\ ack.next <= recvBuf.next
      BY <1>0, <1>3 DEF ClaimsReceived
    <3>. QED BY <1>5, <2>1, <3>1 DEF Received
  <2>2. CASE \E r \in ack.ranges : r.start <= s /\ s <= r.end
    BY <1>0, <1>3, <1>5, <2>2 DEF ClaimsReceived
  <2>. QED BY <2>1, <2>2
<1>. QED BY <1>1, <1>4, <1>6

\* No step of run_pipeline, attempt_switch, the network or serve breaks the
\* invariant, conjunct by conjunct.
LEMMA StreamStep == StreamInv /\ [Next]_vars => StreamInv'
<1>. SUFFICES ASSUME StreamInv, Next PROVE StreamInv'
  <2>1. ASSUME StreamInv, UNCHANGED vars PROVE StreamInv'
    BY <2>1, TypeStep
    DEF vars, clientVars, switchVars, linkVars, serverVars, streamVars, StreamInv,
        FramesCarrySent, BuffersHoldSent, ReleasedIsSent, AcceptedIsSent, AcksClaimReceived,
        ClaimsReceived, RetainedUntilReceived, Received, ChunkOf, SendSeq
  <2>. QED BY <2>1
<1>0. /\ TypeOK /\ FramesCarrySent /\ BuffersHoldSent /\ ReleasedIsSent /\ AcceptedIsSent
      /\ AcksClaimReceived /\ RetainedUntilReceived
  BY DEF StreamInv
<1>1. TypeOK'
  BY <1>0, TypeStep
<1>2. /\ SendSeq \in Nat /\ SendSeq' \in Nat /\ SendSeq <= SendSeq'
      /\ \A i \in 1 .. SendSeq : sent'[i] = sent[i]
  BY <1>0, SentMonotone
<1>3. /\ recvBuf.next <= recvBuf'.next /\ \A s \in Nat : Received(s) => Received(s)'
      /\ recvBuf.next \in Nat /\ recvBuf'.next \in Nat
  BY <1>0, <1>1, ReceivedMonotone DEF TypeOK, StreamTypes
<1>4. FramesCarrySent'
  <2>. SUFFICES ASSUME NEW k \in Links, NEW i \in 1 .. Len(frames'[k])
                PROVE  ChunkOf(frames[k][i])'
    BY DEF FramesCarrySent
  <2>1. ASSUME NEW j \in 1 .. Len(frames[k]), frames'[k][i] = frames[k][j]
        PROVE  ChunkOf(frames[k][i])'
    <3>1. frames[k][j] \in Frame
      BY <1>0 DEF TypeOK, LinkTypes
    <3>2. ChunkOf(frames[k][j])
      BY <1>0 DEF FramesCarrySent
    <3>. QED BY <1>2, <2>1, <3>1, <3>2 DEF ChunkOf, Frame, Seqs
  <2>2. ASSUME frames'[k][i] = [seq |-> SendSeq, data |-> sent'[SendSeq + 1]],
               SendSeq' = SendSeq + 1
        PROVE  ChunkOf(frames[k][i])'
    BY <1>2, <2>2 DEF ChunkOf
  <2>3. ASSUME NEW s \in DOMAIN sendBuf.chunks,
               frames'[k][i] = [seq |-> s, data |-> sendBuf.chunks[s]]
        PROVE  ChunkOf(frames[k][i])'
    <3>1. s \in Nat /\ s < SendSeq /\ sendBuf.chunks[s] = sent[s + 1]
      BY <1>0 DEF TypeOK, ClientTypes, IsChunks, Seqs, BuffersHoldSent
    <3>. QED BY <1>2, <2>3, <3>1 DEF ChunkOf
  <2>. QED BY <1>0, <2>1, <2>2, <2>3, FrameSteps
<1>5. BuffersHoldSent'
  <2>1. \A s \in DOMAIN sendBuf'.chunks : s < SendSeq' /\ sendBuf'.chunks[s] = sent'[s + 1]
    <3>0. DOMAIN sendBuf.chunks \subseteq Nat
      BY <1>0 DEF TypeOK, ClientTypes, IsChunks, Seqs
    <3>1. \A s \in DOMAIN sendBuf.chunks : s < SendSeq' /\ sendBuf.chunks[s] = sent'[s + 1]
      BY <1>0, <1>2, <3>0 DEF BuffersHoldSent
    <3>2. CASE sendBuf' = sendBuf
      BY <3>1, <3>2
    <3>3. ASSUME NEW d \in Data, SendPacket(d)
          PROVE  \A s \in DOMAIN sendBuf'.chunks : s < SendSeq' /\ sendBuf'.chunks[s] = sent'[s + 1]
      <4>1. SendSeq \in Seqs /\ SendSeq' = SendSeq + 1 /\ sent'[SendSeq + 1] = d
        BY <1>0, <3>3, ConstantTypes DEF TypeOK, ClientTypes, SendPacket, SendSeq, Seqs, Contents
      <4>2. sendBuf' = Push(sendBuf, SendSeq, d) /\ IsChunks(sendBuf.chunks)
        BY <1>0, <3>3 DEF SendPacket, TypeOK, ClientTypes
      <4>3. CASE Rejects(sendBuf, d)
        BY <3>1, <4>1, <4>2, <4>3, PushProperties
      <4>4. CASE ~Rejects(sendBuf, d)
        <5>1. sendBuf'.chunks = Insert(sendBuf.chunks, SendSeq, d)
          BY <4>1, <4>2, <4>4, PushProperties
        <5>. QED BY <3>1, <4>1, <5>1, <1>2 DEF Insert
      <4>. QED BY <4>3, <4>4
    <3>4. CASE ClientRecvAck \/ BeginReplay
      BY <1>0, <3>1, <3>4, ReleaseSteps DEF SendSeq
    <3>5. sendBuf' = sendBuf \/ (\E d \in Data : SendPacket(d)) \/ ClientRecvAck \/ BeginReplay
      BY SenderSteps DEF clientVars, SendControl
    <3>. QED BY <3>2, <3>3, <3>4, <3>5
  <2>2. \A s \in DOMAIN recvBuf'.pending : s < SendSeq' /\ recvBuf'.pending[s] = sent'[s + 1]
    <3>0. DOMAIN recvBuf.pending \subseteq Nat
      BY <1>0 DEF TypeOK, StreamTypes, IsChunks, Seqs
    <3>1. CASE recvBuf' = recvBuf
      BY <1>0, <1>2, <3>0, <3>1 DEF BuffersHoldSent
    <3>2. ASSUME NEW l \in Links, ServerAccepts(l)
          PROVE  \A s \in DOMAIN recvBuf'.pending :
                   s < SendSeq' /\ recvBuf'.pending[s] = sent'[s + 1]
      <4>1. PICK seq \in Seqs :
              /\ seq < SendSeq
              /\ \A s \in DOMAIN recvBuf'.pending : recvBuf'.pending[s] = sent[s + 1]
              /\ DOMAIN recvBuf'.pending \subseteq DOMAIN recvBuf.pending \cup {seq}
        BY <1>0, <3>2, ServerAcceptsProperties
      <4>2. \A s \in DOMAIN recvBuf'.pending : s \in Nat /\ s < SendSeq
        BY <1>0, <3>0, <4>1 DEF BuffersHoldSent, Seqs
      <4>. QED BY <1>2, <4>1, <4>2
    <3>. QED BY <3>1, <3>2, ReceiverSteps
  <2>. QED BY <2>1, <2>2 DEF BuffersHoldSent
<1>6. ReleasedIsSent'
  <2>1. CASE UNCHANGED <<recvBuf, released>>
    BY <1>0, <1>2, <1>3, <2>1 DEF ReleasedIsSent
  <2>2. ASSUME NEW l \in Links, ServerAccepts(l) PROVE ReleasedIsSent'
    <3>1. PICK seq \in Seqs, r \in Seq(Data) :
            /\ seq < SendSeq
            /\ recvBuf'.next \in recvBuf.next .. MaxNonce
            /\ \A s \in recvBuf.next .. (recvBuf'.next - 1) : s \in DOMAIN recvBuf.pending \cup {seq}
            /\ released' = released \o r
            /\ Len(r) = recvBuf'.next - recvBuf.next
            /\ \A i \in 1 .. Len(r) : r[i] = sent[recvBuf.next + i]
      BY <1>0, <2>2, ServerAcceptsProperties
    <3>2. /\ released \in Seq(Data) /\ Len(released) = recvBuf.next /\ recvBuf.next <= SendSeq
          /\ \A i \in 1 .. Len(released) : released[i] = sent[i]
      BY <1>0 DEF TypeOK, StreamTypes, ReleasedIsSent
    <3>3. /\ Len(released') = Len(released) + Len(r)
          /\ \A i \in 1 .. Len(released') :
               released'[i] = IF i <= Len(released) THEN released[i] ELSE r[i - Len(released)]
      BY SMTT(30), <3>1, <3>2, ConcatProperties
    <3>4. recvBuf'.next <= SendSeq
      <4>1. CASE recvBuf'.next = recvBuf.next
        BY <3>2, <4>1
      <4>2. CASE recvBuf'.next # recvBuf.next
        <5>0. recvBuf'.next - 1 \in recvBuf.next .. (recvBuf'.next - 1)
          BY <1>3, <4>2
        <5>1. recvBuf'.next - 1 \in DOMAIN recvBuf.pending \cup {seq}
          BY <3>1, <5>0
        <5>2. recvBuf'.next - 1 < SendSeq
          BY <1>0, <3>1, <5>1 DEF BuffersHoldSent
        <5>. QED BY <1>2, <1>3, <5>2
      <4>. QED BY <4>1, <4>2
    <3>5. \A i \in 1 .. Len(released') : released'[i] = sent[i]
      <4>. SUFFICES ASSUME NEW i \in 1 .. Len(released') PROVE released'[i] = sent[i]
        OBVIOUS
      <4>1. CASE i <= Len(released)
        BY <1>3, <3>2, <3>3, <4>1
      <4>2. CASE ~(i <= Len(released))
        <5>1. i - Len(released) \in 1 .. Len(r) /\ recvBuf.next + (i - Len(released)) = i
          BY SMTT(30), <1>3, <3>1, <3>2, <3>3, <4>2
        <5>2. released'[i] = r[i - Len(released)]
          BY <3>3, <4>2
        <5>. QED BY <3>1, <5>1, <5>2
      <4>. QED BY <4>1, <4>2
    <3>. QED BY SMTT(30), <1>2, <1>3, <3>1, <3>2, <3>3, <3>4, <3>5 DEF ReleasedIsSent
  <2>. QED BY <2>1, <2>2, ReceiverSteps
<1>7. AcceptedIsSent'
  <2>1. CASE UNCHANGED <<accepted, sent>>
    BY <1>0, <2>1 DEF AcceptedIsSent, SendSeq
  <2>2. ASSUME NEW d \in Data, SendPacket(d) PROVE AcceptedIsSent'
    <3>1. /\ sent \in Seq(Contents) /\ accepted \in Seq(Data) /\ d \in Contents
          /\ sent' = Append(sent, d) /\ accepted' = Append(accepted, d)
      BY <1>0, <2>2 DEF TypeOK, ClientTypes, SendPacket, Contents
    <3>2. /\ Len(sent') = Len(sent) + 1 /\ Len(accepted') = Len(accepted) + 1
          /\ Len(sent) \in Nat /\ Len(accepted) \in Nat
          /\ sent'[Len(sent) + 1] = d /\ accepted'[Len(accepted) + 1] = d
          /\ \A i \in 1 .. Len(sent) : sent'[i] = sent[i]
          /\ \A i \in 1 .. Len(accepted) : accepted'[i] = accepted[i]
      BY <3>1
    <3>3. Len(accepted) <= Len(sent)
      BY <1>0 DEF AcceptedIsSent, SendSeq
    <3>. SUFFICES ASSUME NEW n \in 0 .. Len(sent'), \A i \in 1 .. n : sent'[i] \in Data
                  PROVE  n <= Len(accepted') /\ \A i \in 1 .. n : accepted'[i] = sent'[i]
      BY <3>2, <3>3 DEF AcceptedIsSent, SendSeq
    <3>4. ASSUME NEW m \in 0 .. Len(sent), m <= n
          PROVE  m <= Len(accepted) /\ \A i \in 1 .. m : accepted[i] = sent[i]
      <4>1. \A i \in 1 .. m : sent[i] \in Data
        BY <3>2, <3>4
      <4>. QED BY <1>0, <4>1 DEF AcceptedIsSent, SendSeq
    <3>5. CASE n <= Len(sent)
      <4>1. n \in 0 .. Len(sent)
        BY <3>2, <3>5
      <4>. QED BY <3>2, <3>4, <4>1
    <3>6. CASE n = Len(sent) + 1
      <4>1. /\ Len(sent) <= Len(accepted)
            /\ \A i \in 1 .. Len(sent) : accepted[i] = sent[i]
        BY <3>2, <3>4, <3>6
      <4>2. Len(accepted) = Len(sent)
        BY <3>2, <3>3, <4>1
      <4>. QED BY <3>2, <3>6, <4>1, <4>2
    <3>. QED BY <3>2, <3>5, <3>6
  <2>3. CASE SendControl
    <3>1. /\ sent \in Seq(Contents) /\ accepted \in Seq(Data)
          /\ sent' = Append(sent, Control) /\ accepted' = accepted
      BY <1>0, <2>3 DEF TypeOK, ClientTypes, SendControl
    <3>2. /\ Len(sent') = Len(sent) + 1 /\ Len(sent) \in Nat /\ Len(accepted) \in Nat
          /\ sent'[Len(sent) + 1] \notin Data
          /\ \A i \in 1 .. Len(sent) : sent'[i] = sent[i]
      BY <3>1, ConstantTypes
    <3>3. Len(accepted) <= Len(sent)
      BY <1>0 DEF AcceptedIsSent, SendSeq
    <3>. SUFFICES ASSUME NEW n \in 0 .. Len(sent'), \A i \in 1 .. n : sent'[i] \in Data
                  PROVE  n <= Len(accepted) /\ \A i \in 1 .. n : accepted[i] = sent'[i]
      BY <3>1, <3>2, <3>3 DEF AcceptedIsSent, SendSeq
    <3>4. n \in 0 .. Len(sent)
      <4>1. n # Len(sent) + 1
        BY <3>2
      <4>. QED BY <3>2, <4>1
    <3>5. \A i \in 1 .. n : sent[i] \in Data
      BY <3>2, <3>4
    <3>. QED BY <1>0, <3>2, <3>4, <3>5 DEF AcceptedIsSent, SendSeq
  <2>4. CASE ClientRecvAck \/ BeginReplay
    BY <1>0, <2>1, <2>4, ReleaseSteps
  <2>. QED BY <2>1, <2>2, <2>3, <2>4, SenderSteps DEF clientVars
<1>8. AcksClaimReceived'
  <2>1. resumeAt' <= recvBuf'.next
    <3>1. resumeAt' = resumeAt \/ (resumeAt' = recvBuf.next /\ recvBuf' = recvBuf)
      BY DEF Next, SendPacket, SendControl, ClientRecvAck, ClientRecvOther, PrepareStandby,
             ResumeFails, NoStandby, BeginReplay, ReplayChunk, SwitchOver, ReplayFails, Break,
             ServerAttach, ServerResumeFails, ServerRecv, ServerSkips, ServerAccepts,
             ServerForwards, ServerCounts, ServerAcks, ServerRecvControl, ServerReadError,
             switchVars, streamVars
    <3>. QED BY <1>0, <1>3, <3>1, ConstantTypes DEF AcksClaimReceived, TypeOK, SwitchTypes
  <2>2. ASSUME NEW k \in Links, NEW i \in 1 .. Len(acks'[k])
        PROVE  ClaimsReceived(acks[k][i])'
    <3>1. ASSUME NEW j \in 1 .. Len(acks[k]), acks'[k][i] = acks[k][j]
          PROVE  ClaimsReceived(acks[k][i])'
      <4>1. acks[k][j] \in Ack /\ ClaimsReceived(acks[k][j])
        BY <1>0 DEF TypeOK, LinkTypes, AcksClaimReceived
      <4>2. ClaimsReceived(acks[k][j]) => /\ acks[k][j].next <= recvBuf'.next
                                          /\ \A r \in acks[k][j].ranges :
                                               \A s \in r.start .. r.end : Received(s)'
        BY <1>3, <4>1 DEF ClaimsReceived, Ack, SackRange
      <4>. QED BY <3>1, <4>1, <4>2 DEF ClaimsReceived
    <3>2. ASSUME acks'[k][i] = BuildAck(recvBuf), recvBuf' = recvBuf
          PROVE  ClaimsReceived(acks[k][i])'
      <4>1. /\ BuildAck(recvBuf).next = recvBuf.next
            /\ \A q \in BuildAck(recvBuf).ranges : q.start .. q.end \subseteq DOMAIN recvBuf.pending
        BY <1>0, BuildAckProperties DEF TypeOK, StreamTypes
      <4>. QED BY <1>3, <3>2, <4>1 DEF ClaimsReceived, Received
    <3>. QED BY <1>0, <3>1, <3>2, AckSteps
  <2>. QED BY <2>1, <2>2 DEF AcksClaimReceived
<1>9. RetainedUntilReceived'
  <2>1. ASSUME NEW s \in 0 .. (SendSeq - 1), sent[s + 1] \in Data, s \notin rejected
        PROVE  s \in DOMAIN sendBuf.chunks \/ Received(s)
    BY <1>0, <2>1 DEF RetainedUntilReceived
  <2>2. CASE UNCHANGED clientVars
    BY <1>2, <1>3, <2>1, <2>2 DEF RetainedUntilReceived, clientVars, SendSeq
  <2>3. ASSUME NEW d \in Data, SendPacket(d) PROVE RetainedUntilReceived'
    <3>1. /\ SendSeq \in Seqs /\ SendSeq' = SendSeq + 1
          /\ sendBuf' = Push(sendBuf, SendSeq, d) /\ IsChunks(sendBuf.chunks)
          /\ rejected' = IF Rejects(sendBuf, d) THEN rejected \cup {SendSeq} ELSE rejected
      BY <1>0, <2>3, ConstantTypes DEF TypeOK, ClientTypes, SendPacket, SendSeq, Seqs
    <3>2. /\ DOMAIN sendBuf.chunks \subseteq DOMAIN sendBuf'.chunks
          /\ SendSeq \in rejected' \/ SendSeq \in DOMAIN sendBuf'.chunks
      <4>1. CASE Rejects(sendBuf, d)
        <5>1. sendBuf' = sendBuf
          BY <3>1, <4>1, PushProperties
        <5>. QED BY <3>1, <4>1, <5>1
      <4>2. CASE ~Rejects(sendBuf, d)
        <5>1. sendBuf'.chunks = Insert(sendBuf.chunks, SendSeq, d)
          BY <3>1, <4>2, PushProperties
        <5>. QED BY <5>1 DEF Insert
      <4>. QED BY <4>1, <4>2
    <3>3. \A s \in 0 .. (SendSeq' - 1) : s = SendSeq \/ s \in 0 .. (SendSeq - 1)
      BY <1>2, <3>1
    <3>. QED BY <1>2, <1>3, <2>1, <3>1, <3>2, <3>3 DEF RetainedUntilReceived
  <2>4. CASE SendControl
    <3>1. /\ SendSeq' = SendSeq + 1 /\ sent'[SendSeq + 1] \notin Data
          /\ UNCHANGED <<sendBuf, rejected>>
      BY <1>0, <2>4, ConstantTypes DEF TypeOK, ClientTypes, SendControl, SendSeq, Contents
    <3>2. \A s \in 0 .. (SendSeq' - 1) : s = SendSeq \/ s \in 0 .. (SendSeq - 1)
      BY <1>2, <3>1
    <3>. QED BY <1>2, <1>3, <2>1, <3>1, <3>2 DEF RetainedUntilReceived
  <2>5. CASE ClientRecvAck \/ BeginReplay
    <3>1. /\ UNCHANGED <<sent, rejected, recvBuf>>
          /\ \A s \in DOMAIN sendBuf.chunks : s \in DOMAIN sendBuf'.chunks \/ Received(s)
      BY <1>0, <2>5, ReleaseSteps
    <3>. QED BY <1>2, <1>3, <2>1, <3>1 DEF RetainedUntilReceived, SendSeq
  <2>. QED BY <2>2, <2>3, <2>4, <2>5, SenderSteps
<1>. QED BY <1>1, <1>4, <1>5, <1>6, <1>7, <1>8, <1>9 DEF StreamInv

\* The strengthening of the order and retention properties.
THEOREM StreamInvariant == Spec => []StreamInv
BY StreamInit, StreamStep, PTL DEF Spec

\* What the receive buffer releases is a prefix of what the TUN device handed
\* over, whatever the switches duplicated, reordered or lost.
LEMMA StreamInOrder == StreamInv => ReleasedInOrder
<1>. SUFFICES ASSUME StreamInv PROVE ReleasedInOrder
  OBVIOUS
<1>1. /\ released \in Seq(Data) /\ Len(released) \in Nat /\ Len(released) <= SendSeq
      /\ \A i \in 1 .. Len(released) : released[i] = sent[i]
  BY DEF StreamInv, TypeOK, StreamTypes, ReleasedIsSent
<1>2. \A i \in 1 .. Len(released) : sent[i] \in Data
  BY <1>1, ElementOfSeq
<1>3. Len(released) \in 0 .. SendSeq
  BY <1>1 DEF SendSeq, StreamInv, TypeOK, ClientTypes
<1>4. Len(released) <= Len(accepted) /\ \A i \in 1 .. Len(released) : accepted[i] = sent[i]
  BY <1>2, <1>3 DEF StreamInv, AcceptedIsSent
<1>. QED BY <1>1, <1>4 DEF ReleasedInOrder

\* Of accept() and drain_ready(): no run of the session releases anything but a
\* prefix of the packets the client accepted.
THEOREM ReleasedInOrderAlways == Spec => []ReleasedInOrder
BY StreamInvariant, StreamInOrder, PTL

\* No packet the send buffer took is released before the server holds it.
THEOREM RetainedUntilReceivedAlways == Spec => []RetainedUntilReceived
<1>1. StreamInv => RetainedUntilReceived
  BY DEF StreamInv
<1>. QED BY <1>1, StreamInvariant, PTL

-----------------------------------------------------------------------------
(* What the links carry.                                                   *)

\* Without a gap, what the send buffer does not retain the server holds.
LEMMA GaplessRetains ==
  ASSUME StreamInv, Gapless
  PROVE  \A s \in 0 .. (SendSeq - 1) : s \in DOMAIN sendBuf.chunks \/ Received(s)
<1>. SUFFICES ASSUME NEW s \in 0 .. (SendSeq - 1)
              PROVE  s \in DOMAIN sendBuf.chunks \/ Received(s)
  OBVIOUS
<1>1. sent \in Seq(Contents) /\ SendSeq \in Nat /\ SendSeq = Len(sent)
  BY DEF StreamInv, TypeOK, ClientTypes, SendSeq
<1>2. s + 1 \in 1 .. SendSeq
  BY <1>1
<1>3. sent[s + 1] \in Data
  BY <1>1, <1>2, ElementOfSeq DEF Gapless, Contents
<1>. QED BY <1>3 DEF StreamInv, RetainedUntilReceived, Gapless

\* A gap is never undone.
LEMMA GaplessBefore ==
  ASSUME TypeOK, Next, Gapless'
  PROVE  Gapless
<1>1. rejected \subseteq rejected'
  BY SenderSteps DEF SendPacket, SendControl, ClientRecvAck, BeginReplay, clientVars
<1>2. SendSeq \in Nat /\ SendSeq' \in Nat /\ SendSeq <= SendSeq'
      /\ \A i \in 1 .. SendSeq : sent'[i] = sent[i]
  BY SentMonotone
<1>. QED BY <1>1, <1>2 DEF Gapless

\* Only a switch changes where the client is.
LEMMA SwitchSteps ==
  ASSUME Next
  PROVE  \/ UNCHANGED <<active, phase, standby, cursor>>
         \/ \E l \in Links : PrepareStandby(l)
         \/ ResumeFails \/ NoStandby \/ ReplayFails
         \/ BeginReplay \/ SwitchOver \/ \E s \in Seqs : ReplayChunk(s)
BY Zenon DEF Next, SendPacket, SendControl, ClientRecvAck, ClientRecvOther, Break, ServerAttach,
       ServerResumeFails, ServerRecv, ServerSkips, ServerAccepts, ServerForwards, ServerCounts,
       ServerAcks, ServerRecvControl, ServerReadError, switchVars

\* Only a switch opens a link, and no link becomes unused again.
LEMMA UpSteps ==
  ASSUME TypeOK, Next, NEW l \in Links
  PROVE  /\ up'[l] = "open" => up[l] = "open" \/ PrepareStandby(l)
         /\ up'[l] = "unused" => up[l] = "unused"
<1>0. up \in [Links -> {"unused", "open", "broken"}]
  BY DEF TypeOK, LinkTypes
<1>1. CASE up' = up
  BY <1>1
<1>2. ASSUME NEW L, up' = Closed(L)
      PROVE  (up'[l] = "open" => up[l] = "open") /\ (up'[l] = "unused" => up[l] = "unused")
  BY <1>2 DEF Closed
<1>3. ASSUME NEW k \in Links, PrepareStandby(k)
      PROVE  /\ up'[l] = "open" => up[l] = "open" \/ PrepareStandby(l)
             /\ up'[l] = "unused" => up[l] = "unused"
  BY <1>0, <1>3 DEF PrepareStandby
<1>4. ASSUME NEW k \in Links, Break(k)
      PROVE  (up'[l] = "open" => up[l] = "open") /\ (up'[l] = "unused" => up[l] = "unused")
  BY <1>0, <1>4 DEF Break
<1>5. \/ up' = up \/ \E L : up' = Closed(L)
      \/ \E k \in Links : PrepareStandby(k) \/ Break(k)
  BY Zenon DEF Next, SendPacket, SendControl, ClientRecvAck, ClientRecvOther, DrainOld,
       ResumeFails, NoStandby, BeginReplay, ReplayChunk, SwitchOver, ReplayFails,
       ServerAttach, ServerResumeFails, ServerRecv, ServerSkips, ServerAccepts, ServerForwards,
       ServerCounts, ServerAcks, ServerRecvControl, ServerReadError, EndReader, linkVars
<1>. QED BY <1>1, <1>2, <1>3, <1>4, <1>5

\* What a step can do to the frames of a link.
LEMMA CarrierSteps ==
  ASSUME TypeOK, Next, NEW l \in Links
  PROVE  \/ frames'[l] = frames[l]
         \/ up'[l] # "open" /\ Len(frames'[l]) <= Len(frames[l])
         \/ ServerSkips(l) \/ ServerAccepts(l) \/ ServerRecvControl(l)
         \/ l = active /\ (SendControl \/ \E d \in Data : SendPacket(d))
         \/ l = standby /\ \E s \in Seqs : ReplayChunk(s)
<1>. DEFINE Lost == up'[l] # "open" /\ Len(frames'[l]) <= Len(frames[l])
<1>. USE DEF TypeOK, LinkTypes
<1>1. ASSUME NEW k \in Links, NEW f, Transmit(k, f) PROVE l = k \/ frames'[l] = frames[l]
  BY <1>1 DEF Transmit
<1>2. ASSUME NEW k \in Links, Break(k) PROVE frames'[l] = frames[l] \/ Lost
  <2>1. PICK n \in 0 .. Len(frames[k]) : frames' = [frames EXCEPT ![k] = SubSeq(@, 1, n)]
    BY <1>2 DEF Break
  <2>2. frames[k] \in Seq(Frame) /\ Len(SubSeq(frames[k], 1, n)) = n
    BY PrefixProperties
  <2>. QED BY <1>2, <2>1, <2>2 DEF Break
<1>3. ASSUME NEW k \in Links, EndReader(k) PROVE frames'[l] = frames[l] \/ Lost
  <2>1. Len(frames[l]) \in Nat /\ Len(<<>>) = 0
    OBVIOUS
  <2>. QED BY <1>3, <2>1 DEF EndReader, Closed
<1>. HIDE DEF Lost
<1>4. ASSUME NEW k \in Links, ServerRecv(k)
      PROVE  \/ frames'[l] = frames[l] \/ Lost
             \/ ServerSkips(l) \/ ServerAccepts(l) \/ ServerRecvControl(l)
  <2>1. ASSUME frames' = [frames EXCEPT ![k] = Tail(@)] PROVE l = k \/ frames'[l] = frames[l]
    BY <2>1
  <2>. QED BY <1>3, <1>4, <2>1
       DEF ServerRecv, ServerSkips, ServerAccepts, ServerForwards, ServerCounts, ServerAcks,
           ServerRecvControl, ServerReadError, linkVars
<1>5. ASSUME NEW d \in Data, SendPacket(d) PROVE frames'[l] = frames[l] \/ l = active
  BY <1>1, <1>5 DEF SendPacket, SwitchTypes
<1>6. ASSUME SendControl PROVE frames'[l] = frames[l] \/ l = active
  BY <1>1, <1>6 DEF SendControl, SwitchTypes
<1>7. ASSUME NEW s \in Seqs, ReplayChunk(s) PROVE frames'[l] = frames[l] \/ l = standby
  BY <1>1, <1>7 DEF ReplayChunk, SwitchTypes
<1>8. ASSUME \/ ClientRecvAck \/ ClientRecvOther \/ ResumeFails \/ NoStandby \/ BeginReplay
             \/ SwitchOver \/ ReplayFails
             \/ \E k \in Links : PrepareStandby(k) \/ ServerAttach(k) \/ ServerResumeFails(k)
      PROVE  frames' = frames
  BY <1>8 DEF ClientRecvAck, ClientRecvOther, ResumeFails, NoStandby, BeginReplay, SwitchOver,
              ReplayFails, PrepareStandby, ServerAttach, ServerResumeFails, linkVars
<1>. QED BY <1>2, <1>4, <1>5, <1>6, <1>7, <1>8, Zenon DEF Next, Lost

\* A link that carries every chunk below n the server lacks still does when
\* the server reads one of it: what is skipped is a duplicate, because the
\* chunk the server waits for is ahead of every other.
LEMMA ReadKeepsCarries ==
  ASSUME StreamInv, Next, Gapless, NEW l \in Links, NEW n \in Nat, Carries(l, n),
         ServerSkips(l) \/ ServerAccepts(l) \/ ServerRecvControl(l), up'[l] = "open"
  PROVE  /\ \A i \in 1 .. Len(frames'[l]) : frames'[l][i].seq < n
         /\ \A i, j \in 1 .. Len(frames'[l]) : i < j => frames'[l][i].seq < frames'[l][j].seq
         /\ \A s \in 0 .. (n - 1) :
              Received(s)' \/ \E i \in 1 .. Len(frames'[l]) : frames'[l][i].seq = s
<1>. DEFINE q == frames[l]
<1>0. q \in Seq(Frame) /\ q # <<>> /\ Len(q) \in Nat \ {0} /\ Head(q) = q[1] /\ q[1] \in Frame
  <2>1. q \in Seq(Frame) /\ q # <<>>
    BY DEF StreamInv, TypeOK, LinkTypes, ServerSkips, ServerAccepts, ServerRecvControl
  <2>. QED BY <2>1, HeadTailProperties, EmptySeq
<1>. PICK f \in Frame : f = Head(q)
  BY <1>0
<1>1. q \in Seq(Frame) /\ q # <<>> /\ Len(q) \in Nat \ {0} /\ f = Head(q) /\ f = q[1]
  BY <1>0
<1>2. f.data # Control
  <2>1. ChunkOf(q[1]) /\ SendSeq \in Nat /\ SendSeq = Len(sent)
    BY <1>1 DEF StreamInv, FramesCarrySent, TypeOK, ClientTypes, SendSeq
  <2>. QED BY <1>1, <2>1 DEF ChunkOf, Gapless, Frame, Seqs
<1>3. frames'[l] = Tail(q)
  BY <1>1, <1>2 DEF ServerSkips, ServerAccepts, ServerRecvControl, StreamInv, TypeOK, LinkTypes
<1>4. /\ Len(Tail(q)) = Len(q) - 1
      /\ \A i \in 1 .. (Len(q) - 1) : Tail(q)[i] = q[i + 1]
  BY <1>1, HeadTailProperties
<1>5. \A s \in Nat : Received(s) => Received(s)'
  BY ReceivedMonotone DEF StreamInv
<1>6. Received(f.seq)'
  <2>1. CASE ServerAccepts(l)
    <3>1. f.seq \in Nat /\ recvBuf'.next \in Nat
      BY TypeStep DEF StreamInv, TypeOK, StreamTypes, Frame, Seqs, vars
    <3>2. f.seq < recvBuf'.next \/ f.seq \in DOMAIN recvBuf'.pending
      BY <1>1, <2>1, ServerAcceptsProperties DEF StreamInv
    <3>. QED BY <3>1, <3>2 DEF Received
  <2>2. CASE ServerSkips(l)
    <3>1. recvBuf.next \in Nat /\ f.seq \in Nat /\ ~Received(recvBuf.next)
      BY <1>1 DEF StreamInv, TypeOK, StreamTypes, Received, Frame, Seqs
    <3>2. CASE IsDuplicate(recvBuf, f.seq)
      BY <1>5, <3>1, <3>2 DEF IsDuplicate, Received
    <3>3. CASE f.seq > recvBuf.next
      <4>1. recvBuf.next \in 0 .. (n - 1)
        BY <1>1, <3>1, <3>3 DEF Carries
      <4>2. PICK i \in 1 .. Len(q) : q[i].seq = recvBuf.next
        BY <3>1, <4>1 DEF Carries
      <4>3. CASE i = 1
        BY <1>1, <3>1, <3>3, <4>2, <4>3
      <4>4. CASE i # 1
        <5>1. q[1].seq < q[i].seq
          BY <1>1, <4>4 DEF Carries
        <5>. QED BY <1>1, <3>1, <3>3, <4>2, <5>1
      <4>. QED BY <4>3, <4>4
    <3>. QED BY <2>2, <3>2, <3>3 DEF ServerSkips, Accepts, Overflows
  <2>3. CASE ServerRecvControl(l)
    BY <1>2, <2>3 DEF ServerRecvControl
  <2>. QED BY <2>1, <2>2, <2>3
<1>7. \A i \in 1 .. Len(Tail(q)) : Tail(q)[i].seq < n
  BY <1>1, <1>4 DEF Carries
<1>8. \A i, j \in 1 .. Len(Tail(q)) : i < j => Tail(q)[i].seq < Tail(q)[j].seq
  BY <1>1, <1>4 DEF Carries
<1>9. ASSUME NEW s \in 0 .. (n - 1)
      PROVE  Received(s)' \/ \E i \in 1 .. Len(Tail(q)) : Tail(q)[i].seq = s
  <2>1. CASE Received(s)
    BY <1>5, <2>1
  <2>2. ASSUME NEW i \in 1 .. Len(q), q[i].seq = s
        PROVE  Received(s)' \/ \E j \in 1 .. Len(Tail(q)) : Tail(q)[j].seq = s
    <3>1. CASE i = 1
      BY <1>1, <1>6, <2>2, <3>1
    <3>2. CASE i # 1
      <4>1. i - 1 \in 1 .. Len(Tail(q)) /\ Tail(q)[i - 1] = q[i]
        BY <1>1, <1>4, <3>2
      <4>. QED BY <2>2, <4>1
    <3>. QED BY <3>1, <3>2
  <2>. QED BY <2>1, <2>2 DEF Carries
<1>. QED BY <1>3, <1>7, <1>8, <1>9

\* A link that gains a frame above every other, and lacks no other chunk up to
\* it, carries them all.
LEMMA SendKeepsCarries ==
  ASSUME TypeOK, NEW l \in Links, NEW n \in Nat, NEW f \in Frame, Carries(l, n), n <= f.seq,
         \A s \in n .. (f.seq - 1) : Received(s),
         up[l] = "open", Transmit(l, f), UNCHANGED recvBuf, NEW m \in Nat, m = f.seq + 1
  PROVE  /\ \A i \in 1 .. Len(frames'[l]) : frames'[l][i].seq < m
         /\ \A i, j \in 1 .. Len(frames'[l]) : i < j => frames'[l][i].seq < frames'[l][j].seq
         /\ \A s \in 0 .. (m - 1) :
              Received(s)' \/ \E i \in 1 .. Len(frames'[l]) : frames'[l][i].seq = s
<1>. DEFINE q == frames[l]
            r == frames'[l]
<1>1. q \in Seq(Frame) /\ r = Append(q, f) /\ f.seq \in Nat
  <2>1. frames \in [Links -> Seq(Frame)]
    BY DEF TypeOK, LinkTypes
  <2>2. frames' = [frames EXCEPT ![l] = Append(@, f)]
    BY DEF Transmit
  <2>3. f.seq \in Nat
    BY DEF Frame, Seqs
  <2>. HIDE DEF Frame
  <2>. QED BY <2>1, <2>2, <2>3
<1>2. /\ Len(q) \in Nat /\ Len(r) = Len(q) + 1 /\ r[Len(q) + 1] = f
      /\ \A i \in 1 .. Len(q) : r[i] = q[i] /\ q[i].seq \in Nat
  <2>1. \A i \in 1 .. Len(q) : q[i] \in Frame
    BY <1>1, ElementOfSeq
  <2>. QED BY <1>1, <2>1, AppendProperties DEF Frame, Seqs
<1>3. /\ \A i \in 1 .. Len(q) : q[i].seq < n
      /\ \A i, j \in 1 .. Len(q) : i < j => q[i].seq < q[j].seq
      /\ \A s \in 0 .. (n - 1) : Received(s) \/ \E i \in 1 .. Len(q) : q[i].seq = s
  BY DEF Carries
<1>4. \A s \in Nat : Received(s) => Received(s)'
  BY DEF Received
<1>. HIDE DEF q, r
<1>5. \A i \in 1 .. Len(r) : r[i].seq < m
  BY <1>1, <1>2, <1>3
<1>6. \A i, j \in 1 .. Len(r) : i < j => r[i].seq < r[j].seq
  <2>. SUFFICES ASSUME NEW i \in 1 .. Len(r), NEW j \in 1 .. Len(r), i < j
                PROVE  r[i].seq < r[j].seq
    OBVIOUS
  <2>1. CASE j = Len(q) + 1
    BY <1>1, <1>2, <1>3, <2>1
  <2>2. CASE j # Len(q) + 1
    <3>0. Len(q) \in Nat /\ Len(r) = Len(q) + 1
      BY <1>2
    <3>1. i \in 1 .. Len(q) /\ j \in 1 .. Len(q)
      BY <2>2, <3>0
    <3>. QED BY <1>2, <1>3, <3>1
  <2>. QED BY <2>1, <2>2
<1>7. ASSUME NEW s \in 0 .. (m - 1)
      PROVE  Received(s)' \/ \E i \in 1 .. Len(r) : r[i].seq = s
  <2>1. CASE s \in 0 .. (n - 1)
    <3>1. CASE Received(s)
      BY <1>4, <3>1
    <3>2. ASSUME NEW i \in 1 .. Len(q), q[i].seq = s PROVE \E j \in 1 .. Len(r) : r[j].seq = s
      <4>1. i \in 1 .. Len(r) /\ r[i] = q[i]
        BY <1>2
      <4>. QED BY <3>2, <4>1
    <3>. QED BY <2>1, <1>3, <3>1, <3>2
  <2>2. CASE s \in n .. (f.seq - 1)
    BY <1>4, <2>2
  <2>3. CASE s = f.seq
    <3>1. Len(q) + 1 \in 1 .. Len(r)
      BY <1>2
    <3>2. r[Len(q) + 1].seq = s
      BY <1>2, <2>3
    <3>. QED BY <3>1, <3>2
  <2>4. s \in 0 .. (n - 1) \/ s \in n .. (f.seq - 1) \/ s = f.seq
    BY <1>1
  <2>. QED BY <2>1, <2>2, <2>3, <2>4
<1>. QED BY <1>5, <1>6, <1>7 DEF r

\* The first connection of a session has carried nothing yet.
LEMMA CarryInit == Init => CarryInv
<1>. SUFFICES ASSUME Init PROVE CarryInv
  OBVIOUS
<1>. USE DEF Init
<1>1. SendSeq = 0 /\ frames[active] = <<>> /\ Len(<<>>) = 0
  BY ConstantTypes DEF SendSeq
<1>2. Carries(active, SendSeq)
  BY <1>1 DEF Carries
<1>. QED BY <1>2, ConstantTypes DEF CarryInv, NoLink

\* A switch never takes the link it leaves for the one it prepares, and links
\* it has not opened carry nothing.
LEMMA FreshStep ==
  ASSUME TypeOK, CarryInv, Next
  PROVE  /\ active' # standby'
         /\ \A l \in Links : up'[l] = "unused" => frames'[l] = <<>> /\ l \notin {active', standby'}
         /\ phase' = "resumed" => frames'[standby'] = <<>>
<1>0. /\ active # standby /\ active \in Links /\ NoLink \notin Links
      /\ \A l \in Links : up[l] = "unused" => frames[l] = <<>> /\ l \notin {active, standby}
      /\ frames \in [Links -> Seq(Frame)] /\ up \in [Links -> {"unused", "open", "broken"}]
      /\ phase \in {"resumed", "replaying"} => standby \in Links
  BY ConstantTypes DEF CarryInv, TypeOK, SwitchTypes, LinkTypes
<1>1. active' # standby'
  <2>1. CASE UNCHANGED <<active, phase, standby, cursor>>
    BY <1>0, <2>1
  <2>2. ASSUME NEW l \in Links, PrepareStandby(l) PROVE active' # standby'
    BY <1>0, <2>2 DEF PrepareStandby
  <2>3. CASE ResumeFails \/ NoStandby \/ ReplayFails
    BY <1>0, <2>3 DEF ResumeFails, NoStandby, ReplayFails, CountFailure
  <2>4. CASE BeginReplay \/ \E s \in Seqs : ReplayChunk(s)
    BY <1>0, <2>4 DEF BeginReplay, ReplayChunk
  <2>5. CASE SwitchOver
    BY <1>0, <2>5 DEF SwitchOver
  <2>. QED BY <2>1, <2>2, <2>3, <2>4, <2>5, SwitchSteps
<1>2. \A q \in Seq(Frame) : Len(q) <= 0 => q = <<>>
  BY EmptySeq
<1>3. frames' \in [Links -> Seq(Frame)] /\ up' \in [Links -> {"unused", "open", "broken"}]
  BY TypeStep DEF TypeOK, LinkTypes
<1>4. ASSUME NEW l \in Links, up'[l] = "unused"
      PROVE  frames'[l] = <<>> /\ l \notin {active', standby'}
  <2>1. up[l] = "unused" /\ frames[l] = <<>> /\ l \notin {active, standby}
    BY <1>0, <1>4, UpSteps
  <2>2. frames'[l] = <<>>
    BY <1>2, <1>3, <2>1, CarrierSteps DEF ServerSkips, ServerAccepts, ServerRecvControl
  <2>3. l \notin {active', standby'}
    <3>1. CASE UNCHANGED <<active, phase, standby, cursor>>
      BY <2>1, <3>1
    <3>2. ASSUME NEW k \in Links, PrepareStandby(k) PROVE l \notin {active', standby'}
      BY <1>0, <1>4, <2>1, <3>2 DEF PrepareStandby
    <3>3. CASE ResumeFails \/ NoStandby \/ ReplayFails
      BY <1>0, <2>1, <3>3 DEF ResumeFails, NoStandby, ReplayFails, CountFailure
    <3>4. CASE BeginReplay \/ \E s \in Seqs : ReplayChunk(s)
      BY <2>1, <3>4 DEF BeginReplay, ReplayChunk
    <3>5. CASE SwitchOver
      BY <1>0, <2>1, <3>5 DEF SwitchOver
    <3>. QED BY <3>1, <3>2, <3>3, <3>4, <3>5, SwitchSteps
  <2>. QED BY <2>2, <2>3
<1>5. ASSUME phase' = "resumed" PROVE frames'[standby'] = <<>>
  <2>1. CASE UNCHANGED <<active, phase, standby, cursor>>
    <3>1. phase = "resumed" /\ standby \in Links /\ frames[standby] = <<>> /\ standby' = standby
      BY <1>0, <1>5, <2>1 DEF CarryInv
    <3>. QED BY <1>0, <1>2, <1>3, <3>1, CarrierSteps
         DEF ServerSkips, ServerAccepts, ServerRecvControl, ReplayChunk
  <2>2. ASSUME NEW l \in Links, PrepareStandby(l) PROVE frames'[standby'] = <<>>
    BY <1>0, <2>2 DEF PrepareStandby
  <2>3. CASE ResumeFails \/ NoStandby \/ ReplayFails
    BY <1>5, <2>3 DEF ResumeFails, NoStandby, ReplayFails, CountFailure
  <2>4. CASE BeginReplay \/ SwitchOver \/ \E s \in Seqs : ReplayChunk(s)
    BY <1>5, <2>4 DEF BeginReplay, ReplayChunk, SwitchOver
  <2>. QED BY <2>1, <2>2, <2>3, <2>4, SwitchSteps
<1>. QED BY <1>1, <1>4, <1>5

\* The link the client uses keeps carrying what the server lacks.
LEMMA ActiveStep ==
  ASSUME StreamInv, CarryInv, Next, Gapless', up'[active'] = "open"
  PROVE  Carries(active, SendSeq)'
<1>0. /\ TypeOK /\ Gapless /\ active # standby /\ active \in Links /\ up[active] # "unused"
      /\ SendSeq \in Nat /\ SendSeq <= MaxNonce /\ MaxNonce \in Nat
      /\ cursor \in Nat
      /\ phase = "replaying" => standby \in Links
  BY GaplessBefore, ConstantTypes
  DEF StreamInv, CarryInv, TypeOK, SwitchTypes, ClientTypes, SendSeq
<1>1. \A s \in Nat : Received(s) => Received(s)'
  BY ReceivedMonotone DEF StreamInv
<1>2. CASE SwitchOver
  <2>1. /\ active' = standby /\ phase = "replaying" /\ Remaining(sendBuf, cursor) = {}
        /\ UNCHANGED <<sent, recvBuf, frames>> /\ up' = Closed({draining}) /\ standby \in Links
    BY <1>0, <1>2 DEF SwitchOver, ReplayComplete, clientVars, serverVars, streamVars
  <2>2. up[standby] = "open"
    BY <2>1 DEF Closed
  <2>3. Carries(standby, cursor)
    BY <1>0, <2>1, <2>2 DEF CarryInv
  <2>4. \A i \in 1 .. Len(frames[standby]) : frames[standby][i].seq < SendSeq
    BY <2>1 DEF StreamInv, FramesCarrySent, ChunkOf
  <2>5. ASSUME NEW s \in 0 .. (SendSeq - 1)
        PROVE  Received(s) \/ \E i \in 1 .. Len(frames[standby]) : frames[standby][i].seq = s
    <3>1. CASE s < cursor
      BY <1>0, <2>3, <3>1 DEF Carries
    <3>2. CASE s >= cursor
      BY <1>0, <2>1, <3>2, GaplessRetains DEF Remaining
    <3>. QED BY <1>0, <3>1, <3>2
  <2>6. Carries(standby, SendSeq)
    BY <2>3, <2>4, <2>5 DEF Carries
  <2>. QED BY <2>1, <2>6 DEF Carries, SendSeq, Received
<1>3. CASE ~SwitchOver
  <2>1. active' = active
    BY <1>3, SwitchSteps
    DEF PrepareStandby, ResumeFails, NoStandby, BeginReplay, ReplayChunk, ReplayFails
  <2>2. up[active] = "open"
    BY <1>0, <2>1, UpSteps DEF PrepareStandby
  <2>3. Carries(active, SendSeq)
    BY <1>0, <2>2 DEF CarryInv
  <2>4. ASSUME NEW d \in Data, SendPacket(d) PROVE Carries(active, SendSeq)'
    <3>. PICK f \in Frame : f = [seq |-> SendSeq, data |-> d]
      BY <2>4, <1>0 DEF SendPacket, Frame, Seqs, Contents
    <3>1. Transmit(active, f) /\ UNCHANGED recvBuf /\ SendSeq' = f.seq + 1 /\ f.seq = SendSeq
      BY <2>4, <1>0 DEF SendPacket, SendSeq, serverVars, streamVars, TypeOK, ClientTypes, Contents
    <3>2. PICK m \in Nat : m = f.seq + 1
      BY <1>0, <3>1
    <3>3. \A s \in SendSeq .. (f.seq - 1) : Received(s)
      BY <1>0, <3>1
    <3>4. /\ \A i \in 1 .. Len(frames'[active]) : frames'[active][i].seq < m
          /\ \A i, j \in 1 .. Len(frames'[active]) :
               i < j => frames'[active][i].seq < frames'[active][j].seq
          /\ \A s \in 0 .. (m - 1) :
               Received(s)' \/ \E i \in 1 .. Len(frames'[active]) : frames'[active][i].seq = s
      <4>. PICK l \in Links, n \in Nat : l = active /\ n = SendSeq
        BY <1>0
      <4>. QED BY <1>0, <2>2, <2>3, <3>1, <3>2, <3>3, SendKeepsCarries
    <3>. QED BY <2>1, <3>1, <3>2, <3>4 DEF Carries
  <2>5. ~SendControl
    <3>. SUFFICES ASSUME SendControl PROVE FALSE
      OBVIOUS
    <3>1. sent' = Append(sent, Control) /\ SendSeq' = SendSeq + 1
      BY <1>0 DEF SendControl, SendSeq, TypeOK, ClientTypes, Contents
    <3>2. sent'[SendSeq'] = Control /\ SendSeq' \in 1 .. SendSeq'
      BY <1>0, <3>1 DEF SendSeq, TypeOK, ClientTypes, Contents
    <3>. QED BY <3>2 DEF Gapless
  <2>6. CASE ~\E d \in Data : SendPacket(d)
    <3>1. SendSeq' = SendSeq
      BY <2>5, <2>6, SenderSteps DEF clientVars, ClientRecvAck, BeginReplay, SendSeq
    <3>2. CASE frames'[active] = frames[active]
      BY <1>0, <1>1, <2>1, <2>3, <3>1, <3>2 DEF Carries
    <3>3. CASE ServerSkips(active) \/ ServerAccepts(active) \/ ServerRecvControl(active)
      <4>. PICK l \in Links, n \in Nat : l = active /\ n = SendSeq
        BY <1>0
      <4>. QED BY ZenonT(60), <1>0, <2>1, <2>3, <3>1, <3>3, ReadKeepsCarries DEF Carries
    <3>. QED BY <1>0, <2>1, <2>5, <2>6, <3>2, <3>3, CarrierSteps
  <2>. QED BY <2>4, <2>6
<1>. QED BY <1>2, <1>3

\* The link the client prepares carries what the replay has passed.
LEMMA StandbyStep ==
  ASSUME StreamInv, CarryInv, Next, Gapless', phase' = "replaying", up'[standby'] = "open"
  PROVE  Carries(standby, cursor)'
<1>0. /\ TypeOK /\ Gapless /\ active # standby
      /\ SendSeq \in Nat /\ SendSeq <= MaxNonce /\ MaxNonce \in Nat /\ cursor \in Nat
      /\ phase \in {"resumed", "replaying"} => standby \in Links
  BY GaplessBefore, ConstantTypes
  DEF StreamInv, CarryInv, TypeOK, SwitchTypes, ClientTypes, SendSeq
<1>1. \A s \in Nat : Received(s) => Received(s)'
  BY ReceivedMonotone DEF StreamInv
<1>2. CASE BeginReplay
  <2>1. standby' = standby /\ cursor' = 0 /\ frames' = frames /\ frames[standby] = <<>>
    BY <1>2 DEF BeginReplay, linkVars, CarryInv
  <2>2. Len(frames'[standby']) = 0
    BY <2>1
  <2>. QED BY <2>1, <2>2 DEF Carries
<1>3. ASSUME NEW s \in Seqs, ReplayChunk(s) PROVE Carries(standby, cursor)'
  <2>1. /\ phase = "replaying" /\ standby' = standby /\ up' = up /\ UNCHANGED recvBuf
        /\ IsNextChunk(sendBuf, cursor, s) /\ cursor' = s + 1 /\ s \in Nat
    BY <1>3 DEF ReplayChunk, serverVars, streamVars, Seqs
  <2>2. Carries(standby, cursor) /\ up[standby] = "open" /\ standby \in Links
    BY <1>0, <2>1 DEF CarryInv
  <2>3. /\ s \in DOMAIN sendBuf.chunks /\ cursor <= s /\ s < SendSeq
        /\ \A t \in DOMAIN sendBuf.chunks : t >= cursor => s <= t
    BY <2>1 DEF IsNextChunk, Remaining, StreamInv, BuffersHoldSent
  <2>. PICK f \in Frame : f = [seq |-> s, data |-> sendBuf.chunks[s]]
    BY <1>0, <2>3 DEF TypeOK, ClientTypes, IsChunks, Frame, Contents
  <2>4. Transmit(standby, f) /\ f.seq = s
    BY <1>3 DEF ReplayChunk
  <2>5. \A t \in cursor .. (f.seq - 1) : Received(t)
    BY <1>0, <2>1, <2>3, <2>4, GaplessRetains
  <2>6. PICK l \in Links, n \in Nat, m \in Nat : l = standby /\ n = cursor /\ m = f.seq + 1
    BY <1>0, <2>1, <2>2, <2>4
  <2>7. /\ \A i \in 1 .. Len(frames'[l]) : frames'[l][i].seq < m
        /\ \A i, j \in 1 .. Len(frames'[l]) : i < j => frames'[l][i].seq < frames'[l][j].seq
        /\ \A t \in 0 .. (m - 1) :
             Received(t)' \/ \E i \in 1 .. Len(frames'[l]) : frames'[l][i].seq = t
    BY SMTT(30), <1>0, <2>1, <2>2, <2>3, <2>4, <2>5, <2>6, SendKeepsCarries
  <2>. QED BY <2>1, <2>4, <2>6, <2>7 DEF Carries
<1>4. CASE ~BeginReplay /\ ~\E s \in Seqs : ReplayChunk(s)
  <2>1. /\ phase = "replaying" /\ standby' = standby /\ cursor' = cursor
    BY <1>4, SwitchSteps
    DEF PrepareStandby, ResumeFails, NoStandby, ReplayFails, CountFailure, SwitchOver
  <2>2. standby \in Links /\ up[standby] = "open"
    BY <1>0, <2>1, UpSteps DEF PrepareStandby
  <2>3. PICK l \in Links, n \in Nat : l = standby /\ n = cursor
    BY <1>0, <2>2
  <2>4. Carries(l, n)
    BY <1>0, <2>1, <2>2, <2>3 DEF CarryInv
  <2>5. CASE frames'[l] = frames[l]
    BY <1>1, <2>1, <2>3, <2>4, <2>5 DEF Carries
  <2>6. CASE ServerSkips(l) \/ ServerAccepts(l) \/ ServerRecvControl(l)
    <3>1. /\ \A i \in 1 .. Len(frames'[l]) : frames'[l][i].seq < n
          /\ \A i, j \in 1 .. Len(frames'[l]) : i < j => frames'[l][i].seq < frames'[l][j].seq
          /\ \A s \in 0 .. (n - 1) :
               Received(s)' \/ \E i \in 1 .. Len(frames'[l]) : frames'[l][i].seq = s
      BY <1>0, <2>1, <2>3, <2>4, <2>6, ReadKeepsCarries
    <3>. QED BY <2>1, <2>3, <3>1 DEF Carries
  <2>. QED BY <1>0, <1>4, <2>1, <2>3, <2>5, <2>6, CarrierSteps
<1>. QED BY <1>2, <1>3, <1>4

\* Every step keeps what the links carry.
LEMMA CarryStep == StreamInv /\ CarryInv /\ [Next]_vars => CarryInv'
<1>. SUFFICES ASSUME StreamInv, CarryInv, [Next]_vars PROVE CarryInv'
  OBVIOUS
<1>1. CASE Next
  BY <1>1, FreshStep, ActiveStep, StandbyStep DEF CarryInv, StreamInv
<1>2. CASE UNCHANGED vars
  BY <1>2
  DEF vars, clientVars, switchVars, linkVars, serverVars, streamVars, CarryInv, Carries, Gapless,
      SendSeq, Received
<1>. QED BY <1>1, <1>2

\* Of replay_onto and the switch, for any number of connections: as long as no
\* control chunk took a sequence and no packet was rejected, every chunk the
\* send buffer retains is held by the server or on its way over the active
\* connection, whatever older connections still deliver and whatever the
\* receive buffer has no room for.
THEOREM NothingStrandedAlways == Spec => []NothingStranded
<1>1. StreamInv /\ CarryInv => NothingStranded
  <2>. SUFFICES ASSUME StreamInv, CarryInv, Gapless, up[active] = "open",
                       NEW s \in DOMAIN sendBuf.chunks
                PROVE  Received(s) \/ \E i \in 1 .. Len(frames[active]) : frames[active][i].seq = s
    BY DEF NothingStranded
  <2>1. s \in 0 .. (SendSeq - 1)
    BY DEF StreamInv, BuffersHoldSent, TypeOK, ClientTypes, IsChunks, Seqs, SendSeq
  <2>. QED BY <2>1 DEF CarryInv, Carries
<1>. QED BY <1>1, CarryInit, CarryStep, StreamInvariant, PTL DEF Spec

-----------------------------------------------------------------------------
(* Acknowledgements.                                                       *)

\* Whatever the readers hold when they build an acknowledgement, and whatever
\* is lost on the way, the client's decoder accepts it.
THEOREM AcksDecodableAlways == Spec => []AcksDecodable
<1>1. Init => AcksDecodable
  BY DEF Init, AcksDecodable
<1>2. TypeOK /\ AcksDecodable /\ [Next]_vars => AcksDecodable'
  <2>. SUFFICES ASSUME TypeOK, AcksDecodable, Next PROVE AcksDecodable'
    BY DEF vars, linkVars, AcksDecodable
  <2>. SUFFICES ASSUME NEW k \in Links, NEW i \in 1 .. Len(acks'[k])
                PROVE  Decodable(acks'[k][i])
    BY DEF AcksDecodable
  <2>1. Decodable(BuildAck(recvBuf))
    BY BuildAckDecodable DEF TypeOK, StreamTypes
  <2>. QED BY <2>1, AckSteps DEF AcksDecodable
<1>. QED BY <1>1, <1>2, TypeCorrect, PTL DEF Spec

-----------------------------------------------------------------------------
(* The byte counters.                                                      *)

\* A new session counts no bytes.
LEMMA CountersInit == Init => BuffersBounded
BY EmptyCountersExact DEF Init, BuffersBounded, SendCounterExact, RecvCounterExact

\* Sends, acknowledgements, resumptions and acceptances keep both counters.
LEMMA CountersStep == TypeOK /\ BuffersBounded /\ [Next]_vars => BuffersBounded'
<1>. SUFFICES ASSUME TypeOK, BuffersBounded, [Next]_vars PROVE BuffersBounded'
  OBVIOUS
<1>0. /\ IsChunks(sendBuf.chunks) /\ SendCounterExact(sendBuf)
      /\ recvBuf.next \in 0 .. MaxNonce /\ IsChunks(recvBuf.pending)
      /\ RecvCounterExact(recvBuf)
  BY DEF TypeOK, ClientTypes, StreamTypes, BuffersBounded, SendCounterExact, RecvCounterExact
<1>1. SendCounterExact(sendBuf')
  <2>1. CASE sendBuf' = sendBuf
    BY <1>0, <2>1
  <2>2. ASSUME NEW d \in Data, SendPacket(d) PROVE SendCounterExact(sendBuf')
    <3>1. SendSeq \in Seqs /\ sendBuf' = Push(sendBuf, SendSeq, d)
      BY <2>2, ConstantTypes DEF TypeOK, ClientTypes, SendPacket, SendSeq, Seqs
    <3>. QED BY <1>0, <3>1, PushKeepsCounter
  <2>3. ASSUME ClientRecvAck PROVE SendCounterExact(sendBuf')
    BY <1>0, <2>3, AckKeepsCounter DEF ClientRecvAck
  <2>4. ASSUME BeginReplay PROVE SendCounterExact(sendBuf')
    BY <1>0, <2>4, AckKeepsCounter DEF BeginReplay
  <2>. QED BY <2>1, <2>2, <2>3, <2>4, SenderSteps DEF SendControl, clientVars, vars
<1>2. RecvCounterExact(recvBuf')
  <2>1. CASE recvBuf' = recvBuf
    BY <1>0, <2>1
  <2>2. ASSUME NEW l \in Links, ServerAccepts(l) PROVE RecvCounterExact(recvBuf')
    <3>. DEFINE f == Head(frames[l])
    <3>1. /\ f.data \in Data /\ Accepts(recvBuf, f.seq, f.data) /\ frames[l] # <<>>
          /\ recvBuf' = Accept(recvBuf, f.seq, f.data)
      BY <2>2 DEF ServerAccepts
    <3>2. f \in Frame
      BY <3>1, HeadTailProperties DEF TypeOK, LinkTypes
    <3>. QED BY <1>0, <3>1, <3>2, AcceptKeepsCounter DEF Frame
  <2>. QED BY <2>1, <2>2, ReceiverSteps DEF serverVars, streamVars, vars
<1>. QED BY <1>1, <1>2 DEF BuffersBounded, SendCounterExact, RecvCounterExact

\* Of SendBuffer::bytes and ReceiveBuffer::bytes: however pushes, stale and
\* reordered acknowledgements, replays and drains follow each other, both are
\* exact and within their bounds, except for one oversized chunk.
THEOREM BuffersBoundedAlways == Spec => []BuffersBounded
BY CountersInit, CountersStep, TypeCorrect, PTL DEF Spec

-----------------------------------------------------------------------------
(* Forwarding.                                                             *)

\* Only a reader touches the packets released and those it forwards.
LEMMA ForwardSteps ==
  ASSUME Next
  PROVE  \/ UNCHANGED <<released, ready, forwarded>>
         \/ \E l \in Links : ServerAccepts(l) \/ ServerForwards(l)
BY DEF Next, SendPacket, SendControl, ClientRecvAck, ClientRecvOther, PrepareStandby, ResumeFails,
       NoStandby, BeginReplay, ReplayChunk, SwitchOver, ReplayFails, Break, ServerAttach,
       ServerResumeFails, ServerRecv, ServerSkips, ServerCounts, ServerAcks,
       ServerRecvControl, ServerReadError, EndReader, serverVars, streamVars

\* A reader that has something to forward is forwarding, and a link that was
\* never opened has no reader.
ReaderForwards ==
  \A l \in Links : /\ ready[l] # <<>> => serving[l] = "forwarding"
                   /\ up[l] = "unused" => serving[l] = "none"

LEMMA ReaderStep ==
  ASSUME TypeOK, ReaderForwards, Next
  PROVE  ReaderForwards'
<1>. USE DEF TypeOK, ServerTypes, LinkTypes, StreamTypes, ReaderForwards
<1>1. \A l \in Links : up'[l] = "unused" => up[l] = "unused"
  <2>. SUFFICES ASSUME NEW l \in Links PROVE up'[l] = "unused" => up[l] = "unused"
    OBVIOUS
  <2>1. \/ up' = up
        \/ \E L : up' = Closed(L)
        \/ \E k \in Links : PrepareStandby(k) \/ Break(k)
    <3>1. CASE ClientRecvAck \/ ClientRecvOther \/ NoStandby \/ SwitchOver \/ ReplayFails
      BY <3>1 DEF ClientRecvAck, ClientRecvOther, DrainOld, NoStandby, SwitchOver, ReplayFails
    <3>2. ASSUME NEW k \in Links, ServerAcks(k) \/ ServerRecvControl(k) \/ ServerReadError(k)
          PROVE  up' = up \/ \E L : up' = Closed(L)
      BY <3>2 DEF ServerAcks, ServerRecvControl, ServerReadError, EndReader, linkVars
    <3>3. CASE up' = up
      BY <3>3
    <3>4. CASE \E k \in Links : PrepareStandby(k) \/ Break(k)
      BY <3>4
    <3>. QED
      BY <3>1, <3>2, <3>3, <3>4
      DEF Next, SendPacket, SendControl, ResumeFails, BeginReplay, ReplayChunk, ServerAttach,
          ServerResumeFails, ServerRecv, ServerSkips, ServerAccepts, ServerForwards,
          ServerCounts, linkVars
  <2>2. ASSUME NEW L, up' = Closed(L) PROVE up'[l] = "unused" => up[l] = "unused"
    BY <2>2 DEF Closed
  <2>3. ASSUME NEW k \in Links, PrepareStandby(k) \/ Break(k)
        PROVE  up'[l] = "unused" => up[l] = "unused"
    BY <2>3 DEF PrepareStandby, Break
  <2>. QED BY <2>1, <2>2, <2>3
<1>2. CASE UNCHANGED <<serving, ready>>
  BY <1>1, <1>2
<1>3. ASSUME NEW l \in Links, PrepareStandby(l) PROVE ReaderForwards'
  <2>1. /\ up[l] = "unused" /\ up'[l] = "open" /\ ready' = ready
        /\ \A k \in Links \ {l} : serving'[k] = serving[k]
    BY <1>3 DEF PrepareStandby, streamVars
  <2>. QED BY <1>1, <2>1
<1>4. ASSUME NEW l \in Links, UNCHANGED ready, serving[l] # "none",
             serving[l] # "forwarding" \/ ready[l] = <<>>,
             \A k \in Links \ {l} : serving'[k] = serving[k]
      PROVE  ReaderForwards'
  BY <1>1, <1>4
<1>5. ASSUME NEW l \in Links, ServerAttach(l) \/ ServerResumeFails(l) PROVE ReaderForwards'
  BY <1>4, <1>5 DEF ServerAttach, ServerResumeFails, streamVars
<1>6. ASSUME NEW l \in Links, ServerAccepts(l) PROVE ReaderForwards'
  <2>1. /\ serving[l] = "reading" /\ serving'[l] = "forwarding"
        /\ \A k \in Links \ {l} : serving'[k] = serving[k] /\ ready'[k] = ready[k]
    BY <1>6 DEF ServerAccepts
  <2>. QED BY <1>1, <2>1
<1>7. ASSUME NEW l \in Links, ServerForwards(l) PROVE ReaderForwards'
  <2>1. /\ ready[l] # <<>> /\ serving' = serving
        /\ \A k \in Links \ {l} : ready'[k] = ready[k]
    BY <1>7 DEF ServerForwards
  <2>. QED BY <1>1, <2>1
<1>8. ASSUME NEW l \in Links,
             ServerCounts(l) \/ ServerAcks(l) \/ ServerRecvControl(l) \/ ServerReadError(l)
      PROVE  ReaderForwards'
  <2>1. /\ UNCHANGED ready /\ serving[l] # "none"
        /\ serving[l] # "forwarding" \/ ready[l] = <<>>
    BY <1>8 DEF ServerCounts, ServerAcks, ServerRecvControl, ServerReadError, streamVars
  <2>2. \A k \in Links \ {l} : serving'[k] = serving[k]
    BY <1>8 DEF ServerCounts, ServerAcks, ServerRecvControl, ServerReadError, EndReader
  <2>. QED BY <1>4, <2>1, <2>2
<1>9. \/ UNCHANGED <<serving, ready>>
      \/ \E l \in Links :
           \/ PrepareStandby(l) \/ ServerAttach(l) \/ ServerResumeFails(l) \/ ServerAccepts(l)
           \/ ServerForwards(l) \/ ServerCounts(l) \/ ServerAcks(l) \/ ServerRecvControl(l)
           \/ ServerReadError(l)
  BY DEF Next, SendPacket, SendControl, ClientRecvAck, ClientRecvOther, ResumeFails, NoStandby,
         BeginReplay, ReplayChunk, SwitchOver, ReplayFails, Break, ServerRecv, ServerSkips,
         serverVars, streamVars
<1>. QED BY <1>2, <1>3, <1>5, <1>6, <1>7, <1>8, <1>9

\* A fresh session has forwarded nothing and holds nothing to forward.
LEMMA ForwardInit == Init => ForwardInv
<1>. SUFFICES ASSUME Init PROVE ForwardInv
  OBVIOUS
<1>1. Range(<<>>) = {} /\ IsInjective(<<>>)
  BY DEF Range, IsInjective
<1>2. ForwardedOnce
  BY <1>1 DEF Init, ForwardedOnce
<1>. QED BY <1>1, <1>2, ConstantTypes DEF Init, ForwardInv

\* A packet drained goes to the one reader that drained it, which had none left;
\* a packet forwarded leaves the hands of that reader.
LEMMA ForwardStep == TypeOK /\ ForwardInv /\ [Next]_vars => ForwardInv'
<1>. SUFFICES ASSUME TypeOK, ForwardInv, Next PROVE ForwardInv'
  BY DEF vars, linkVars, serverVars, streamVars, ForwardInv, ForwardedOnce
<1>0. /\ ready \in [Links -> Seq(Nat)] /\ forwarded \in Seq(Nat) /\ Len(released) \in Nat
      /\ TypeOK'
  BY TypeStep DEF TypeOK, StreamTypes
<1>1. /\ ReaderForwards /\ ForwardedOnce /\ \A l \in Links : IsInjective(ready[l])
  BY DEF ForwardInv, ReaderForwards
<1>2. ReaderForwards'
  BY <1>1, ReaderStep
<1>3. ForwardedOnce' /\ \A l \in Links : IsInjective(ready'[l])
  <2>. DEFINE Out == Range(forwarded)
              W(k) == Range(ready[k])
  <2>0. /\ IsInjective(forwarded)
        /\ \A x : x \in 1 .. Len(released) <=> x \in Out \/ \E k \in Links : x \in W(k)
        /\ \A k \in Links : Out \cap W(k) = {}
        /\ \A k, m \in Links : k # m => W(k) \cap W(m) = {}
    BY <1>1 DEF ForwardedOnce
  <2>1. CASE UNCHANGED <<released, ready, forwarded>>
    BY <1>1, <2>1 DEF ForwardedOnce
  <2>2. ASSUME NEW l \in Links, ServerAccepts(l)
        PROVE  ForwardedOnce' /\ \A k \in Links : IsInjective(ready'[k])
    <3>. DEFINE n == Len(released)
    <3>1. PICK r \in Seq(Data) :
            /\ released' = released \o r
            /\ ready' = [ready EXCEPT ![l] = [i \in 1 .. Len(r) |-> n + i]]
      <4>1. PICK r : /\ released' = released \o r
                     /\ ready' = [ready EXCEPT ![l] = [i \in 1 .. Len(r) |-> n + i]]
                     /\ r = Ready(recvBuf, Head(frames[l]).seq, Head(frames[l]).data)
        BY <2>2 DEF ServerAccepts
      <4>2. /\ frames[l] # <<>> /\ Head(frames[l]).data \in Data
            /\ Accepts(recvBuf, Head(frames[l]).seq, Head(frames[l]).data)
        BY <2>2 DEF ServerAccepts
      <4>3. Head(frames[l]).seq \in Seqs
        <5>1. frames[l] \in Seq(Frame)
          BY DEF TypeOK, LinkTypes
        <5>2. Head(frames[l]) \in Frame
          BY <4>2, <5>1, HeadTailProperties
        <5>. QED BY <5>2 DEF Frame
      <4>4. r \in Seq(Data)
        BY <4>1, <4>2, <4>3, AcceptTypes DEF TypeOK, StreamTypes
      <4>. QED BY <4>1, <4>4
    <3>2. forwarded' = forwarded /\ ready[l] = <<>>
      BY <1>1, <2>2 DEF ServerAccepts, ReaderForwards
    <3>3. W(l) = {}
      BY <3>2 DEF Range
    <3>4. Len(r) \in Nat /\ n \in Nat /\ Len(released') = n + Len(r)
      BY <1>0, <3>1, ConcatProperties DEF TypeOK, StreamTypes
    <3>5. /\ IsInjective(ready'[l]) /\ Range(ready'[l]) = (n + 1) .. (n + Len(r))
          /\ \A k \in Links \ {l} : ready'[k] = ready[k]
      <4>1. ready'[l] = [i \in 1 .. Len(r) |-> n + i]
        BY <1>0, <3>1
      <4>2. IsInjective(ready'[l])
        BY <3>4, <4>1 DEF IsInjective
      <4>3. \A x \in (n + 1) .. (n + Len(r)) : x - n \in 1 .. Len(r) /\ n + (x - n) = x
        BY <3>4
      <4>4. Range(ready'[l]) = (n + 1) .. (n + Len(r))
        <5>1. ASSUME NEW i \in 1 .. Len(r) PROVE n + i \in (n + 1) .. (n + Len(r))
          BY <3>4
        <5>2. Range(ready'[l]) = {n + i : i \in 1 .. Len(r)}
          BY <4>1 DEF Range
        <5>3. ASSUME NEW x \in (n + 1) .. (n + Len(r)) PROVE x \in {n + i : i \in 1 .. Len(r)}
          BY <4>3, <5>3
        <5>. HIDE DEF n
        <5>. QED BY <5>1, <5>2, <5>3
      <4>5. \A k \in Links \ {l} : ready'[k] = ready[k]
        BY <1>0, <3>1
      <4>. QED BY <4>2, <4>4, <4>5
    <3>6. \A x : x \in 1 .. Len(released') <=> x \in 1 .. n \/ x \in (n + 1) .. (n + Len(r))
      BY <3>4
    <3>7. \A x \in 1 .. n : x \notin (n + 1) .. (n + Len(r))
      BY <3>4
    <3>8. \A k \in Links : IsInjective(ready'[k])
      BY <1>1, <3>5
    <3>. DEFINE V(k) == Range(ready'[k])
    <3>9. /\ \A k \in Links \ {l} : V(k) = W(k)
          /\ V(l) = (n + 1) .. (n + Len(r))
      BY <3>5
    <3>. HIDE DEF W, V, Out, n
    <3>10. \A x : x \in 1 .. Len(released') <=> x \in Out \/ \E k \in Links : x \in V(k)
      BY <2>0, <3>3, <3>6, <3>9 DEF n
    <3>11. \A k \in Links : Out \cap V(k) = {}
      BY <2>0, <3>7, <3>9 DEF n
    <3>12. \A k, m \in Links : k # m => V(k) \cap V(m) = {}
      BY <2>0, <3>7, <3>9 DEF n
    <3>13. Out \cup UNION {V(k) : k \in Links} = 1 .. Len(released')
      BY <3>10
    <3>14. Range(forwarded') = Out /\ IsInjective(forwarded')
      BY <2>0, <3>2 DEF Out
    <3>15. ForwardedOnce'
      BY <3>11, <3>12, <3>13, <3>14, Zenon DEF ForwardedOnce, V
    <3>. QED BY <3>8, <3>15
  <2>3. ASSUME NEW l \in Links, ServerForwards(l)
        PROVE  ForwardedOnce' /\ \A k \in Links : IsInjective(ready'[k])
    <3>. DEFINE p == Head(ready[l])
                V(k) == Range(ready'[k])
    <3>1. /\ ready[l] # <<>> /\ ready[l] \in Seq(Nat) /\ IsInjective(ready[l])
          /\ forwarded' = Append(forwarded, p) /\ released' = released
          /\ ready' = [ready EXCEPT ![l] = Tail(@)]
      BY <1>0, <1>1, <2>3 DEF ServerForwards
    <3>2. p \in Nat /\ p \in W(l) /\ Range(Tail(ready[l])) = W(l) \ {p} /\ IsInjective(Tail(ready[l]))
      BY <3>1, TailDistinct, HeadTailProperties
    <3>3. /\ ready'[l] = Tail(ready[l])
          /\ \A k \in Links \ {l} : ready'[k] = ready[k]
      BY <1>0, <3>1
    <3>4. IsInjective(forwarded') /\ Range(forwarded') = Out \cup {p}
      BY <1>0, <2>0, <3>1, <3>2, AppendDistinct
    <3>5. V(l) = W(l) \ {p} /\ \A k \in Links \ {l} : V(k) = W(k)
      BY <3>2, <3>3
    <3>6. \A k \in Links : IsInjective(ready'[k])
      BY <1>1, <3>2, <3>3
    <3>. HIDE DEF p, V, W, Out
    <3>7. \A x : x \in 1 .. Len(released) <=> x \in Out \cup {p} \/ \E k \in Links : x \in V(k)
      BY <2>0, <3>2, <3>5
    <3>8. \A k \in Links : (Out \cup {p}) \cap V(k) = {}
      BY <2>0, <3>2, <3>5
    <3>9. \A k, m \in Links : k # m => V(k) \cap V(m) = {}
      BY <2>0, <3>2, <3>5
    <3>10. (Out \cup {p}) \cup UNION {V(k) : k \in Links} = 1 .. Len(released')
      BY <3>1, <3>7
    <3>11. ForwardedOnce'
      BY <3>4, <3>8, <3>9, <3>10, Zenon DEF ForwardedOnce, V
    <3>. QED BY <3>6, <3>11
  <2>. QED BY <2>1, <2>2, <2>3, ForwardSteps
<1>. QED BY <1>2, <1>3 DEF ForwardInv, ReaderForwards

\* Of the reader loop: the lock is dropped between draining and forwarding, yet
\* no packet is forwarded twice, by one reader or by two, and none is dropped.
THEOREM ForwardedOnceAlways == Spec => []ForwardedOnce
<1>1. ForwardInv => ForwardedOnce
  BY DEF ForwardInv
<1>. QED BY <1>1, ForwardInit, ForwardStep, TypeCorrect, PTL DEF Spec

-----------------------------------------------------------------------------
(* The refinement.                                                         *)

\* The initial state maps to the initial state of ReliablePipe: nothing has
\* entered the tunnel and nothing has come out.
LEMMA PipeInit == Init => Pipe!Init
BY DEF Init, Pipe!Init

\* A packet entering is a Put, an acceptance that drains is a Deliver, and
\* every other step stutters.
LEMMA PipeStep ==
  ASSUME StreamInv, StreamInv', [Next]_vars
  PROVE  [Pipe!Next]_(Pipe!pipeVars)
<1>1. CASE UNCHANGED <<accepted, released>>
  BY <1>1 DEF Pipe!pipeVars
<1>2. ASSUME NEW d \in Data, SendPacket(d) PROVE Pipe!Next
  <2>1. accepted' = Append(accepted, d) /\ released' = released
    BY <1>2 DEF SendPacket, serverVars, streamVars
  <2>. QED BY <2>1 DEF Pipe!Next, Pipe!Put
<1>3. ASSUME NEW l \in Links, ServerAccepts(l) PROVE [Pipe!Next]_(Pipe!pipeVars)
  <2>1. accepted' = accepted /\ accepted \in Seq(Data) /\ released' \in Seq(Data)
        /\ released \in Seq(Data)
    BY <1>3 DEF ServerAccepts, clientVars, StreamInv, TypeOK, ClientTypes, StreamTypes
  <2>2. /\ Len(released') <= Len(accepted)
        /\ \A i \in 1 .. Len(released') : released'[i] = accepted[i]
    <3>1. ReleasedInOrder'
      BY StreamInOrder, PTL
    <3>. QED BY <2>1, <3>1 DEF ReleasedInOrder
  <2>3. released' = SubSeq(accepted, 1, Len(released'))
    BY <2>1, <2>2
  <2>4. \E r \in Seq(Data) : released' = released \o r
    BY <1>3, ServerAcceptsProperties DEF StreamInv
  <2>5. PICK r \in Seq(Data) : released' = released \o r
    BY <2>4
  <2>6. CASE r = <<>>
    BY <2>1, <2>5, <2>6 DEF Pipe!pipeVars
  <2>7. CASE r # <<>>
    <3>1. Len(released') > Len(released) /\ Len(released') \in 1 .. Len(accepted)
      BY <2>1, <2>2, <2>5, <2>7, ConcatProperties, EmptySeq
    <3>. QED BY <2>1, <2>3, <3>1 DEF Pipe!Next, Pipe!Deliver
  <2>. QED BY <2>6, <2>7
<1>4. \/ UNCHANGED <<accepted, released>>
      \/ \E d \in Data : SendPacket(d)
      \/ \E l \in Links : ServerAccepts(l)
  <2>1. CASE UNCHANGED vars
    BY <2>1 DEF vars, clientVars, serverVars, streamVars
  <2>2. CASE Next
    BY <2>2, SenderSteps, ReceiverSteps
    DEF SendControl, ClientRecvAck, BeginReplay, clientVars
  <2>. QED BY <2>1, <2>2
<1>. QED BY <1>1, <1>2, <1>3, <1>4

\* Uplink implements ReliablePipe: what continuity.rs promises of the stream
\* holds whatever the switches do.
THEOREM PipeImplemented == Spec => ImplementsPipe
BY PipeInit, PipeStep, StreamInvariant, PTL DEF Spec, ImplementsPipe, Pipe!Spec
=============================================================================
