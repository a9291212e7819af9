---------------------------- MODULE DownlinkProofs ----------------------------
(***************************************************************************)
(* Proofs about Downlink, for every set of packets and sizes, every bound  *)
(* and every number of links: the types of its variables, the inductive    *)
(* invariant ReplyInv, the retention of the replies whose writer was not   *)
(* aborted on the lock, and the refinement of ReliablePipe.                *)
(***************************************************************************)
EXTENDS Downlink, BufferProofs

-----------------------------------------------------------------------------
(* Links and constants.                                                    *)

\* The constants are numbers where they should be.
LEMMA ConstantTypes ==
  /\ MaxNonce \in Nat /\ MaxLinks \in Nat \ {0}
  /\ Control \notin Data /\ 1 \in Links /\ NoLink \notin Links
BY BufferAssumption, DownlinkAssumption DEF Links, NoLink

\* Writing leaves the frames of the other links alone and appends at most f.
LEMMA SendProperties ==
  ASSUME down \in [Links -> Seq(Frame)], NEW l \in Links, NEW f \in Frame, Send(l, f)
  PROVE  /\ down' \in [Links -> Seq(Frame)]
         /\ \A k \in Links : down'[k] = down[k] \/ down'[k] = Append(down[k], f)
BY DEF Send

\* Closing links keeps their states well-formed.
LEMMA ClosedProperties ==
  ASSUME LinkTypes, NEW L
  PROVE  Closed(L) \in [Links -> {"unused", "open", "broken"}]
BY DEF LinkTypes, Closed

\* Aborting a writer task ends it, and loses at most the head of the queue and
\* the chunk the task was about to retain.
LEMMA AbortProperties ==
  ASSUME BufferTypes, TaskTypes, NEW l \in Links, Abort(l)
  PROVE  /\ task' \in [Links -> {"none", "waiting", "idle", "parked", "writing", "ended"}]
         /\ queue' \in Seq(Data)
         /\ dropped \subseteq dropped' /\ dropped' \subseteq Seqs
         /\ \A k \in Links : \/ task'[k] = task[k]
                            \/ /\ task[k] # "none" /\ task'[k] = "ended"
                               /\ task[k] = "parked" /\ hand[k] \in Seqs => hand[k] \in dropped'
<1>1. CASE queue' = queue
  BY <1>1 DEF BufferTypes, TaskTypes, Abort
<1>2. CASE queue' = Tail(queue) /\ queue # <<>>
  BY <1>2, HeadTailProperties DEF BufferTypes, TaskTypes, Abort
<1>. QED BY <1>1, <1>2 DEF Abort

-----------------------------------------------------------------------------
(* Types.                                                                  *)

\* A session that has just been accepted on its first connection is well-formed.
LEMMA TypeInit == Init => TypeOK
<1>. SUFFICES ASSUME Init PROVE TypeOK
  OBVIOUS
<1>. USE ConstantTypes DEF Init
<1>1. IsChunks(NoChunks)
  BY DEF IsChunks, NoChunks
<1>2. BufferTypes
  <2>1. raced \in BOOLEAN
    BY Zenon
  <2>2. sent \in Seq(Contents) /\ queue \in Seq(Data) /\ accepted \in Seq(Data) /\ SendSeq = 0
    BY DEF SendSeq
  <2>. QED BY <1>1, <2>1, <2>2 DEF BufferTypes, EmptySendBuffer
<1>3. TaskTypes
  BY DEF TaskTypes
<1>4. LinkTypes
  BY DEF LinkTypes
<1>5. ClientTypes
  BY <1>1 DEF ClientTypes, EmptyReceiveBuffer, NoChunks
<1>6. HandTypes
  BY DEF HandTypes
<1>. QED BY <1>2, <1>3, <1>4, <1>5, <1>6 DEF TypeOK

\* An acknowledgement built from the receive buffer is well-formed.
LEMMA BuildAckTypes ==
  ASSUME NEW b, b.next \in 0 .. MaxNonce, IsChunks(b.pending)
  PROVE  BuildAck(b) \in Ack
<1>1. BuildAck(b) = [next |-> b.next, ranges |-> BuildAck(b).ranges]
  BY DEF BuildAck
<1>2. BuildAck(b).ranges \subseteq SackRange
  BY BuildAckProperties DEF SackRange
<1>. QED BY <1>1, <1>2 DEF Ack

\* Only a writer that takes a packet or a control chunk gives out a sequence.
LEMMA SenderSteps ==
  ASSUME Next
  PROVE  \/ UNCHANGED <<accepted, sent>>
         \/ \E l \in Links : TakePacket(l) \/ TakeControl(l)
BY DEF Next, Reply, Writer, Connection, ClaimQueue, RetainParked, WriteChunk, AcceptResume,
       RefuseResume, BeginReplay, ReplayChunk, EndReplay, Attach, RecvAck, ReadError, RecvFrame,
       PrepareStandby, SwitchOver, SwitchFails, Break, bufferVars

\* What was sent stays what was sent.
LEMMA SentMonotone ==
  ASSUME BufferTypes, Next
  PROVE  /\ SendSeq \in Nat /\ SendSeq' \in Nat /\ SendSeq <= SendSeq'
         /\ \A i \in 1 .. SendSeq : sent'[i] = sent[i]
<1>. USE DEF BufferTypes, SendSeq
<1>1. CASE sent' = sent
  BY <1>1
<1>2. ASSUME NEW c \in Contents, sent' = Append(sent, c)
      PROVE  Len(sent') = Len(sent) + 1 /\ \A i \in 1 .. Len(sent) : sent'[i] = sent[i]
  BY <1>2, AppendProperties
<1>3. sent' = sent \/ \E c \in Contents : sent' = Append(sent, c)
  BY SenderSteps, HeadTailProperties DEF TakePacket, TakeControl, Contents
<1>. QED BY <1>1, <1>2, <1>3

\* The dispatcher and the writer task keep the types.
LEMMA WriterTypeStep ==
  ASSUME TypeOK
  PROVE  /\ \A d \in Data : Reply(d) => TypeOK'
         /\ \A l \in Links : Writer(l) => TypeOK'
<1>. USE ConstantTypes DEF TypeOK, SendSeq, bufferVars, taskVars, linkVars, switchVars, recvVars
<1>1. ASSUME NEW d \in Data, Reply(d) PROVE TypeOK'
  BY <1>1, AppendProperties DEF BufferTypes, TaskTypes, HandTypes, LinkTypes, ClientTypes, Reply
<1>2. ASSUME NEW l \in Links, ClaimQueue(l) PROVE TypeOK'
  BY <1>2 DEF BufferTypes, TaskTypes, HandTypes, LinkTypes, ClientTypes, ClaimQueue
<1>3. ASSUME NEW l \in Links, TakePacket(l) PROVE TypeOK'
  <2>1. Len(sent) \in Seqs /\ Head(queue) \in Data /\ queue' \in Seq(Data)
    BY <1>3, HeadTailProperties DEF BufferTypes, TakePacket, Seqs
  <2>3. /\ sent' \in Seq(Contents) /\ Len(sent') = Len(sent) + 1
        /\ accepted' \in Seq(Data)
        /\ sent'[Len(sent) + 1] = Head(queue)
        /\ \A i \in 1 .. Len(sent) : sent'[i] = sent[i]
    BY <1>3, <2>1 DEF BufferTypes, TakePacket, Contents
  <2>4. BufferTypes'
    BY <1>3, <2>1, <2>3 DEF BufferTypes, TakePacket
  <2>5. TaskTypes'
    <3>1. /\ task' = [task EXCEPT ![l] = "parked"]
          /\ hand' = [hand EXCEPT ![l] = Len(sent)]
          /\ UNCHANGED <<serving, cursor, attached>>
      BY <1>3 DEF TakePacket
    <3>2. hand' \in [Links -> 0 .. MaxNonce]
      BY <2>1, <3>1 DEF TaskTypes, Seqs
    <3>. QED BY <3>1, <3>2 DEF TaskTypes
  <2>6. HandTypes'
    <3>1. hand'[l] = Len(sent) /\ sent'[hand'[l] + 1] \in Data
      BY <1>3, <2>1, <2>3 DEF TakePacket, TaskTypes
    <3>2. \A k \in Links \ {l} : hand'[k] = hand[k] /\ task'[k] = task[k] /\ hand[k] \in Nat
      BY <1>3 DEF TakePacket, TaskTypes
    <3>. QED BY SMTT(30), <2>1, <2>3, <3>1, <3>2 DEF HandTypes, Seqs
  <2>. QED BY <1>3, <2>4, <2>5, <2>6 DEF LinkTypes, ClientTypes, TakePacket
<1>4. ASSUME NEW l \in Links, RetainParked(l) PROVE TypeOK'
  <2>1. hand[l] \in Seqs /\ sent[hand[l] + 1] \in Data
    BY <1>4 DEF HandTypes, RetainParked, BufferTypes, TaskTypes, Seqs
  <2>2. IsChunks(sendBuf'.chunks) /\ rejected' \subseteq Seqs
    BY <1>4, <2>1, PushProperties DEF BufferTypes, RetainParked, Retain
  <2>3. BufferTypes'
    BY <1>4, <2>2 DEF BufferTypes, RetainParked
  <2>4. TaskTypes' /\ HandTypes'
    BY <1>4 DEF TaskTypes, HandTypes, RetainParked
  <2>. QED BY <1>4, <2>3, <2>4 DEF LinkTypes, ClientTypes, RetainParked
<1>5. ASSUME NEW l \in Links, TakeControl(l) PROVE TypeOK'
  <2>1. /\ Len(sent) \in Seqs /\ sent' \in Seq(Contents) /\ Len(sent') = Len(sent) + 1
        /\ \A i \in 1 .. Len(sent) : sent'[i] = sent[i]
    BY <1>5 DEF BufferTypes, TakeControl, Seqs, Contents
  <2>2. BufferTypes' /\ TaskTypes'
    BY SMTT(30), <1>5, <2>1 DEF BufferTypes, TaskTypes, TakeControl, Seqs
  <2>3. HandTypes'
    <3>1. hand'[l] = Len(sent) /\ task'[l] = "writing"
      BY <1>5 DEF TakeControl, TaskTypes
    <3>2. \A k \in Links \ {l} : hand'[k] = hand[k] /\ task'[k] = task[k] /\ hand[k] \in Nat
      BY <1>5 DEF TakeControl, TaskTypes
    <3>. QED BY <2>1, <3>1, <3>2 DEF HandTypes, Seqs
  <2>. QED BY <1>5, <2>2, <2>3 DEF LinkTypes, ClientTypes, TakeControl
<1>6. ASSUME NEW l \in Links, WriteChunk(l) PROVE TypeOK'
  <2>1. [seq |-> hand[l], data |-> sent[hand[l] + 1]] \in Frame
    BY <1>6 DEF HandTypes, WriteChunk, BufferTypes, TaskTypes, Frame, Seqs
  <2>2. LinkTypes'
    BY <1>6, <2>1, SendProperties DEF LinkTypes, WriteChunk
  <2>3. TaskTypes' /\ HandTypes'
    BY <1>6 DEF TaskTypes, HandTypes, WriteChunk
  <2>. QED BY <1>6, <2>2, <2>3 DEF BufferTypes, ClientTypes, WriteChunk
<1>. QED BY <1>1, <1>2, <1>3, <1>4, <1>5, <1>6 DEF Writer

\* The task of a connection keeps the types.
LEMMA ConnectionTypeStep ==
  ASSUME TypeOK, NEW l \in Links, Connection(l)
  PROVE  TypeOK'
<1>. USE ConstantTypes DEF TypeOK, SendSeq, bufferVars, taskVars, linkVars, switchVars, recvVars
<1>1. CASE AcceptResume(l) \/ RefuseResume(l)
  <2>1. IsChunks(sendBuf'.chunks)
    BY <1>1, ApplyAckProperties DEF BufferTypes, AcceptResume, RefuseResume
  <2>2. BufferTypes'
    BY <1>1, <2>1 DEF BufferTypes, AcceptResume, RefuseResume
  <2>3. TaskTypes'
    BY <1>1 DEF TaskTypes, AcceptResume, RefuseResume
  <2>4. HandTypes'
    BY <1>1 DEF HandTypes, AcceptResume, RefuseResume
  <2>5. LinkTypes' /\ ClientTypes'
    BY <1>1 DEF LinkTypes, ClientTypes, AcceptResume, RefuseResume
  <2>. QED BY <2>2, <2>3, <2>4, <2>5
<1>2. CASE BeginReplay(l)
  <2>1. BufferTypes' /\ HandTypes' /\ LinkTypes' /\ ClientTypes'
    BY <1>2 DEF BufferTypes, HandTypes, LinkTypes, ClientTypes, BeginReplay
  <2>2. TaskTypes'
    BY <1>2 DEF TaskTypes, BeginReplay
  <2>. QED BY <2>1, <2>2
<1>3. ASSUME NEW s \in Seqs, ReplayChunk(l, s) PROVE TypeOK'
  <2>1. [seq |-> s, data |-> sendBuf.chunks[s]] \in Frame
    BY <1>3 DEF BufferTypes, ReplayChunk, IsNextChunk, Remaining, IsChunks, Frame, Contents
  <2>2. LinkTypes'
    BY <1>3, <2>1, SendProperties DEF LinkTypes, ReplayChunk
  <2>3. TaskTypes'
    BY <1>3 DEF TaskTypes, ReplayChunk, Seqs
  <2>. QED BY <1>3, <2>2, <2>3 DEF BufferTypes, HandTypes, ClientTypes, ReplayChunk
<1>4. CASE EndReplay(l)
  BY <1>4 DEF BufferTypes, TaskTypes, HandTypes, LinkTypes, ClientTypes, EndReplay
<1>5. CASE Attach(l) \/ ReadError(l)
  <2>1. PICK k \in Links : Abort(k)
    BY <1>5 DEF TaskTypes, Attach, ReadError
  <2>2. /\ task' \in [Links -> {"none", "waiting", "idle", "parked", "writing", "ended"}]
        /\ queue' \in Seq(Data) /\ dropped' \subseteq Seqs
        /\ \A m \in Links : task'[m] = task[m] \/ (task[m] # "none" /\ task'[m] = "ended")
    BY <2>1, AbortProperties
  <2>3. HandTypes'
    BY <1>5, <2>2 DEF HandTypes, Attach, ReadError
  <2>4. BufferTypes' /\ LinkTypes' /\ ClientTypes'
    BY <1>5, <2>2 DEF BufferTypes, LinkTypes, ClientTypes, Attach, ReadError
  <2>5. TaskTypes'
    BY <1>5, <2>2 DEF TaskTypes, Attach, ReadError
  <2>. QED BY <2>3, <2>4, <2>5
<1>6. CASE RecvAck(l)
  <2>1. IsChunks(sendBuf'.chunks)
    BY <1>6, ApplyAckProperties DEF BufferTypes, RecvAck
  <2>2. LinkTypes'
    BY <1>6, LinkUpdate, HeadTailProperties DEF LinkTypes, RecvAck
  <2>. QED BY <1>6, <2>1, <2>2 DEF BufferTypes, TaskTypes, HandTypes, ClientTypes, RecvAck
<1>. QED BY <1>1, <1>2, <1>3, <1>4, <1>5, <1>6 DEF Connection

\* The client and the network keep the types.
LEMMA ClientTypeStep ==
  ASSUME TypeOK
  PROVE  /\ RecvFrame => TypeOK'
         /\ \A l \in Links : PrepareStandby(l) => TypeOK'
         /\ SwitchOver => TypeOK'
         /\ SwitchFails => TypeOK'
         /\ \A l \in Links : Break(l) => TypeOK'
<1>. USE ConstantTypes DEF TypeOK, SendSeq, bufferVars, taskVars, linkVars, switchVars, recvVars
<1>1. ASSUME RecvFrame PROVE TypeOK'
  <2>. DEFINE f == Head(down[active])
  <2>1. f \in Frame /\ down' \in [Links -> Seq(Frame)]
    BY <1>1, LinkUpdate, HeadTailProperties DEF RecvFrame, LinkTypes, ClientTypes
  <2>2. f.seq \in Seqs
    BY <2>1 DEF Frame
  <2>3. /\ recvBuf'.next \in 0 .. MaxNonce /\ IsChunks(recvBuf'.pending)
        /\ \A s \in DOMAIN recvBuf'.pending : s > recvBuf'.next
        /\ delivered' \in Seq(Data)
    <3>1. CASE UNCHANGED <<recvBuf, delivered>>
      BY <3>1 DEF ClientTypes
    <3>2. CASE /\ f.data \in Data /\ Accepts(recvBuf, f.seq, f.data)
               /\ recvBuf' = Accept(recvBuf, f.seq, f.data)
               /\ delivered' = delivered \o Ready(recvBuf, f.seq, f.data)
      <4>1. /\ Accept(recvBuf, f.seq, f.data).next \in 0 .. MaxNonce
            /\ IsChunks(Accept(recvBuf, f.seq, f.data).pending)
            /\ \A s \in DOMAIN Accept(recvBuf, f.seq, f.data).pending :
                 s > Accept(recvBuf, f.seq, f.data).next
            /\ Ready(recvBuf, f.seq, f.data) \in Seq(Data)
        BY <2>2, <3>2, AcceptTypes DEF ClientTypes
      <4>2. delivered' \in Seq(Data)
        BY <3>2, <4>1, ConcatProperties DEF ClientTypes
      <4>. QED BY <3>2, <4>1, <4>2
    <3>. QED BY <1>1, <3>1, <3>2 DEF RecvFrame
  <2>4. acks' \in [Links -> Seq(Ack)] /\ unacked' \in Nat
    <3>1. BuildAck(recvBuf') \in Ack
      BY <2>3, BuildAckTypes
    <3>2. CASE UNCHANGED <<acks, recvVars>>
      BY <3>2 DEF LinkTypes, ClientTypes
    <3>3. CASE Acknowledge
      <4>1. Append(acks[active], BuildAck(recvBuf')) \in Seq(Ack)
        BY <3>1, AppendProperties DEF LinkTypes, ClientTypes
      <4>2. acks' = acks \/ acks' = [acks EXCEPT ![active] = Append(@, BuildAck(recvBuf'))]
        BY <3>3 DEF Acknowledge
      <4>3. acks' \in [Links -> Seq(Ack)]
        <5>1. acks \in [Links -> Seq(Ack)] /\ active \in Links
          BY DEF LinkTypes, ClientTypes
        <5>. QED BY <4>1, <4>2, <5>1
      <4>. QED BY <3>3, <4>3 DEF Acknowledge, ClientTypes
    <3>. QED BY <1>1, <3>2, <3>3 DEF RecvFrame
  <2>5. LinkTypes'
    BY <1>1, <2>1, <2>4, ClosedProperties DEF RecvFrame, LinkTypes
  <2>6. ClientTypes'
    BY <1>1, <2>3, <2>4 DEF RecvFrame, ClientTypes
  <2>. QED BY <1>1, <2>5, <2>6 DEF RecvFrame, BufferTypes, TaskTypes, HandTypes
<1>2. ASSUME NEW l \in Links, PrepareStandby(l) PROVE TypeOK'
  BY <1>2 DEF BufferTypes, TaskTypes, HandTypes, LinkTypes, ClientTypes, PrepareStandby
<1>3. ASSUME SwitchOver PROVE TypeOK'
  <2>1. LinkTypes'
    <3>1. <<>> \in Seq(Frame)
      OBVIOUS
    <3>. QED BY <1>3, <3>1, ClosedProperties, LinkUpdate DEF SwitchOver, LinkTypes, ClientTypes
  <2>. QED BY <1>3, <2>1 DEF BufferTypes, TaskTypes, HandTypes, ClientTypes, SwitchOver
<1>4. ASSUME SwitchFails PROVE TypeOK'
  BY <1>4 DEF BufferTypes, TaskTypes, HandTypes, LinkTypes, ClientTypes, SwitchFails
<1>5. ASSUME NEW l \in Links, Break(l) PROVE TypeOK'
  <2>1. LinkTypes'
    BY <1>5, PrefixProperties, LinkUpdate DEF LinkTypes, Break
  <2>. QED BY <1>5, <2>1 DEF BufferTypes, TaskTypes, HandTypes, ClientTypes, Break
<1>. QED BY <1>1, <1>2, <1>3, <1>4, <1>5

\* Whatever the server, the client or the network does keeps the types.
LEMMA TypeStep == TypeOK /\ [Next]_vars => TypeOK'
<1>. SUFFICES ASSUME TypeOK, [Next]_vars PROVE TypeOK'
  OBVIOUS
<1>1. CASE Next
  BY <1>1, WriterTypeStep, ConnectionTypeStep, ClientTypeStep DEF Next
<1>2. CASE UNCHANGED vars
  BY <1>2 DEF vars, bufferVars, taskVars, linkVars, switchVars, recvVars, TypeOK, BufferTypes,
              TaskTypes, HandTypes, LinkTypes, ClientTypes, SendSeq
<1>. QED BY <1>1, <1>2

\* Every variable of serve() and of the client's loop keeps its shape, and a
\* writer task only ever parks with a packet it has encrypted.
THEOREM TypeCorrect == Spec => []TypeOK
BY TypeInit, TypeStep, PTL DEF Spec
-----------------------------------------------------------------------------
(* What a step can do to each part of the state.                           *)

\* Only a frame accepted by the client touches the receive buffer.
RecvAccepts ==
  /\ RecvFrame /\ down[active] # <<>>
  /\ Head(down[active]).data \in Data
  /\ Accepts(recvBuf, Head(down[active]).seq, Head(down[active]).data)
  /\ recvBuf' = Accept(recvBuf, Head(down[active]).seq, Head(down[active]).data)
  /\ delivered' = delivered \o Ready(recvBuf, Head(down[active]).seq, Head(down[active]).data)

LEMMA ReceiverSteps ==
  ASSUME Next
  PROVE  UNCHANGED <<recvBuf, delivered>> \/ RecvAccepts
<1>1. CASE RecvFrame
  BY <1>1 DEF RecvFrame, RecvAccepts, recvVars
<1>2. CASE ~RecvFrame
  BY <1>2 DEF Next, Reply, Writer, Connection, ClaimQueue, TakePacket, RetainParked, TakeControl,
       WriteChunk, AcceptResume, RefuseResume, BeginReplay, ReplayChunk, EndReplay, Attach,
       RecvAck, ReadError, PrepareStandby, SwitchOver, SwitchFails, Break, recvVars
<1>. QED BY <1>1, <1>2

\* What one acceptance does, given that the buffers and frames carry what was
\* sent: the instance of AcceptProperties for the replies of the session.
LEMMA RecvAcceptsProperties ==
  ASSUME TypeOK, FramesCarrySent, BuffersHoldSent, RecvAccepts
  PROVE  \E seq \in Seqs, ready \in Seq(Data) :
           /\ seq < SendSeq
           /\ recvBuf'.next \in recvBuf.next .. MaxNonce
           /\ \A s \in DOMAIN recvBuf'.pending :
                s > recvBuf'.next /\ recvBuf'.pending[s] = sent[s + 1]
           /\ DOMAIN recvBuf'.pending \subseteq DOMAIN recvBuf.pending \cup {seq}
           /\ \A s \in DOMAIN recvBuf.pending \cup {seq} :
                s < recvBuf'.next \/ s \in DOMAIN recvBuf'.pending
           /\ \A s \in recvBuf.next .. (recvBuf'.next - 1) : s \in DOMAIN recvBuf.pending \cup {seq}
           /\ delivered' = delivered \o ready
           /\ Len(ready) = recvBuf'.next - recvBuf.next
           /\ \A i \in 1 .. Len(ready) : ready[i] = sent[recvBuf.next + i]
<1>. DEFINE f == Head(down[active])
            r == Ready(recvBuf, f.seq, f.data)
<1>1. /\ f.data \in Data /\ Accepts(recvBuf, f.seq, f.data)
      /\ recvBuf' = Accept(recvBuf, f.seq, f.data) /\ delivered' = delivered \o r
      /\ down[active] # <<>>
  BY DEF RecvAccepts
<1>2. f = down[active][1] /\ 1 \in 1 .. Len(down[active]) /\ f \in Frame /\ active \in Links
  BY <1>1, HeadTailProperties DEF TypeOK, LinkTypes, ClientTypes
<1>3. f.seq \in Seqs /\ f.seq < SendSeq /\ f.data = sent[f.seq + 1]
  BY <1>2 DEF FramesCarrySent, ChunkOf, Frame
<1>4. /\ recvBuf.next \in 0 .. MaxNonce /\ IsChunks(recvBuf.pending)
      /\ \A s \in DOMAIN recvBuf.pending :
           s > recvBuf.next /\ recvBuf.pending[s] = sent[s + 1]
  BY DEF TypeOK, ClientTypes, BuffersHoldSent
<1>. HIDE DEF f
<1>5. /\ recvBuf'.next \in recvBuf.next .. MaxNonce
      /\ \A s \in DOMAIN recvBuf'.pending :
           s > recvBuf'.next /\ recvBuf'.pending[s] = sent[s + 1]
      /\ DOMAIN recvBuf'.pending \subseteq DOMAIN recvBuf.pending \cup {f.seq}
      /\ \A s \in DOMAIN recvBuf.pending \cup {f.seq} :
           s < recvBuf'.next \/ s \in DOMAIN recvBuf'.pending
      /\ \A s \in recvBuf.next .. (recvBuf'.next - 1) :
           s \in DOMAIN recvBuf.pending \cup {f.seq}
      /\ r \in Seq(Data)
      /\ Len(r) = recvBuf'.next - recvBuf.next
      /\ \A i \in 1 .. Len(r) : r[i] = sent[recvBuf.next + i]
  BY <1>1, <1>3, <1>4, AcceptProperties
<1>. HIDE DEF r
<1>. QED BY <1>1, <1>3, <1>5

\* What the client has received it never forgets.
LEMMA ReceivedMonotone ==
  ASSUME TypeOK, FramesCarrySent, BuffersHoldSent, Next
  PROVE  /\ recvBuf.next <= recvBuf'.next
         /\ \A s \in Nat : Received(s) => Received(s)'
<1>1. CASE UNCHANGED <<recvBuf, delivered>>
  BY <1>1 DEF TypeOK, ClientTypes, Received
<1>2. CASE RecvAccepts
  BY <1>2, RecvAcceptsProperties, ConstantTypes DEF TypeOK, ClientTypes, Received
<1>. QED BY <1>1, <1>2, ReceiverSteps

\* A frame of the next state is one of this state, the chunk a writer has in
\* its hand, or a retained one that is replayed.
LEMMA FrameSteps ==
  ASSUME TypeOK, Next, NEW k \in Links, NEW i \in 1 .. Len(down'[k])
  PROVE  \/ \E j \in 1 .. Len(down[k]) : down'[k][i] = down[k][j]
         \/ \E l \in Links : /\ task[l] = "writing"
                             /\ down'[k][i] = [seq |-> hand[l], data |-> sent[hand[l] + 1]]
         \/ \E s \in DOMAIN sendBuf.chunks :
              down'[k][i] = [seq |-> s, data |-> sendBuf.chunks[s]]
<1>. DEFINE Same == \E j \in 1 .. Len(down[k]) : down'[k][i] = down[k][j]
<1>0. down \in [Links -> Seq(Frame)] /\ active \in Links
  BY DEF TypeOK, LinkTypes, ClientTypes
<1>1. CASE down' = down
  BY <1>1
<1>2. ASSUME NEW f \in Frame, NEW l \in Links, Send(l, f)
      PROVE  Same \/ down'[k][i] = f
  <2>1. down'[k] = down[k] \/ down'[k] = Append(down[k], f)
    BY <1>0, <1>2, SendProperties
  <2>2. down[k] \in Seq(Frame)
    BY <1>0
  <2>. QED BY <2>1, <2>2
<1>3. CASE RecvFrame
  <2>1. CASE k = active
    <3>1. down'[k] = Tail(down[k]) /\ down[k] \in Seq(Frame) /\ down[k] # <<>>
      BY <1>0, <1>3, <2>1 DEF RecvFrame
    <3>2. i + 1 \in 1 .. Len(down[k]) /\ down'[k][i] = down[k][i + 1]
      BY <3>1, HeadTailProperties
    <3>. QED BY <3>2
  <2>2. CASE k # active
    BY <1>0, <1>3, <2>2 DEF RecvFrame
  <2>. QED BY <2>1, <2>2
<1>4. CASE SwitchOver
  BY <1>0, <1>4 DEF SwitchOver
<1>5. ASSUME NEW l \in Links, WriteChunk(l)
      PROVE  Same \/ /\ task[l] = "writing"
                     /\ down'[k][i] = [seq |-> hand[l], data |-> sent[hand[l] + 1]]
  <2>1. [seq |-> hand[l], data |-> sent[hand[l] + 1]] \in Frame
    BY SMTT(30), <1>5, ConstantTypes
    DEF TypeOK, HandTypes, WriteChunk, BufferTypes, TaskTypes, Frame, Seqs, SendSeq
  <2>. QED BY <1>2, <1>5, <2>1 DEF WriteChunk
<1>6. ASSUME NEW l \in Links, NEW s \in Seqs, ReplayChunk(l, s)
      PROVE  \/ Same
             \/ \E t \in DOMAIN sendBuf.chunks :
                  down'[k][i] = [seq |-> t, data |-> sendBuf.chunks[t]]
  <2>1. s \in DOMAIN sendBuf.chunks /\ [seq |-> s, data |-> sendBuf.chunks[s]] \in Frame
    BY <1>6 DEF TypeOK, BufferTypes, ReplayChunk, IsNextChunk, Remaining, IsChunks, Frame, Contents
  <2>. QED BY <1>2, <1>6, <2>1 DEF ReplayChunk
<1>7. ASSUME NEW l \in Links, Break(l) PROVE Same
  <2>1. PICK n \in 0 .. Len(down[l]) : down' = [down EXCEPT ![l] = SubSeq(@, 1, n)]
    BY <1>7 DEF Break
  <2>2. CASE k = l
    <3>1. down'[k] = SubSeq(down[k], 1, n) /\ down[k] \in Seq(Frame)
      BY <1>0, <2>1, <2>2
    <3>2. i \in 1 .. Len(down[k]) /\ down'[k][i] = down[k][i]
      BY <2>1, <2>2, <3>1, PrefixProperties
    <3>. QED BY <3>2
  <2>3. CASE k # l
    BY <1>0, <2>1, <2>3
  <2>. QED BY <2>2, <2>3
<1>. HIDE DEF Same
<1>8. \/ down' = down
      \/ RecvFrame \/ SwitchOver
      \/ \E l \in Links : \/ WriteChunk(l) \/ Break(l)
                          \/ \E s \in Seqs : ReplayChunk(l, s)
  BY DEF Next, Reply, Writer, Connection, ClaimQueue, TakePacket, RetainParked, TakeControl,
         AcceptResume, RefuseResume, BeginReplay, EndReplay, Attach, RecvAck, ReadError,
         PrepareStandby, SwitchFails, linkVars
<1>9. Same => \E j \in 1 .. Len(down[k]) : down'[k][i] = down[k][j]
  BY DEF Same
<1>. QED BY <1>1, <1>3, <1>4, <1>5, <1>6, <1>7, <1>8, <1>9

\* An acknowledgement in flight is one of this state, or one just built.
LEMMA AckSteps ==
  ASSUME TypeOK, Next, NEW k \in Links, NEW i \in 1 .. Len(acks'[k])
  PROVE  \/ \E j \in 1 .. Len(acks[k]) : acks'[k][i] = acks[k][j]
         \/ acks'[k][i] = BuildAck(recvBuf')
<1>. DEFINE Same == \E j \in 1 .. Len(acks[k]) : acks'[k][i] = acks[k][j]
<1>0. acks \in [Links -> Seq(Ack)] /\ active \in Links
  BY DEF TypeOK, LinkTypes, ClientTypes
<1>1. CASE acks' = acks
  BY <1>1
<1>2. ASSUME NEW l \in Links, Break(l) PROVE Same
  <2>1. PICK n \in 0 .. Len(acks[l]) : acks' = [acks EXCEPT ![l] = SubSeq(@, 1, n)]
    BY <1>2 DEF Break
  <2>2. CASE k = l
    <3>1. acks'[k] = SubSeq(acks[k], 1, n) /\ acks[k] \in Seq(Ack)
      BY <1>0, <2>1, <2>2
    <3>2. i \in 1 .. Len(acks[k]) /\ acks'[k][i] = acks[k][i]
      BY <2>1, <2>2, <3>1, PrefixProperties
    <3>. QED BY <3>2
  <2>3. CASE k # l
    BY <1>0, <2>1, <2>3
  <2>. QED BY <2>2, <2>3
<1>3. ASSUME NEW l \in Links, RecvAck(l) PROVE Same
  <2>1. CASE k = l
    <3>1. acks'[k] = Tail(acks[k]) /\ acks[k] \in Seq(Ack) /\ acks[k] # <<>>
      BY <1>0, <1>3, <2>1 DEF RecvAck
    <3>2. i + 1 \in 1 .. Len(acks[k]) /\ acks'[k][i] = acks[k][i + 1]
      BY <3>1, HeadTailProperties
    <3>. QED BY <3>2
  <2>2. CASE k # l
    BY <1>0, <1>3, <2>2 DEF RecvAck
  <2>. QED BY <2>1, <2>2
<1>4. CASE acks' = [acks EXCEPT ![active] = Append(@, BuildAck(recvBuf'))]
  <2>1. acks'[k] = acks[k] \/ acks'[k] = Append(acks[k], BuildAck(recvBuf'))
    BY <1>0, <1>4
  <2>2. acks[k] \in Seq(Ack)
    BY <1>0
  <2>. QED BY SMTT(30), <2>1, <2>2
<1>. HIDE DEF Same
<1>5. \/ acks' = acks
      \/ acks' = [acks EXCEPT ![active] = Append(@, BuildAck(recvBuf'))]
      \/ \E l \in Links : Break(l) \/ RecvAck(l)
  <2>1. CASE RecvFrame
    BY <2>1 DEF RecvFrame, Acknowledge
  <2>2. CASE ~RecvFrame
    BY <2>2
    DEF Next, Reply, Writer, Connection, ClaimQueue, TakePacket, RetainParked, TakeControl,
        WriteChunk, AcceptResume, RefuseResume, BeginReplay, ReplayChunk, EndReplay, Attach,
        ReadError, PrepareStandby, SwitchOver, SwitchFails, linkVars
  <2>. QED BY <2>1, <2>2
<1>6. Same => \E j \in 1 .. Len(acks[k]) : acks'[k][i] = acks[k][j]
  BY DEF Same
<1>. QED BY <1>1, <1>2, <1>3, <1>4, <1>5, <1>6
\* The send buffer changes in three ways: not at all, by retaining a chunk that
\* a task parked with, or by an acknowledgement or a
\* resume position that claims only what the client has received.
LEMMA RetentionSteps ==
  ASSUME TypeOK, AcksClaimReceived, Next
  PROVE  \/ UNCHANGED <<sendBuf, rejected>>
         \/ \E s \in Seqs :
              /\ s < SendSeq' /\ sent'[s + 1] \in Data
              /\ sendBuf' = Push(sendBuf, s, sent'[s + 1])
              /\ rejected' = IF Rejects(sendBuf, sent'[s + 1]) THEN rejected \cup {s} ELSE rejected
         \/ \E ack \in Ack :
              /\ ClaimsReceived(ack)
              /\ sendBuf' = ApplyAck(sendBuf, ack) /\ UNCHANGED <<rejected, recvBuf>>
<1>. DEFINE Pushes == \E s \in Seqs :
              /\ s < SendSeq' /\ sent'[s + 1] \in Data
              /\ sendBuf' = Push(sendBuf, s, sent'[s + 1])
              /\ rejected' = IF Rejects(sendBuf, sent'[s + 1]) THEN rejected \cup {s} ELSE rejected
            Releases == \E ack \in Ack :
              /\ ClaimsReceived(ack)
              /\ sendBuf' = ApplyAck(sendBuf, ack) /\ UNCHANGED <<rejected, recvBuf>>
<1>2. ASSUME NEW l \in Links, RetainParked(l) PROVE Pushes
  <2>1. /\ hand[l] \in Seqs /\ hand[l] < SendSeq /\ sent[hand[l] + 1] \in Data
    <3>1. hand[l] \in 0 .. MaxNonce /\ hand[l] < SendSeq /\ sent[hand[l] + 1] \in Data
      BY <1>2 DEF TypeOK, HandTypes, RetainParked, TaskTypes
    <3>2. SendSeq \in Nat /\ SendSeq <= MaxNonce /\ MaxNonce \in Nat
      BY ConstantTypes DEF TypeOK, BufferTypes, SendSeq
    <3>. QED BY <3>1, <3>2 DEF Seqs
  <2>2. /\ sent' = sent /\ SendSeq' = SendSeq
        /\ sendBuf' = Push(sendBuf, hand[l], sent[hand[l] + 1])
        /\ rejected' = IF Rejects(sendBuf, sent[hand[l] + 1])
                       THEN rejected \cup {hand[l]} ELSE rejected
    BY <1>2 DEF RetainParked, Retain, SendSeq
  <2>. QED BY <2>1, <2>2
<1>3. ASSUME NEW l \in Links, AcceptResume(l) \/ RefuseResume(l)
      PROVE  UNCHANGED <<sendBuf, rejected>> \/ Releases
  <2>. DEFINE ack == [next |-> recvBuf.next, ranges |-> {}]
  <2>1. ack \in Ack /\ ClaimsReceived(ack)
    BY DEF TypeOK, ClientTypes, Ack, ClaimsReceived
  <2>2. \/ UNCHANGED <<sendBuf, rejected>>
        \/ sendBuf' = ApplyAck(sendBuf, ack) /\ UNCHANGED <<rejected, recvBuf>>
    BY <1>3 DEF AcceptResume, RefuseResume, recvVars
  <2>. HIDE DEF ack
  <2>. QED BY <2>1, <2>2
<1>4. ASSUME NEW l \in Links, RecvAck(l) PROVE Releases
  <2>1. /\ acks[l] \in Seq(Ack) /\ acks[l] # <<>>
        /\ sendBuf' = ApplyAck(sendBuf, Head(acks[l])) /\ UNCHANGED <<rejected, recvBuf>>
    BY <1>4 DEF RecvAck, TypeOK, LinkTypes, recvVars
  <2>2. Head(acks[l]) = acks[l][1] /\ 1 \in 1 .. Len(acks[l]) /\ Head(acks[l]) \in Ack
    BY <2>1, HeadTailProperties
  <2>3. ClaimsReceived(Head(acks[l]))
    BY <2>2 DEF AcksClaimReceived
  <2>. QED BY <2>1, <2>2, <2>3
<1>. HIDE DEF Pushes, Releases
<1>5. \/ UNCHANGED <<sendBuf, rejected>>
      \/ \E l \in Links : \/ RetainParked(l)
                          \/ AcceptResume(l) \/ RefuseResume(l) \/ RecvAck(l)
  BY DEF Next, Reply, Writer, Connection, ClaimQueue, TakePacket, TakeControl, WriteChunk, BeginReplay,
         ReplayChunk, EndReplay, Attach, ReadError, RecvFrame, PrepareStandby, SwitchOver,
         SwitchFails, Break, bufferVars
<1>6. UNCHANGED <<sendBuf, rejected>> \/ Pushes \/ Releases
  BY <1>2, <1>3, <1>4, <1>5
<1>. QED BY <1>6 DEF Pushes, Releases

\* What such an acknowledgement releases, the client has received.
LEMMA ReleaseProperties ==
  ASSUME TypeOK, NEW ack \in Ack, ClaimsReceived(ack), sendBuf' = ApplyAck(sendBuf, ack)
  PROVE  /\ DOMAIN sendBuf'.chunks \subseteq DOMAIN sendBuf.chunks
         /\ \A s \in DOMAIN sendBuf'.chunks : sendBuf'.chunks[s] = sendBuf.chunks[s]
         /\ \A s \in DOMAIN sendBuf.chunks : s \in DOMAIN sendBuf'.chunks \/ Received(s)
<1>1. IsChunks(sendBuf.chunks) /\ DOMAIN sendBuf.chunks \subseteq Nat
  BY DEF TypeOK, BufferTypes, IsChunks, Seqs
<1>2. /\ DOMAIN sendBuf'.chunks = DOMAIN sendBuf.chunks \ Covers(ack, DOMAIN sendBuf.chunks)
      /\ \A s \in DOMAIN sendBuf'.chunks : sendBuf'.chunks[s] = sendBuf.chunks[s]
  BY <1>1, ApplyAckProperties
<1>3. /\ ack.next \in Int /\ recvBuf.next \in Int
      /\ \A r \in ack.ranges : r.start \in Int /\ r.end \in Int
  BY ConstantTypes DEF Ack, SackRange, TypeOK, ClientTypes
<1>4. \A s \in Covers(ack, DOMAIN sendBuf.chunks) : Received(s)
  <2>. SUFFICES ASSUME NEW s \in DOMAIN sendBuf.chunks,
                       s < ack.next \/ \E r \in ack.ranges : r.start <= s /\ s <= r.end
                PROVE  Received(s)
    BY DEF Covers
  <2>1. CASE s < ack.next
    <3>1. s \in Nat /\ ack.next <= recvBuf.next
      BY <1>1 DEF ClaimsReceived
    <3>. QED BY <1>3, <2>1, <3>1 DEF Received
  <2>2. CASE \E r \in ack.ranges : r.start <= s /\ s <= r.end
    BY <1>1, <1>3, <2>2 DEF ClaimsReceived
  <2>. QED BY <2>1, <2>2
<1>. QED BY <1>2, <1>4

-----------------------------------------------------------------------------
(* The inductive invariant.                                                *)

\* A fresh session satisfies the invariant: both buffers are empty.
LEMMA ReplyInit == Init => ReplyInv
<1>. SUFFICES ASSUME Init PROVE ReplyInv
  OBVIOUS
<1>1. TypeOK
  BY TypeInit
<1>2. SendSeq = 0 /\ Len(accepted) = 0 /\ Len(delivered) = 0
  BY DEF Init, SendSeq
<1>3. ReplayHoldsLock /\ FramesCarrySent /\ AcksClaimReceived
  BY ConstantTypes DEF Init, ReplayHoldsLock, FramesCarrySent, AcksClaimReceived
<1>4. BuffersHoldSent
  BY DEF Init, BuffersHoldSent, EmptySendBuffer, EmptyReceiveBuffer, NoChunks
<1>5. DeliveredIsSent /\ AcceptedIsSent
  BY <1>2 DEF Init, DeliveredIsSent, AcceptedIsSent, EmptyReceiveBuffer
<1>6. RetainedUnlessDropped
  BY <1>2 DEF RetainedUnlessDropped
<1>. QED BY <1>1, <1>3, <1>4, <1>5, <1>6 DEF ReplyInv

\* The lock of the send buffer stays with the replay that took it, and a
\* connection has no writer task before its replay is over.
LEMMA LockStep ==
  ASSUME TypeOK, ReplayHoldsLock, Next
  PROVE  ReplayHoldsLock'
<1>. USE ConstantTypes DEF TypeOK, TaskTypes, LinkTypes, ReplayHoldsLock
<1>0. \A l \in Links : up'[l] = "unused" => up[l] = "unused"
  BY ZenonT(60) DEF Next, Reply, Writer, Connection, ClaimQueue, TakePacket, RetainParked, TakeControl,
         WriteChunk, AcceptResume, RefuseResume, BeginReplay, ReplayChunk, EndReplay, Attach,
         RecvAck, ReadError, RecvFrame, PrepareStandby, SwitchOver, SwitchFails, Break, Closed,
         linkVars
<1>1. CASE UNCHANGED <<serving, locked, task>>
  BY <1>0, <1>1
<1>2. ASSUME NEW l \in Links,
             \/ ClaimQueue(l) \/ TakePacket(l) \/ RetainParked(l) \/ TakeControl(l)
             \/ WriteChunk(l)
      PROVE  ReplayHoldsLock'
  <2>1. /\ UNCHANGED <<serving, locked>> /\ task[l] # "none"
        /\ \A k \in Links \ {l} : task'[k] = task[k]
    BY <1>2 DEF ClaimQueue, TakePacket, RetainParked, TakeControl, WriteChunk, bufferVars
  <2>. QED BY <1>0, <2>1
<1>3. ASSUME NEW l \in Links, PrepareStandby(l) PROVE ReplayHoldsLock'
  <2>1. /\ UNCHANGED <<locked, task>> /\ up[l] = "unused" /\ serving'[l] = "requested"
        /\ up'[l] = "open"
        /\ \A k \in Links \ {l} : serving'[k] = serving[k]
    BY <1>3 DEF PrepareStandby, bufferVars
  <2>. QED BY SMTT(30), <1>0, <2>1
<1>4. ASSUME NEW l \in Links, AcceptResume(l) \/ RefuseResume(l) PROVE ReplayHoldsLock'
  <2>1. /\ UNCHANGED <<locked, task>> /\ serving[l] = "requested"
        /\ serving'[l] \in {"resumed", "ended"}
        /\ \A k \in Links \ {l} : serving'[k] = serving[k]
    BY <1>4 DEF AcceptResume, RefuseResume
  <2>. QED BY SMTT(30), <1>0, <2>1
<1>5. ASSUME NEW l \in Links, BeginReplay(l) PROVE ReplayHoldsLock'
  <2>1. /\ task' = task /\ serving[l] = "resumed" /\ serving'[l] = "replaying"
        /\ locked = NoLink /\ locked' = l
        /\ \A k \in Links \ {l} : serving'[k] = serving[k]
    BY <1>5 DEF BeginReplay
  <2>. QED BY <1>0, <2>1
<1>6. ASSUME NEW l \in Links, EndReplay(l) PROVE ReplayHoldsLock'
  <2>1. /\ serving[l] = "replaying" /\ serving'[l] = "spawned" /\ locked' = NoLink
        /\ \A k \in Links \ {l} : serving'[k] = serving[k] /\ task'[k] = task[k]
    BY <1>6 DEF EndReplay
  <2>. QED BY SMTT(30), <1>0, <2>1
<1>7. ASSUME NEW l \in Links, Attach(l) \/ ReadError(l) PROVE ReplayHoldsLock'
  <2>1. \A k \in Links : task[k] = "none" => task'[k] = "none"
    <3>1. \E k \in Links : Abort(k)
      BY <1>7 DEF Attach, ReadError
    <3>. QED BY <3>1, AbortProperties
  <2>2. /\ locked' = locked /\ serving[l] \in {"spawned", "reading"}
        /\ serving'[l] \in {"reading", "ended"}
        /\ \A k \in Links \ {l} : serving'[k] = serving[k]
    BY <1>7 DEF Attach, ReadError
  <2>. QED BY SMTT(30), <1>0, <2>1, <2>2
<1>8. \/ UNCHANGED <<serving, locked, task>>
      \/ \E l \in Links :
           \/ ClaimQueue(l) \/ TakePacket(l) \/ RetainParked(l) \/ TakeControl(l)
           \/ WriteChunk(l) \/ PrepareStandby(l) \/ AcceptResume(l) \/ RefuseResume(l)
           \/ BeginReplay(l) \/ EndReplay(l) \/ Attach(l) \/ ReadError(l)
  BY DEF Next, Reply, Writer, Connection, ReplayChunk, RecvAck, RecvFrame, SwitchOver,
         SwitchFails, Break, bufferVars, taskVars
<1>. QED BY <1>1, <1>2, <1>3, <1>4, <1>5, <1>6, <1>7, <1>8

\* Where a reply with a sequence may be.
Kept(s) ==
  \/ s \in DOMAIN sendBuf.chunks \/ Received(s)
  \/ s \in rejected \cup dropped
  \/ \E l \in Links : task[l] = "parked" /\ hand[l] = s

\* A writer that waits for the send buffer retains its chunk, has it rejected,
\* is aborted, or goes on waiting.
LEMMA ParkedStep ==
  ASSUME TypeOK, ReplayHoldsLock, Next, NEW k \in Links, task[k] = "parked"
  PROVE  \/ task'[k] = "parked" /\ hand'[k] = hand[k]
         \/ hand[k] \in dropped' \cup rejected' \cup DOMAIN sendBuf'.chunks
<1>0. /\ hand[k] \in Seqs /\ sent[hand[k] + 1] \in Data /\ IsChunks(sendBuf.chunks)
      /\ task \in [Links -> {"none", "waiting", "idle", "parked", "writing", "ended"}]
      /\ hand \in [Links -> 0 .. MaxNonce]
  <2>1. hand[k] \in 0 .. MaxNonce /\ hand[k] < SendSeq /\ sent[hand[k] + 1] \in Data
    BY DEF TypeOK, HandTypes, TaskTypes
  <2>2. SendSeq \in Nat /\ SendSeq <= MaxNonce /\ MaxNonce \in Nat
    BY ConstantTypes DEF TypeOK, BufferTypes, SendSeq
  <2>. QED BY <2>1, <2>2 DEF Seqs, TypeOK, BufferTypes, TaskTypes
<1>1. CASE UNCHANGED <<task, hand>>
  BY <1>1
<1>2. ASSUME NEW l \in Links, ClaimQueue(l) \/ TakePacket(l) \/ TakeControl(l) \/ WriteChunk(l)
      PROVE  task'[k] = task[k] /\ hand'[k] = hand[k]
  <2>1. l # k
    BY <1>2 DEF ClaimQueue, TakePacket, TakeControl, WriteChunk
  <2>2. /\ hand' = hand \/ \E h : hand' = [hand EXCEPT ![l] = h]
        /\ \E t : task' = [task EXCEPT ![l] = t]
    BY <1>2 DEF ClaimQueue, TakePacket, TakeControl, WriteChunk
  <2>. QED BY <1>0, <2>1, <2>2
<1>3. ASSUME NEW l \in Links, EndReplay(l)
      PROVE  task'[k] = task[k] /\ hand'[k] = hand[k]
  BY <1>0, <1>3 DEF EndReplay, ReplayHoldsLock
<1>4. ASSUME NEW l \in Links, RetainParked(l)
      PROVE  \/ task'[k] = "parked" /\ hand'[k] = hand[k]
             \/ hand[k] \in dropped' \cup rejected' \cup DOMAIN sendBuf'.chunks
  <2>1. CASE l # k
    BY <1>0, <1>4, <2>1 DEF RetainParked
  <2>2. CASE l = k
    <3>1. /\ sendBuf' = Push(sendBuf, hand[k], sent[hand[k] + 1])
          /\ Rejects(sendBuf, sent[hand[k] + 1]) => hand[k] \in rejected'
      BY <1>4, <2>2 DEF RetainParked, Retain
    <3>2. CASE ~Rejects(sendBuf, sent[hand[k] + 1])
      <4>1. sendBuf'.chunks = Insert(sendBuf.chunks, hand[k], sent[hand[k] + 1])
        BY <1>0, <3>1, <3>2, PushProperties
      <4>. QED BY <4>1 DEF Insert
    <3>. QED BY <3>1, <3>2
  <2>. QED BY <2>1, <2>2
<1>5. ASSUME NEW l \in Links, Attach(l) \/ ReadError(l)
      PROVE  \/ task'[k] = "parked" /\ hand'[k] = hand[k]
             \/ hand[k] \in dropped'
  <2>1. PICK m \in Links : Abort(m)
    BY <1>5 DEF TypeOK, TaskTypes, Attach, ReadError
  <2>2. hand' = hand
    BY <1>5 DEF Attach, ReadError
  <2>. QED BY <1>0, <2>1, <2>2, AbortProperties DEF TypeOK
<1>6. \/ UNCHANGED <<task, hand>>
      \/ \E l \in Links :
           \/ ClaimQueue(l) \/ TakePacket(l) \/ RetainParked(l) \/ TakeControl(l)
           \/ WriteChunk(l) \/ EndReplay(l) \/ Attach(l) \/ ReadError(l)
  BY DEF Next, Reply, Writer, Connection, AcceptResume, RefuseResume, BeginReplay, ReplayChunk,
         RecvAck, RecvFrame, PrepareStandby, SwitchOver, SwitchFails, Break, taskVars
<1>. QED BY <1>1, <1>2, <1>3, <1>4, <1>5, <1>6

\* What is kept stays kept: acknowledgements release only what the client has
\* received, and an abort is recorded.
LEMMA KeptStep ==
  ASSUME TypeOK, ReplayHoldsLock, AcksClaimReceived, Next, NEW s \in Seqs, Kept(s),
         Received(s) => Received(s)'
  PROVE  Kept(s)'
<1>1. rejected \subseteq rejected' /\ dropped \subseteq dropped'
  <2>1. rejected \subseteq rejected'
    BY RetentionSteps
  <2>2. CASE dropped' = dropped
    BY <2>1, <2>2
  <2>3. ASSUME NEW l \in Links, Attach(l) \/ ReadError(l) PROVE dropped \subseteq dropped'
    BY <2>3 DEF Attach, ReadError, Abort
  <2>4. dropped' = dropped \/ \E l \in Links : Attach(l) \/ ReadError(l)
    BY DEF Next, Reply, Writer, Connection, ClaimQueue, TakePacket, RetainParked, TakeControl,
           WriteChunk, AcceptResume, RefuseResume, BeginReplay, ReplayChunk, EndReplay, RecvAck,
           RecvFrame, PrepareStandby, SwitchOver, SwitchFails, Break, bufferVars
  <2>. QED BY <2>1, <2>2, <2>3, <2>4
<1>2. ASSUME s \in DOMAIN sendBuf.chunks
      PROVE  s \in DOMAIN sendBuf'.chunks \/ Received(s)
  <2>1. CASE UNCHANGED <<sendBuf, rejected>>
    BY <1>2, <2>1
  <2>2. ASSUME NEW t \in Seqs, sent'[t + 1] \in Data, sendBuf' = Push(sendBuf, t, sent'[t + 1])
        PROVE  s \in DOMAIN sendBuf'.chunks
    <3>1. IsChunks(sendBuf.chunks)
      BY DEF TypeOK, BufferTypes
    <3>2. \/ sendBuf' = sendBuf
          \/ sendBuf'.chunks = Insert(sendBuf.chunks, t, sent'[t + 1])
      BY <2>2, <3>1, PushProperties
    <3>. QED BY <1>2, <3>2 DEF Insert
  <2>3. ASSUME NEW ack \in Ack, ClaimsReceived(ack), sendBuf' = ApplyAck(sendBuf, ack)
        PROVE  s \in DOMAIN sendBuf'.chunks \/ Received(s)
    BY <1>2, <2>3, ReleaseProperties
  <2>. QED BY <2>1, <2>2, <2>3, RetentionSteps
<1>3. ASSUME NEW k \in Links, task[k] = "parked", hand[k] = s
      PROVE  Kept(s)'
  BY <1>3, ParkedStep DEF Kept
<1>4. CASE s \in DOMAIN sendBuf.chunks
  BY <1>2, <1>4 DEF Kept
<1>5. CASE Received(s) \/ s \in rejected \cup dropped
  BY <1>1, <1>5 DEF Kept
<1>. QED BY <1>3, <1>4, <1>5 DEF Kept

\* No step of the server, the client or the network breaks the invariant,
\* conjunct by conjunct.
LEMMA ReplyStep == ReplyInv /\ [Next]_vars => ReplyInv'
<1>. SUFFICES ASSUME ReplyInv, Next PROVE ReplyInv'
  <2>1. ASSUME ReplyInv, UNCHANGED vars PROVE ReplyInv'
    BY <2>1, TypeStep
    DEF vars, bufferVars, taskVars, linkVars, switchVars, recvVars, ReplyInv, ReplayHoldsLock,
        FramesCarrySent, BuffersHoldSent, DeliveredIsSent, AcceptedIsSent, AcksClaimReceived,
        ClaimsReceived, RetainedUnlessDropped, Received, ChunkOf, SendSeq
  <2>. QED BY <2>1
<1>0. /\ TypeOK /\ ReplayHoldsLock /\ FramesCarrySent /\ BuffersHoldSent
      /\ DeliveredIsSent /\ AcceptedIsSent /\ AcksClaimReceived /\ RetainedUnlessDropped
  BY DEF ReplyInv
<1>1. TypeOK' /\ ReplayHoldsLock'
  BY <1>0, TypeStep, LockStep
<1>2. /\ SendSeq \in Nat /\ SendSeq' \in Nat /\ SendSeq <= SendSeq'
      /\ \A i \in 1 .. SendSeq : sent'[i] = sent[i]
  BY <1>0, SentMonotone DEF TypeOK
<1>3. /\ recvBuf.next <= recvBuf'.next /\ \A s \in Nat : Received(s) => Received(s)'
      /\ recvBuf.next \in Nat /\ recvBuf'.next \in Nat
  BY <1>0, <1>1, ReceivedMonotone DEF TypeOK, ClientTypes
<1>4. FramesCarrySent'
  <2>. SUFFICES ASSUME NEW k \in Links, NEW i \in 1 .. Len(down'[k])
                PROVE  ChunkOf(down[k][i])'
    BY DEF FramesCarrySent
  <2>1. ASSUME NEW j \in 1 .. Len(down[k]), down'[k][i] = down[k][j]
        PROVE  ChunkOf(down[k][i])'
    <3>1. down[k][j] \in Frame
      BY <1>0 DEF TypeOK, LinkTypes
    <3>2. ChunkOf(down[k][j])
      BY <1>0 DEF FramesCarrySent
    <3>. QED BY <1>2, <2>1, <3>1, <3>2 DEF ChunkOf, Frame, Seqs
  <2>2. ASSUME NEW l \in Links, task[l] = "writing",
               down'[k][i] = [seq |-> hand[l], data |-> sent[hand[l] + 1]]
        PROVE  ChunkOf(down[k][i])'
    <3>1. hand[l] \in Nat /\ hand[l] < SendSeq
      BY <1>0, <2>2 DEF TypeOK, TaskTypes, HandTypes
    <3>. QED BY <1>2, <2>2, <3>1 DEF ChunkOf
  <2>3. ASSUME NEW s \in DOMAIN sendBuf.chunks,
               down'[k][i] = [seq |-> s, data |-> sendBuf.chunks[s]]
        PROVE  ChunkOf(down[k][i])'
    <3>1. s \in Nat /\ s < SendSeq /\ sendBuf.chunks[s] = sent[s + 1]
      BY <1>0 DEF TypeOK, BufferTypes, IsChunks, Seqs, BuffersHoldSent
    <3>. QED BY <1>2, <2>3, <3>1 DEF ChunkOf
  <2>. QED BY <1>0, <2>1, <2>2, <2>3, FrameSteps
<1>5. BuffersHoldSent'
  <2>1. \A s \in DOMAIN sendBuf'.chunks : s < SendSeq' /\ sendBuf'.chunks[s] = sent'[s + 1]
    <3>0. IsChunks(sendBuf.chunks) /\ DOMAIN sendBuf.chunks \subseteq Nat
      BY <1>0 DEF TypeOK, BufferTypes, IsChunks, Seqs
    <3>1. \A s \in DOMAIN sendBuf.chunks : s < SendSeq' /\ sendBuf.chunks[s] = sent'[s + 1]
      BY <1>0, <1>2, <3>0 DEF BuffersHoldSent
    <3>2. CASE sendBuf' = sendBuf
      BY <3>1, <3>2
    <3>3. ASSUME NEW t \in Seqs, t < SendSeq', sent'[t + 1] \in Data,
                 sendBuf' = Push(sendBuf, t, sent'[t + 1])
          PROVE  \A s \in DOMAIN sendBuf'.chunks : s < SendSeq' /\ sendBuf'.chunks[s] = sent'[s + 1]
      <4>1. CASE Rejects(sendBuf, sent'[t + 1])
        BY <3>0, <3>1, <3>3, <4>1, PushProperties
      <4>2. CASE ~Rejects(sendBuf, sent'[t + 1])
        <5>1. sendBuf'.chunks = Insert(sendBuf.chunks, t, sent'[t + 1])
          BY <3>0, <3>3, <4>2, PushProperties
        <5>. QED BY <3>1, <3>3, <5>1 DEF Insert
      <4>. QED BY <4>1, <4>2
    <3>4. ASSUME NEW ack \in Ack, ClaimsReceived(ack), sendBuf' = ApplyAck(sendBuf, ack)
          PROVE  \A s \in DOMAIN sendBuf'.chunks : s < SendSeq' /\ sendBuf'.chunks[s] = sent'[s + 1]
      BY <1>0, <3>1, <3>4, ReleaseProperties
    <3>. QED BY <1>0, <3>2, <3>3, <3>4, RetentionSteps
  <2>2. \A s \in DOMAIN recvBuf'.pending : s < SendSeq' /\ recvBuf'.pending[s] = sent'[s + 1]
    <3>0. DOMAIN recvBuf.pending \subseteq Nat
      BY <1>0 DEF TypeOK, ClientTypes, IsChunks, Seqs
    <3>1. CASE recvBuf' = recvBuf
      BY <1>0, <1>2, <3>0, <3>1 DEF BuffersHoldSent
    <3>2. CASE RecvAccepts
      <4>1. PICK seq \in Seqs :
              /\ seq < SendSeq
              /\ \A s \in DOMAIN recvBuf'.pending : recvBuf'.pending[s] = sent[s + 1]
              /\ DOMAIN recvBuf'.pending \subseteq DOMAIN recvBuf.pending \cup {seq}
        BY <1>0, <3>2, RecvAcceptsProperties
      <4>2. \A s \in DOMAIN recvBuf'.pending : s \in Nat /\ s < SendSeq
        BY <1>0, <3>0, <4>1 DEF BuffersHoldSent, Seqs
      <4>. QED BY <1>2, <4>1, <4>2
    <3>. QED BY <3>1, <3>2, ReceiverSteps
  <2>. QED BY <2>1, <2>2 DEF BuffersHoldSent
<1>6. DeliveredIsSent'
  <2>1. CASE UNCHANGED <<recvBuf, delivered>>
    BY <1>0, <1>2, <1>3, <2>1 DEF DeliveredIsSent
  <2>2. CASE RecvAccepts
    <3>1. PICK seq \in Seqs, r \in Seq(Data) :
            /\ seq < SendSeq
            /\ recvBuf'.next \in recvBuf.next .. MaxNonce
            /\ \A s \in recvBuf.next .. (recvBuf'.next - 1) : s \in DOMAIN recvBuf.pending \cup {seq}
            /\ delivered' = delivered \o r
            /\ Len(r) = recvBuf'.next - recvBuf.next
            /\ \A i \in 1 .. Len(r) : r[i] = sent[recvBuf.next + i]
      BY <1>0, <2>2, RecvAcceptsProperties
    <3>2. /\ delivered \in Seq(Data) /\ Len(delivered) = recvBuf.next /\ recvBuf.next <= SendSeq
          /\ \A i \in 1 .. Len(delivered) : delivered[i] = sent[i]
      BY <1>0 DEF TypeOK, ClientTypes, DeliveredIsSent
    <3>3. /\ Len(delivered') = Len(delivered) + Len(r)
          /\ \A i \in 1 .. Len(delivered') :
               delivered'[i] = IF i <= Len(delivered) THEN delivered[i] ELSE r[i - Len(delivered)]
      BY <3>1, <3>2, ConcatProperties
    <3>4. recvBuf'.next <= SendSeq
      <4>1. CASE recvBuf'.next = recvBuf.next
        BY <3>2, <4>1
      <4>2. CASE recvBuf'.next # recvBuf.next
        <5>0. recvBuf'.next - 1 \in recvBuf.next .. (recvBuf'.next - 1)
          BY <1>3, <4>2
        <5>1. recvBuf'.next - 1 \in DOMAIN recvBuf.pending \cup {seq}
          BY <3>1, <5>0
        <5>2. recvBuf'.next - 1 < SendSeq
          BY <1>0, <3>1, <5>1 DEF BuffersHoldSent
        <5>. QED BY <1>2, <1>3, <5>2
      <4>. QED BY <4>1, <4>2
    <3>5. \A i \in 1 .. Len(delivered') : delivered'[i] = sent[i]
      <4>. SUFFICES ASSUME NEW i \in 1 .. Len(delivered') PROVE delivered'[i] = sent[i]
        OBVIOUS
      <4>1. CASE i <= Len(delivered)
        BY <1>3, <3>2, <3>3, <4>1
      <4>2. CASE ~(i <= Len(delivered))
        <5>1. i - Len(delivered) \in 1 .. Len(r) /\ recvBuf.next + (i - Len(delivered)) = i
          BY <1>3, <3>1, <3>2, <3>3, <4>2
        <5>2. delivered'[i] = r[i - Len(delivered)]
          BY <3>3, <4>2
        <5>. QED BY <3>1, <5>1, <5>2
      <4>. QED BY <4>1, <4>2
    <3>. QED BY SMTT(30), <1>2, <1>3, <3>1, <3>2, <3>3, <3>4, <3>5 DEF DeliveredIsSent
  <2>. QED BY <2>1, <2>2, ReceiverSteps
<1>7. AcceptedIsSent'
  <2>1. CASE UNCHANGED <<accepted, sent>>
    BY <1>0, <2>1 DEF AcceptedIsSent, SendSeq
  <2>2. ASSUME NEW l \in Links, TakePacket(l) PROVE AcceptedIsSent'
    <3>1. PICK d \in Data : /\ sent \in Seq(Contents) /\ accepted \in Seq(Data) /\ d \in Contents
                            /\ sent' = Append(sent, d) /\ accepted' = Append(accepted, d)
      BY <1>0, <2>2, HeadTailProperties DEF TypeOK, BufferTypes, TakePacket, Contents
    <3>2. /\ Len(sent') = Len(sent) + 1 /\ Len(accepted') = Len(accepted) + 1
          /\ Len(sent) \in Nat /\ Len(accepted) \in Nat
          /\ sent'[Len(sent) + 1] = d /\ accepted'[Len(accepted) + 1] = d
          /\ \A i \in 1 .. Len(sent) : sent'[i] = sent[i]
          /\ \A i \in 1 .. Len(accepted) : accepted'[i] = accepted[i]
      BY <3>1
    <3>3. Len(accepted) <= Len(sent)
      BY <1>0 DEF AcceptedIsSent, SendSeq
    <3>. SUFFICES ASSUME NEW n \in 0 .. Len(sent'), \A i \in 1 .. n : sent'[i] \in Data
                  PROVE  n <= Len(accepted') /\ \A i \in 1 .. n : accepted'[i] = sent'[i]
      <4>1. Len(accepted') <= Len(sent')
        BY <3>2, <3>3
      <4>. QED BY <4>1 DEF AcceptedIsSent, SendSeq
    <3>4. ASSUME NEW m \in 0 .. Len(sent), m <= n
          PROVE  m <= Len(accepted) /\ \A i \in 1 .. m : accepted[i] = sent[i]
      <4>1. \A i \in 1 .. m : sent[i] \in Data
        BY <3>2, <3>4
      <4>. QED BY <1>0, <4>1 DEF AcceptedIsSent, SendSeq
    <3>5. CASE n <= Len(sent)
      <4>1. n \in 0 .. Len(sent)
        BY <3>2, <3>5
      <4>. QED BY <3>2, <3>4, <4>1
    <3>6. CASE n = Len(sent) + 1
      <4>1. /\ Len(sent) <= Len(accepted)
            /\ \A i \in 1 .. Len(sent) : accepted[i] = sent[i]
        BY <3>2, <3>4, <3>6
      <4>2. Len(accepted) = Len(sent)
        BY <3>2, <3>3, <4>1
      <4>. QED BY <3>2, <3>6, <4>1, <4>2
    <3>. QED BY <3>2, <3>5, <3>6
  <2>3. ASSUME NEW l \in Links, TakeControl(l) PROVE AcceptedIsSent'
    <3>1. /\ sent \in Seq(Contents) /\ accepted \in Seq(Data)
          /\ sent' = Append(sent, Control) /\ accepted' = accepted
      BY <1>0, <2>3 DEF TypeOK, BufferTypes, TakeControl
    <3>2. /\ Len(sent') = Len(sent) + 1 /\ Len(sent) \in Nat /\ Len(accepted) \in Nat
          /\ sent'[Len(sent) + 1] \notin Data
          /\ \A i \in 1 .. Len(sent) : sent'[i] = sent[i]
      BY <3>1, ConstantTypes
    <3>3. Len(accepted) <= Len(sent)
      BY <1>0 DEF AcceptedIsSent, SendSeq
    <3>. SUFFICES ASSUME NEW n \in 0 .. Len(sent'), \A i \in 1 .. n : sent'[i] \in Data
                  PROVE  n <= Len(accepted) /\ \A i \in 1 .. n : accepted[i] = sent'[i]
      BY <3>1, <3>2, <3>3 DEF AcceptedIsSent, SendSeq
    <3>4. n \in 0 .. Len(sent)
      <4>1. n # Len(sent) + 1
        BY <3>2
      <4>. QED BY <3>2, <4>1
    <3>5. \A i \in 1 .. n : sent[i] \in Data
      BY <3>2, <3>4
    <3>. QED BY <1>0, <3>2, <3>4, <3>5 DEF AcceptedIsSent, SendSeq
  <2>. QED BY <2>1, <2>2, <2>3, SenderSteps
<1>8. AcksClaimReceived'
  <2>. SUFFICES ASSUME NEW k \in Links, NEW i \in 1 .. Len(acks'[k])
                PROVE  ClaimsReceived(acks[k][i])'
    BY DEF AcksClaimReceived
  <2>1. ASSUME NEW j \in 1 .. Len(acks[k]), acks'[k][i] = acks[k][j]
        PROVE  ClaimsReceived(acks[k][i])'
    <3>1. acks[k][j] \in Ack /\ ClaimsReceived(acks[k][j])
      BY <1>0 DEF TypeOK, LinkTypes, AcksClaimReceived
    <3>2. ClaimsReceived(acks[k][j]) => /\ acks[k][j].next <= recvBuf'.next
                                        /\ \A r \in acks[k][j].ranges :
                                             \A s \in r.start .. r.end : Received(s)'
      BY <1>3, <3>1 DEF ClaimsReceived, Ack, SackRange
    <3>. QED BY <2>1, <3>1, <3>2 DEF ClaimsReceived
  <2>2. ASSUME acks'[k][i] = BuildAck(recvBuf')
        PROVE  ClaimsReceived(acks[k][i])'
    <3>1. /\ BuildAck(recvBuf').next = recvBuf'.next
          /\ \A q \in BuildAck(recvBuf').ranges : q.start .. q.end \subseteq DOMAIN recvBuf'.pending
      BY <1>1, BuildAckProperties DEF TypeOK, ClientTypes
    <3>. QED BY <1>3, <2>2, <3>1 DEF ClaimsReceived, Received
  <2>. QED BY <1>0, <2>1, <2>2, AckSteps
<1>9. RetainedUnlessDropped'
  <2>1. ASSUME NEW s \in 0 .. (SendSeq - 1), sent[s + 1] \in Data
        PROVE  Kept(s)'
    <3>1. Kept(s) /\ s \in Seqs
      <4>1. SendSeq <= MaxNonce
        BY <1>0 DEF TypeOK, BufferTypes
      <4>. QED BY <1>0, <1>2, <2>1, <4>1, ConstantTypes DEF RetainedUnlessDropped, Kept, Seqs
    <3>. QED BY <1>0, <1>3, <2>1, <3>1, KeptStep
  <2>2. ASSUME NEW s \in 0 .. (SendSeq' - 1), s \notin 0 .. (SendSeq - 1), sent'[s + 1] \in Data
        PROVE  Kept(s)'
    <3>1. s = SendSeq /\ s \in Nat
      <4>1. SendSeq' = SendSeq \/ SendSeq' = SendSeq + 1
        <5>1. sent' = sent \/ \E c \in Contents : sent' = Append(sent, c)
          BY <1>0, SenderSteps, HeadTailProperties
          DEF TypeOK, BufferTypes, TakePacket, TakeControl, Contents
        <5>2. sent \in Seq(Contents)
          BY <1>0 DEF TypeOK, BufferTypes
        <5>. QED BY <5>1, <5>2 DEF SendSeq
      <4>2. \A n \in Nat, m \in Nat : (m = n \/ m = n + 1) =>
              \A i \in 0 .. (m - 1) : i \notin 0 .. (n - 1) => i = n
        OBVIOUS
      <4>. QED BY <1>2, <2>2, <4>1, <4>2
    <3>2. PICK l \in Links : TakePacket(l) \/ TakeControl(l)
      BY <1>2, <2>2, SenderSteps DEF SendSeq
    <3>3. CASE TakePacket(l)
      <4>1. task'[l] = "parked" /\ hand'[l] = s
        BY <1>0, <3>1, <3>3 DEF TypeOK, TaskTypes, TakePacket
      <4>. QED BY <4>1 DEF Kept
    <3>4. CASE TakeControl(l)
      <4>1. sent' = Append(sent, Control) /\ sent \in Seq(Contents)
        BY <1>0, <3>4 DEF TypeOK, BufferTypes, TakeControl
      <4>2. sent'[s + 1] = Control
        BY <3>1, <4>1 DEF SendSeq
      <4>. QED BY <2>2, <4>2, ConstantTypes
    <3>. QED BY <3>2, <3>3, <3>4
  <2>3. ASSUME NEW s \in 0 .. (SendSeq - 1) PROVE sent'[s + 1] = sent[s + 1]
    BY <1>2
  <2>4. \A s \in 0 .. (SendSeq' - 1) : sent'[s + 1] \in Data => Kept(s)'
    <3>. SUFFICES ASSUME NEW s \in 0 .. (SendSeq' - 1), sent'[s + 1] \in Data
                  PROVE  Kept(s)'
      OBVIOUS
    <3>1. CASE s \in 0 .. (SendSeq - 1)
      BY <2>1, <2>3, <3>1
    <3>. QED BY <2>2, <3>1
  <2>. QED BY <2>4 DEF RetainedUnlessDropped, Kept
<1>. QED BY <1>1, <1>4, <1>5, <1>6, <1>7, <1>8, <1>9 DEF ReplyInv

\* The strengthening of the order and retention properties.
THEOREM ReplyInvariant == Spec => []ReplyInv
BY ReplyInit, ReplyStep, PTL DEF Spec

\* Of the writer task and attach(): a reply that was given a sequence is with a
\* writer that waits for the send buffer, or retained until the client holds
\* it, or was rejected by a full buffer, or lost with a writer aborted there.
THEOREM RetainedUnlessDroppedAlways == Spec => []RetainedUnlessDropped
<1>1. ReplyInv => RetainedUnlessDropped
  BY DEF ReplyInv
<1>. QED BY <1>1, ReplyInvariant, PTL

\* The acknowledgement the client builds after each accepted chunk is one that
\* the server's decoder accepts.
THEOREM AcksDecodableAlways == Spec => []AcksDecodable
<1>1. Init => AcksDecodable
  BY DEF Init, AcksDecodable
<1>2. TypeOK /\ AcksDecodable /\ [Next]_vars => AcksDecodable'
  <2>. SUFFICES ASSUME TypeOK, AcksDecodable, Next PROVE AcksDecodable'
    BY DEF vars, linkVars, AcksDecodable
  <2>. SUFFICES ASSUME NEW k \in Links, NEW i \in 1 .. Len(acks'[k])
                PROVE  Decodable(acks'[k][i])
    BY DEF AcksDecodable
  <2>1. Decodable(BuildAck(recvBuf'))
    BY TypeStep, BuildAckDecodable DEF TypeOK, ClientTypes
  <2>. QED BY <2>1, AckSteps DEF AcksDecodable
<1>. QED BY <1>1, <1>2, TypeCorrect, PTL DEF Spec

-----------------------------------------------------------------------------
(* The byte counters.                                                      *)

\* Both counters of a session's replies are exact and within their bounds,
\* except for one oversized chunk.
CountersExact == SendCounterExact(sendBuf) /\ RecvCounterExact(recvBuf)

\* Of the byte counters of the server's send buffer and of the client's
\* receive buffer: they stay exact although writers, replays and readers of
\* several connections take turns at the lock.
THEOREM CountersExactAlways == Spec => []CountersExact
<1>1. Init => CountersExact
  BY EmptyCountersExact DEF Init, CountersExact
<1>2. ReplyInv /\ CountersExact /\ [Next]_vars => CountersExact'
  <2>. SUFFICES ASSUME ReplyInv, CountersExact, [Next]_vars PROVE CountersExact'
    OBVIOUS
  <2>0. /\ TypeOK /\ AcksClaimReceived /\ IsChunks(sendBuf.chunks)
        /\ recvBuf.next \in 0 .. MaxNonce /\ IsChunks(recvBuf.pending)
    BY DEF ReplyInv, TypeOK, BufferTypes, ClientTypes
  <2>1. SendCounterExact(sendBuf')
    <3>1. CASE sendBuf' = sendBuf
      BY <3>1 DEF CountersExact
    <3>2. CASE Next
      BY <2>0, <3>1, <3>2, RetentionSteps, PushKeepsCounter, AckKeepsCounter DEF CountersExact
    <3>. QED BY <3>1, <3>2 DEF vars, bufferVars
  <2>2. RecvCounterExact(recvBuf')
    <3>1. CASE recvBuf' = recvBuf
      BY <3>1 DEF CountersExact
    <3>2. ASSUME RecvAccepts PROVE RecvCounterExact(recvBuf')
      <4>. DEFINE f == Head(down[active])
      <4>1. /\ f.data \in Data /\ Accepts(recvBuf, f.seq, f.data) /\ down[active] # <<>>
            /\ recvBuf' = Accept(recvBuf, f.seq, f.data)
        BY <3>2 DEF RecvAccepts, RecvFrame
      <4>2. f \in Frame
        BY <2>0, <4>1, HeadTailProperties DEF TypeOK, LinkTypes, ClientTypes
      <4>. QED BY <2>0, <4>1, <4>2, AcceptKeepsCounter DEF Frame, CountersExact
    <3>. QED BY <3>1, <3>2, ReceiverSteps DEF vars, recvVars
  <2>. QED BY <2>1, <2>2 DEF CountersExact
<1>. QED BY <1>1, <1>2, ReplyInvariant, PTL DEF Spec

-----------------------------------------------------------------------------
(* The refinement.                                                         *)

\* The initial state maps to the initial state of ReliablePipe: nothing has
\* been taken from the queue and nothing has come out.
LEMMA PipeInit == Init => Pipe!Init
BY DEF Init, Pipe!Init

\* What the client delivers is a prefix of what the writers took.
LEMMA DeliveredInOrder ==
  ASSUME ReplyInv
  PROVE  /\ Len(delivered) <= Len(accepted)
         /\ \A i \in 1 .. Len(delivered) : delivered[i] = accepted[i]
<1>1. /\ delivered \in Seq(Data) /\ Len(delivered) \in Nat /\ Len(delivered) <= SendSeq
      /\ \A i \in 1 .. Len(delivered) : delivered[i] = sent[i]
  BY DEF ReplyInv, TypeOK, ClientTypes, DeliveredIsSent
<1>2. \A i \in 1 .. Len(delivered) : sent[i] \in Data
  BY <1>1, ElementOfSeq
<1>3. Len(delivered) \in 0 .. SendSeq
  BY <1>1 DEF SendSeq, ReplyInv, TypeOK, BufferTypes
<1>4. Len(delivered) <= Len(accepted) /\ \A i \in 1 .. Len(delivered) : accepted[i] = sent[i]
  BY <1>2, <1>3 DEF ReplyInv, AcceptedIsSent
<1>. QED BY <1>1, <1>4

\* A packet taken is a Put, an acceptance that drains is a Deliver, and every
\* other step stutters.
LEMMA PipeStep ==
  ASSUME ReplyInv, ReplyInv', [Next]_vars
  PROVE  [Pipe!Next]_(Pipe!pipeVars)
<1>1. CASE UNCHANGED <<accepted, delivered>>
  BY <1>1 DEF Pipe!pipeVars
<1>2. ASSUME NEW l \in Links, TakePacket(l) PROVE Pipe!Next
  <2>1. Head(queue) \in Data
    BY <1>2, HeadTailProperties DEF TakePacket, ReplyInv, TypeOK, BufferTypes
  <2>2. accepted' = Append(accepted, Head(queue)) /\ delivered' = delivered
    BY <1>2 DEF TakePacket, recvVars
  <2>. QED BY <2>1, <2>2 DEF Pipe!Next, Pipe!Put
<1>3. CASE RecvAccepts
  <2>1. accepted' = accepted /\ accepted \in Seq(Data) /\ delivered' \in Seq(Data)
        /\ delivered \in Seq(Data)
    BY <1>3 DEF RecvAccepts, RecvFrame, bufferVars, ReplyInv, TypeOK, BufferTypes, ClientTypes
  <2>2. /\ Len(delivered') <= Len(accepted)
        /\ \A i \in 1 .. Len(delivered') : delivered'[i] = accepted[i]
    <3>1. (/\ Len(delivered) <= Len(accepted)
           /\ \A i \in 1 .. Len(delivered) : delivered[i] = accepted[i])'
      BY DeliveredInOrder, PTL
    <3>. QED BY <2>1, <3>1
  <2>3. delivered' = SubSeq(accepted, 1, Len(delivered'))
    BY <2>1, <2>2
  <2>4. \E r \in Seq(Data) : delivered' = delivered \o r
    BY <1>3, RecvAcceptsProperties DEF ReplyInv
  <2>5. PICK r \in Seq(Data) : delivered' = delivered \o r
    BY <2>4
  <2>6. CASE r = <<>>
    BY <2>1, <2>5, <2>6 DEF Pipe!pipeVars
  <2>7. CASE r # <<>>
    <3>1. Len(delivered') > Len(delivered) /\ Len(delivered') \in 1 .. Len(accepted)
      BY <2>1, <2>2, <2>5, <2>7, ConcatProperties, EmptySeq
    <3>. QED BY <2>1, <2>3, <3>1 DEF Pipe!Next, Pipe!Deliver
  <2>. QED BY <2>6, <2>7
<1>4. \/ UNCHANGED <<accepted, delivered>>
      \/ \E l \in Links : TakePacket(l)
      \/ RecvAccepts
  <2>1. CASE UNCHANGED vars
    BY <2>1 DEF vars, bufferVars, recvVars
  <2>2. CASE Next
    BY <2>2, SenderSteps, ReceiverSteps DEF TakeControl, recvVars
  <2>. QED BY <2>1, <2>2
<1>. QED BY <1>1, <1>2, <1>3, <1>4

\* Downlink implements ReliablePipe: replies reach the TUN device of the
\* client in the order the writers took them, each once, whatever connections
\* replay, evict each other or break.
THEOREM PipeImplemented == Spec => ImplementsPipe
BY PipeInit, PipeStep, ReplyInvariant, PTL DEF Spec, ImplementsPipe, Pipe!Spec
=============================================================================
