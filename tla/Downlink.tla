------------------------------- MODULE Downlink -------------------------------
(***************************************************************************)
(* Server-to-client traffic of one kanrin session across transport         *)
(* switches.  The server is accept_resume and ClientSession::serve of      *)
(* session.rs: the replay under the lock of the send buffer, the writer    *)
(* task that owns the reply queue, the attachment that aborts its          *)
(* predecessor, and the reader that applies the client's                   *)
(* acknowledgements.  The client is the select! loop of pipeline.rs.  The  *)
(* other direction, and what the switch does to it, is Uplink; the         *)
(* connections are links as there.                                         *)
(*                                                                         *)
(* An operator whose name starts with Bad is a plausible mistake in the    *)
(* operator that follows it.  No definition of the model uses one.         *)
(***************************************************************************)
EXTENDS ContinuityBuffers

CONSTANTS
  Control,      \* the content of a control chunk (an ack of the uplink, a pong)
  MaxControl,   \* control chunks the server sends (bounds the model)
  MaxLinks,     \* connections opened over the session's life (bounds the model)
  FaultFree,    \* the link the liveness properties may rely on, or 0 for none
  AckEvery      \* ACK_EVERY_N_CHUNKS of the client

ASSUME DownlinkAssumption ==
  /\ Control \notin Data
  /\ {MaxControl, AckEvery} \subseteq Nat
  /\ MaxLinks \in Nat \ {0}
  /\ FaultFree \in 0 .. MaxLinks

Links == 1 .. MaxLinks
NoLink == 0

VARIABLES
  queue,      \* reply_rx: packets of the dispatcher not yet taken
  accepted,   \* history: the packets taken from the queue and encrypted, in order
  sent,       \* history: sent[s + 1] is what was encrypted under sequence s
  sendBuf,    \* the entry's SendBuffer
  rejected,   \* history: sequences of the chunks the send buffer rejected
  dropped,    \* history: sequences whose writer was aborted before it retained them
  raced,      \* history: whether a chunk was retained between the replay of
              \* another connection and its attachment
  locked,     \* the link whose replay holds the lock of the send buffer
  serving,    \* serving[l]: how far the server's task for link l has come
  cursor,     \* cursor[l]: Replay::next of that task
  task,       \* task[l]: the state of the writer task of link l
  hand,       \* hand[l]: the sequence of the chunk that task is sending
  attached,   \* the link whose writer SessionEntry::attached aborts next
  up,         \* up[l]: state of link l
  down,       \* down[l]: chunks in flight from server to client
  acks,       \* acks[l]: acknowledgements in flight from client to server
  active,     \* the link of `connection`
  draining,   \* the link just switched away from, not closed yet
  standby,    \* the link being prepared, NoLink while in select!
  recvBuf,    \* the client's ReceiveBuffer
  delivered,  \* history: the packets written to the TUN device, in order
  unacked     \* unacked_chunks of the client

bufferVars == <<queue, accepted, sent, sendBuf, rejected, dropped, raced, locked>>
taskVars   == <<serving, cursor, task, hand, attached>>
linkVars   == <<up, down, acks>>
switchVars == <<active, draining, standby>>
recvVars   == <<recvBuf, delivered, unacked>>
vars == <<bufferVars, taskVars, linkVars, switchVars, recvVars>>

SendSeq == Len(sent)

\* The client reads the link it uses, and will read the one it prepares.
Send(l, f) ==
  down' = IF up[l] = "open" /\ l \in {active, standby} THEN [down EXCEPT ![l] = Append(@, f)] ELSE down

Closed(L) == [l \in Links |-> IF l \in L /\ up[l] = "open" THEN "broken" ELSE up[l]]

Init ==
  /\ queue = <<>> /\ accepted = <<>> /\ sent = <<>>
  /\ sendBuf = EmptySendBuffer /\ rejected = {} /\ dropped = {}
  /\ raced = FALSE /\ locked = NoLink
  /\ serving = [l \in Links |-> IF l = 1 THEN "reading" ELSE "none"]
  /\ cursor = [l \in Links |-> 0]
  /\ task = [l \in Links |-> IF l = 1 THEN "waiting" ELSE "none"]
  /\ hand = [l \in Links |-> 0]
  /\ attached = 1
  /\ up = [l \in Links |-> IF l = 1 THEN "open" ELSE "unused"]
  /\ down = [l \in Links |-> <<>>] /\ acks = [l \in Links |-> <<>>]
  /\ active = 1 /\ draining = NoLink /\ standby = NoLink
  /\ recvBuf = EmptyReceiveBuffer /\ delivered = <<>> /\ unacked = 0

-----------------------------------------------------------------------------
(* The writer task.                                                        *)

\* The dispatcher queues a reply packet; the queue itself is unbounded.
Reply(d) ==
  /\ SendSeq + Len(queue) < MaxNonce
  /\ queue' = Append(queue, d)
  /\ UNCHANGED <<accepted, sent, sendBuf, rejected, dropped, raced, locked, taskVars, linkVars, switchVars, recvVars>>

\* The task that holds reply_rx keeps it until it ends.
HoldsQueue(l) == task[l] \in {"idle", "parked", "writing"}

ClaimQueue(l) ==
  /\ task[l] = "waiting"
  /\ ~\E k \in Links : HoldsQueue(k)
  /\ task' = [task EXCEPT ![l] = "idle"]
  /\ UNCHANGED <<bufferVars, serving, cursor, hand, attached, linkVars, switchVars, recvVars>>

\* Another connection has replayed, or is replaying, and is not attached yet.
Replaced(l) == \E k \in Links \ {l} : serving[k] \in {"replaying", "spawned"}

Retain(s, d) ==
  /\ sendBuf' = Push(sendBuf, s, d)
  /\ rejected' = IF Rejects(sendBuf, d) THEN rejected \cup {s} ELSE rejected

\* A packet leaves the queue and is encrypted under the next sequence.  Then
\* the task waits for the lock of the send buffer, whoever holds it: a replay,
\* a reader that applies an acknowledgement, or a resumption.
TakePacket(l) ==
  /\ task[l] = "idle" /\ queue # <<>>
  /\ SendSeq < MaxNonce
  /\ queue' = Tail(queue)
  /\ accepted' = Append(accepted, Head(queue))
  /\ sent' = Append(sent, Head(queue))
  /\ hand' = [hand EXCEPT ![l] = SendSeq]
  /\ task' = [task EXCEPT ![l] = "parked"]
  /\ UNCHANGED <<sendBuf, rejected, dropped, raced, locked, serving, cursor, attached,
                 linkVars, switchVars, recvVars>>

RetainParked(l) ==
  /\ task[l] = "parked" /\ locked = NoLink
  /\ Retain(hand[l], sent[hand[l] + 1])
  /\ raced' = (raced \/ Replaced(l))
  /\ task' = [task EXCEPT ![l] = "writing"]
  /\ UNCHANGED <<queue, accepted, sent, dropped, locked, serving, cursor, hand, attached,
                 linkVars, switchVars, recvVars>>

\* An ack or a pong takes a sequence and is not retained.
TakeControl(l) ==
  /\ task[l] = "idle"
  /\ SendSeq < MaxNonce
  /\ Cardinality({i \in DOMAIN sent : sent[i] = Control}) < MaxControl
  /\ sent' = Append(sent, Control)
  /\ hand' = [hand EXCEPT ![l] = SendSeq]
  /\ task' = [task EXCEPT ![l] = "writing"]
  /\ UNCHANGED <<queue, accepted, sendBuf, rejected, dropped, raced, locked, serving, cursor, attached,
                 linkVars, switchVars, recvVars>>

\* On a broken link the write fails, at once or only later.
WriteChunk(l) ==
  /\ task[l] = "writing"
  /\ Send(l, [seq |-> hand[l], data |-> sent[hand[l] + 1]])
  /\ task' \in {[task EXCEPT ![l] = "idle"]}
                \cup (IF up[l] = "open" THEN {} ELSE {[task EXCEPT ![l] = "ended"]})
  /\ UNCHANGED <<bufferVars, serving, cursor, hand, attached, up, acks, switchVars, recvVars>>

\* Aborting a task drops it where it waits: a chunk it parked with is lost,
\* though its sequence is taken, and so may be a packet not encrypted yet.
Abort(l) ==
  /\ task' = [task EXCEPT ![l] = IF @ = "none" THEN @ ELSE "ended"]
  /\ dropped' = dropped \cup {s \in Seqs : task[l] = "parked" /\ s = hand[l]}
  /\ queue' \in {queue} \cup (IF task[l] = "idle" /\ queue # <<>> THEN {Tail(queue)} ELSE {})

-----------------------------------------------------------------------------
(* The task of a connection that resumes the session.                      *)

\* accept_resume: what the client has received is released, and the answer
\* is written.
AcceptResume(l) ==
  /\ serving[l] = "requested" /\ up[l] = "open"
  /\ locked = NoLink
  /\ sendBuf' = ApplyAck(sendBuf, [next |-> recvBuf.next, ranges |-> {}])
  /\ serving' = [serving EXCEPT ![l] = "resumed"]
  /\ UNCHANGED <<queue, accepted, sent, rejected, dropped, raced, locked, cursor, task, hand, attached,
                 linkVars, switchVars, recvVars>>

\* The request is lost, or the answer cannot be written; in the second case
\* what the client has received is released all the same.
RefuseResume(l) ==
  /\ serving[l] = "requested" /\ up[l] = "broken"
  /\ serving' = [serving EXCEPT ![l] = "ended"]
  /\ \/ UNCHANGED sendBuf
     \/ /\ standby = l /\ locked = NoLink
        /\ sendBuf' = ApplyAck(sendBuf, [next |-> recvBuf.next, ranges |-> {}])
  /\ UNCHANGED <<queue, accepted, sent, rejected, dropped, raced, locked, cursor, task, hand, attached,
                 linkVars, switchVars, recvVars>>

BeginReplay(l) ==
  /\ serving[l] = "resumed" /\ locked = NoLink
  /\ locked' = l
  /\ serving' = [serving EXCEPT ![l] = "replaying"]
  /\ cursor' = [cursor EXCEPT ![l] = 0]
  /\ UNCHANGED <<queue, accepted, sent, sendBuf, rejected, dropped, raced, task, hand, attached,
                 linkVars, switchVars, recvVars>>

ReplayChunk(l, s) ==
  /\ serving[l] = "replaying"
  /\ IsNextChunk(sendBuf, cursor[l], s)
  /\ Send(l, [seq |-> s, data |-> sendBuf.chunks[s]])
  /\ cursor' = [cursor EXCEPT ![l] = s + 1]
  /\ UNCHANGED <<bufferVars, serving, task, hand, attached, up, acks, switchVars, recvVars>>

\* The replay is complete, or a write of it failed.  Either way the lock is
\* dropped and the writer task is spawned.
EndReplay(l) ==
  /\ serving[l] = "replaying"
  /\ ReplayComplete(sendBuf, cursor[l]) \/ up[l] = "broken"
  /\ locked' = NoLink
  /\ serving' = [serving EXCEPT ![l] = "spawned"]
  /\ task' = [task EXCEPT ![l] = "waiting"]
  /\ UNCHANGED <<queue, accepted, sent, sendBuf, rejected, dropped, raced, cursor, hand, attached,
                 linkVars, switchVars, recvVars>>

\* attach() aborts the writer attached before.  Attachments are not ordered:
\* an older link's task that comes late evicts the writer of the newer link.
Attach(l) ==
  /\ serving[l] = "spawned"
  /\ serving' = [serving EXCEPT ![l] = "reading"]
  /\ attached' = l
  /\ Abort(attached)
  /\ UNCHANGED <<accepted, sent, sendBuf, rejected, raced, locked, cursor, hand,
                 linkVars, switchVars, recvVars>>

RecvAck(l) ==
  /\ serving[l] = "reading" /\ acks[l] # <<>>
  /\ locked = NoLink
  /\ sendBuf' = ApplyAck(sendBuf, Head(acks[l]))
  /\ acks' = [acks EXCEPT ![l] = Tail(@)]
  /\ UNCHANGED <<queue, accepted, sent, rejected, dropped, raced, locked, taskVars, up, down, switchVars, recvVars>>

\* The reader ends and aborts its own writer.
ReadError(l) ==
  /\ serving[l] = "reading"
  /\ up[l] = "broken" /\ acks[l] = <<>>
  /\ serving' = [serving EXCEPT ![l] = "ended"]
  /\ Abort(l)
  /\ UNCHANGED <<accepted, sent, sendBuf, rejected, raced, locked, cursor, hand, attached,
                 linkVars, switchVars, recvVars>>

-----------------------------------------------------------------------------
(* The client.                                                             *)

\* The chunk counts towards the next acknowledgement, or one is due, by count
\* or by time.  On a broken link it is lost.
Acknowledge ==
  \/ /\ unacked + 1 < AckEvery
     /\ unacked' = unacked + 1
     /\ UNCHANGED acks
  \/ /\ unacked' = 0
     /\ acks' = IF up[active] = "open"
                THEN [acks EXCEPT ![active] = Append(@, BuildAck(recvBuf'))] ELSE acks

\* A frame of the active connection.  Data goes through the receive buffer;
\* a duplicate counts towards the acknowledgement, a chunk for which there is
\* no room does not.
RecvFrame ==
  /\ standby = NoLink
  /\ down[active] # <<>>
  /\ down' = [down EXCEPT ![active] = Tail(@)]
  /\ draining' = NoLink
  /\ up' = Closed({draining})
  /\ LET f == Head(down[active])
     IN  \/ /\ \/ f.data = Control
               \/ f.data \in Data /\ ~IsDuplicate(recvBuf, f.seq)
                                  /\ Overflows(recvBuf, f.seq, f.data)
            /\ UNCHANGED <<acks, recvVars>>
         \/ /\ f.data \in Data
            /\ IsDuplicate(recvBuf, f.seq)
            /\ UNCHANGED <<recvBuf, delivered>>
            /\ Acknowledge
         \/ /\ f.data \in Data
            /\ Accepts(recvBuf, f.seq, f.data)
            /\ recvBuf' = Accept(recvBuf, f.seq, f.data)
            /\ delivered' = delivered \o Ready(recvBuf, f.seq, f.data)
            /\ Acknowledge
  /\ UNCHANGED <<bufferVars, taskVars, active, standby>>

\* A switch: the loop does not read again before it is over.
PrepareStandby(l) ==
  /\ standby = NoLink
  /\ up[l] = "unused" /\ \A k \in Links : k < l => up[k] # "unused"
  /\ standby' = l
  /\ up' = [up EXCEPT ![l] = "open"]
  /\ serving' = [serving EXCEPT ![l] = "requested"]
  /\ UNCHANGED <<bufferVars, cursor, task, hand, attached, down, acks, active, draining, recvVars>>

\* The answer arrived and the uplink was replayed: swap.  What the old link
\* still carries is never read.
SwitchOver ==
  /\ standby # NoLink
  /\ serving[standby] # "requested"
  /\ active' = standby /\ draining' = active /\ standby' = NoLink
  /\ up' = Closed({draining})
  /\ down' = [down EXCEPT ![active] = <<>>]
  /\ UNCHANGED <<bufferVars, taskVars, acks, recvVars>>

\* The resumption or the uplink replay failed: the current link is kept.
SwitchFails ==
  /\ standby # NoLink /\ up[standby] = "broken"
  /\ standby' = NoLink
  /\ UNCHANGED <<bufferVars, taskVars, linkVars, active, draining, recvVars>>

Break(l) ==
  /\ l # FaultFree
  /\ up[l] = "open"
  /\ up' = [up EXCEPT ![l] = "broken"]
  /\ \E i \in 0 .. Len(down[l]) : down' = [down EXCEPT ![l] = SubSeq(@, 1, i)]
  /\ \E j \in 0 .. Len(acks[l]) : acks' = [acks EXCEPT ![l] = SubSeq(@, 1, j)]
  /\ UNCHANGED <<bufferVars, taskVars, switchVars, recvVars>>

-----------------------------------------------------------------------------
Writer(l) ==
  ClaimQueue(l) \/ TakePacket(l) \/ RetainParked(l) \/ TakeControl(l) \/ WriteChunk(l)

Connection(l) ==
  \/ AcceptResume(l) \/ RefuseResume(l) \/ BeginReplay(l)
  \/ \E s \in Seqs : ReplayChunk(l, s)
  \/ EndReplay(l) \/ Attach(l) \/ RecvAck(l) \/ ReadError(l)

Next ==
  \/ \E d \in Data : Reply(d)
  \/ \E l \in Links : Writer(l)
  \/ \E l \in Links : Connection(l)
  \/ RecvFrame
  \/ \E l \in Links : PrepareStandby(l)
  \/ SwitchOver
  \/ SwitchFails
  \/ \E l \in Links : Break(l)

Spec == Init /\ [][Next]_vars

\* The client leaves a link that is broken, or that has gone silent because
\* its writer was evicted or has ended.
Unusable(l) == up[l] = "broken" \/ (serving[l] = "reading" /\ task[l] = "ended")

LeaveUnusable == Unusable(active) /\ \E l \in Links : PrepareStandby(l)

Fairness ==
  /\ \A l \in Links : WF_vars(Writer(l)) /\ WF_vars(Connection(l))
  /\ WF_vars(RecvFrame) /\ WF_vars(LeaveUnusable)
  /\ WF_vars(SwitchOver) /\ WF_vars(SwitchFails)

FairSpec == Spec /\ Fairness

-----------------------------------------------------------------------------
(* Properties.                                                             *)

Contents == Data \cup {Control}
Frame == [seq : Seqs, data : Contents]
SackRange == [start : Nat, end : Nat]
Ack == [next : 0 .. MaxNonce, ranges : SUBSET SackRange]

BufferTypes ==
  /\ queue \in Seq(Data) /\ accepted \in Seq(Data)
  /\ sent \in Seq(Contents) /\ SendSeq <= MaxNonce
  /\ IsChunks(sendBuf.chunks) /\ rejected \cup dropped \subseteq Seqs
  /\ raced \in BOOLEAN
  /\ locked \in Links \cup {NoLink}

TaskTypes ==
  /\ serving \in [Links -> {"none", "requested", "resumed", "replaying", "spawned",
                            "reading", "ended"}]
  /\ cursor \in [Links -> 0 .. MaxNonce] /\ hand \in [Links -> 0 .. MaxNonce]
  /\ task \in [Links -> {"none", "waiting", "idle", "parked", "writing", "ended"}]
  /\ attached \in Links

LinkTypes ==
  /\ up \in [Links -> {"unused", "open", "broken"}]
  /\ down \in [Links -> Seq(Frame)] /\ acks \in [Links -> Seq(Ack)]

ClientTypes ==
  /\ active \in Links /\ {draining, standby} \subseteq Links \cup {NoLink}
  /\ recvBuf.next \in 0 .. MaxNonce /\ IsChunks(recvBuf.pending)
  /\ \A s \in DOMAIN recvBuf.pending : s > recvBuf.next
  /\ delivered \in Seq(Data) /\ unacked \in Nat

\* A task that has taken a chunk holds one that was encrypted, and parks only
\* with a packet.
HandTypes ==
  \A l \in Links : task[l] \in {"parked", "writing"} =>
    hand[l] < SendSeq /\ (task[l] = "parked" => sent[hand[l] + 1] \in Data)

\* The shape of every variable.
TypeOK == BufferTypes /\ TaskTypes /\ HandTypes /\ LinkTypes /\ ClientTypes

Received(s) == s < recvBuf.next \/ s \in DOMAIN recvBuf.pending

\* A reply that was given a sequence is in the hands of a writer that waits
\* for the send buffer, or retained there until the client holds it, or was
\* rejected by a full buffer.  The only other way to lose it is to have its
\* writer aborted while it waits for the lock.
RetainedUnlessDropped ==
  \A s \in 0 .. (SendSeq - 1) :
    sent[s + 1] \in Data =>
      \/ s \in DOMAIN sendBuf.chunks \/ Received(s)
      \/ s \in rejected \cup dropped
      \/ \E l \in Links : task[l] = "parked" /\ hand[l] = s

\* Every acknowledgement in flight passes the validation of its decoder, so
\* none is dropped as a bad control message.
AcksDecodable ==
  \A l \in Links : \A i \in 1 .. Len(acks[l]) : Decodable(acks[l][i])

\* A sound link loses its writer only to an older link that attaches late.
\* The client would leave it, but the links of the model are used up.
Evicted == \E l \in Links \cap {FaultFree} : task[l] = "ended"

\* Every reply is eventually written to the client's TUN device, however many
\* switches break under it, unless a reply was rejected, dropped or raced, a
\* control chunk took a sequence, or the sound link has lost its writer.
EveryReplyDelivered ==
  \A n \in 1 .. MaxNonce :
    SendSeq >= n ~> \/ Len(delivered) >= n
                    \/ rejected \cup dropped # {} \/ raced
                    \/ Control \in Range(sent) \/ Evicted

\* What makes it inductive.  The lock of the send buffer is held across steps
\* only by a task that replays, and such a task has no writer yet.
ReplayHoldsLock ==
  \A l \in Links :
    /\ serving[l] = "replaying" <=> locked = l
    /\ serving[l] \in {"none", "requested", "resumed", "replaying"} => task[l] = "none"
    /\ up[l] = "unused" => serving[l] = "none"

\* Chunks in flight, retained or held back all carry what was encrypted under
\* their sequence.
ChunkOf(f) == f.seq < SendSeq /\ f.data = sent[f.seq + 1]

FramesCarrySent ==
  \A l \in Links : \A i \in 1 .. Len(down[l]) : ChunkOf(down[l][i])

BuffersHoldSent ==
  /\ \A s \in DOMAIN sendBuf.chunks : s < SendSeq /\ sendBuf.chunks[s] = sent[s + 1]
  /\ \A s \in DOMAIN recvBuf.pending : s < SendSeq /\ recvBuf.pending[s] = sent[s + 1]

\* What is delivered is what was sent, and what was sent is what was taken
\* from the queue up to the first control chunk.
DeliveredIsSent ==
  /\ Len(delivered) = recvBuf.next /\ recvBuf.next <= SendSeq
  /\ \A i \in 1 .. Len(delivered) : delivered[i] = sent[i]

AcceptedIsSent ==
  /\ Len(accepted) <= SendSeq
  /\ \A n \in 0 .. SendSeq :
       (\A i \in 1 .. n : sent[i] \in Data)
         => n <= Len(accepted) /\ \A i \in 1 .. n : accepted[i] = sent[i]

\* An acknowledgement claims only what the client holds.
ClaimsReceived(ack) ==
  ack.next <= recvBuf.next /\ \A r \in ack.ranges : \A s \in r.start .. r.end : Received(s)

AcksClaimReceived ==
  \A l \in Links : \A i \in 1 .. Len(acks[l]) : ClaimsReceived(acks[l][i])

\* The inductive invariant.
ReplyInv ==
  /\ TypeOK /\ ReplayHoldsLock /\ FramesCarrySent /\ BuffersHoldSent
  /\ DeliveredIsSent /\ AcceptedIsSent /\ AcksClaimReceived /\ RetainedUnlessDropped

\* Downlink implements the ordered, exactly-once pipe of continuity.rs.
Pipe == INSTANCE ReliablePipe
ImplementsPipe == Pipe!Spec
=============================================================================
