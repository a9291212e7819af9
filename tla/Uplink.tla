-------------------------------- MODULE Uplink --------------------------------
(***************************************************************************)
(* Client-to-server traffic of one kanrin session across transport         *)
(* switches.  The client is the select! loop of pipeline.rs together with  *)
(* attempt_switch and switch.rs; the server is the attachment protocol and *)
(* reader loop of ClientSession::serve.  The buffers are those of          *)
(* ContinuityBuffers.                                                      *)
(*                                                                         *)
(* Every connection the session ever uses is a link of its own, numbered   *)
(* in the order the client opens them: a FIFO of frames towards the server *)
(* and a FIFO of acknowledgements back.  A link that breaks loses a suffix *)
(* of what it carries.  The server keeps reading a link the client has     *)
(* left, so chunks do arrive duplicated and out of order.                  *)
(***************************************************************************)
EXTENDS ContinuityBuffers

CONSTANTS
  Control,      \* the content of a control chunk (an ack of the downlink, a ping)
  MaxControl,   \* control chunks the client sends (bounds the model)
  MaxLinks,     \* connections opened over the session's life (bounds the model)
  FaultFree,    \* the link the liveness properties may rely on, or 0 for none
  MaxFailed,    \* MAX_FAILED_SWITCHES
  AckEvery      \* ACK_EVERY_N_CHUNKS

ASSUME UplinkAssumption ==
  /\ Control \notin Data
  /\ {MaxControl, MaxFailed, AckEvery} \subseteq Nat
  /\ MaxLinks \in Nat \ {0}
  /\ FaultFree \in 0 .. MaxLinks

Links == 1 .. MaxLinks
NoLink == 0

VARIABLES
  accepted,   \* history: the packets read from the TUN device, in order
  sent,       \* history: sent[s + 1] is what was encrypted under sequence s,
              \* so Len(sent) is Session::send_seq
  sendBuf,    \* the client's SendBuffer
  rejected,   \* history: sequences of the packets the send buffer rejected
  active,     \* the link of `connection`
  draining,   \* the link just switched away from, not closed yet
  phase,      \* where the client is: in select! or inside attempt_switch
  standby,    \* the link being prepared
  resumeAt,   \* Standby::server_next_expected
  cursor,     \* Replay::next
  failed,     \* failed_switches
  up,         \* up[l]: state of link l
  frames,     \* frames[l]: chunks in flight from client to server
  acks,       \* acks[l]: acknowledgements in flight from server to client
  serving,    \* serving[l]: how far the server's task for link l has come
  writer,     \* the link whose writer task is attached and running
  unacked,    \* unacked[l]: unacked_chunks of the reader of link l
  recvBuf,    \* the session's ReceiveBuffer
  released,   \* history: the packets drain_ready has handed out, in order
  ready,      \* ready[l]: those the reader of link l still has to forward,
              \* as positions in released
  forwarded   \* history: the positions forwarded to the internet, in order

clientVars == <<accepted, sent, sendBuf, rejected>>
switchVars == <<active, draining, phase, standby, resumeAt, cursor, failed>>
linkVars   == <<up, frames, acks>>
streamVars == <<recvBuf, released, ready, forwarded>>
serverVars == <<serving, writer, unacked, streamVars>>
vars == <<clientVars, switchVars, linkVars, serverVars>>

\* As in ContinuityBuffers, the operators whose name starts with Bad are
\* plausible mistakes that no definition of the model uses.

Contents == Data \cup {Control}
Frame == [seq : Seqs, data : Contents]
SackRange == [start : Nat, end : Nat]
Ack == [next : 0 .. MaxNonce, ranges : SUBSET SackRange]

SendSeq == Len(sent)

\* Chunks written to a link that is not open go nowhere.
Transmit(l, f) ==
  frames' = IF up[l] = "open" THEN [frames EXCEPT ![l] = Append(@, f)] ELSE frames

\* Closing still flushes what the socket accepted.
Closed(L) == [l \in Links |-> IF l \in L /\ up[l] = "open" THEN "broken" ELSE up[l]]

-----------------------------------------------------------------------------
(* The client.                                                             *)

Init ==
  /\ accepted = <<>> /\ sent = <<>>
  /\ sendBuf = EmptySendBuffer /\ rejected = {}
  /\ active = 1 /\ draining = NoLink
  /\ phase = "steady" /\ standby = NoLink
  /\ resumeAt = 0 /\ cursor = 0 /\ failed = 0
  /\ up = [l \in Links |-> IF l = 1 THEN "open" ELSE "unused"]
  /\ frames = [l \in Links |-> <<>>]
  /\ acks = [l \in Links |-> <<>>]
  /\ serving = [l \in Links |-> IF l = 1 THEN "reading" ELSE "none"]
  /\ writer = 1
  /\ unacked = [l \in Links |-> 0]
  /\ recvBuf = EmptyReceiveBuffer
  /\ released = <<>>
  /\ ready = [l \in Links |-> <<>>]
  /\ forwarded = <<>>

\* A packet from the TUN device is encrypted, sent and retained whatever the
\* outcome of the send.  A chunk the send buffer rejects is only logged.
SendPacket(d) ==
  /\ phase = "steady"
  /\ ~IsFull(sendBuf)
  /\ SendSeq < MaxNonce
  /\ accepted' = Append(accepted, d)
  /\ sent' = Append(sent, d)
  /\ sendBuf' = Push(sendBuf, SendSeq, d)
  /\ rejected' = IF Rejects(sendBuf, d) THEN rejected \cup {SendSeq} ELSE rejected
  /\ Transmit(active, [seq |-> SendSeq, data |-> d])
  /\ UNCHANGED <<switchVars, up, acks, serverVars>>

\* An ack of the downlink or a ping: encrypt_outgoing gives it the next
\* sequence, and it is not retained.
SendControl ==
  /\ phase = "steady"
  /\ SendSeq < MaxNonce
  /\ SendSeq - Len(accepted) < MaxControl
  /\ sent' = Append(sent, Control)
  /\ Transmit(active, [seq |-> SendSeq, data |-> Control])
  /\ UNCHANGED <<accepted, sendBuf, rejected, switchVars, up, acks, serverVars>>

\* Any inbound frame closes the connection being drained.
DrainOld ==
  /\ draining' = NoLink
  /\ up' = Closed({draining})

ClientRecvAck ==
  /\ phase = "steady"
  /\ acks[active] # <<>>
  /\ sendBuf' = ApplyAck(sendBuf, Head(acks[active]))
  /\ acks' = [acks EXCEPT ![active] = Tail(@)]
  /\ DrainOld
  /\ UNCHANGED <<accepted, sent, rejected, active, phase, standby, resumeAt, cursor, failed,
                 frames, serverVars>>

\* Downlink data or a pong, which only an attached writer can have sent.
ClientRecvOther ==
  /\ phase = "steady"
  /\ draining # NoLink
  /\ up[active] = "open" /\ writer = active
  /\ DrainOld
  /\ UNCHANGED <<clientVars, active, phase, standby, resumeAt, cursor, failed,
                 frames, acks, serverVars>>

-----------------------------------------------------------------------------
(* The switch: prepare_standby, replay_onto and the swap.                  *)

\* Connecting, the resume request and its answer.  The server reads its
\* position when it answers; what arrives later on older links is not in it.
PrepareStandby(l) ==
  /\ phase \in {"steady", "preparing"}
  /\ up[l] = "unused" /\ \A k \in Links : k < l => up[k] # "unused"
  /\ phase' = "resumed"
  /\ standby' = l
  /\ resumeAt' = recvBuf.next
  /\ up' = [up EXCEPT ![l] = "open"]
  /\ serving' = [serving EXCEPT ![l] = "resumed"]
  /\ UNCHANGED <<clientVars, active, draining, cursor, failed, frames, acks,
                 writer, unacked, streamVars>>

\* The answer never came: the next transport of the list is tried.
ResumeFails ==
  /\ phase = "resumed"
  /\ up[standby] = "broken"
  /\ phase' = "preparing"
  /\ standby' = NoLink
  /\ UNCHANGED <<clientVars, active, draining, resumeAt, cursor, failed, linkVars, serverVars>>

CountFailure ==
  /\ failed' = failed + 1
  /\ phase' = IF failed + 1 >= MaxFailed THEN "closed" ELSE "steady"
  /\ standby' = NoLink

\* No transport could be prepared; after MAX_FAILED_SWITCHES the loop ends.
NoStandby ==
  /\ phase \in {"steady", "preparing"}
  /\ CountFailure
  /\ up' = IF phase' = "closed" THEN Closed({active}) ELSE up
  /\ UNCHANGED <<clientVars, active, draining, resumeAt, cursor, frames, acks, serverVars>>

BeginReplay ==
  /\ phase = "resumed"
  /\ phase' = "replaying"
  /\ sendBuf' = ApplyAck(sendBuf, [next |-> resumeAt, ranges |-> {}])
  /\ cursor' = 0
  /\ UNCHANGED <<accepted, sent, rejected, active, draining, standby, resumeAt, failed,
                 linkVars, serverVars>>

ReplayChunk(s) ==
  /\ phase = "replaying"
  /\ IsNextChunk(sendBuf, cursor, s)
  /\ Transmit(standby, [seq |-> s, data |-> sendBuf.chunks[s]])
  /\ cursor' = s + 1
  /\ UNCHANGED <<clientVars, active, draining, phase, standby, resumeAt, failed,
                 up, acks, serverVars>>

\* The whole buffer is on the standby: swap, and close the link that was
\* still draining from the previous switch.
SwitchOver ==
  /\ phase = "replaying"
  /\ ReplayComplete(sendBuf, cursor)
  /\ active' = standby
  /\ draining' = active
  /\ up' = Closed({draining})
  /\ phase' = "steady"
  /\ standby' = NoLink
  /\ failed' = 0
  /\ UNCHANGED <<clientVars, resumeAt, cursor, frames, acks, serverVars>>

\* A replay send failed: the cursor is dropped, the standby closed, and the
\* current transport kept.
ReplayFails ==
  /\ phase = "replaying"
  /\ up[standby] = "broken"
  /\ CountFailure
  /\ up' = IF phase' = "closed" THEN Closed({active}) ELSE up
  /\ UNCHANGED <<clientVars, active, draining, resumeAt, cursor, frames, acks, serverVars>>

-----------------------------------------------------------------------------
(* The network.                                                            *)

\* A link fails and a suffix of what it carries in each direction is lost.
Break(l) ==
  /\ l # FaultFree
  /\ up[l] = "open"
  /\ up' = [up EXCEPT ![l] = "broken"]
  /\ \E i \in 0 .. Len(frames[l]) : frames' = [frames EXCEPT ![l] = SubSeq(@, 1, i)]
  /\ \E j \in 0 .. Len(acks[l]) : acks' = [acks EXCEPT ![l] = SubSeq(@, 1, j)]
  /\ UNCHANGED <<clientVars, switchVars, serverVars>>

-----------------------------------------------------------------------------
(* The server.                                                             *)

\* (Mistake: attach() also aborts the reader of the previous connection.)
BadServerAttach(l) ==
  /\ serving[l] = "resumed"
  /\ writer' = l
  /\ LET L == {writer} \cap Links
     IN  /\ serving' = [k \in Links |-> IF k = l THEN "reading" ELSE
                                      IF k \in L THEN "ended" ELSE serving[k]]
         /\ ready' = [k \in Links |-> IF k \in L THEN <<>> ELSE ready[k]]
         /\ up' = Closed(L)
  /\ UNCHANGED <<clientVars, switchVars, frames, acks, unacked, recvBuf, released, forwarded>>

\* serve() spawns the writer and attaches it, which aborts the writer of the
\* previous attachment with whatever it had not written; the reader loop
\* starts.  Attachments are not ordered: an older link's task that comes
\* late evicts the newer link, except one assumed free of faults.
ServerAttach(l) ==
  /\ serving[l] = "resumed"
  /\ ~\E k \in Links \ {l} : k = FaultFree /\ serving[k] \in {"reading", "forwarding"}
  /\ serving' = [serving EXCEPT ![l] = "reading"]
  /\ writer' = l
  /\ IF writer = NoLink THEN acks' = acks
     ELSE \E j \in 0 .. Len(acks[writer]) :
            acks' = [acks EXCEPT ![writer] = SubSeq(@, 1, j)]
  /\ UNCHANGED <<clientVars, switchVars, up, frames, unacked, streamVars>>

\* The answer to the resume request could not be written.
ServerResumeFails(l) ==
  /\ serving[l] = "resumed" /\ up[l] = "broken"
  /\ serving' = [serving EXCEPT ![l] = "ended"]
  /\ UNCHANGED <<clientVars, switchVars, linkVars, writer, unacked, streamVars>>

\* The reader loop ends: its own writer is aborted and the connection drops.
EndReader(l) ==
  /\ serving' = [serving EXCEPT ![l] = "ended"]
  /\ writer' = IF writer = l THEN NoLink ELSE writer
  /\ up' = Closed({l})
  /\ frames' = [frames EXCEPT ![l] = <<>>]

\* A chunk that is a duplicate, or for which there is no room, is skipped
\* without counting towards the next acknowledgement.
ServerSkips(l) ==
  /\ serving[l] = "reading" /\ frames[l] # <<>>
  /\ LET f == Head(frames[l])
     IN  f.data \in Data /\ ~Accepts(recvBuf, f.seq, f.data)
  /\ frames' = [frames EXCEPT ![l] = Tail(@)]
  /\ UNCHANGED <<clientVars, switchVars, up, acks, serverVars>>

\* Under the lock of the receive buffer the chunk is accepted and the packets
\* it makes ready are drained; the lock is then dropped.
ServerAccepts(l) ==
  /\ serving[l] = "reading" /\ frames[l] # <<>>
  /\ LET f == Head(frames[l])
         packets == Ready(recvBuf, f.seq, f.data)
     IN  /\ f.data \in Data
         /\ Accepts(recvBuf, f.seq, f.data)
         /\ recvBuf' = Accept(recvBuf, f.seq, f.data)
         /\ released' = released \o packets
         /\ ready' = [ready EXCEPT ![l] = [i \in 1 .. Len(packets) |-> Len(released) + i]]
  /\ frames' = [frames EXCEPT ![l] = Tail(@)]
  /\ serving' = [serving EXCEPT ![l] = "forwarding"]
  /\ UNCHANGED <<clientVars, switchVars, up, acks, writer, unacked, forwarded>>

\* send_to_internet of one packet, with no lock held.
ServerForwards(l) ==
  /\ ready[l] # <<>>
  /\ forwarded' = Append(forwarded, Head(ready[l]))
  /\ ready' = [ready EXCEPT ![l] = Tail(@)]
  /\ UNCHANGED <<clientVars, switchVars, linkVars, serving, writer, unacked, recvBuf, released>>

\* No acknowledgement yet: fewer than ACK_EVERY_N_CHUNKS chunks since the last
\* one, and less than ACK_MAX_DELAY.
ServerCounts(l) ==
  /\ serving[l] = "forwarding" /\ ready[l] = <<>>
  /\ unacked[l] + 1 < AckEvery
  /\ unacked' = [unacked EXCEPT ![l] = @ + 1]
  /\ serving' = [serving EXCEPT ![l] = "reading"]
  /\ UNCHANGED <<clientVars, switchVars, linkVars, writer, streamVars>>

\* An acknowledgement is due, by count or by time.  It leaves through the
\* writer of the same connection: if that has been evicted the reader ends; on
\* a broken link it is lost, and the failed write may have ended the writer.
ServerAcks(l) ==
  /\ serving[l] = "forwarding" /\ ready[l] = <<>>
  /\ unacked' = [unacked EXCEPT ![l] = 0]
  /\ \/ /\ writer = l /\ up[l] = "open"
        /\ acks' = [acks EXCEPT ![l] = Append(@, BuildAck(recvBuf))]
        /\ serving' = [serving EXCEPT ![l] = "reading"]
        /\ UNCHANGED <<up, frames, writer>>
     \/ /\ writer = l /\ up[l] # "open"
        /\ writer' \in {l, NoLink}
        /\ serving' = [serving EXCEPT ![l] = "reading"]
        /\ UNCHANGED linkVars
     \/ /\ writer # l
        /\ EndReader(l)
        /\ UNCHANGED acks
  /\ UNCHANGED <<clientVars, switchVars, streamVars>>

\* A control chunk does not go through the receive buffer.  A ping is
\* answered through the writer, which ends the reader of an evicted link.
ServerRecvControl(l) ==
  /\ serving[l] = "reading" /\ frames[l] # <<>>
  /\ Head(frames[l]).data = Control
  /\ \/ /\ frames' = [frames EXCEPT ![l] = Tail(@)]
        /\ UNCHANGED <<up, serving, writer>>
     \/ writer # l /\ EndReader(l)
  /\ UNCHANGED <<clientVars, switchVars, acks, unacked, streamVars>>

ServerReadError(l) ==
  /\ serving[l] = "reading"
  /\ up[l] = "broken" /\ frames[l] = <<>>
  /\ EndReader(l)
  /\ UNCHANGED <<clientVars, switchVars, acks, unacked, streamVars>>

ServerRecv(l) ==
  \/ ServerSkips(l) \/ ServerAccepts(l) \/ ServerForwards(l) \/ ServerCounts(l)
  \/ ServerAcks(l) \/ ServerRecvControl(l) \/ ServerReadError(l)

-----------------------------------------------------------------------------
Next ==
  \/ \E d \in Data : SendPacket(d)
  \/ SendControl
  \/ ClientRecvAck
  \/ ClientRecvOther
  \/ \E l \in Links : PrepareStandby(l)
  \/ ResumeFails
  \/ NoStandby
  \/ BeginReplay
  \/ \E s \in Seqs : ReplayChunk(s)
  \/ SwitchOver
  \/ ReplayFails
  \/ \E l \in Links : Break(l)
  \/ \E l \in Links : ServerAttach(l)
  \/ \E l \in Links : ServerResumeFails(l)
  \/ \E l \in Links : ServerRecv(l)

Spec == Init /\ [][Next]_vars

\* The client leaves a link that is broken, or on which nothing arrives any
\* more because its writer was evicted (LinkSilent).
Serves(l) == serving[l] \in {"reading", "forwarding"}

Unusable(l) == up[l] = "broken" \/ (Serves(l) /\ writer # l)

LeaveUnusable ==
  /\ phase = "preparing" \/ Unusable(active)
  /\ \E l \in Links : PrepareStandby(l)

\* Every task keeps running; only the TUN device, the control traffic and the
\* faults are left to chance.
Fairness ==
  /\ WF_vars(ClientRecvAck)
  /\ WF_vars(LeaveUnusable)
  /\ WF_vars(ResumeFails)
  /\ WF_vars(BeginReplay)
  /\ WF_vars(\E s \in Seqs : ReplayChunk(s))
  /\ WF_vars(SwitchOver)
  /\ WF_vars(ReplayFails)
  /\ \A l \in Links : WF_vars(ServerAttach(l)) /\ WF_vars(ServerRecv(l))

FairSpec == Spec /\ Fairness

-----------------------------------------------------------------------------
(* Properties.                                                             *)

ChunkOf(f) == f.seq < SendSeq /\ f.data = sent[f.seq + 1]

ClientTypes ==
  /\ accepted \in Seq(Data)
  /\ sent \in Seq(Contents) /\ SendSeq <= MaxNonce
  /\ IsChunks(sendBuf.chunks) /\ rejected \subseteq Seqs

SwitchTypes ==
  /\ active \in Links /\ draining \in Links \cup {NoLink}
  /\ phase \in {"steady", "preparing", "resumed", "replaying", "closed"}
  /\ standby \in Links \cup {NoLink}
  /\ standby # NoLink <=> phase \in {"resumed", "replaying"}
  /\ resumeAt \in 0 .. MaxNonce /\ cursor \in 0 .. MaxNonce /\ failed \in Nat

LinkTypes ==
  /\ up \in [Links -> {"unused", "open", "broken"}]
  /\ frames \in [Links -> Seq(Frame)]
  /\ acks \in [Links -> Seq(Ack)]

ServerTypes ==
  /\ serving \in [Links -> {"none", "resumed", "reading", "forwarding", "ended"}]
  /\ writer \in Links \cup {NoLink}
  /\ unacked \in [Links -> Nat]

StreamTypes ==
  /\ recvBuf.next \in 0 .. MaxNonce /\ IsChunks(recvBuf.pending)
  /\ \A s \in DOMAIN recvBuf.pending : s > recvBuf.next
  /\ released \in Seq(Data)
  /\ ready \in [Links -> Seq(Nat)] /\ forwarded \in Seq(Nat)

\* The shape of every variable, including that the client is inside
\* attempt_switch, past the resumption, exactly while a standby exists.
TypeOK == ClientTypes /\ SwitchTypes /\ LinkTypes /\ ServerTypes /\ StreamTypes

Received(s) == s < recvBuf.next \/ s \in DOMAIN recvBuf.pending

\* What the receive buffer releases is a prefix of what the TUN device handed
\* over: accept() and drain_ready() lose, repeat, reorder and alter nothing,
\* whatever a switch duplicated or delivered out of order.
ReleasedInOrder ==
  /\ Len(released) <= Len(accepted)
  /\ \A i \in 1 .. Len(released) : released[i] = accepted[i]

\* Every released packet is forwarded exactly once or still in the hands of
\* exactly one reader, even while the readers of an old and of a new
\* connection drain the same buffer, and when an eviction ends one of them.
ForwardedOnce ==
  LET waiting(l) == Range(ready[l])
  IN  /\ IsInjective(forwarded)
      /\ Range(forwarded) \cup UNION {waiting(l) : l \in Links} = 1 .. Len(released)
      /\ \A l \in Links : /\ Range(forwarded) \cap waiting(l) = {}
                          /\ \A k \in Links \ {l} : waiting(k) \cap waiting(l) = {}

\* What makes it inductive: a reader that has packets in its hands is still
\* forwarding, so it neither takes a chunk nor ends, no hand holds a packet
\* twice, and a link that was never opened has no reader.
ForwardInv ==
  /\ \A l \in Links : /\ ready[l] # <<>> => serving[l] = "forwarding"
                      /\ IsInjective(ready[l])
                      /\ up[l] = "unused" => serving[l] = "none"
  /\ ForwardedOnce

\* A packet the send buffer did not reject is retained until the server holds
\* it: acknowledgements, the resume position and replays release nothing else,
\* however stale or reordered they are.
RetainedUntilReceived ==
  \A s \in 0 .. (SendSeq - 1) :
    sent[s + 1] \in Data /\ s \notin rejected =>
      s \in DOMAIN sendBuf.chunks \/ Received(s)

\* What makes the two properties above inductive: frames, retained and held
\* chunks all carry what was encrypted under their sequence; what is released
\* is what was sent, and what was sent is what was accepted up to the first
\* control chunk; an acknowledgement and the resume position claim only what
\* the server holds.
FramesCarrySent ==
  \A l \in Links : \A i \in 1 .. Len(frames[l]) : ChunkOf(frames[l][i])

BuffersHoldSent ==
  /\ \A s \in DOMAIN sendBuf.chunks : s < SendSeq /\ sendBuf.chunks[s] = sent[s + 1]
  /\ \A s \in DOMAIN recvBuf.pending : s < SendSeq /\ recvBuf.pending[s] = sent[s + 1]

ReleasedIsSent ==
  /\ Len(released) = recvBuf.next /\ recvBuf.next <= SendSeq
  /\ \A i \in 1 .. Len(released) : released[i] = sent[i]

AcceptedIsSent ==
  /\ Len(accepted) <= SendSeq
  /\ \A n \in 0 .. SendSeq :
       (\A i \in 1 .. n : sent[i] \in Data)
         => n <= Len(accepted) /\ \A i \in 1 .. n : accepted[i] = sent[i]

ClaimsReceived(ack) ==
  ack.next <= recvBuf.next /\ \A r \in ack.ranges : \A s \in r.start .. r.end : Received(s)

AcksClaimReceived ==
  /\ resumeAt <= recvBuf.next
  /\ \A l \in Links : \A i \in 1 .. Len(acks[l]) : ClaimsReceived(acks[l][i])

\* The conjunction of the above with RetainedUntilReceived is inductive.
StreamInv ==
  /\ TypeOK /\ FramesCarrySent /\ BuffersHoldSent /\ ReleasedIsSent /\ AcceptedIsSent
  /\ AcksClaimReceived /\ RetainedUntilReceived

\* Every acknowledgement in flight passes the validation of its decoder, so
\* none is dropped as a bad control message.
AcksDecodable ==
  \A l \in Links : \A i \in 1 .. Len(acks[l]) : Decodable(acks[l][i])

\* The byte counters of both buffers are kept by increments on every path; they
\* are exact, so neither the TUN gate nor the receive bound can drift, and no
\* buffer exceeds its bound, except by one oversized chunk.
BuffersBounded ==
  /\ sendBuf.bytes = TotalSize(sendBuf.chunks)
  /\ recvBuf.bytes = TotalSize(recvBuf.pending)
  /\ sendBuf.bytes <= MaxSendBytes \/ Cardinality(DOMAIN sendBuf.chunks) = 1
  /\ recvBuf.bytes <= MaxRecvBytes

\* Every sequence so far went to a packet, and the send buffer took it.
Gapless == rejected = {} /\ \A i \in 1 .. SendSeq : sent[i] # Control

\* While the active link is sound, every retained chunk the server lacks is
\* on its way over that link, if no control chunk and no rejected packet has
\* left a gap.  Nothing else resends it: there is no retransmission timer,
\* only the replay of the next switch.
NothingStranded ==
  Gapless /\ phase # "closed" /\ up[active] = "open" =>
    \A s \in DOMAIN sendBuf.chunks :
      Received(s) \/ \E i \in 1 .. Len(frames[active]) : frames[active][i].seq = s

\* What makes it inductive: a sound active link carries, in ascending order,
\* every chunk that was sent and that the server lacks, and a sound standby
\* those the replay has passed.  So the first chunk the server reads of either
\* and does not hold is the one it waits for, which always finds room.
Carries(l, n) ==
  /\ \A i \in 1 .. Len(frames[l]) : frames[l][i].seq < n
  /\ \A i, j \in 1 .. Len(frames[l]) : i < j => frames[l][i].seq < frames[l][j].seq
  /\ \A s \in 0 .. (n - 1) :
       Received(s) \/ \E i \in 1 .. Len(frames[l]) : frames[l][i].seq = s

CarryInv ==
  /\ active # standby
  /\ \A l \in Links : up[l] = "unused" => frames[l] = <<>> /\ l \notin {active, standby}
  /\ phase = "resumed" => frames[standby] = <<>>
  /\ Gapless /\ up[active] = "open" => Carries(active, SendSeq)
  /\ Gapless /\ phase = "replaying" /\ up[standby] = "open" => Carries(standby, cursor)

\* The n-th packet read from the TUN device is eventually forwarded, unless
\* the client gives up after MAX_FAILED_SWITCHES or its send buffer rejected a
\* packet, however many switches break under it.
EveryPacketDelivered ==
  \A n \in 1 .. MaxNonce :
    Len(accepted) >= n
      ~> (n \in Range(forwarded) \/ phase = "closed" \/ rejected # {})

\* Uplink implements the ordered, exactly-once pipe of continuity.rs.
Pipe == INSTANCE ReliablePipe WITH delivered <- released
ImplementsPipe == Pipe!Spec
=============================================================================
