-------------------------- MODULE ContinuityBuffers --------------------------
(***************************************************************************)
(* The continuity layer of kanrin-protocol (continuity.rs): the send       *)
(* buffer that retains a chunk until it is acknowledged, the cursor that   *)
(* replays it, and the receive buffer that restores the order and builds   *)
(* the acknowledgement.  These are the pure operations on the two buffers; *)
(* the modules that carry chunks over connections are built from them.     *)
(*                                                                         *)
(* A payload is a member of Data and its encoded length is Size[d]; a      *)
(* BTreeMap<u64, _> is a function whose domain is a set of sequences.      *)
(*                                                                         *)
(* An operator whose name starts with Bad is a plausible mistake in the    *)
(* operator that follows it.  No definition of the model uses one.         *)
(***************************************************************************)
EXTENDS Integers, FiniteSets, Sequences, Functions

CONSTANTS
  Data,           \* packets the TUN device can hand over
  Size,           \* Size[d]: the bytes packet d occupies in either buffer
  MaxNonce,       \* sequences 0 .. MaxNonce-1 can be used (bounds the model)
  MaxSendBytes,   \* SendBuffer::max_bytes
  MaxRecvBytes,   \* ReceiveBuffer::max_bytes
  MaxSackRanges   \* MAX_SACK_RANGES: ranges one acknowledgement can carry

ASSUME BufferAssumption ==
  /\ Size \in [Data -> Nat \ {0}]
  /\ {MaxNonce, MaxSendBytes, MaxRecvBytes, MaxSackRanges} \subseteq Nat

Seqs == 0 .. (MaxNonce - 1)

\* A set of chunks keyed by sequence.
IsChunks(f) == DOMAIN f \subseteq Seqs /\ f \in [DOMAIN f -> Data]

Insert(f, seq, d) == [s \in DOMAIN f \cup {seq} |-> IF s = seq THEN d ELSE f[s]]

Remove(f, S) == Restrict(f, DOMAIN f \ S)

NoChunks == [s \in {} |-> {}]

\* The bytes the chunks of f hold together, each byte named by the sequence
\* of its chunk and its place there.
HeldBytes(f) == UNION {{s} \X (1 .. Size[f[s]]) : s \in DOMAIN f}
TotalSize(f) == Cardinality(HeldBytes(f))

-----------------------------------------------------------------------------
(* SendBuffer: [chunks, bytes], bytes being the incremental counter.       *)

EmptySendBuffer == [chunks |-> NoChunks, bytes |-> 0]

IsFull(b) == b.bytes >= MaxSendBytes
Rejects(b, d) == DOMAIN b.chunks # {} /\ b.bytes + Size[d] > MaxSendBytes

Push(b, seq, d) ==
  IF Rejects(b, d) THEN b
  ELSE [chunks |-> Insert(b.chunks, seq, d),
        bytes  |-> b.bytes + Size[d]
                   - (IF seq \in DOMAIN b.chunks THEN Size[b.chunks[seq]] ELSE 0)]

\* What an acknowledgement [next, ranges] covers among the sequences S.
BadCovers(ack, S) ==
  {s \in S : s <= ack.next \/ \E r \in ack.ranges : r.start <= s /\ s <= r.end}
Covers(ack, S) ==
  {s \in S : s < ack.next \/ \E r \in ack.ranges : r.start <= s /\ s <= r.end}

BadRelease(b, S) ==
  [chunks |-> Remove(b.chunks, S),
   bytes  |-> b.bytes - TotalSize(b.chunks)]
Release(b, S) ==
  [chunks |-> Remove(b.chunks, S),
   bytes  |-> b.bytes - TotalSize(Restrict(b.chunks, DOMAIN b.chunks \cap S))]

ApplyAck(b, ack) == Release(b, Covers(ack, DOMAIN b.chunks))

-----------------------------------------------------------------------------
(* Replay: a cursor over the live send buffer.                             *)

\* The chunks at or above the cursor, the lowest of which is sent next.
BadRemaining(b, cursor) == {s \in DOMAIN b.chunks : s > cursor}
Remaining(b, cursor) == {s \in DOMAIN b.chunks : s >= cursor}

IsNextChunk(b, cursor, s) ==
  s \in Remaining(b, cursor) /\ \A t \in Remaining(b, cursor) : s <= t

BadReplayComplete(b, cursor) == Remaining(b, cursor) = {} \/ cursor > 0
ReplayComplete(b, cursor) == Remaining(b, cursor) = {}

-----------------------------------------------------------------------------
(* ReceiveBuffer: [next, pending, bytes].                                  *)

EmptyReceiveBuffer == [next |-> 0, pending |-> NoChunks, bytes |-> 0]

IsDuplicate(b, seq) == seq < b.next \/ seq \in DOMAIN b.pending

\* The chunk would have to be held above a gap and there is no room for it.
Overflows(b, seq, d) == seq > b.next /\ b.bytes + Size[d] > MaxRecvBytes

Accepts(b, seq, d) == ~IsDuplicate(b, seq) /\ ~Overflows(b, seq, d)

Hold(b, seq, d) ==
  [next |-> b.next, pending |-> Insert(b.pending, seq, d), bytes |-> b.bytes + Size[d]]

\* The first sequence above next that is not held: where draining stops.
DrainEnd(b) ==
  CHOOSE n \in (b.next + 1) .. MaxNonce :
    /\ n \notin DOMAIN b.pending
    /\ \A m \in (b.next + 1) .. (n - 1) : m \in DOMAIN b.pending

\* The in-order chunk d and every held chunk it unblocks, oldest first.
Drained(b, d) ==
  [i \in 1 .. (DrainEnd(b) - b.next) |->
     IF i = 1 THEN d ELSE b.pending[b.next + i - 1]]

BadDrain(b) ==
  [next |-> DrainEnd(b) + 1, pending |-> Remove(b.pending, 0 .. DrainEnd(b)), bytes |-> 0]
Drain(b) ==
  LET passed == 0 .. (DrainEnd(b) - 1)
  IN  [next    |-> DrainEnd(b),
       pending |-> Remove(b.pending, passed),
       bytes   |-> b.bytes - TotalSize(Restrict(b.pending, DOMAIN b.pending \cap passed))]

Accept(b, seq, d) == IF seq = b.next THEN Drain(b) ELSE Hold(b, seq, d)

\* The payloads ready for delivery once the chunk has been accepted.
BadReady(b, seq, d) == <<d>>
Ready(b, seq, d) == IF seq = b.next THEN Drained(b, d) ELSE <<>>

-----------------------------------------------------------------------------
(* The acknowledgement: the cumulative point and the lowest runs of held   *)
(* sequences, as disjoint and non-adjacent ranges.                         *)

IsRun(S, r) ==
  r.start .. r.end \subseteq S /\ r.start - 1 \notin S /\ r.end + 1 \notin S

Runs(S) == {r \in [start : S, end : S] : r.start <= r.end /\ IsRun(S, r)}

LowestRuns(S) == {r \in Runs(S) : Cardinality({q \in Runs(S) : q.start < r.start}) < MaxSackRanges}

BadBuildAck(b) ==
  [next |-> b.next, ranges |-> LowestRuns({b.next} \cup DOMAIN b.pending)]
BuildAck(b) == [next |-> b.next, ranges |-> LowestRuns(DOMAIN b.pending)]

\* wire.rs rejects an Ack whose ranges are not ascending and disjoint above
\* the cumulative point, with at least one sequence missing before each.
Decodable(ack) ==
  /\ Cardinality(ack.ranges) <= MaxSackRanges
  /\ \A r \in ack.ranges : r.start <= r.end /\ r.start > ack.next
  /\ \A q, r \in ack.ranges : q.start < r.start => q.end + 1 < r.start
=============================================================================
