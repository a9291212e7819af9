----------------------------- MODULE BufferProofs -----------------------------
(***************************************************************************)
(* What the operations of ContinuityBuffers preserve and return, for every *)
(* value of the constants: which sequences they keep, what they hand out,  *)
(* what an acknowledgement claims, and that the byte counters are exact.   *)
(***************************************************************************)
EXTENDS ContinuityBuffers, SequenceTheorems, FiniteSetTheorems, FunctionTheorems,
        WellFoundedInduction, TLAPS

\* Every non-empty set of naturals has a least element.
LEMMA LeastNatural ==
  ASSUME NEW T \in SUBSET Nat, T # {}
  PROVE  \E n \in T : \A m \in T : n <= m
<1>1. PICK n \in T : \A m \in T : ~(<<m, n>> \in OpToRel(<, Nat))
  BY NatLessThanWellFounded, WFMin, Zenon
<1>2. \A m \in T : ~(m < n)
  BY <1>1, Zenon DEF OpToRel
<1>. QED BY <1>2

\* A function on 1 .. n is a sequence.
LEMMA FunctionIsSeq ==
  ASSUME NEW S, NEW n \in Nat, NEW f \in [1 .. n -> S]
  PROVE  f \in Seq(S) /\ Len(f) = n
OBVIOUS

\* Replacing the sequence of one link leaves the others alone.
LEMMA LinkUpdate ==
  ASSUME NEW K, NEW S, NEW f \in [K -> Seq(S)], NEW l \in K, NEW q \in Seq(S)
  PROVE  /\ [f EXCEPT ![l] = q] \in [K -> Seq(S)]
         /\ [f EXCEPT ![l] = q][l] = q
         /\ \A k \in K \ {l} : [f EXCEPT ![l] = q][k] = f[k]
OBVIOUS

\* Nothing appears in the prefix of a sequence that was not in it.
LEMMA PrefixProperties ==
  ASSUME NEW S, NEW s \in Seq(S), NEW n \in 0 .. Len(s)
  PROVE  /\ SubSeq(s, 1, n) \in Seq(S)
         /\ Len(SubSeq(s, 1, n)) = n
         /\ \A i \in 1 .. n : SubSeq(s, 1, n)[i] = s[i]
OBVIOUS

\* A queue without repetitions that grows at the end by something new, or loses
\* its head, is still without repetitions.
LEMMA AppendDistinct ==
  ASSUME NEW S, NEW s \in Seq(S), NEW e \in S, IsInjective(s), e \notin Range(s)
  PROVE  IsInjective(Append(s, e)) /\ Range(Append(s, e)) = Range(s) \cup {e}
<1>1. /\ DOMAIN Append(s, e) = 1 .. (Len(s) + 1) /\ DOMAIN s = 1 .. Len(s) /\ Len(s) \in Nat
      /\ \A i \in 1 .. Len(s) : Append(s, e)[i] = s[i]
      /\ Append(s, e)[Len(s) + 1] = e
  OBVIOUS
<1>. QED BY <1>1 DEF IsInjective, Range

LEMMA TailDistinct ==
  ASSUME NEW S, NEW s \in Seq(S), s # <<>>, IsInjective(s)
  PROVE  /\ IsInjective(Tail(s)) /\ Head(s) \in Range(s)
         /\ Range(Tail(s)) = Range(s) \ {Head(s)}
<1>1. /\ DOMAIN Tail(s) = 1 .. (Len(s) - 1) /\ DOMAIN s = 1 .. Len(s) /\ Len(s) \in Nat \ {0}
      /\ \A i \in 1 .. (Len(s) - 1) : Tail(s)[i] = s[i + 1]
      /\ Head(s) = s[1]
  OBVIOUS
<1>2. IsInjective(Tail(s))
  BY <1>1 DEF IsInjective
<1>3. Head(s) \in Range(s) /\ Range(Tail(s)) \subseteq Range(s)
  BY <1>1 DEF Range
<1>4. Head(s) \notin Range(Tail(s))
  BY <1>1 DEF Range, IsInjective
<1>5. \A x \in Range(s) : x # Head(s) => x \in Range(Tail(s))
  <2>. SUFFICES ASSUME NEW i \in 1 .. Len(s), i # 1 PROVE s[i] \in Range(Tail(s))
    BY <1>1 DEF Range
  <2>1. i - 1 \in 1 .. (Len(s) - 1) /\ Tail(s)[i - 1] = s[i]
    BY <1>1
  <2>. QED BY <1>1, <2>1 DEF Range
<1>. QED BY <1>2, <1>3, <1>4, <1>5

\* Inserting a chunk keeps the others (BTreeMap::insert).
LEMMA InsertProperties ==
  ASSUME NEW f, IsChunks(f), NEW seq \in Seqs, NEW d \in Data
  PROVE  /\ IsChunks(Insert(f, seq, d))
         /\ DOMAIN Insert(f, seq, d) = DOMAIN f \cup {seq}
         /\ Insert(f, seq, d)[seq] = d
         /\ \A s \in DOMAIN f \ {seq} : Insert(f, seq, d)[s] = f[s]
BY DEF IsChunks, Insert

\* Removing chunks keeps the others (BTreeMap::remove).
LEMMA RemoveProperties ==
  ASSUME NEW f, IsChunks(f), NEW S
  PROVE  /\ IsChunks(Remove(f, S))
         /\ DOMAIN Remove(f, S) = DOMAIN f \ S
         /\ \A s \in DOMAIN f \ S : Remove(f, S)[s] = f[s]
BY DEF IsChunks, Remove, Restrict

\* push retains the new chunk unless it rejects it, and loses no other.
LEMMA PushProperties ==
  ASSUME NEW b, IsChunks(b.chunks), NEW seq \in Seqs, NEW d \in Data
  PROVE  /\ IsChunks(Push(b, seq, d).chunks)
         /\ Rejects(b, d) => Push(b, seq, d) = b
         /\ ~Rejects(b, d) => Push(b, seq, d).chunks = Insert(b.chunks, seq, d)
BY InsertProperties DEF Push

\* An acknowledgement releases exactly the chunks it covers.
LEMMA ApplyAckProperties ==
  ASSUME NEW b, IsChunks(b.chunks), NEW ack
  PROVE  LET r == ApplyAck(b, ack)
         IN  /\ IsChunks(r.chunks)
             /\ DOMAIN r.chunks = DOMAIN b.chunks \ Covers(ack, DOMAIN b.chunks)
             /\ \A s \in DOMAIN r.chunks : r.chunks[s] = b.chunks[s]
<1>. DEFINE C == Covers(ack, DOMAIN b.chunks)
            f == b.chunks
            g == ApplyAck(b, ack).chunks
<1>1. g = Remove(f, C)
  BY DEF ApplyAck, Release
<1>2. IsChunks(f)
  OBVIOUS
<1>. HIDE DEF C, f, g
<1>3. /\ IsChunks(Remove(f, C))
      /\ DOMAIN Remove(f, C) = DOMAIN f \ C
      /\ \A s \in DOMAIN f \ C : Remove(f, C)[s] = f[s]
  BY <1>2, RemoveProperties, Zenon
<1>4. IsChunks(g) /\ DOMAIN g = DOMAIN f \ C
  BY <1>1, <1>3, Zenon
<1>5. \A s \in DOMAIN g : g[s] = f[s]
  BY <1>1, <1>3, Zenon
<1>. QED BY <1>4, <1>5, Zenon DEF C, f, g

\* Draining stops at the first sequence that is missing: there is one, because
\* only sequences below MaxNonce are held.
LEMMA DrainEndProperties ==
  ASSUME NEW b, b.next \in Seqs, IsChunks(b.pending)
  PROVE  /\ DrainEnd(b) \in (b.next + 1) .. MaxNonce
         /\ DrainEnd(b) \notin DOMAIN b.pending
         /\ \A m \in (b.next + 1) .. (DrainEnd(b) - 1) : m \in DOMAIN b.pending
<1>. DEFINE T == {n \in (b.next + 1) .. MaxNonce : n \notin DOMAIN b.pending}
<1>1. MaxNonce \in T
  BY BufferAssumption DEF IsChunks, Seqs
<1>2. T \subseteq Nat
  BY BufferAssumption DEF Seqs
<1>3. PICK n \in T : \A m \in T : n <= m
  BY <1>1, <1>2, LeastNatural
<1>4. \A m \in (b.next + 1) .. (n - 1) : m \in DOMAIN b.pending
  BY <1>3, <1>2, BufferAssumption DEF Seqs
<1>5. \E e \in (b.next + 1) .. MaxNonce :
        /\ e \notin DOMAIN b.pending
        /\ \A m \in (b.next + 1) .. (e - 1) : m \in DOMAIN b.pending
  BY <1>3, <1>4
<1>. QED BY <1>5 DEF DrainEnd

-----------------------------------------------------------------------------
(* accept and drain_ready.                                                 *)

\* Accepting a chunk of a stream keeps every chunk already received, adds this
\* one and nothing else, and what becomes ready is the next stretch of the
\* stream.
LEMMA AcceptProperties ==
  ASSUME NEW b, b.next \in 0 .. MaxNonce, IsChunks(b.pending),
         NEW seq \in Seqs, NEW d \in Data, Accepts(b, seq, d),
         NEW stream,
         \A s \in DOMAIN b.pending : s > b.next /\ b.pending[s] = stream[s + 1],
         d = stream[seq + 1]
  PROVE  LET a == Accept(b, seq, d)
             r == Ready(b, seq, d)
         IN  /\ a.next \in b.next .. MaxNonce
             /\ IsChunks(a.pending)
             /\ \A s \in DOMAIN a.pending : s > a.next /\ a.pending[s] = stream[s + 1]
             /\ DOMAIN a.pending \subseteq DOMAIN b.pending \cup {seq}
             /\ \A s \in DOMAIN b.pending \cup {seq} : s < a.next \/ s \in DOMAIN a.pending
             /\ \A s \in b.next .. (a.next - 1) : s \in DOMAIN b.pending \cup {seq}
             /\ r \in Seq(Data)
             /\ Len(r) = a.next - b.next
             /\ \A i \in 1 .. Len(r) : r[i] = stream[b.next + i]
<1>. DEFINE a == Accept(b, seq, d)
            r == Ready(b, seq, d)
<1>0. MaxNonce \in Nat /\ b.next \in Nat /\ seq \in Nat /\ seq < MaxNonce /\ seq >= b.next
  BY BufferAssumption DEF Seqs, Accepts, IsDuplicate
<1>1. CASE seq = b.next
  <2>. DEFINE e == DrainEnd(b)
  <2>1. /\ e \in (b.next + 1) .. MaxNonce
        /\ e \notin DOMAIN b.pending
        /\ \A m \in (b.next + 1) .. (e - 1) : m \in DOMAIN b.pending
    BY <1>1, DrainEndProperties
  <2>2. a.next = e /\ a.pending = Remove(b.pending, 0 .. (e - 1))
    BY <1>1 DEF Accept, Drain
  <2>3. r = [i \in 1 .. (e - b.next) |-> IF i = 1 THEN d ELSE b.pending[b.next + i - 1]]
    BY <1>1 DEF Ready, Drained
  <2>. HIDE DEF e, a, r
  <2>4. /\ IsChunks(a.pending)
        /\ DOMAIN a.pending = DOMAIN b.pending \ (0 .. (e - 1))
        /\ \A s \in DOMAIN a.pending : a.pending[s] = b.pending[s]
    <3>. DEFINE S == 0 .. (e - 1)
    <3>1. a.pending = Remove(b.pending, S)
      BY <2>2
    <3>. HIDE DEF S
    <3>2. /\ IsChunks(a.pending)
          /\ DOMAIN a.pending = DOMAIN b.pending \ S
          /\ \A s \in DOMAIN b.pending \ S : a.pending[s] = b.pending[s]
      BY <3>1 DEF IsChunks, Remove, Restrict
    <3>. QED BY <3>2 DEF S
  <2>5. DOMAIN b.pending \subseteq Nat
    BY <1>0 DEF IsChunks, Seqs
  <2>6. \A s \in DOMAIN a.pending : s > a.next /\ a.pending[s] = stream[s + 1]
    BY <2>1, <2>2, <2>4, <2>5, <1>0
  <2>7. \A s \in DOMAIN b.pending \cup {seq} : s < a.next \/ s \in DOMAIN a.pending
    BY <1>0, <1>1, <2>1, <2>2, <2>4, <2>5
  <2>8. \A s \in b.next .. (a.next - 1) : s \in DOMAIN b.pending \cup {seq}
    BY <1>0, <1>1, <2>1, <2>2
  <2>9. \A i \in 1 .. (e - b.next) : r[i] \in Data /\ r[i] = stream[b.next + i]
    <3>. SUFFICES ASSUME NEW i \in 1 .. (e - b.next)
                  PROVE  r[i] \in Data /\ r[i] = stream[b.next + i]
      OBVIOUS
    <3>1. CASE i = 1
      BY <3>1, <1>1, <1>0, <2>3
    <3>2. CASE i # 1
      <4>1. b.next + i - 1 \in (b.next + 1) .. (e - 1)
        BY <3>2, <1>0, <2>1
      <4>2. r[i] = b.pending[b.next + i - 1] /\ b.next + i - 1 \in DOMAIN b.pending
        BY <3>2, <2>3, <4>1, <2>1
      <4>3. (b.next + i - 1) + 1 = b.next + i
        BY <1>0
      <4>. QED BY <4>2, <4>3 DEF IsChunks
    <3>. QED BY <3>1, <3>2
  <2>10. e - b.next \in Nat
    BY <1>0, <2>1
  <2>11. r \in Seq(Data) /\ Len(r) = e - b.next
    <3>1. r \in [1 .. (e - b.next) -> Data]
      BY <2>3, <2>9
    <3>. QED BY <3>1, <2>10, FunctionIsSeq
  <2>. QED BY <1>0, <2>1, <2>2, <2>4, <2>6, <2>7, <2>8, <2>9, <2>11 DEF a, r
<1>2. CASE seq # b.next
  <2>1. a.next = b.next /\ a.pending = Insert(b.pending, seq, d) /\ r = <<>>
    BY <1>2 DEF Accept, Hold, Ready
  <2>. HIDE DEF a, r
  <2>2. seq > b.next
    BY <1>0, <1>2
  <2>3. /\ IsChunks(a.pending)
        /\ DOMAIN a.pending = DOMAIN b.pending \cup {seq}
        /\ \A s \in DOMAIN a.pending : a.pending[s] = IF s = seq THEN d ELSE b.pending[s]
    BY <2>1 DEF Insert, IsChunks
  <2>4. \A s \in DOMAIN a.pending : s > a.next /\ a.pending[s] = stream[s + 1]
    BY <2>1, <2>2, <2>3
  <2>. QED BY <1>0, <2>1, <2>3, <2>4 DEF a, r
<1>. QED BY <1>1, <1>2

\* Whatever the held chunks carry, accepting keeps the buffer well-formed.
LEMMA AcceptTypes ==
  ASSUME NEW b, b.next \in 0 .. MaxNonce, IsChunks(b.pending),
         NEW seq \in Seqs, NEW d \in Data, Accepts(b, seq, d),
         \A s \in DOMAIN b.pending : s > b.next
  PROVE  /\ Accept(b, seq, d).next \in 0 .. MaxNonce
         /\ IsChunks(Accept(b, seq, d).pending)
         /\ \A s \in DOMAIN Accept(b, seq, d).pending : s > Accept(b, seq, d).next
         /\ Ready(b, seq, d) \in Seq(Data)
<1>. DEFINE stream == [i \in Nat |-> IF i = seq + 1 THEN d ELSE b.pending[i - 1]]
<1>1. seq \in Nat /\ DOMAIN b.pending \subseteq Nat /\ b.next \in Nat /\ MaxNonce \in Nat
  BY BufferAssumption DEF IsChunks, Seqs
<1>2. seq \notin DOMAIN b.pending
  BY DEF Accepts, IsDuplicate
<1>3. d = stream[seq + 1] /\ \A s \in DOMAIN b.pending : b.pending[s] = stream[s + 1]
  BY <1>1, <1>2
<1>. HIDE DEF stream
<1>4. \A s \in DOMAIN b.pending : s > b.next /\ b.pending[s] = stream[s + 1]
  BY <1>3
<1>. QED BY <1>1, <1>3, <1>4, AcceptProperties

-----------------------------------------------------------------------------
(* build_ack.                                                              *)

\* The acknowledgement claims only what the receive buffer holds.
LEMMA BuildAckProperties ==
  ASSUME NEW b, IsChunks(b.pending)
  PROVE  LET ack == BuildAck(b)
         IN  /\ ack.next = b.next
             /\ ack.ranges \subseteq [start : Nat, end : Nat]
             /\ \A q \in ack.ranges : q.start .. q.end \subseteq DOMAIN b.pending
<1>1. DOMAIN b.pending \subseteq Nat
  BY DEF IsChunks, Seqs
<1>2. BuildAck(b).ranges \subseteq Runs(DOMAIN b.pending)
  BY DEF BuildAck, LowestRuns
<1>3. \A q \in Runs(DOMAIN b.pending) :
        q \in [start : Nat, end : Nat] /\ q.start .. q.end \subseteq DOMAIN b.pending
  BY <1>1 DEF Runs, IsRun
<1>. QED BY <1>2, <1>3 DEF BuildAck
\* Two runs of a set of sequences that start together are one, and a later run
\* leaves at least one sequence out before it starts.
LEMMA RunProperties ==
  ASSUME NEW S \in SUBSET Nat, NEW q \in Runs(S), NEW r \in Runs(S)
  PROVE  /\ q.start \in S /\ q.end \in Nat /\ q.start <= q.end
         /\ q.start = r.start => q = r
         /\ q.start < r.start => q.end + 1 < r.start
<1>1. /\ q \in [start : S, end : S] /\ q.start <= q.end
      /\ q.start .. q.end \subseteq S /\ q.start - 1 \notin S /\ q.end + 1 \notin S
  BY DEF Runs, IsRun
<1>2. /\ r \in [start : S, end : S] /\ r.start <= r.end
      /\ r.start .. r.end \subseteq S /\ r.start - 1 \notin S /\ r.end + 1 \notin S
  BY DEF Runs, IsRun
<1>3. {q.start, q.end, r.start, r.end} \subseteq Nat
  BY <1>1, <1>2
<1>4. ASSUME q.start = r.start PROVE q = r
  <2>1. ~(q.end < r.end)
    <3>1. q.end < r.end => q.end + 1 \in r.start .. r.end
      BY <1>1, <1>3, <1>4
    <3>. QED BY <1>1, <1>2, <3>1
  <2>2. ~(r.end < q.end)
    <3>1. r.end < q.end => r.end + 1 \in q.start .. q.end
      BY <1>2, <1>3, <1>4
    <3>. QED BY <1>1, <1>2, <3>1
  <2>3. q.end = r.end
    BY <1>3, <2>1, <2>2
  <2>. QED BY <1>1, <1>2, <1>4, <2>3
<1>5. ASSUME q.start < r.start PROVE q.end + 1 < r.start
  <2>1. r.start - 1 <= q.end => r.start - 1 \in q.start .. q.end
    BY <1>3, <1>5
  <2>2. ~(r.start - 1 <= q.end)
    BY <1>1, <1>2, <2>1
  <2>. QED BY <1>3, <2>2
<1>. QED BY <1>1, <1>3, <1>4, <1>5

\* An acknowledgement carries no more ranges than its encoding allows: among the
\* runs chosen, all but the last start below the last, and fewer than
\* MaxSackRanges do.
LEMMA LowestRunsBounded ==
  ASSUME NEW S \in SUBSET Seqs
  PROVE  Cardinality(LowestRuns(S)) <= MaxSackRanges
<1>. DEFINE L == LowestRuns(S)
            start == [r \in Runs(S) |-> r.start]
<1>0. S \subseteq Nat /\ MaxNonce \in Nat /\ MaxSackRanges \in Nat
  BY BufferAssumption DEF Seqs
<1>1. IsFiniteSet(Runs(S))
  <2>1. IsFiniteSet(S)
    <3>1. IsFiniteSet(Seqs)
      BY <1>0, FS_Interval DEF Seqs
    <3>. QED BY <3>1, FS_Subset
  <2>2. start \in Injection(Runs(S), S)
    <3>1. start \in [Runs(S) -> S]
      BY <1>0, RunProperties
    <3>2. \A q, r \in Runs(S) : start[q] = start[r] => q = r
      BY <1>0, RunProperties
    <3>. QED BY <3>1, <3>2 DEF Injection, IsInjective
  <2>. QED BY <2>1, <2>2, FS_Injection
<1>2. L \subseteq Runs(S) /\ IsFiniteSet(L) /\ Cardinality(L) \in Nat
  <2>1. L \subseteq Runs(S)
    BY DEF LowestRuns
  <2>. QED BY <1>1, <2>1, FS_Subset, FS_CardinalityType
<1>3. CASE L = {}
  BY <1>0, <1>3, FS_EmptySet
<1>4. CASE L # {}
  <2>1. \E r \in L : \A q \in L : q.start <= r.start
    <3>. DEFINE T == {MaxNonce - q.start : q \in L}
    <3>1. \A q \in L : q.start \in Seqs
      BY <1>0, <1>2, RunProperties
    <3>2. T \in SUBSET Nat /\ T # {}
      BY <1>0, <1>4, <3>1 DEF Seqs
    <3>3. PICK n \in T : \A m \in T : n <= m
      BY <3>2, LeastNatural
    <3>4. PICK r \in L : n = MaxNonce - r.start
      BY <3>3
    <3>5. \A q \in L : n <= MaxNonce - q.start
      BY <3>3
    <3>6. \A q \in L : q.start \in Nat
      BY <3>1 DEF Seqs
    <3>. QED BY <1>0, <3>4, <3>5, <3>6
  <2>2. PICK r \in L : \A q \in L : q.start <= r.start
    BY <2>1
  <2>. DEFINE below == {q \in Runs(S) : q.start < r.start}
  <2>3. IsFiniteSet(below) /\ Cardinality(below) \in Nat /\ Cardinality(below) < MaxSackRanges
    <3>1. Cardinality(below) < MaxSackRanges
      BY <2>2 DEF LowestRuns
    <3>. QED BY <1>1, <3>1, FS_Subset, FS_CardinalityType
  <2>4. L \ {r} \subseteq below
    <3>. SUFFICES ASSUME NEW q \in L, q # r PROVE q.start < r.start
      BY <1>2
    <3>1. q.start <= r.start /\ q.start # r.start /\ q.start \in Nat /\ r.start \in Nat
      BY <1>0, <1>2, <2>2, RunProperties
    <3>. QED BY <3>1
  <2>5. Cardinality(L \ {r}) <= Cardinality(below)
    BY <2>3, <2>4, FS_Subset
  <2>6. Cardinality(L \ {r}) = Cardinality(L) - 1
    BY <1>2, <2>2, FS_RemoveElement
  <2>. QED BY <1>0, <1>2, <2>3, <2>5, <2>6
<1>. QED BY <1>3, <1>4

\* What build_ack produces passes the validation of the decoder.
LEMMA BuildAckDecodable ==
  ASSUME NEW b, b.next \in Nat, IsChunks(b.pending), \A s \in DOMAIN b.pending : s > b.next
  PROVE  Decodable(BuildAck(b))
<1>. DEFINE S == DOMAIN b.pending
<1>1. S \in SUBSET Seqs /\ S \in SUBSET Nat
  BY DEF IsChunks, Seqs
<1>2. BuildAck(b).next = b.next /\ BuildAck(b).ranges = LowestRuns(S)
  BY DEF BuildAck
<1>3. LowestRuns(S) \subseteq Runs(S)
  BY DEF LowestRuns
<1>4. \A q \in LowestRuns(S) : q.start \in S /\ q.start <= q.end
  BY <1>1, <1>3, RunProperties
<1>5. \A q, r \in LowestRuns(S) : q.start < r.start => q.end + 1 < r.start
  BY <1>1, <1>3, RunProperties
<1>6. Cardinality(LowestRuns(S)) <= MaxSackRanges
  BY <1>1, LowestRunsBounded
<1>. QED BY <1>2, <1>4, <1>5, <1>6 DEF Decodable
-----------------------------------------------------------------------------
(* The byte counters.                                                      *)

\* The chunks of a buffer hold finitely many bytes.
LEMMA HeldBytesFinite ==
  ASSUME NEW f, IsChunks(f)
  PROVE  /\ IsFiniteSet(DOMAIN f) /\ IsFiniteSet(HeldBytes(f))
         /\ TotalSize(f) \in Nat
<1>. DEFINE g == [s \in DOMAIN f |-> {s} \X (1 .. Size[f[s]])]
            T == {{s} \X (1 .. Size[f[s]]) : s \in DOMAIN f}
<1>1. IsFiniteSet(DOMAIN f)
  <2>1. IsFiniteSet(Seqs)
    BY BufferAssumption, FS_Interval DEF Seqs
  <2>. QED BY <2>1, FS_Subset DEF IsChunks
<1>2. g \in Surjection(DOMAIN f, T)
  BY Fun_IsSurj, Zenon
<1>3. IsFiniteSet(T)
  BY <1>1, <1>2, FS_Surjection, Zenon
<1>4. ASSUME NEW s \in DOMAIN f PROVE IsFiniteSet({s} \X (1 .. Size[f[s]]))
  <2>1. Size[f[s]] \in Int
    BY BufferAssumption DEF IsChunks
  <2>2. IsFiniteSet({s})
    BY FS_Singleton, Zenon
  <2>3. IsFiniteSet(1 .. Size[f[s]])
    BY <2>1, FS_Interval
  <2>. QED BY <2>2, <2>3, FS_Product, Zenon
<1>5. IsFiniteSet(UNION T)
  BY <1>3, <1>4, FS_UNION, Zenon
<1>. QED BY <1>1, <1>5, FS_CardinalityType DEF HeldBytes, TotalSize

\* An empty buffer holds none.
LEMMA NoBytes == TotalSize(NoChunks) = 0
<1>1. HeldBytes(NoChunks) = {}
  BY DEF HeldBytes, NoChunks
<1>. QED BY <1>1, FS_EmptySet DEF TotalSize

\* A chunk under a new sequence adds its length (push and accept).
LEMMA TotalSizeInsert ==
  ASSUME NEW f, IsChunks(f), NEW seq \in Seqs \ DOMAIN f, NEW d \in Data
  PROVE  TotalSize(Insert(f, seq, d)) = TotalSize(f) + Size[d]
<1>. DEFINE S == HeldBytes(f)
            T == {seq} \X (1 .. Size[d])
<1>1. IsFiniteSet(S) /\ Cardinality(S) \in Nat
  BY HeldBytesFinite DEF TotalSize
<1>2. IsFiniteSet(T) /\ Cardinality(T) = Size[d]
  <2>1. Size[d] \in Nat \ {0}
    BY BufferAssumption
  <2>2. IsFiniteSet({seq}) /\ Cardinality({seq}) = 1
    BY FS_Singleton
  <2>3. IsFiniteSet(1 .. Size[d]) /\ Cardinality(1 .. Size[d]) = Size[d]
    BY <2>1, FS_Interval
  <2>4. IsFiniteSet(T) /\ Cardinality(T) = 1 * Size[d]
    BY <2>2, <2>3, FS_Product, Zenon
  <2>. QED BY <2>1, <2>4
<1>3. HeldBytes(Insert(f, seq, d)) = S \cup T
  <2>1. /\ DOMAIN Insert(f, seq, d) = DOMAIN f \cup {seq}
        /\ Insert(f, seq, d)[seq] = d
        /\ \A s \in DOMAIN f : Insert(f, seq, d)[s] = f[s]
    BY DEF Insert
  <2>. HIDE DEF Insert
  <2>. QED BY <2>1 DEF HeldBytes
<1>4. S \cap T = {}
  BY DEF HeldBytes
<1>5. Cardinality(S \cup T) = Cardinality(S) + Cardinality(T) - Cardinality(S \cap T)
  BY <1>1, <1>2, FS_Union
<1>6. Cardinality(S \cap T) = 0
  BY <1>4, FS_EmptySet
<1>. HIDE DEF S, T
<1>7. TotalSize(Insert(f, seq, d)) = Cardinality(S \cup T)
  BY <1>3 DEF TotalSize
<1>8. TotalSize(f) = Cardinality(S)
  BY DEF TotalSize, S
<1>9. Size[d] \in Nat
  BY BufferAssumption
<1>. QED BY <1>1, <1>2, <1>5, <1>6, <1>7, <1>8, <1>9

\* What is removed and what stays share the bytes between them (apply_ack and
\* drain_ready).
LEMMA TotalSizeSplit ==
  ASSUME NEW f, IsChunks(f), NEW R
  PROVE  /\ TotalSize(f) = TotalSize(Remove(f, R)) + TotalSize(Restrict(f, DOMAIN f \cap R))
         /\ TotalSize(Remove(f, R)) \in Nat
         /\ TotalSize(Restrict(f, DOMAIN f \cap R)) \in Nat
<1>. DEFINE g == Remove(f, R)
            h == Restrict(f, DOMAIN f \cap R)
            S == HeldBytes(g)
            T == HeldBytes(h)
<1>1. IsChunks(g) /\ DOMAIN g = DOMAIN f \ R /\ \A s \in DOMAIN g : g[s] = f[s]
  BY RemoveProperties
<1>2. IsChunks(h) /\ DOMAIN h = DOMAIN f \cap R /\ \A s \in DOMAIN h : h[s] = f[s]
  BY DEF IsChunks, Restrict
<1>. HIDE DEF g, h
<1>3. IsFiniteSet(S) /\ IsFiniteSet(T) /\ TotalSize(g) \in Nat /\ TotalSize(h) \in Nat
  BY <1>1, <1>2, HeldBytesFinite
<1>4. HeldBytes(f) = S \cup T
  BY <1>1, <1>2 DEF HeldBytes
<1>5. S \cap T = {}
  BY <1>1, <1>2 DEF HeldBytes
<1>. HIDE DEF S, T
<1>6. Cardinality(S \cup T) = Cardinality(S) + Cardinality(T) - Cardinality(S \cap T)
  BY <1>3, FS_Union
<1>7. Cardinality(S \cap T) = 0
  BY <1>5, FS_EmptySet
<1>8. TotalSize(f) = Cardinality(S \cup T) /\ TotalSize(g) = Cardinality(S) /\ TotalSize(h) = Cardinality(T)
  BY <1>4 DEF TotalSize, S, T
<1>9. TotalSize(f) = TotalSize(g) + TotalSize(h)
  BY <1>3, <1>6, <1>7, <1>8
<1>. QED BY <1>3, <1>9 DEF g, h

\* A chunk under a sequence already held takes the place of the other one.
LEMMA TotalSizeReplace ==
  ASSUME NEW f, IsChunks(f), NEW seq \in DOMAIN f, NEW d \in Data
  PROVE  TotalSize(Insert(f, seq, d)) = TotalSize(f) + Size[d] - Size[f[seq]]
<1>. DEFINE g == Remove(f, {seq})
            h == Restrict(f, DOMAIN f \cap {seq})
            e == Insert(NoChunks, seq, f[seq])
<1>1. seq \in Seqs /\ f[seq] \in Data /\ Size[d] \in Nat /\ Size[f[seq]] \in Nat
  BY BufferAssumption DEF IsChunks
<1>2. IsChunks(g) /\ DOMAIN g = DOMAIN f \ {seq} /\ \A s \in DOMAIN g : g[s] = f[s]
  BY RemoveProperties
<1>3. TotalSize(f) = TotalSize(g) + TotalSize(h) /\ TotalSize(g) \in Nat
  BY TotalSizeSplit
<1>4. TotalSize(h) = Size[f[seq]]
  <2>1. h = e
    BY DEF Restrict, Insert, NoChunks
  <2>2. IsChunks(NoChunks) /\ seq \in Seqs \ DOMAIN NoChunks
    BY <1>1 DEF IsChunks, NoChunks
  <2>3. TotalSize(e) = TotalSize(NoChunks) + Size[f[seq]]
    BY <1>1, <2>2, TotalSizeInsert
  <2>4. TotalSize(e) = Size[f[seq]]
    BY <1>1, <2>3, NoBytes
  <2>. QED BY <2>1, <2>4
<1>5. Insert(f, seq, d) = Insert(g, seq, d)
  BY <1>2 DEF Insert
<1>. HIDE DEF g, h
<1>6. TotalSize(Insert(g, seq, d)) = TotalSize(g) + Size[d]
  BY <1>1, <1>2, TotalSizeInsert
<1>. QED BY <1>1, <1>3, <1>4, <1>5, <1>6

\* The counter of a send buffer is exact, and above max_bytes only for one
\* chunk that is larger than the buffer by itself.
SendCounterExact(b) ==
  /\ b.bytes = TotalSize(b.chunks)
  /\ b.bytes <= MaxSendBytes \/ Cardinality(DOMAIN b.chunks) = 1

\* The counter of a receive buffer is exact and within max_bytes.
RecvCounterExact(b) == b.bytes = TotalSize(b.pending) /\ b.bytes <= MaxRecvBytes

\* Both hold of a new buffer.
LEMMA EmptyCountersExact ==
  SendCounterExact(EmptySendBuffer) /\ RecvCounterExact(EmptyReceiveBuffer)
BY NoBytes, BufferAssumption
DEF SendCounterExact, RecvCounterExact, EmptySendBuffer, EmptyReceiveBuffer

\* push keeps the counter exact, also when it replaces a chunk; it refuses what
\* does not fit, unless the buffer is empty.
LEMMA PushKeepsCounter ==
  ASSUME NEW b, IsChunks(b.chunks), SendCounterExact(b), NEW seq \in Seqs, NEW d \in Data
  PROVE  SendCounterExact(Push(b, seq, d))
<1>1. CASE Rejects(b, d)
  BY <1>1 DEF Push
<1>2. CASE ~Rejects(b, d)
  <2>. DEFINE p == Push(b, seq, d)
              replaced == IF seq \in DOMAIN b.chunks THEN Size[b.chunks[seq]] ELSE 0
  <2>1. p.chunks = Insert(b.chunks, seq, d) /\ p.bytes = b.bytes + Size[d] - replaced
    BY <1>2 DEF Push
  <2>2. /\ TotalSize(b.chunks) \in Nat /\ Size[d] \in Nat /\ MaxSendBytes \in Nat
        /\ replaced \in Nat
    BY HeldBytesFinite, BufferAssumption DEF IsChunks
  <2>3. TotalSize(p.chunks) = TotalSize(b.chunks) + Size[d] - replaced
    <3>1. CASE seq \in DOMAIN b.chunks
      BY <2>1, <3>1, TotalSizeReplace
    <3>2. CASE seq \notin DOMAIN b.chunks
      <4>1. TotalSize(p.chunks) = TotalSize(b.chunks) + Size[d]
        BY <2>1, <3>2, TotalSizeInsert
      <4>. QED BY <2>2, <3>2, <4>1
    <3>. QED BY <3>1, <3>2
  <2>. HIDE DEF p, replaced
  <2>4. p.bytes = TotalSize(p.chunks) /\ p.bytes <= b.bytes + Size[d]
    BY <2>1, <2>2, <2>3 DEF SendCounterExact
  <2>5. CASE b.bytes + Size[d] <= MaxSendBytes
    <3>1. p.bytes <= MaxSendBytes
      BY <2>1, <2>2, <2>4, <2>5 DEF SendCounterExact
    <3>. QED BY <2>4, <3>1 DEF SendCounterExact, p
  <2>6. CASE DOMAIN b.chunks = {}
    <3>1. DOMAIN p.chunks = {seq}
      BY <2>1, <2>6 DEF Insert
    <3>2. Cardinality({seq}) = 1
      BY FS_Singleton, Zenon
    <3>. QED BY <2>4, <3>1, <3>2 DEF SendCounterExact, p
  <2>. QED BY <1>2, <2>2, <2>5, <2>6 DEF Rejects, SendCounterExact
<1>. QED BY <1>1, <1>2

\* apply_ack subtracts what it removes, and one chunk that is larger than the
\* buffer stays or leaves it empty.
LEMMA AckKeepsCounter ==
  ASSUME NEW b, IsChunks(b.chunks), SendCounterExact(b), NEW ack
  PROVE  SendCounterExact(ApplyAck(b, ack))
<1>. DEFINE C == Covers(ack, DOMAIN b.chunks)
            r == ApplyAck(b, ack)
            gone == Restrict(b.chunks, DOMAIN b.chunks \cap C)
<1>1. r.chunks = Remove(b.chunks, C) /\ r.bytes = b.bytes - TotalSize(gone)
  BY DEF ApplyAck, Release
<1>2. /\ b.bytes = TotalSize(r.chunks) + TotalSize(gone)
      /\ TotalSize(r.chunks) \in Nat /\ TotalSize(gone) \in Nat
  BY <1>1, TotalSizeSplit DEF SendCounterExact
<1>3. DOMAIN r.chunks \subseteq DOMAIN b.chunks
  BY ApplyAckProperties
<1>. HIDE DEF r, gone
<1>4. r.bytes = TotalSize(r.chunks) /\ r.bytes <= b.bytes
  BY <1>1, <1>2
<1>5. MaxSendBytes \in Nat
  BY BufferAssumption
<1>6. CASE b.bytes <= MaxSendBytes
  BY <1>1, <1>2, <1>4, <1>5, <1>6 DEF SendCounterExact, r
<1>7. CASE Cardinality(DOMAIN b.chunks) = 1
  <2>1. PICK s : DOMAIN b.chunks = {s}
    BY <1>7, HeldBytesFinite, FS_Singleton, Zenon
  <2>2. CASE DOMAIN r.chunks = DOMAIN b.chunks
    BY <1>4, <1>7, <2>2 DEF SendCounterExact, r
  <2>3. CASE DOMAIN r.chunks = {}
    <3>1. HeldBytes(r.chunks) = {}
      BY <2>3 DEF HeldBytes
    <3>2. TotalSize(r.chunks) = 0
      BY <3>1, FS_EmptySet DEF TotalSize
    <3>. QED BY <1>4, <1>5, <3>2 DEF SendCounterExact, r
  <2>. QED BY <1>3, <2>1, <2>2, <2>3
<1>. QED BY <1>6, <1>7 DEF SendCounterExact

\* accept refuses what it has no room to hold; drain_ready subtracts what it
\* hands out.
LEMMA AcceptKeepsCounter ==
  ASSUME NEW b, b.next \in 0 .. MaxNonce, IsChunks(b.pending), RecvCounterExact(b),
         NEW seq \in Seqs, NEW d \in Data, Accepts(b, seq, d)
  PROVE  RecvCounterExact(Accept(b, seq, d))
<1>. DEFINE a == Accept(b, seq, d)
<1>1. MaxRecvBytes \in Nat /\ Size[d] \in Nat /\ TotalSize(b.pending) \in Nat
  BY HeldBytesFinite, BufferAssumption
<1>2. CASE seq = b.next
  <2>. DEFINE passed == 0 .. (DrainEnd(b) - 1)
              gone == Restrict(b.pending, DOMAIN b.pending \cap passed)
  <2>1. a.pending = Remove(b.pending, passed) /\ a.bytes = b.bytes - TotalSize(gone)
    BY <1>2 DEF Accept, Drain
  <2>2. /\ TotalSize(b.pending) = TotalSize(a.pending) + TotalSize(gone)
        /\ TotalSize(a.pending) \in Nat /\ TotalSize(gone) \in Nat
    BY <2>1, TotalSizeSplit
  <2>. HIDE DEF a, gone
  <2>. QED BY <1>1, <2>1, <2>2 DEF RecvCounterExact, a
<1>3. CASE seq # b.next
  <2>1. seq \in Seqs \ DOMAIN b.pending /\ seq > b.next
    BY <1>3, BufferAssumption DEF Accepts, IsDuplicate, Seqs
  <2>2. a.pending = Insert(b.pending, seq, d) /\ a.bytes = b.bytes + Size[d]
    BY <1>3 DEF Accept, Hold
  <2>3. b.bytes + Size[d] <= MaxRecvBytes
    BY <1>1, <2>1 DEF Accepts, Overflows, RecvCounterExact
  <2>. HIDE DEF a
  <2>. QED BY <2>1, <2>2, <2>3, TotalSizeInsert DEF RecvCounterExact, a
<1>. QED BY <1>2, <1>3

=============================================================================
