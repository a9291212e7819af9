------------------------------ MODULE LinkProofs ------------------------------
(***************************************************************************)
(* Theorems about one link of the client: what it carries (Transports,     *)
(* whose specification is TransportsSpec) and when it is left (Failover).  *)
(* The two share nothing but this module, and no theorem rests on an       *)
(* assumption of the other one.                                            *)
(*                                                                         *)
(* Transports, for every sequence of messages, every prefix, read size and *)
(* padding: frames are read back whole, in order, under their own number.  *)
(* The received frames alone do not say why.  What does is that the bytes  *)
(* under way (read and not yet decoded, sent, not yet sent) are one stream *)
(* that starts with the next frame and has no gap (StreamGapless).  Units  *)
(* only move along it, and a read of the announced length takes one frame  *)
(* of it.  That it has no gap is a relation of each two of its units       *)
(* (Apart), so that nothing is counted along the stream.                   *)
(*                                                                         *)
(* Failover, for every setting of the timers: the client does not leave a  *)
(* quiet link that is sound, and notices a link that is not.               *)
(***************************************************************************)
EXTENDS Failover, Transports, SequenceTheorems, TLAPS

-----------------------------------------------------------------------------
(* Transports: what a link carries.                                        *)

\* The key that seals and opens in this direction.
Key == IF kind = "server" THEN "client_write" ELSE "server_write"

\* A sequence, written out by its elements.
IsSequence(s) == Len(s) \in Nat /\ s = [i \in 1 .. Len(s) |-> s[i]]

\* Message i, sealed with key under the number i - 1.
Sealing(i, pad, key) == EncodeSequenced(NewChunk(Messages[i], pad), key, i - 1)

\* Frame i carries message i under the number i - 1.
FramesSealed ==
  /\ IsSequence(frames) /\ Len(frames) <= Len(Messages)
  /\ \A i \in DOMAIN frames : \E pad \in Pads : frames[i] = Sealing(i, pad, Key)

\* Nothing has happened before there is a connection, and nothing is awaited after it.
Staged ==
  /\ kind = "none" <=> state \in {"dialling", "failed"}
  /\ state = "dialling" => tried < Len(Connect)
  /\ kind = "none" => frames = <<>> /\ transit = <<>> /\ got = <<>> /\ accepted = 0 /\ recv = "none"
  /\ kind \notin {"tls", "server"} => buf = <<>> /\ outbox = <<>>
  /\ recv # "none" => state = "open"
  /\ kind # "quic" => ~torn /\ accepted = 0 /\ recv # "holding"

\* What has been returned is what was sealed, in order.
GotSealed ==
  /\ IsSequence(got)
  /\ \A n \in DOMAIN got :
       /\ got[n].sequence \in 0 .. Len(frames) - 1
       /\ got[n].message = Messages[got[n].sequence + 1]
       /\ n > 1 => got[n - 1].sequence < got[n].sequence
       /\ ~torn => got[n].sequence = n - 1

\* What has been written and not yet returned, the oldest first.
Stream == buf \o transit \o outbox

\* A unit of a stream is the number of its frame and its place in it.
StreamUnits == Nat \X Nat

\* The units of frame i of f.
UnitsOf(f, i) == Prefix + Size(f[i])

\* Unit k of s is as far behind unit j as the frames between them say.
Apart(s, f, j, k) ==
  \/ s[k][1] = s[j][1] /\ s[k][2] - s[j][2] = k - j
  \/ s[k][1] > s[j][1] /\ (UnitsOf(f, s[j][1]) - s[j][2]) + s[k][2] <= k - j

\* s starts with the frame first of f, and goes on without a gap.
Gapless(s, first, f) ==
  /\ \A j \in DOMAIN s : s[j][1] \in first .. Len(f) /\ s[j][2] \in 1 .. UnitsOf(f, s[j][1])
  /\ s # <<>> => s[1] = <<first, 1>>
  /\ \A j, k \in DOMAIN s : j < k => Apart(s, f, j, k)
  /\ \A j \in DOMAIN s : j > 1 => s[j][1] <= s[j - 1][1] + 1

\* s goes to the end of f: it ends with the last unit, or there is nothing left.
Reaches(s, first, f) ==
  IF s = <<>> THEN first = Len(f) + 1 ELSE s[Len(s)] = <<Len(f), UnitsOf(f, Len(f))>>

\* tls and the server: the stream goes on from the next frame that recv returns, and
\* reaches the last frame that was written unless the link has been cut.
StreamGapless ==
  kind \in {"tls", "server"} =>
    /\ buf \in Seq(StreamUnits) /\ transit \in Seq(StreamUnits) /\ outbox \in Seq(StreamUnits)
    /\ Gapless(Stream, Len(got) + 1, frames)
    /\ ~cut => Reaches(Stream, Len(got) + 1, frames)

\* websocket: the queue holds the frames not returned yet, in order, among messages
\* that are skipped (0).
MessagesQueued ==
  kind = "websocket" =>
    /\ transit \in Seq(Nat)
    /\ \A k \in DOMAIN transit : transit[k] = 0 \/ transit[k] \in Len(got) + 1 .. Len(frames)
    /\ \A i \in Len(got) + 1 .. Len(frames) : \E k \in DOMAIN transit : transit[k] = i
    /\ \A j, k \in DOMAIN transit : j < k /\ transit[j] # 0 /\ transit[k] # 0 => transit[j] < transit[k]

\* A recv that holds a stream it has accepted and not read.
Held == IF recv = "holding" THEN 1 ELSE 0

\* quic: one stream per frame; those accepted are returned, or held, or were lost with
\* a recv that was dropped.
StreamsAccepted ==
  kind = "quic" =>
    /\ transit \in Seq(Nat) /\ Len(transit) = Len(frames)
    /\ \A i \in DOMAIN transit : transit[i] \in {0, Prefix, Whole(i)}
    /\ accepted \in Held .. Len(frames)
    /\ Len(got) + Held <= accepted
    /\ \A n \in DOMAIN got : got[n].sequence < accepted - Held
    /\ ~torn /\ state = "open" => Len(got) + Held = accepted

\* The inductive invariant of Transports.
TransportsInv ==
  /\ TransportsTypeOK /\ FramesSealed /\ Staged /\ GotSealed
  /\ StreamGapless /\ MessagesQueued /\ StreamsAccepted

\* The constants of a link are numbers, those that bound or divide are positive.
LEMMA LinkNumbers ==
  /\ Prefix \in Nat /\ Prefix > 0 /\ ReadSize \in Nat /\ ReadSize > 0
  /\ Width \in Nat /\ Width > 0 /\ MaxNoise \in Nat
BY TransportsAssumption

\* What is sent of message i.
Payload(i) == NewChunk(Messages[i], 0).payload

\* A sequence is a sequence of what is in it.
LEMMA OfItsElements ==
  ASSUME NEW S, NEW s \in Seq(S)
  PROVE  s \in Seq({s[i] : i \in DOMAIN s})
<1>1. Len(s) \in Nat /\ DOMAIN s = 1 .. Len(s) /\ s = [i \in 1 .. Len(s) |-> s[i]]
  BY LenProperties
<1>. QED BY <1>1

\* A sequence that is written out is a sequence, with its length and its domain.
LEMMA SequenceShape ==
  ASSUME NEW s, IsSequence(s)
  PROVE  s \in Seq({s[i] : i \in DOMAIN s}) /\ Len(s) \in Nat /\ DOMAIN s = 1 .. Len(s)
BY DEF IsSequence

\* Append adds one element at the end and leaves the others alone.
LEMMA Appending ==
  ASSUME NEW s, IsSequence(s), NEW e
  PROVE  /\ IsSequence(Append(s, e)) /\ Len(Append(s, e)) = Len(s) + 1
         /\ DOMAIN Append(s, e) = 1 .. Len(s) + 1
         /\ \A i \in 1 .. Len(s) : Append(s, e)[i] = s[i]
         /\ Append(s, e)[Len(s) + 1] = e
<1>. DEFINE S == {s[i] : i \in DOMAIN s} \cup {e}
<1>1. s \in Seq(S) /\ e \in S
  <2>1. Len(s) \in Nat /\ \A i \in 1 .. Len(s) : s[i] \in S
    BY SequenceShape
  <2>2. s = [i \in 1 .. Len(s) |-> s[i]]
    BY DEF IsSequence
  <2>. HIDE DEF S
  <2>3. [i \in 1 .. Len(s) |-> s[i]] \in Seq(S)
    BY <2>1
  <2>4. e \in S
    BY DEF S
  <2>. QED BY <2>2, <2>3, <2>4
<1>. HIDE DEF S
<1>2. /\ Append(s, e) \in Seq(S) /\ Len(Append(s, e)) = Len(s) + 1
      /\ \A i \in 1 .. Len(s) : Append(s, e)[i] = s[i]
      /\ Append(s, e)[Len(s) + 1] = e
  BY <1>1, AppendProperties
<1>3. /\ Len(Append(s, e)) \in Nat /\ DOMAIN Append(s, e) = 1 .. Len(Append(s, e))
      /\ Append(s, e) = [i \in 1 .. Len(Append(s, e)) |-> Append(s, e)[i]]
  BY <1>2, LenProperties
<1>. QED BY <1>2, <1>3 DEF IsSequence

\* A control message is read back as it was written.
LEMMA ControlReturns ==
  ASSUME NEW b, IsControl(b)
  PROVE  /\ ControlEncode(b) \in Seq({ControlEncode(b)[i] : i \in DOMAIN ControlEncode(b)})
         /\ ControlDecode(ControlEncode(b)) = b
<1>1. CASE b.kind \in {"ping", "pong"} /\ b = [kind |-> b.kind, timestamp |-> b.timestamp]
  <2>1. ControlEncode(b) = <<b.kind, b.timestamp>>
    BY <1>1 DEF ControlEncode
  <2>. QED BY <1>1, <2>1 DEF ControlDecode
<1>2. CASE b.kind = "disconnect" /\ b = [kind |-> b.kind, reason |-> b.reason]
  <2>1. ControlEncode(b) = <<b.kind, b.reason>>
    BY <1>2 DEF ControlEncode
  <2>. QED BY <1>2, <2>1 DEF ControlDecode
<1>3. CASE /\ b.kind = "ack" /\ b = [kind |-> b.kind, next |-> b.next, ranges |-> b.ranges]
           /\ b.ranges \in Seq(Nat \X Nat)
  <2>. DEFINE h == <<b.kind, b.next, Len(b.ranges)>>
              S == {b.kind, b.next, Len(b.ranges)} \cup (Nat \X Nat)
              f == ControlEncode(b)
  <2>1. f = h \o b.ranges
    BY <1>3 DEF ControlEncode
  <2>2. h \in Seq(S) /\ b.ranges \in Seq(S) /\ Len(h) = 3 /\ Len(b.ranges) \in Nat
    BY <1>3
  <2>. HIDE DEF S
  <2>3. f \in Seq(S) /\ Len(f) = 3 + Len(b.ranges)
    BY <2>1, <2>2, ConcatProperties
  <2>4. f[1] = b.kind /\ f[2] = b.next /\ f[3] = Len(b.ranges)
    BY <2>1, <2>2, ConcatProperties
  <2>5. \A i \in 1 .. Len(b.ranges) : f[3 + i] = b.ranges[i]
    BY <2>1, <2>2, ConcatProperties
  <2>6. SubSeq(f, 4, 3 + f[3]) = b.ranges
    <3>. DEFINE n == Len(b.ranges)
    <3>1. n \in Nat /\ n = Len(b.ranges)
      BY <2>2
    <3>. HIDE DEF n, f
    <3>2. \A i \in 4 .. (3 + n) : f[i] \in S
      BY <2>3, <3>1
    <3>3. /\ SubSeq(f, 4, 3 + n) \in Seq(S) /\ Len(SubSeq(f, 4, 3 + n)) = n
          /\ \A i \in 1 .. n : SubSeq(f, 4, 3 + n)[i] = f[3 + i]
      BY <3>1, <3>2, SubSeqProperties
    <3>4. SubSeq(f, 4, 3 + n) = b.ranges
      BY <2>2, <2>5, <3>1, <3>3, SeqEqual
    <3>. QED BY <2>4, <3>1, <3>4
  <2>7. f \in Seq({f[i] : i \in DOMAIN f})
    BY <2>3, OfItsElements
  <2>8. ControlDecode(f) = [kind |-> f[1], next |-> f[2], ranges |-> SubSeq(f, 4, 3 + f[3])]
    <3>. HIDE DEF f, h
    <3>. QED BY <1>3, <2>2, <2>3, <2>4 DEF ControlDecode
  <2>. QED BY <1>3, <2>4, <2>6, <2>7, <2>8
<1>. QED BY <1>1, <1>2, <1>3 DEF IsControl

\* What is sent of a message is a short sequence.
LEMMA PayloadFacts ==
  ASSUME NEW i \in DOMAIN Messages
  PROVE  /\ Payload(i) \in Seq({Payload(i)[j] : j \in DOMAIN Payload(i)})
         /\ Len(Payload(i)) \in Nat /\ Len(Payload(i)) < Width
<1>1. IsMessage(Messages[i]) /\ Len(Payload(i)) < Width
  BY MessagesAssumption DEF Payload
<1>2. Payload(i) = IF Messages[i].type = "control" THEN ControlEncode(Messages[i].body)
                  ELSE Messages[i].body
  BY DEF NewChunk, Payload
<1>3. Payload(i) \in Seq({Payload(i)[j] : j \in DOMAIN Payload(i)})
  BY <1>1, <1>2, ControlReturns DEF IsMessage
<1>. HIDE DEF Payload
<1>4. Len(Payload(i)) \in Nat
  BY <1>3, LenProperties
<1>. QED BY <1>1, <1>3, <1>4

\* What a message becomes.
LEMMA Headers ==
  ASSUME NEW i \in DOMAIN Messages, NEW pad \in Pads, NEW key
  PROVE  Sealing(i, pad, key).header =
           [type |-> Messages[i].type, sequence |-> i - 1,
            payloadLength |-> Len(Payload(i)), paddingLength |-> pad]
<1>1. NewChunk(Messages[i], pad).header =
        [type |-> Messages[i].type, sequence |-> 0,
         payloadLength |-> Len(Payload(i)) % Width, paddingLength |-> pad]
  BY DEF NewChunk, Payload
<1>2. Len(Payload(i)) % Width = Len(Payload(i))
  <2>1. \A n, w \in Nat : n < w => n % w = n
    OBVIOUS
  <2>. QED BY <2>1, LinkNumbers, PayloadFacts
<1>3. DOMAIN NewChunk(Messages[i], pad) = {"header", "payload"}
  BY DEF NewChunk
<1>. HIDE DEF Payload
<1>. QED BY <1>1, <1>2, <1>3 DEF Sealing, EncodeSequenced, EncodeEncrypted

\* What a sealed frame hides, under which key and which number.
LEMMA Sealings ==
  ASSUME NEW i \in DOMAIN Messages, NEW pad \in Pads, NEW key
  PROVE  /\ Sealing(i, pad, key).plain = Payload(i)
         /\ Sealing(i, pad, key).key = key
         /\ Sealing(i, pad, key).nonce = i - 1
<1>1. NewChunk(Messages[i], pad).payload = Payload(i)
  BY DEF NewChunk, Payload
<1>2. DOMAIN NewChunk(Messages[i], pad) = {"header", "payload"}
  BY DEF NewChunk
<1>. QED BY <1>1, <1>2 DEF Sealing, EncodeSequenced, EncodeEncrypted

\* The size of a sealed frame, which the length prefix announces.
LEMMA SealingSizes ==
  ASSUME NEW i \in DOMAIN Messages, NEW pad \in Pads, NEW key
  PROVE  Size(Sealing(i, pad, key)) \in Nat /\ Size(Sealing(i, pad, key)) = Len(Payload(i)) + pad + 2
<1>. DEFINE f == Sealing(i, pad, key)
<1>1. f.plain = Payload(i)
  BY Sealings
<1>3. f.header.paddingLength = pad
  <2>1. f.header = [type |-> Messages[i].type, sequence |-> i - 1,
                    payloadLength |-> Len(Payload(i)), paddingLength |-> pad]
    BY Headers
  <2>. HIDE DEF f
  <2>. QED BY <2>1
<1>2. Len(Payload(i)) \in Nat
  BY PayloadFacts
<1>. HIDE DEF f
<1>. QED BY <1>1, <1>2, <1>3 DEF Size, Pads, f

\* A frame is longer than its prefix.
LEMMA FrameFacts ==
  ASSUME FramesSealed, NEW i \in DOMAIN frames
  PROVE  /\ i \in 1 .. Len(frames) /\ i \in DOMAIN Messages
         /\ Size(frames[i]) \in Nat /\ Size(frames[i]) >= 2
         /\ Whole(i) \in Nat /\ Whole(i) = Prefix + Size(frames[i])
<1>1. i \in 1 .. Len(frames) /\ i \in DOMAIN Messages
  BY MessagesAssumption DEF FramesSealed, IsSequence
<1>2. PICK pad \in Pads : frames[i] = Sealing(i, pad, Key)
  BY DEF FramesSealed
<1>. DEFINE f == Sealing(i, pad, Key)
<1>3. Size(f) \in Nat /\ Size(f) = Len(Payload(i)) + pad + 2
  BY <1>1, SealingSizes
<1>4. Len(Payload(i)) \in Nat
  BY <1>1, PayloadFacts
<1>. HIDE DEF f
<1>. QED BY <1>1, <1>2, <1>3, <1>4, LinkNumbers DEF Pads, Whole, f

\* A frame that has arrived whole opens, as the message it was made of.
LEMMA Opens ==
  ASSUME FramesSealed, NEW i \in DOMAIN frames
  PROVE  DecryptIncoming(Sealed(i), kind # "server") =
           [type |-> Messages[i].type, sequence |-> i - 1, payload |-> Payload(i)]
<1>1. PICK pad \in Pads : frames[i] = Sealing(i, pad, Key)
  BY DEF FramesSealed
<1>. DEFINE f == Sealing(i, pad, Key)
            u == Sealed(i)
<1>2. /\ f.header = [type |-> Messages[i].type, sequence |-> i - 1,
                     payloadLength |-> Len(Payload(i)), paddingLength |-> pad]
      /\ f.plain = Payload(i) /\ f.key = Key /\ f.nonce = i - 1
      /\ Len(Payload(i)) \in Nat
      /\ Payload(i) \in Seq({Payload(i)[j] : j \in DOMAIN Payload(i)})
      /\ Size(f) = Len(Payload(i)) + pad + 2 /\ Size(f) \in Nat
  <2>1. i \in DOMAIN Messages
    BY FrameFacts
  <2>2. f.header = [type |-> Messages[i].type, sequence |-> i - 1,
                    payloadLength |-> Len(Payload(i)), paddingLength |-> pad]
    BY <2>1, Headers
  <2>4. f.plain = Payload(i) /\ f.key = Key /\ f.nonce = i - 1
    BY <2>1, Sealings
  <2>3. Size(f) = Len(Payload(i)) + pad + 2 /\ Size(f) \in Nat
    BY <2>1, SealingSizes
  <2>. QED BY <2>1, <2>2, <2>3, <2>4, PayloadFacts
<1>3. u = [j \in 1 .. Size(f) |-> <<i, Prefix + j>>]
  BY <1>1 DEF Sealed
<1>4. u \in Seq({i} \X Nat) /\ Len(u) = Size(f) /\ u[1] = <<i, Prefix + 1>> /\ u # <<>>
  <2>1. Size(f) >= 1 /\ \A j \in 1 .. Size(f) : Prefix + j \in Nat
    BY <1>2, LinkNumbers DEF Pads
  <2>. HIDE DEF f, u
  <2>2. u \in Seq({i} \X Nat) /\ Len(u) = Size(f)
    BY <1>2, <1>3, <2>1
  <2>. QED BY <1>2, <1>3, <2>1, <2>2
<1>5. DecodeHeader(u) = f.header
  BY <1>1, <1>4 DEF DecodeHeader
<1>6. f.header # Malformed
  <2>1. i \in DOMAIN Messages /\ IsMessage(Messages[i])
    BY FrameFacts, MessagesAssumption
  <2>2. f.header.type = Messages[i].type
    BY <1>2
  <2>. QED BY <2>1, <2>2 DEF Malformed, IsMessage
<1>7. 1 + BodySize(f.header) = Size(f)
  BY <1>2 DEF BodySize, Pads
<1>8. SubSeq(u, 1, Size(f)) = Sealed(u[1][1])
  BY <1>4, SubSeqFull
<1>9. SubSeq(f.plain, 1, Len(Payload(i))) = Payload(i)
  BY <1>2, SubSeqFull
<1>. HIDE DEF f, u
<1>10. DecodeEncrypted(u, Key, i - 1) =
         [type |-> Messages[i].type, sequence |-> i - 1, payload |-> Payload(i)]
  <2>1. frames[u[1][1]] = f
    BY <1>1, <1>4 DEF f
  <2>2. Len(u) >= 1 + BodySize(DecodeHeader(u))
    BY <1>2, <1>4, <1>5, <1>7
  <2>. DEFINE header == DecodeHeader(u)
              total == 1 + BodySize(header)
  <2>3. DecodeEncrypted(u, Key, i - 1) =
          IF /\ header # Malformed /\ Len(u) >= total
             /\ SubSeq(u, 1, total) = Sealed(u[1][1]) /\ f.key = Key /\ f.nonce = i - 1
            THEN [type |-> header.type, sequence |-> header.sequence,
                  payload |-> SubSeq(f.plain, 1, header.payloadLength)]
            ELSE Malformed
    BY <2>1 DEF DecodeEncrypted
  <2>4. /\ header # Malformed /\ Len(u) >= total
        /\ SubSeq(u, 1, total) = Sealed(u[1][1]) /\ f.key = Key /\ f.nonce = i - 1
    BY <1>2, <1>5, <1>6, <1>7, <1>8, <2>2
  <2>. HIDE DEF header, total
  <2>5. header = f.header
    BY <1>5 DEF header
  <2>6. SubSeq(f.plain, 1, header.payloadLength) = Payload(i)
    BY <1>2, <1>9, <2>5
  <2>7. DecodeEncrypted(u, Key, i - 1) =
          [type |-> header.type, sequence |-> header.sequence,
           payload |-> SubSeq(f.plain, 1, header.payloadLength)]
    BY <2>3, <2>4
  <2>8. header.type = Messages[i].type /\ header.sequence = i - 1
    BY <1>2, <2>5
  <2>. QED BY <2>6, <2>7, <2>8
<1>11. DecodeSequenced(u, Key) = DecodeEncrypted(u, Key, i - 1)
  BY <1>2, <1>5, <1>6 DEF DecodeSequenced
<1>12. Key = IF kind # "server" THEN "server_write" ELSE "client_write"
  BY DEF Key
<1>. QED BY <1>10, <1>11, <1>12 DEF DecryptIncoming, u

\* decrypt_incoming, and what the receiving loop does with it.
LEMMA Handed ==
  ASSUME FramesSealed, NEW i \in DOMAIN frames, Hand(Sealed(i))
  PROVE  /\ got' = Append(got, [sequence |-> i - 1, message |-> Messages[i]])
         /\ recv' = "none" /\ state' = state
<1>. DEFINE chunk == DecryptIncoming(Sealed(i), kind # "server")
<1>1. chunk = [type |-> Messages[i].type, sequence |-> i - 1, payload |-> Payload(i)]
  BY Opens
<1>2. i \in DOMAIN Messages /\ IsMessage(Messages[i])
  BY FrameFacts, MessagesAssumption
<1>3. chunk # Malformed
  BY <1>1, <1>2 DEF Malformed, IsMessage
<1>4. /\ got' = IF chunk = Malformed THEN got
                ELSE Append(got, [sequence |-> chunk.sequence,
                                  message  |-> [type |-> chunk.type,
                                                body |-> IF chunk.type = "control"
                                                           THEN ControlDecode(chunk.payload)
                                                           ELSE chunk.payload]])
      /\ recv' = "none" /\ state' = IF chunk = Malformed /\ kind = "server" THEN "closed" ELSE state
  BY DEF Hand
<1>. HIDE DEF chunk
<1>5. [type |-> chunk.type, body |-> IF chunk.type = "control" THEN ControlDecode(chunk.payload)
                                    ELSE chunk.payload] = Messages[i]
  <2>1. CASE Messages[i].type = "control"
    <3>1. Payload(i) = ControlEncode(Messages[i].body) /\ IsControl(Messages[i].body)
      BY <1>2, <2>1 DEF Payload, NewChunk, IsMessage
    <3>2. ControlDecode(Payload(i)) = Messages[i].body
      BY <3>1, ControlReturns
    <3>. QED BY <1>1, <1>2, <2>1, <3>2 DEF IsMessage
  <2>2. CASE Messages[i].type # "control"
    <3>1. Payload(i) = Messages[i].body
      BY <2>2 DEF Payload, NewChunk
    <3>. QED BY <1>1, <1>2, <2>2, <3>1 DEF IsMessage
  <2>. QED BY <2>1, <2>2
<1>. QED BY <1>1, <1>3, <1>4, <1>5

-----------------------------------------------------------------------------
(* What moves along a stream.                                              *)

\* Every frame has a length.
Countable(f) == IsSequence(f) /\ \A i \in DOMAIN f : Size(f[i]) \in Nat /\ Size(f[i]) > 0

\* A sequence is split.
Taken(b, n) == SubSeq(b, 1, n)
Left(b, n) == SubSeq(b, n + 1, Len(b))

\* The two parts of a split are as long as they should be.
LEMMA Parts ==
  ASSUME NEW S, NEW b \in Seq(S), NEW n \in 0 .. Len(b)
  PROVE  /\ Taken(b, n) \in Seq(S) /\ Len(Taken(b, n)) = n
         /\ Left(b, n) \in Seq(S) /\ Len(Left(b, n)) = Len(b) - n
<1>1. Len(b) \in Nat /\ \A i \in 1 .. Len(b) : b[i] \in S
  BY LenProperties
<1>2. SubSeq(b, 1, n) \in Seq(S) /\ Len(SubSeq(b, 1, n)) = n
  BY <1>1, SubSeqProperties
<1>3. SubSeq(b, n + 1, Len(b)) \in Seq(S) /\ Len(SubSeq(b, n + 1, Len(b))) = Len(b) - n
  BY <1>1, SubSeqProperties
<1>. QED BY <1>2, <1>3 DEF Taken, Left

\* A part of a sequence that goes from one end of a split to the other.
LEMMA Moves ==
  ASSUME NEW S, NEW a \in Seq(S), NEW b \in Seq(S), NEW n \in 0 .. Len(b)
  PROVE  (a \o Taken(b, n)) \o Left(b, n) = a \o b
<1>1. Len(b) \in Nat /\ \A i \in 1 .. Len(b) : b[i] \in S
  BY LenProperties
<1>2. SubSeq(b, 1, n) \in Seq(S)
  BY Parts DEF Taken
<1>3. SubSeq(b, n + 1, Len(b)) \in Seq(S)
  BY Parts DEF Left
<1>4. SubSeq(b, 1, n) \o SubSeq(b, n + 1, Len(b)) = b
  <2>1. 1 \in 1 .. Len(b) + 1 /\ n \in (1 - 1) .. Len(b) /\ Len(b) \in n .. Len(b)
    BY <1>1
  <2>2. SubSeq(b, 1, n) \o SubSeq(b, n + 1, Len(b)) = SubSeq(b, 1, Len(b))
    BY <2>1, ConcatAdjacentSubSeq
  <2>. QED BY <2>2, SubSeqFull
<1>5. (a \o SubSeq(b, 1, n)) \o SubSeq(b, n + 1, Len(b))
        = a \o (SubSeq(b, 1, n) \o SubSeq(b, n + 1, Len(b)))
  <2>. DEFINE p == SubSeq(b, 1, n)
              q == SubSeq(b, n + 1, Len(b))
  <2>1. p \in Seq(S) /\ q \in Seq(S)
    BY <1>2, <1>3
  <2>. HIDE DEF p, q
  <2>2. (a \o p) \o q = a \o (p \o q)
    BY SMTT(30), <2>1, ConcatAssociative
  <2>. QED BY <2>2 DEF p, q
<1>. QED BY <1>2, <1>3, <1>4, <1>5 DEF Taken, Left

\* What is taken from the head of the first part is taken from the whole.
LEMMA Shift ==
  ASSUME NEW S, NEW s \in Seq(S), NEW r \in Seq(S), NEW n \in 0 .. Len(s)
  PROVE  /\ SubSeq(s, n + 1, Len(s)) \in Seq(S) /\ Len(SubSeq(s, n + 1, Len(s))) = Len(s) - n
         /\ SubSeq(s, n + 1, Len(s)) \o r = SubSeq(s \o r, n + 1, Len(s \o r))
<1>. DEFINE t == SubSeq(s, n + 1, Len(s))
            u == SubSeq(s \o r, n + 1, Len(s \o r))
<1>1. /\ Len(s) \in Nat /\ Len(r) \in Nat
      /\ \A i \in 1 .. Len(s) : s[i] \in S
  BY LenProperties
<1>2. /\ s \o r \in Seq(S) /\ Len(s \o r) = Len(s) + Len(r)
      /\ \A i \in 1 .. Len(s) + Len(r) : (s \o r)[i] = IF i <= Len(s) THEN s[i] ELSE r[i - Len(s)]
  BY ConcatProperties
<1>3. \A i \in 1 .. Len(s) + Len(r) : (s \o r)[i] \in S
  BY <1>2
<1>4. /\ t \in Seq(S) /\ Len(t) = Len(s) - n
      /\ \A i \in 1 .. Len(s) - n : t[i] = s[n + i]
  BY <1>1, SubSeqProperties
<1>5. /\ u \in Seq(S) /\ Len(u) = Len(s) + Len(r) - n
      /\ \A i \in 1 .. Len(s) + Len(r) - n : u[i] = (s \o r)[n + i]
  <2>. DEFINE w == s \o r
  <2>1. Len(w) = Len(s) + Len(r) /\ Len(w) \in Nat /\ n \in 0 .. Len(w)
    BY <1>1, <1>2
  <2>2. \A i \in 1 .. Len(w) : w[i] \in S
    BY <1>3, <2>1
  <2>3. w = s \o r /\ u = SubSeq(w, n + 1, Len(w))
    OBVIOUS
  <2>. HIDE DEF u, w
  <2>4. \A i \in n + 1 .. Len(w) : w[i] \in S
    BY <2>1, <2>2
  <2>5. /\ SubSeq(w, n + 1, Len(w)) \in Seq(S)
        /\ Len(SubSeq(w, n + 1, Len(w))) = Len(w) - n
        /\ \A i \in 1 .. Len(w) - n : SubSeq(w, n + 1, Len(w))[i] = w[n + i]
    BY <2>1, <2>4, SubSeqProperties
  <2>6. Len(w) - n = Len(s) + Len(r) - n
    BY <2>1
  <2>. QED BY SMTT(30), <2>3, <2>5, <2>6
<1>. HIDE DEF t, u
<1>6. /\ t \o r \in Seq(S) /\ Len(t \o r) = Len(t) + Len(r)
      /\ \A i \in 1 .. Len(t) + Len(r) : (t \o r)[i] = IF i <= Len(t) THEN t[i] ELSE r[i - Len(t)]
  BY <1>4, ConcatProperties
<1>7. Len(t \o r) = Len(u)
  BY <1>1, <1>4, <1>5, <1>6
<1>8. \A i \in 1 .. Len(u) : (t \o r)[i] = u[i]
  <2>. SUFFICES ASSUME NEW i \in 1 .. Len(u) PROVE (t \o r)[i] = u[i]
    OBVIOUS
  <2>1. i \in 1 .. Len(s) + Len(r) - n /\ n + i \in 1 .. Len(s) + Len(r)
    BY <1>1, <1>5
  <2>2. CASE i <= Len(s) - n
    BY SMTT(30), <1>1, <1>2, <1>4, <1>5, <1>6, <2>1, <2>2
  <2>3. CASE i > Len(s) - n
    <3>1. (t \o r)[i] = r[i - (Len(s) - n)]
      BY <1>1, <1>4, <1>6, <2>1, <2>3
    <3>2. u[i] = r[(n + i) - Len(s)]
      BY SMTT(30), <1>1, <1>2, <1>5, <2>1, <2>3
    <3>3. i - (Len(s) - n) = (n + i) - Len(s)
      BY <1>1, <2>1
    <3>. QED BY <3>1, <3>2, <3>3
  <2>4. i <= Len(s) - n \/ i > Len(s) - n
    <3>1. i \in Int /\ Len(s) - n \in Int
      BY <1>1, <2>1
    <3>2. \A x, y \in Int : x <= y \/ x > y
      OBVIOUS
    <3>. QED BY <3>1, <3>2
  <2>. QED BY <2>2, <2>3, <2>4
<1>9. t \o r = u
  BY <1>5, <1>6, <1>7, <1>8, SeqEqual
<1>. QED BY <1>4, <1>9 DEF t, u

\* The first part of a gapless stream is gapless.
LEMMA GaplessPrefix ==
  ASSUME NEW s \in Seq(StreamUnits), NEW first \in Nat, NEW f, Gapless(s, first, f),
         NEW t \in Seq(StreamUnits), Len(t) <= Len(s), \A i \in 1 .. Len(t) : t[i] = s[i]
  PROVE  Gapless(t, first, f)
<1>1. /\ Len(s) \in Nat /\ Len(t) \in Nat /\ DOMAIN s = 1 .. Len(s) /\ DOMAIN t = 1 .. Len(t)
      /\ DOMAIN t \subseteq DOMAIN s
  BY LenProperties
<1>2. \A j \in DOMAIN t : t[j] = s[j] /\ j \in DOMAIN s
  BY <1>1
<1>4. \A j \in DOMAIN t : j > 1 => t[j - 1] = s[j - 1]
  <2>1. \A n \in Nat : \A j \in 1 .. n : j > 1 => j - 1 \in 1 .. n
    OBVIOUS
  <2>. QED BY <1>1, <1>2, <2>1
<1>3. t # <<>> => s # <<>> /\ 1 \in DOMAIN t
  BY <1>1
<1>5. \A j \in DOMAIN t : t[j][1] \in first .. Len(f) /\ t[j][2] \in 1 .. UnitsOf(f, t[j][1])
  BY <1>2 DEF Gapless
<1>6. t # <<>> => t[1] = <<first, 1>>
  BY <1>2, <1>3 DEF Gapless
<1>7. \A j, k \in DOMAIN t : j < k => Apart(t, f, j, k)
  <2>. SUFFICES ASSUME NEW j \in DOMAIN t, NEW k \in DOMAIN t, j < k PROVE Apart(t, f, j, k)
    OBVIOUS
  <2>1. Apart(s, f, j, k)
    BY <1>2 DEF Gapless
  <2>2. t[j] = s[j] /\ t[k] = s[k]
    BY <1>2
  <2>. QED BY <2>1, <2>2 DEF Apart
<1>8. \A j \in DOMAIN t : j > 1 => t[j][1] <= t[j - 1][1] + 1
  BY <1>2, <1>4 DEF Gapless
<1>. QED BY <1>5, <1>6, <1>7, <1>8 DEF Gapless

\* A stream that is gapless and long enough starts with a whole frame, and goes
\* on with the next one.
LEMMA GaplessFrame ==
  ASSUME NEW f, Countable(f), NEW s \in Seq(StreamUnits), NEW first \in Nat, first > 0,
         Gapless(s, first, f), s # <<>>
  PROVE  /\ first \in DOMAIN f
         /\ Len(s) >= UnitsOf(f, first) =>
              /\ \A j \in 1 .. UnitsOf(f, first) : s[j] = <<first, j>>
              /\ Gapless(SubSeq(s, UnitsOf(f, first) + 1, Len(s)), first + 1, f)
<1>. DEFINE w == UnitsOf(f, first)
            t == SubSeq(s, w + 1, Len(s))
<1>1. /\ Len(s) \in Nat /\ Len(s) > 0 /\ DOMAIN s = 1 .. Len(s)
      /\ \A j \in 1 .. Len(s) : s[j][1] \in Nat /\ s[j][2] \in Nat /\ s[j] = <<s[j][1], s[j][2]>>
      /\ \A j \in 1 .. Len(s) : s[j] \in StreamUnits
  BY LenProperties, EmptySeq DEF StreamUnits
<1>2. s[1][1] = first /\ s[1][2] = 1 /\ first \in first .. Len(f)
  BY <1>1 DEF Gapless
<1>3. first \in DOMAIN f
  <2>1. Len(f) \in Nat /\ DOMAIN f = 1 .. Len(f)
    BY DEF Countable, IsSequence
  <2>. QED BY <1>2, <2>1
<1>4. w \in Nat /\ w >= 1
  BY <1>3, LinkNumbers DEF Countable, UnitsOf
<1>. HIDE DEF w
<1>5. ASSUME Len(s) >= w
      PROVE  (\A j \in 1 .. w : s[j] = <<first, j>>) /\ Gapless(t, first + 1, f)
  <2>1. \A j \in 1 .. w : s[j] = <<first, j>>
    <3>. SUFFICES ASSUME NEW j \in 1 .. w PROVE s[j] = <<first, j>>
      OBVIOUS
    <3>1. j \in 1 .. Len(s) /\ j \in Nat
      BY <1>1, <1>4, <1>5
    <3>2. ASSUME j > 1 PROVE s[j][1] = first /\ s[j][2] = j
      <4>1. Apart(s, f, 1, j)
        <5>1. 1 \in DOMAIN s /\ j \in DOMAIN s
          BY <1>1, <3>1
        <5>. QED BY <3>2, <5>1 DEF Gapless
      <4>3. s[j][2] >= 1
        BY <1>1, <3>1 DEF Gapless
      <4>2. \/ s[j][1] = first /\ s[j][2] - 1 = j - 1
            \/ (w - 1) + s[j][2] <= j - 1
        BY <1>2, <4>1 DEF Apart, w
      <4>. QED BY <1>1, <1>4, <3>1, <4>2, <4>3
    <3>3. s[j][1] = first /\ s[j][2] = j
      BY <1>2, <3>1, <3>2
    <3>. QED BY <1>1, <3>1, <3>3
  <2>2. /\ t \in Seq(StreamUnits) /\ Len(t) = Len(s) - w /\ DOMAIN t = 1 .. (Len(s) - w)
        /\ \A j \in 1 .. (Len(s) - w) : t[j] = s[w + j]
    <3>1. \A j \in w + 1 .. Len(s) : s[j] \in StreamUnits
      BY <1>1, <1>4
    <3>2. /\ t \in Seq(StreamUnits) /\ Len(t) = Len(s) - w
          /\ \A j \in 1 .. (Len(s) - w) : t[j] = s[w + j]
      <4>1. w + 1 \in Int /\ Len(s) \in Int
        BY <1>1, <1>4
      <4>2. /\ t \in Seq(StreamUnits) /\ Len(t) = IF w + 1 <= Len(s) THEN Len(s) - (w + 1) + 1 ELSE 0
            /\ \A j \in 1 .. Len(s) - (w + 1) + 1 : t[j] = s[(w + 1) + j - 1]
        BY <3>1, <4>1, SubSeqProperties
      <4>3. Len(t) = Len(s) - w
        <5>1. \A x, y \in Nat : x >= y =>
                (IF y + 1 <= x THEN x - (y + 1) + 1 ELSE 0) = x - y
          OBVIOUS
        <5>2. Len(t) = Len(s) - w
          BY <1>1, <1>4, <1>5, <4>2, <5>1
        <5>. QED BY <5>2
      <4>4. \A j \in 1 .. (Len(s) - w) : j \in 1 .. Len(s) - (w + 1) + 1 /\ (w + 1) + j - 1 = w + j
        BY <1>1, <1>4
      <4>5. \A j \in 1 .. (Len(s) - w) : t[j] = s[w + j]
        BY <4>2, <4>4
      <4>. QED BY <4>2, <4>3, <4>5
    <3>. QED BY <3>2, LenProperties
  <2>. HIDE DEF t
  <2>3. \A j \in 1 .. (Len(s) - w) : w + j \in 1 .. Len(s) /\ w + j > w /\ w + j > 1 /\ j \in Nat
    BY <1>1, <1>4, <1>5
  <2>4. ASSUME NEW j \in 1 .. (Len(s) - w)
        PROVE  t[j][1] \in (first + 1) .. Len(f) /\ t[j][2] \in 1 .. UnitsOf(f, t[j][1])
    <3>1. s[w + j][1] \in first .. Len(f) /\ s[w + j][2] \in 1 .. UnitsOf(f, s[w + j][1])
      BY <1>1, <2>3 DEF Gapless
    <3>2. Apart(s, f, 1, w + j)
      BY <1>1, <2>3 DEF Gapless
    <3>3. s[w + j][1] # first
      <4>. SUFFICES ASSUME s[w + j][1] = first PROVE FALSE
        OBVIOUS
      <4>1. s[w + j][2] <= w
        <5>1. UnitsOf(f, s[w + j][1]) = w
          BY DEF w
        <5>2. s[w + j][2] \in 1 .. w
          BY <3>1, <5>1
        <5>. QED BY <1>4, <5>2
      <4>2. s[w + j][2] - 1 = (w + j) - 1
        BY <1>2, <3>2 DEF Apart
      <4>. QED BY <1>1, <1>4, <2>3, <4>1, <4>2
    <3>4. Len(f) \in Nat
      BY DEF Countable, IsSequence
    <3>. QED BY <2>2, <3>1, <3>3, <3>4
  <2>5. t # <<>> => t[1] = <<first + 1, 1>>
    <3>. SUFFICES ASSUME t # <<>> PROVE t[1] = <<first + 1, 1>>
      OBVIOUS
    <3>1. 1 \in 1 .. (Len(s) - w)
      BY <1>1, <1>4, <1>5, <2>2, EmptySeq
    <3>2. t[1] = s[w + 1] /\ w + 1 \in 1 .. Len(s)
      BY <2>2, <2>3, <3>1
    <3>3. s[w + 1][1] <= s[w][1] + 1
      <4>1. w + 1 > 1 /\ (w + 1) - 1 = w
        BY <1>4
      <4>. QED BY <1>1, <3>2, <4>1 DEF Gapless
    <3>4. s[w][1] = first
      BY <1>4, <2>1
    <3>5. s[w + 1][1] = first + 1
      <4>1. s[w + 1][1] \in (first + 1) .. Len(f) /\ Len(f) \in Nat
        BY <2>4, <3>1, <3>2 DEF Countable, IsSequence
      <4>. QED BY <3>3, <3>4, <4>1
    <3>6. s[w + 1][2] = 1
      <4>1. Apart(s, f, 1, w + 1) /\ s[w + 1][2] \in 1 .. UnitsOf(f, s[w + 1][1])
        <5>1. 1 \in 1 .. Len(s) /\ 1 < w + 1
          BY <1>1, <1>4
        <5>. QED BY <1>1, <3>2, <5>1 DEF Gapless
      <4>2. (w - 1) + s[w + 1][2] <= (w + 1) - 1
        BY <1>2, <3>5, <4>1 DEF Apart, w
      <4>3. s[w + 1][2] >= 1 /\ s[w + 1][2] \in Nat
        BY <1>1, <3>2, <4>1
      <4>4. \A x, y \in Nat : (y - 1) + x <= (y + 1) - 1 /\ x >= 1 => x = 1
        OBVIOUS
      <4>. QED BY <1>4, <4>2, <4>3, <4>4
    <3>. QED BY <1>1, <3>2, <3>5, <3>6
  <2>6. ASSUME NEW j \in 1 .. (Len(s) - w), NEW k \in 1 .. (Len(s) - w), j < k
        PROVE  Apart(t, f, j, k)
    <3>1. Apart(s, f, w + j, w + k)
      <4>1. w + j < w + k
        BY <1>4, <2>3, <2>6
      <4>. QED BY <1>1, <2>3, <4>1 DEF Gapless
    <3>2. (w + k) - (w + j) = k - j
      BY <1>4, <2>3
    <3>. QED BY <2>2, <3>1, <3>2 DEF Apart
  <2>7. ASSUME NEW j \in 1 .. (Len(s) - w), j > 1
        PROVE  t[j][1] <= t[j - 1][1] + 1
    <3>1. j - 1 \in 1 .. (Len(s) - w) /\ w + (j - 1) = (w + j) - 1
      BY <1>1, <1>4, <2>3, <2>7
    <3>2. s[w + j][1] <= s[(w + j) - 1][1] + 1
      BY <1>1, <2>3 DEF Gapless
    <3>. QED BY <2>2, <3>1, <3>2
  <2>. QED BY <2>1, <2>2, <2>4, <2>5, <2>6, <2>7 DEF Gapless
<1>. QED BY <1>3, <1>5 DEF w

\* A frame put behind a stream that reaches the end of the frames before it.
LEMMA GaplessExtended ==
  ASSUME NEW f, Countable(f), NEW s \in Seq(StreamUnits), NEW first \in Nat, first > 0,
         first <= Len(f) + 1, Gapless(s, first, f), Reaches(s, first, f),
         NEW g, Countable(g), Len(g) = Len(f) + 1, \A i \in DOMAIN f : g[i] = f[i],
         NEW u, u = [j \in 1 .. UnitsOf(g, Len(g)) |-> <<Len(g), j>>]
  PROVE  /\ s \o u \in Seq(StreamUnits)
         /\ Gapless(s \o u, first, g) /\ Reaches(s \o u, first, g)
<1>. DEFINE n == Len(g)
            w == UnitsOf(g, n)
            t == s \o u
            l == Len(s)
<1>1. /\ Len(f) \in Nat /\ DOMAIN f = 1 .. Len(f) /\ n \in Nat /\ DOMAIN g = 1 .. n
      /\ n = Len(f) + 1 /\ n > 0
  BY DEF Countable, IsSequence
<1>2. w \in Nat /\ w > 0
  <2>1. Size(g[n]) \in Nat /\ Size(g[n]) > 0
    <3>1. n \in DOMAIN g
      BY <1>1
    <3>. HIDE DEF n
    <3>. QED BY <3>1 DEF Countable
  <2>. QED BY <2>1, LinkNumbers DEF UnitsOf
<1>3. \A i \in 1 .. Len(f) : UnitsOf(g, i) = UnitsOf(f, i) /\ UnitsOf(f, i) \in Nat
  BY <1>1, LinkNumbers DEF Countable, UnitsOf
<1>4. /\ l \in Nat /\ DOMAIN s = 1 .. l
      /\ \A j \in 1 .. l : s[j][1] \in Nat /\ s[j][2] \in Nat /\ s[j] = <<s[j][1], s[j][2]>>
  BY LenProperties DEF StreamUnits
<1>. HIDE DEF n, w
<1>5. u \in Seq(StreamUnits) /\ Len(u) = w /\ \A j \in 1 .. w : u[j] = <<n, j>>
  <2>1. u = [j \in 1 .. w |-> <<n, j>>]
    BY DEF n, w
  <2>2. \A j \in 1 .. w : <<n, j>> \in StreamUnits
    BY <1>1, <1>2 DEF StreamUnits
  <2>3. u \in Seq(StreamUnits) /\ Len(u) = w
    <3>1. [j \in 1 .. w |-> <<n, j>>] \in Seq(StreamUnits)
      BY <1>2, <2>2
    <3>2. Len([j \in 1 .. w |-> <<n, j>>]) = w
      BY <1>2
    <3>. QED BY <2>1, <3>1, <3>2
  <2>. QED BY <2>1, <2>3
<1>6. /\ t \in Seq(StreamUnits) /\ Len(t) = l + w
      /\ \A j \in 1 .. l + w : t[j] = IF j <= l THEN s[j] ELSE u[j - l]
  <2>1. t = s \o u /\ l = Len(s) /\ Len(u) = w /\ u \in Seq(StreamUnits)
    BY <1>5
  <2>. HIDE DEF t, l
  <2>2. /\ s \o u \in Seq(StreamUnits) /\ Len(s \o u) = Len(s) + Len(u)
        /\ \A j \in 1 .. Len(s) + Len(u) :
             (s \o u)[j] = IF j <= Len(s) THEN s[j] ELSE u[j - Len(s)]
    BY <2>1, ConcatProperties
  <2>. QED BY <2>1, <2>2
<1>. HIDE DEF t, l
<1>7. /\ DOMAIN t = 1 .. l + w /\ t # <<>>
      /\ \A j \in 1 .. l : j \in 1 .. l + w /\ t[j] = s[j]
      /\ \A j \in 1 .. l + w : j > l => t[j] = <<n, j - l>> /\ j - l \in 1 .. w
  <2>1. l \in Nat /\ l + w \in Nat /\ l + w > 0
    BY <1>2, <1>4
  <2>2. DOMAIN t = 1 .. l + w /\ t # <<>>
    BY <1>6, <2>1, LenProperties, EmptySeq
  <2>3. \A j \in 1 .. l : j \in 1 .. l + w /\ j <= l
    BY <1>2, <2>1
  <2>4. \A j \in 1 .. l + w : j > l => ~(j <= l) /\ j - l \in 1 .. w
    BY <1>2, <2>1
  <2>. QED BY <1>5, <1>6, <2>2, <2>3, <2>4
<1>8. \A j \in 1 .. l + w : j \in 1 .. l \/ j > l
  BY <1>2, <1>4
<1>9. ASSUME NEW j \in 1 .. l + w
      PROVE  t[j][1] \in first .. n /\ t[j][2] \in 1 .. UnitsOf(g, t[j][1])
  <2>1. CASE j \in 1 .. l
    <3>1. s[j][1] \in first .. Len(f) /\ s[j][2] \in 1 .. UnitsOf(f, s[j][1])
      BY <1>4, <2>1 DEF Gapless
    <3>2. s[j][1] \in 1 .. Len(f) /\ s[j][1] \in first .. n
      BY <1>1, <3>1
    <3>. QED BY <1>3, <1>7, <2>1, <3>1, <3>2
  <2>2. CASE j > l
    <3>1. t[j][1] = n /\ t[j][2] \in 1 .. w
      BY <1>7, <2>2
    <3>2. n \in first .. n
      BY <1>1
    <3>. QED BY <3>1, <3>2 DEF w
  <2>. QED BY <1>8, <2>1, <2>2
<1>10. t[1] = <<first, 1>>
  <2>1. CASE s = <<>>
    <3>1. l = 0 /\ first = n
      BY <1>1, <2>1, EmptySeq DEF Reaches, l
    <3>. QED BY <1>2, <1>7, <3>1
  <2>2. CASE s # <<>>
    <3>1. 1 \in 1 .. l
      BY <1>4, <2>2, EmptySeq DEF l
    <3>. QED BY <1>7, <2>2, <3>1 DEF Gapless
  <2>. QED BY <2>1, <2>2
\* The last unit so far.
<1>11. ASSUME l > 0
       PROVE  /\ l \in 1 .. l /\ s[l][1] = Len(f) /\ s[l][2] = UnitsOf(f, Len(f))
              /\ Len(f) \in 1 .. Len(f)
  <2>1. s # <<>> /\ l \in 1 .. l
    BY <1>4, <1>11, EmptySeq DEF l
  <2>2. s[l] = <<Len(f), UnitsOf(f, Len(f))>>
    BY <2>1 DEF Reaches, l
  <2>3. s[l][1] \in first .. Len(f)
    BY <1>4, <2>1 DEF Gapless
  <2>. QED BY <1>1, <2>1, <2>2, <2>3
<1>12. ASSUME NEW j \in 1 .. l + w, NEW k \in 1 .. l + w, j < k
       PROVE  Apart(t, g, j, k)
  <2>1. CASE k \in 1 .. l
    <3>1. j \in 1 .. l
      BY <1>2, <1>4, <1>12, <2>1
    <3>2. Apart(s, f, j, k)
      BY <1>4, <1>12, <2>1, <3>1 DEF Gapless
    <3>3. s[j][1] \in first .. Len(f) /\ s[j][1] \in 1 .. Len(f)
      <4>1. s[j][1] \in first .. Len(f)
        BY <1>4, <3>1 DEF Gapless
      <4>. QED BY <1>1, <4>1
    <3>4. t[j] = s[j] /\ t[k] = s[k] /\ UnitsOf(g, s[j][1]) = UnitsOf(f, s[j][1])
      BY <1>3, <1>7, <2>1, <3>1, <3>3
    <3>. QED BY <3>2, <3>4 DEF Apart
  <2>2. CASE j > l
    <3>1. k > l
      BY <1>2, <1>4, <1>12, <2>2
    <3>2. t[j] = <<n, j - l>> /\ t[k] = <<n, k - l>> /\ (k - l) - (j - l) = k - j
      BY <1>2, <1>4, <1>7, <2>2, <3>1
    <3>. QED BY <3>2 DEF Apart
  <2>3. CASE j \in 1 .. l /\ k > l
    <3>1. l > 0 /\ j \in Nat /\ j <= l
      BY <1>4, <2>3
    <3>2. t[k] = <<n, k - l>> /\ t[j] = s[j] /\ k \in Nat
      BY <1>2, <1>4, <1>7, <2>3
    <3>3. s[j][1] \in first .. Len(f) /\ s[j][1] \in 1 .. Len(f) /\ s[j][1] < n
      <4>1. s[j][1] \in first .. Len(f)
        BY <1>4, <2>3 DEF Gapless
      <4>. QED BY <1>1, <4>1
    <3>. DEFINE x == UnitsOf(f, s[j][1])
    <3>4. x \in Nat /\ UnitsOf(g, t[j][1]) = x
      BY <1>3, <3>2, <3>3
    <3>. HIDE DEF x
    <3>5. x - s[j][2] <= l - j
      <4>1. CASE j = l
        BY <1>4, <1>11, <3>1, <3>4, <4>1 DEF x
      <4>2. CASE j < l
        <5>1. Apart(s, f, j, l)
          BY <1>4, <1>11, <2>3, <3>1, <4>2 DEF Gapless
        <5>2. \/ s[l][1] = s[j][1] /\ s[l][2] - s[j][2] = l - j
              \/ (x - s[j][2]) + s[l][2] <= l - j
          BY <5>1 DEF Apart, x
        <5>3. s[l][1] = s[j][1] => s[l][2] = x
          BY <1>11, <3>1 DEF x
        <5>4. s[l][2] \in Nat /\ s[j][2] \in Nat
          BY <1>4, <1>11, <2>3, <3>1
        <5>. QED BY SMTT(30), <1>4, <3>1, <3>4, <5>2, <5>3, <5>4
      <4>. QED BY <1>4, <3>1, <4>1, <4>2
    <3>6. (x - s[j][2]) + (k - l) <= k - j
      <4>1. s[j][2] \in Nat
        BY <1>4, <2>3
      <4>2. \A a, b, c, d \in Int : a <= c - d => a + (b - c) <= b - d
        OBVIOUS
      <4>3. x - s[j][2] \in Int /\ k \in Int /\ l \in Int /\ j \in Int
        BY <1>4, <3>1, <3>2, <3>4, <4>1
      <4>. QED BY <3>5, <4>2, <4>3
    <3>7. t[k][1] > t[j][1] /\ t[k][2] = k - l /\ t[j][2] = s[j][2]
      BY <1>1, <3>2, <3>3
    <3>8. (UnitsOf(g, t[j][1]) - t[j][2]) + t[k][2] <= k - j
      BY <3>4, <3>6, <3>7
    <3>. QED BY <3>7, <3>8 DEF Apart
  <2>. QED BY <1>8, <2>1, <2>2, <2>3
<1>13. ASSUME NEW j \in 1 .. l + w, j > 1
       PROVE  t[j][1] <= t[j - 1][1] + 1
  <2>1. CASE j \in 1 .. l
    <3>1. j - 1 \in 1 .. l
      BY <1>4, <1>13, <2>1
    <3>. QED BY <1>4, <1>7, <1>13, <2>1, <3>1 DEF Gapless
  <2>2. CASE j > l
    <3>1. t[j][1] = n
      BY <1>7, <2>2
    <3>2. CASE j - 1 > l
      <4>1. j - 1 \in 1 .. l + w
        BY <1>2, <1>4, <1>13
      <4>. QED BY <1>1, <1>7, <3>1, <3>2, <4>1
    <3>3. CASE j - 1 = l
      <4>1. l > 0
        BY <1>4, <1>13, <3>3
      <4>. QED BY <1>1, <1>7, <1>11, <3>1, <3>3, <4>1
    <3>4. j - 1 > l \/ j - 1 = l
      BY <1>4, <2>2
    <3>. QED BY <3>2, <3>3, <3>4
  <2>. QED BY <1>8, <2>1, <2>2
<1>14. Gapless(t, first, g)
  BY <1>7, <1>9, <1>10, <1>12, <1>13 DEF Gapless, n
<1>15. Reaches(t, first, g)
  <2>1. l + w \in 1 .. l + w /\ l + w > l /\ (l + w) - l = w
    BY <1>2, <1>4
  <2>2. t[Len(t)] = <<n, w>>
    BY <1>6, <1>7, <2>1
  <2>. QED BY <1>7, <2>2 DEF Reaches, n, w
<1>. QED BY <1>6, <1>14, <1>15 DEF t

-----------------------------------------------------------------------------
(* The steps.                                                              *)

\* What the invariant says of lengths.
LEMMA LinkFacts ==
  ASSUME TransportsInv
  PROVE  /\ Len(frames) \in Nat /\ DOMAIN frames = 1 .. Len(frames) /\ Countable(frames)
         /\ Len(got) \in Nat /\ DOMAIN got = 1 .. Len(got) /\ Len(got) <= Len(frames)
         /\ Len(frames) <= Len(Messages) /\ Len(Messages) \in Nat
         /\ \A i \in DOMAIN frames : Whole(i) = UnitsOf(frames, i) /\ Whole(i) \in Nat
<1>1. Len(frames) \in Nat /\ DOMAIN frames = 1 .. Len(frames) /\ Len(frames) <= Len(Messages)
  BY DEF TransportsInv, FramesSealed, IsSequence
<1>2. Len(got) \in Nat /\ DOMAIN got = 1 .. Len(got)
  BY DEF TransportsInv, GotSealed, IsSequence
<1>3. \A i \in DOMAIN frames : Size(frames[i]) \in Nat /\ Size(frames[i]) > 0 /\ Whole(i) \in Nat
  BY FrameFacts DEF TransportsInv
<1>4. Countable(frames)
  BY <1>3 DEF Countable, TransportsInv, FramesSealed
<1>5. \A i \in DOMAIN frames : Whole(i) = UnitsOf(frames, i)
  BY DEF Whole, UnitsOf
<1>6. Len(got) <= Len(frames)
  BY DEF TransportsInv, TransportsTypeOK
<1>. QED BY <1>1, <1>2, <1>3, <1>4, <1>5, <1>6, MessagesAssumption

\* What a step leaves alone stays true.
LEMMA FramesStay == FramesSealed /\ UNCHANGED <<frames, kind>> => FramesSealed'
BY DEF FramesSealed, IsSequence, Key

\* The same for what has been returned.
LEMMA GotStays == GotSealed /\ UNCHANGED <<frames, got, torn>> => GotSealed'
BY DEF GotSealed, IsSequence

\* A stream stays gapless when units only move along it.
LEMMA StreamStays ==
  ASSUME StreamGapless, kind' = kind, frames' = frames, got' = got, Stream' = Stream,
         cut' \/ cut' = cut,
         kind \in {"tls", "server"} =>
           /\ buf' \in Seq(StreamUnits) /\ transit' \in Seq(StreamUnits)
           /\ outbox' \in Seq(StreamUnits)
  PROVE  StreamGapless'
<1>. SUFFICES ASSUME kind \in {"tls", "server"} PROVE StreamGapless'
  BY DEF StreamGapless
<1>1. /\ Gapless(Stream, Len(got) + 1, frames)
      /\ ~cut => Reaches(Stream, Len(got) + 1, frames)
  BY DEF StreamGapless
<1>2. /\ Gapless(Stream', Len(got') + 1, frames')
      /\ ~cut' => Reaches(Stream', Len(got') + 1, frames')
  BY <1>1
<1>. QED BY <1>2 DEF StreamGapless

\* The queue of a websocket stays in order while nothing touches it.
LEMMA QueueStays == MessagesQueued /\ UNCHANGED <<kind, frames, got, transit>> => MessagesQueued'
BY DEF MessagesQueued

\* The streams of quic stay counted while none is opened, accepted or served.
LEMMA AcceptedStays ==
  StreamsAccepted /\ UNCHANGED <<kind, frames, got, transit, accepted, torn>> /\ Held' = Held
    /\ (state' = "open" => state = "open")
  => StreamsAccepted'
BY DEF StreamsAccepted, Whole, Size

\* What is said of one kind of connection holds of the others.
LEMMA OfOtherKinds ==
  /\ kind' \notin {"tls", "server"} => StreamGapless'
  /\ kind' # "websocket" => MessagesQueued'
  /\ kind' # "quic" => StreamsAccepted'
BY DEF StreamGapless, MessagesQueued, StreamsAccepted

\* Before anything is dialled there is nothing to be out of step.
LEMMA TransportsStart == TransportsInit => TransportsInv
<1>. SUFFICES ASSUME TransportsInit PROVE TransportsInv
  OBVIOUS
<1>1. /\ tried = 0 /\ kind = "none" /\ state = "dialling" /\ cut = FALSE
      /\ frames = <<>> /\ outbox = <<>> /\ transit = <<>> /\ noise = 0
      /\ accepted = 0 /\ buf = <<>> /\ recv = "none" /\ got = <<>> /\ torn = FALSE
  BY DEF TransportsInit
<1>2. Len(<<>>) = 0 /\ DOMAIN <<>> = 1 .. 0 /\ Len(<<>>) \in Nat
  OBVIOUS
<1>3. IsSequence(<<>>)
  BY DEF IsSequence
<1>4. Len(Messages) \in Nat /\ MaxNoise \in Nat /\ Prefix \in Nat
  BY MessagesAssumption, LinkNumbers
<1>5. TransportsTypeOK
  <2>1. Len(Connect) = 3
    BY DEF Connect
  <2>2. cut \in BOOLEAN /\ torn \in BOOLEAN
    BY <1>1
  <2>3. Len(frames) = 0 /\ Len(got) = 0 /\ 0 <= Len(Messages) /\ noise \in 0 .. MaxNoise
    BY <1>1, <1>2, <1>4
  <2>. QED BY <1>1, <2>1, <2>2, <2>3 DEF TransportsTypeOK
<1>6. FramesSealed /\ GotSealed
  BY <1>1, <1>2, <1>3, <1>4 DEF FramesSealed, GotSealed
<1>7. Staged
  BY <1>1 DEF Staged, Connect
<1>. QED BY <1>1, <1>5, <1>6, <1>7 DEF TransportsInv, StreamGapless, MessagesQueued, StreamsAccepted

\* auto_connect: a connection starts with nothing on it.
LEMMA ConnectKeeps == TransportsInv /\ AutoConnect => TransportsInv'
<1>. SUFFICES ASSUME TransportsInv, AutoConnect PROVE TransportsInv'
  OBVIOUS
<1>1. /\ tried' = tried + 1 /\ kind' \in Connect[tried']
      /\ state' = IF kind' # "none" THEN "open"
                  ELSE IF tried' = Len(Connect) THEN "failed" ELSE "dialling"
      /\ cut' = cut /\ frames' = frames /\ outbox' = outbox /\ transit' = transit
      /\ accepted' = accepted /\ buf' = buf /\ recv' = recv /\ got' = got /\ torn' = torn
      /\ noise' = noise /\ state = "dialling"
  BY DEF AutoConnect, sendVars, recvVars
<1>2. /\ kind = "none" /\ frames = <<>> /\ transit = <<>> /\ got = <<>> /\ accepted = 0
      /\ recv = "none" /\ buf = <<>> /\ outbox = <<>> /\ ~torn /\ tried < Len(Connect)
  BY <1>1 DEF TransportsInv, Staged
<1>3. Connect = <<QuicConnect, TlsConnect, WebSocketConnect>> /\ Len(Connect) = 3
  BY DEF Connect
<1>4. tried \in 0 .. 3 /\ tried' \in 1 .. 3
  BY <1>1, <1>2, <1>3 DEF TransportsInv, TransportsTypeOK
<1>5. kind' \in Kinds \cup {"none"}
  BY <1>1, <1>3, <1>4 DEF Kinds, QuicConnect, TlsConnect, WebSocketConnect
<1>6. /\ state' \in {"dialling", "open", "failed"}
      /\ kind' = "none" <=> state' \in {"dialling", "failed"}
      /\ state' = "dialling" => tried' < 3
  BY <1>1, <1>3, <1>4
<1>7. Len(<<>>) = 0 /\ DOMAIN <<>> = 1 .. 0
  OBVIOUS
<1>8. TransportsTypeOK'
  <2>1. /\ cut' \in BOOLEAN /\ noise' \in 0 .. MaxNoise /\ recv' \in {"none", "pending", "holding"}
        /\ torn' \in BOOLEAN /\ Len(frames) <= Len(Messages)
    BY <1>1 DEF TransportsInv, TransportsTypeOK
  <2>2. Prefix > 0 /\ Prefix \in Nat
    BY LinkNumbers
  <2>. QED BY <1>1, <1>2, <1>3, <1>4, <1>5, <1>6, <1>7, <2>1, <2>2 DEF TransportsTypeOK
<1>9. FramesSealed'
  BY <1>1, <1>2, <1>7 DEF FramesSealed, TransportsInv, IsSequence
<1>10. Staged'
  BY <1>1, <1>2, <1>3, <1>6 DEF Staged
<1>11. GotSealed'
  BY <1>1, GotStays DEF TransportsInv
<1>12. Stream' = <<>>
  BY <1>1, <1>2 DEF Stream
<1>13. StreamGapless'
  BY <1>1, <1>2, <1>7, <1>12 DEF StreamGapless, Gapless, Reaches
<1>14. MessagesQueued'
  BY <1>1, <1>2, <1>7 DEF MessagesQueued
<1>15. StreamsAccepted'
  BY <1>1, <1>2, <1>7 DEF StreamsAccepted, Held
<1>. QED BY <1>8, <1>9, <1>10, <1>11, <1>13, <1>14, <1>15 DEF TransportsInv

\* encrypt_outgoing: one frame more, sealed as the others are.
LEMMA SealFacts ==
  ASSUME TransportsInv, NEW pad \in Pads, Seal(pad), kind' = kind
  PROVE  /\ state = "open" /\ ~cut /\ outbox = <<>> /\ Len(frames) < Len(Messages)
         /\ Len(frames') = Len(frames) + 1 /\ DOMAIN frames' = 1 .. Len(frames) + 1
         /\ \A i \in DOMAIN frames : frames'[i] = frames[i]
         /\ FramesSealed' /\ Countable(frames')
<1>. DEFINE n == Len(frames) + 1
            e == EncryptOutgoing(NewChunk(Messages[n], pad), kind = "server")
<1>1. /\ state = "open" /\ ~cut /\ outbox = <<>> /\ Len(frames) < Len(Messages)
      /\ frames' = Append(frames, e)
  BY DEF Seal
<1>2. /\ IsSequence(frames) /\ Len(frames) \in Nat /\ DOMAIN frames = 1 .. Len(frames)
      /\ n \in DOMAIN Messages
  <2>1. Len(frames) \in Nat /\ DOMAIN frames = 1 .. Len(frames)
    BY LinkFacts
  <2>2. n \in 1 .. Len(Messages)
    BY <1>1, <2>1, MessagesAssumption
  <2>. QED BY <2>1, <2>2, MessagesAssumption DEF TransportsInv, FramesSealed
<1>3. e = Sealing(n, pad, Key)
  <2>1. n - 1 = Len(frames)
    BY <1>2
  <2>. HIDE DEF n
  <2>. QED BY <2>1 DEF EncryptOutgoing, Sealing, Key
<1>. HIDE DEF n, e
<1>4. /\ IsSequence(frames') /\ Len(frames') = Len(frames) + 1
      /\ DOMAIN frames' = 1 .. Len(frames) + 1
      /\ \A i \in 1 .. Len(frames) : frames'[i] = frames[i]
      /\ frames'[Len(frames) + 1] = e
  BY <1>1, <1>2, Appending
<1>5. FramesSealed'
  <2>1. Len(frames') <= Len(Messages)
    BY <1>1, <1>2, <1>4, MessagesAssumption
  <2>2. Key' = Key
    BY DEF Key
  <2>3. ASSUME NEW i \in DOMAIN frames'
        PROVE  \E p \in Pads : frames'[i] = Sealing(i, p, Key)
    <3>1. CASE i \in DOMAIN frames
      BY <1>2, <1>4, <3>1 DEF TransportsInv, FramesSealed
    <3>2. CASE i = n
      BY <1>3, <1>4, <3>2 DEF n
    <3>. QED BY <1>2, <1>4, <3>1, <3>2 DEF n
  <2>. QED BY <1>4, <2>1, <2>2, <2>3 DEF FramesSealed
<1>6. Countable(frames')
  <2>1. ASSUME NEW i \in DOMAIN frames'
        PROVE  Size(frames'[i]) \in Nat /\ Size(frames'[i]) > 0
    <3>1. CASE i \in DOMAIN frames
      BY <1>2, <1>4, <3>1, LinkFacts DEF Countable
    <3>2. CASE i = n
      <4>1. Size(Sealing(n, pad, Key)) \in Nat
            /\ Size(Sealing(n, pad, Key)) = Len(Payload(n)) + pad + 2
        BY <1>2, SealingSizes
      <4>2. Len(Payload(n)) \in Nat
        BY <1>2, PayloadFacts
      <4>3. frames'[i] = Sealing(n, pad, Key)
        BY <1>3, <1>4, <3>2 DEF n
      <4>4. Size(Sealing(n, pad, Key)) > 0
        BY <4>1, <4>2 DEF Pads
      <4>. QED BY <4>1, <4>3, <4>4
    <3>. QED BY <1>2, <1>4, <3>1, <3>2 DEF n
  <2>. QED BY <1>4, <2>1 DEF Countable
<1>. QED BY <1>1, <1>2, <1>4, <1>5, <1>6

\* A new frame takes nothing from what has been returned.
LEMMA GotKept ==
  ASSUME TransportsInv, Len(frames') = Len(frames) + 1, got' = got, torn' = torn
  PROVE  GotSealed'
<1>1. IsSequence(got)
  BY DEF TransportsInv, GotSealed
<1>2. \A n \in DOMAIN got : got[n].sequence \in 0 .. Len(frames') - 1
  <2>1. Len(frames) \in Nat
    BY LinkFacts
  <2>2. \A n \in DOMAIN got : got[n].sequence \in 0 .. Len(frames) - 1
    BY DEF TransportsInv, GotSealed
  <2>3. \A x : x \in 0 .. Len(frames) - 1 => x \in 0 .. Len(frames') - 1
    BY <2>1
  <2>. QED BY <2>2, <2>3
<1>3. \A n \in DOMAIN got :
        /\ got[n].message = Messages[got[n].sequence + 1]
        /\ n > 1 => got[n - 1].sequence < got[n].sequence
        /\ ~torn => got[n].sequence = n - 1
  BY DEF TransportsInv, GotSealed
<1>. QED BY <1>1, <1>2, <1>3 DEF GotSealed, IsSequence

\* The parts of the invariant that a send disturbs in the same way on every transport.
LEMMA SendKeeps ==
  ASSUME TransportsInv, NEW pad \in Pads, Seal(pad),
         UNCHANGED <<tried, kind, state, cut, accepted, buf, recv, got, torn, noise>>,
         kind # "none", kind \notin {"tls", "server"} => outbox' = outbox
  PROVE  TransportsTypeOK' /\ FramesSealed' /\ Staged' /\ GotSealed'
<1>1. /\ Len(frames') = Len(frames) + 1 /\ Len(frames) < Len(Messages) /\ FramesSealed'
      /\ \A i \in DOMAIN frames : frames'[i] = frames[i]
  BY SealFacts
<1>2. Len(frames) \in Nat /\ Len(Messages) \in Nat /\ Len(got) \in Nat /\ Len(got) <= Len(frames)
  BY LinkFacts
<1>3. GotSealed'
  BY <1>1, GotKept
<1>4. Staged'
  BY DEF TransportsInv, Staged
<1>5. TransportsTypeOK'
  <2>1. Len(frames') <= Len(Messages) /\ Len(got') <= Len(frames') /\ accepted' \in 0 .. Len(frames')
    BY <1>1, <1>2 DEF TransportsInv, TransportsTypeOK
  <2>2. kind' = "server" /\ Len(buf') >= Prefix => Len(buf') <= Prefix + FrameLength'
    <3>. SUFFICES ASSUME kind = "server", Len(buf) >= Prefix
                  PROVE  Len(buf) <= Prefix + FrameLength'
      OBVIOUS
    <3>1. Len(buf) <= Prefix + FrameLength
      BY DEF TransportsInv, TransportsTypeOK
    <3>2. buf[1][1] \in DOMAIN frames
      <4>1. /\ buf \in Seq(StreamUnits) /\ transit \in Seq(StreamUnits) /\ outbox \in Seq(StreamUnits)
            /\ Gapless(Stream, Len(got) + 1, frames)
        BY DEF TransportsInv, StreamGapless
      <4>2. Len(buf) \in Nat /\ Len(buf) > 0
        BY <4>1, LinkNumbers, LenProperties
      <4>3. transit \o outbox \in Seq(StreamUnits) /\ Stream = buf \o (transit \o outbox)
        BY <4>1, ConcatProperties, ConcatAssociative DEF Stream
      <4>4. Stream \in Seq(StreamUnits) /\ Len(Stream) = Len(buf) + Len(transit \o outbox)
            /\ Stream[1] = buf[1]
        BY <4>1, <4>2, <4>3, ConcatProperties, LenProperties
      <4>5. 1 \in DOMAIN Stream
        BY <4>2, <4>3, <4>4, LenProperties
      <4>6. Stream[1][1] \in (Len(got) + 1) .. Len(frames)
        BY <4>1, <4>5 DEF Gapless
      <4>. QED BY <1>2, <4>4, <4>6, LinkFacts
    <3>. QED BY <1>1, <3>1, <3>2 DEF FrameLength
  <2>. QED BY <2>1, <2>2 DEF TransportsInv, TransportsTypeOK
<1>. QED BY <1>1, <1>3, <1>4, <1>5

\* TlsTcpConnection::send: a frame behind what is on its way.
LEMMA TlsSendKeeps ==
  ASSUME TransportsInv, NEW pad \in Pads, TlsSend(pad)
  PROVE  TransportsInv'
<1>1. /\ kind \in {"tls", "server"} /\ Seal(pad)
      /\ outbox' = [j \in 1 .. Prefix + Size(frames'[Len(frames')]) |-> <<Len(frames'), j>>]
      /\ tried' = tried /\ kind' = kind /\ state' = state /\ cut' = cut /\ transit' = transit
      /\ accepted' = accepted /\ buf' = buf /\ recv' = recv /\ got' = got /\ torn' = torn
      /\ noise' = noise
  BY DEF TlsSend, linkVars, recvVars
<1>2. TransportsTypeOK' /\ FramesSealed' /\ Staged' /\ GotSealed'
  BY <1>1, SendKeeps
<1>3. /\ outbox = <<>> /\ ~cut /\ Len(frames') = Len(frames) + 1 /\ Countable(frames')
      /\ \A i \in DOMAIN frames : frames'[i] = frames[i]
  BY <1>1, SealFacts
<1>4. /\ buf \in Seq(StreamUnits) /\ transit \in Seq(StreamUnits)
      /\ Gapless(Stream, Len(got) + 1, frames) /\ Reaches(Stream, Len(got) + 1, frames)
  BY <1>1, <1>3 DEF TransportsInv, StreamGapless
<1>5. buf \o transit \in Seq(StreamUnits) /\ Stream = buf \o transit
  BY <1>3, <1>4, ConcatProperties, ConcatEmptySeq DEF Stream
<1>6. outbox' = [j \in 1 .. UnitsOf(frames', Len(frames')) |-> <<Len(frames'), j>>]
  BY <1>1 DEF UnitsOf
<1>7. Len(got) + 1 \in Nat /\ Len(got) + 1 > 0 /\ Len(got) + 1 <= Len(frames) + 1 /\ Countable(frames)
  BY LinkFacts
<1>8. /\ Gapless(Stream \o outbox', Len(got) + 1, frames')
      /\ Reaches(Stream \o outbox', Len(got) + 1, frames')
  BY <1>3, <1>4, <1>5, <1>6, <1>7, GaplessExtended
<1>9. Stream' = Stream \o outbox'
  BY <1>1, <1>5 DEF Stream
<1>10. outbox' \in Seq(StreamUnits)
  <2>. DEFINE n == Len(frames')
              w == UnitsOf(frames', n)
  <2>1. n \in Nat /\ n \in DOMAIN frames'
    BY <1>3, LinkFacts DEF Countable, IsSequence
  <2>2. w \in Nat
    BY <1>3, <2>1, LinkNumbers DEF Countable, UnitsOf
  <2>3. outbox' = [j \in 1 .. w |-> <<n, j>>]
    BY <1>6
  <2>. HIDE DEF n, w
  <2>4. \A j \in 1 .. w : <<n, j>> \in StreamUnits
    BY <2>1, <2>2 DEF StreamUnits
  <2>5. [j \in 1 .. w |-> <<n, j>>] \in Seq(StreamUnits)
    BY <2>2, <2>4
  <2>. QED BY <2>3, <2>5
<1>11. StreamGapless'
  BY <1>1, <1>4, <1>8, <1>9, <1>10 DEF StreamGapless
<1>. QED BY <1>1, <1>2, <1>11, OfOtherKinds DEF TransportsInv

\* WebSocketConnection::send: a message behind the others.
LEMMA WebSocketSendKeeps ==
  ASSUME TransportsInv, NEW pad \in Pads, WebSocketSend(pad)
  PROVE  TransportsInv'
<1>1. /\ kind = "websocket" /\ Seal(pad) /\ transit' = Append(transit, Len(frames'))
      /\ tried' = tried /\ kind' = kind /\ state' = state /\ cut' = cut /\ outbox' = outbox
      /\ accepted' = accepted /\ buf' = buf /\ recv' = recv /\ got' = got /\ torn' = torn
      /\ noise' = noise
  BY DEF WebSocketSend, linkVars, recvVars
<1>2. TransportsTypeOK' /\ FramesSealed' /\ Staged' /\ GotSealed'
  BY <1>1, SendKeeps
<1>3. Len(frames') = Len(frames) + 1
  BY <1>1, SealFacts
<1>4. /\ transit \in Seq(Nat)
      /\ \A k \in DOMAIN transit : transit[k] = 0 \/ transit[k] \in Len(got) + 1 .. Len(frames)
      /\ \A i \in Len(got) + 1 .. Len(frames) : \E k \in DOMAIN transit : transit[k] = i
      /\ \A j, k \in DOMAIN transit :
           j < k /\ transit[j] # 0 /\ transit[k] # 0 => transit[j] < transit[k]
  BY <1>1 DEF TransportsInv, MessagesQueued
<1>5. Len(got) \in Nat /\ Len(frames) \in Nat /\ Len(got) <= Len(frames)
  BY LinkFacts
<1>. DEFINE n == Len(transit)
            x == Len(frames')
<1>6. x \in Nat /\ x = Len(frames) + 1 /\ n \in Nat /\ DOMAIN transit = 1 .. n
  BY <1>3, <1>4, <1>5, LenProperties
<1>. HIDE DEF x
<1>7. /\ transit' \in Seq(Nat) /\ Len(transit') = n + 1 /\ DOMAIN transit' = 1 .. n + 1
      /\ \A k \in 1 .. n : transit'[k] = transit[k] /\ k \in DOMAIN transit'
      /\ transit'[n + 1] = x /\ n + 1 \in DOMAIN transit'
  <2>1. /\ transit' \in Seq(Nat) /\ Len(transit') = n + 1
        /\ \A k \in 1 .. n : transit'[k] = transit[k]
        /\ transit'[n + 1] = x
    BY <1>1, <1>4, <1>6, AppendProperties DEF x
  <2>. QED BY <1>6, <2>1, LenProperties
<1>. HIDE DEF n
<1>8. \A k \in DOMAIN transit' : k \in 1 .. n \/ k = n + 1
  BY <1>6, <1>7
<1>9. \A k \in DOMAIN transit' : transit'[k] = 0 \/ transit'[k] \in Len(got) + 1 .. x
  <2>1. x \in Len(got) + 1 .. x
    BY <1>5, <1>6
  <2>2. \A k \in 1 .. n : transit[k] = 0 \/ transit[k] \in Len(got) + 1 .. x
    <3>1. \A y : y \in Len(got) + 1 .. Len(frames) => y \in Len(got) + 1 .. x
      BY <1>5, <1>6
    <3>. QED BY <1>4, <1>6, <3>1
  <2>. QED BY <1>7, <1>8, <2>1, <2>2
<1>10. \A i \in Len(got) + 1 .. x : \E k \in DOMAIN transit' : transit'[k] = i
  <2>1. \A i \in Len(got) + 1 .. x : i = x \/ i \in Len(got) + 1 .. Len(frames)
    BY <1>5, <1>6
  <2>. QED BY <1>4, <1>6, <1>7, <2>1
<1>11. \A j, k \in DOMAIN transit' :
         j < k /\ transit'[j] # 0 /\ transit'[k] # 0 => transit'[j] < transit'[k]
  <2>. SUFFICES ASSUME NEW j \in DOMAIN transit', NEW k \in DOMAIN transit', j < k,
                       transit'[j] # 0, transit'[k] # 0
                PROVE  transit'[j] < transit'[k]
    OBVIOUS
  <2>1. j \in 1 .. n
    BY <1>6, <1>7
  <2>2. CASE k \in 1 .. n
    BY <1>4, <1>6, <1>7, <2>1, <2>2
  <2>3. CASE k = n + 1
    <3>1. transit[j] \in Len(got) + 1 .. Len(frames)
      BY <1>4, <1>6, <1>7, <2>1
    <3>. QED BY <1>5, <1>6, <1>7, <2>1, <2>3, <3>1
  <2>. QED BY <1>8, <2>2, <2>3
<1>12. MessagesQueued'
  BY <1>1, <1>7, <1>9, <1>10, <1>11 DEF MessagesQueued, x
<1>. QED BY <1>1, <1>2, <1>12, OfOtherKinds DEF TransportsInv

\* QuicConnection::send: a stream of its own, of which nothing has arrived.
LEMMA QuicSendKeeps ==
  ASSUME TransportsInv, NEW pad \in Pads, QuicSend(pad)
  PROVE  TransportsInv'
<1>1. /\ kind = "quic" /\ Seal(pad) /\ transit' = Append(transit, 0)
      /\ tried' = tried /\ kind' = kind /\ state' = state /\ cut' = cut /\ outbox' = outbox
      /\ accepted' = accepted /\ buf' = buf /\ recv' = recv /\ got' = got /\ torn' = torn
      /\ noise' = noise
  BY DEF QuicSend, linkVars, recvVars
<1>2. TransportsTypeOK' /\ FramesSealed' /\ Staged' /\ GotSealed'
  BY <1>1, SendKeeps
<1>3. Len(frames') = Len(frames) + 1 /\ \A i \in DOMAIN frames : frames'[i] = frames[i]
  BY <1>1, SealFacts
<1>4. /\ transit \in Seq(Nat) /\ Len(transit) = Len(frames)
      /\ \A i \in DOMAIN transit : transit[i] \in {0, Prefix, Whole(i)}
      /\ accepted \in Held .. Len(frames)
      /\ Len(got) + Held <= accepted
      /\ \A n \in DOMAIN got : got[n].sequence < accepted - Held
      /\ ~torn /\ state = "open" => Len(got) + Held = accepted
  BY <1>1 DEF TransportsInv, StreamsAccepted
<1>5. Len(frames) \in Nat /\ DOMAIN frames = 1 .. Len(frames) /\ DOMAIN transit = 1 .. Len(frames)
  BY <1>4, LinkFacts, LenProperties
<1>6. /\ transit' \in Seq(Nat) /\ Len(transit') = Len(frames')
      /\ DOMAIN transit' = 1 .. Len(frames) + 1
      /\ \A i \in 1 .. Len(frames) : transit'[i] = transit[i]
      /\ transit'[Len(frames) + 1] = 0
  <2>1. /\ transit' \in Seq(Nat) /\ Len(transit') = Len(transit) + 1
        /\ \A i \in 1 .. Len(transit) : transit'[i] = transit[i]
        /\ transit'[Len(transit) + 1] = 0
    BY <1>1, <1>4, AppendProperties
  <2>. QED BY <1>3, <1>4, <2>1, LenProperties
<1>7. \A i \in DOMAIN transit' : transit'[i] \in {0, Prefix, Whole(i)'}
  <2>. SUFFICES ASSUME NEW i \in DOMAIN transit' PROVE transit'[i] \in {0, Prefix, Whole(i)'}
    OBVIOUS
  <2>1. CASE i \in 1 .. Len(frames)
    <3>1. Whole(i)' = Whole(i)
      BY <1>3, <1>5, <2>1 DEF Whole
    <3>. QED BY <1>4, <1>5, <1>6, <2>1, <3>1
  <2>2. CASE i = Len(frames) + 1
    BY <1>6, <2>2
  <2>. QED BY <1>5, <1>6, <2>1, <2>2
<1>8. Held' = Held /\ Held \in Nat /\ accepted \in Held .. Len(frames')
  BY <1>1, <1>3, <1>4, <1>5 DEF Held
<1>9. StreamsAccepted'
  BY <1>1, <1>4, <1>6, <1>7, <1>8 DEF StreamsAccepted
<1>. QED BY <1>1, <1>2, <1>9, OfOtherKinds DEF TransportsInv

\* Of the types, what a step leaves alone.
LEMMA LengthsStay ==
  ASSUME TransportsTypeOK, UNCHANGED <<tried, kind, frames, accepted, buf, got>>
  PROVE  /\ tried' \in 0 .. Len(Connect) /\ kind' \in Kinds \cup {"none"}
         /\ Len(frames') <= Len(Messages) /\ Len(got') <= Len(frames')
         /\ accepted' \in 0 .. Len(frames')
         /\ kind' = "server" /\ Len(buf') >= Prefix => Len(buf') <= Prefix + FrameLength'
BY DEF TransportsTypeOK, FrameLength

\* The network goes, and with it what was not written.
LEMMA CutKeeps == TransportsInv /\ Cut => TransportsInv'
<1>. SUFFICES ASSUME TransportsInv, Cut PROVE TransportsInv'
  OBVIOUS
<1>1. /\ state = "open" /\ cut' = TRUE /\ outbox' = <<>>
      /\ tried' = tried /\ kind' = kind /\ state' = state /\ frames' = frames /\ transit' = transit
      /\ accepted' = accepted /\ buf' = buf /\ recv' = recv /\ got' = got /\ torn' = torn
      /\ noise' = noise
  BY DEF Cut, recvVars
<1>2. TransportsTypeOK'
  BY <1>1, LengthsStay DEF TransportsInv, TransportsTypeOK
<1>3. FramesSealed' /\ GotSealed'
  BY <1>1, FramesStay, GotStays DEF TransportsInv
<1>4. Staged'
  BY <1>1 DEF TransportsInv, Staged
<1>5. MessagesQueued' /\ StreamsAccepted'
  BY <1>1, QueueStays, AcceptedStays DEF TransportsInv, Held
<1>6. ASSUME kind \in {"tls", "server"} PROVE StreamGapless'
  <2>1. /\ buf \in Seq(StreamUnits) /\ transit \in Seq(StreamUnits) /\ outbox \in Seq(StreamUnits)
        /\ Gapless(Stream, Len(got) + 1, frames)
    BY <1>6 DEF TransportsInv, StreamGapless
  <2>. DEFINE a == buf \o transit
  <2>2. a \in Seq(StreamUnits) /\ Len(a) \in Nat /\ Len(outbox) \in Nat
    BY <2>1, ConcatProperties, LenProperties
  <2>. HIDE DEF a
  <2>3. /\ a \o outbox \in Seq(StreamUnits) /\ Len(a \o outbox) = Len(a) + Len(outbox)
        /\ \A i \in 1 .. Len(a) + Len(outbox) :
             (a \o outbox)[i] = IF i <= Len(a) THEN a[i] ELSE outbox[i - Len(a)]
    BY <2>1, <2>2, ConcatProperties
  <2>4. Stream = a \o outbox /\ Stream' = a
    <3>1. Stream' = a \o <<>>
      BY <1>1 DEF Stream, a
    <3>. QED BY <2>2, <3>1, ConcatEmptySeq DEF Stream, a
  <2>5. Len(a) <= Len(Stream) /\ \A i \in 1 .. Len(a) : a[i] = Stream[i]
    BY <2>2, <2>3, <2>4
  <2>6. Len(got) + 1 \in Nat
    BY LinkFacts
  <2>7. Gapless(a, Len(got) + 1, frames)
    BY <2>1, <2>2, <2>3, <2>4, <2>5, <2>6, GaplessPrefix
  <2>8. outbox' \in Seq(StreamUnits)
    BY <1>1, EmptySeq
  <2>. QED BY <1>1, <2>1, <2>4, <2>7, <2>8 DEF StreamGapless
<1>7. StreamGapless'
  BY <1>1, <1>6, OfOtherKinds
<1>. QED BY <1>2, <1>3, <1>4, <1>5, <1>7 DEF TransportsInv

\* Steps that move nothing: the connection is closed, a recv is called or dropped,
\* or it fails.
LEMMA StillKeeps ==
  ASSUME TransportsInv,
         UNCHANGED <<tried, kind, cut, frames, outbox, transit, accepted, buf, got, noise>>,
         kind # "none", recv' \in {"none", "pending"},
         recv' = recv \/ recv' = "none" \/ recv = "none",
         state' \in {"open", "closed"}, recv' = "none" \/ state' = "open",
         state' = "open" => state = "open",
         torn' = (torn \/ (state' = "open" /\ recv = "holding"))
  PROVE  TransportsInv'
<1>1. TransportsTypeOK'
  <2>1. torn' \in BOOLEAN
    OBVIOUS
  <2>. QED BY <2>1, LengthsStay DEF TransportsInv, TransportsTypeOK
<1>2. FramesSealed'
  BY FramesStay DEF TransportsInv
<1>3. GotSealed'
  <2>1. torn => torn'
    OBVIOUS
  <2>2. ~torn' => ~torn
    BY <2>1
  <2>. QED BY <2>2 DEF TransportsInv, GotSealed, IsSequence
<1>4. Staged'
  <2>1. kind # "quic" => recv # "holding" /\ ~torn
    BY DEF TransportsInv, Staged
  <2>2. kind # "quic" => ~torn'
    BY <2>1
  <2>3. /\ kind = "none" <=> state' \in {"dialling", "failed"}
        /\ state' = "dialling" => tried < Len(Connect)
        /\ recv' # "none" => state' = "open"
        /\ recv' # "holding"
    OBVIOUS
  <2>4. /\ kind \notin {"tls", "server"} => buf = <<>> /\ outbox = <<>>
        /\ kind # "quic" => accepted = 0
    BY DEF TransportsInv, Staged
  <2>. QED BY <2>2, <2>3, <2>4 DEF Staged
<1>5. StreamGapless' /\ MessagesQueued'
  <2>1. Stream' = Stream
    BY DEF Stream
  <2>2. kind \in {"tls", "server"} =>
          /\ buf' \in Seq(StreamUnits) /\ transit' \in Seq(StreamUnits)
          /\ outbox' \in Seq(StreamUnits)
    BY DEF TransportsInv, StreamGapless
  <2>3. StreamGapless'
    BY <2>1, <2>2, StreamStays DEF TransportsInv
  <2>. QED BY <2>3, QueueStays DEF TransportsInv
<1>6. StreamsAccepted'
  <2>. SUFFICES ASSUME kind = "quic" PROVE StreamsAccepted'
    BY OfOtherKinds
  <2>1. /\ transit \in Seq(Nat) /\ Len(transit) = Len(frames)
        /\ \A i \in DOMAIN transit : transit[i] \in {0, Prefix, Whole(i)}
        /\ accepted \in Held .. Len(frames)
        /\ Len(got) + Held <= accepted
        /\ \A n \in DOMAIN got : got[n].sequence < accepted - Held
        /\ ~torn /\ state = "open" => Len(got) + Held = accepted
    BY DEF TransportsInv, StreamsAccepted
  <2>2. Held' = 0 /\ Held \in {0, 1} /\ Len(got) \in Nat /\ Len(frames) \in Nat
    BY LinkFacts DEF Held
  <2>3. accepted \in Nat /\ accepted' \in Held' .. Len(frames) /\ Len(got) + Held' <= accepted
    BY <2>1, <2>2
  <2>4. \A n \in DOMAIN got : got[n].sequence < accepted - Held'
    <3>1. \A n \in DOMAIN got : got[n].sequence \in Int
      BY <2>2 DEF TransportsInv, GotSealed
    <3>2. \A x \in Int : x < accepted - Held => x < accepted - 0
      BY <2>2, <2>3
    <3>. QED BY <2>1, <2>2, <3>1, <3>2
  <2>5. ~torn' /\ state' = "open" => Len(got) + Held' = accepted
    <3>. SUFFICES ASSUME ~torn', state' = "open" PROVE Len(got) + Held' = accepted
      OBVIOUS
    <3>1. ~torn /\ recv # "holding" /\ state = "open"
      OBVIOUS
    <3>. QED BY <2>1, <2>2, <3>1 DEF Held
  <2>6. \A i : Whole(i)' = Whole(i)
    BY DEF Whole
  <2>. QED BY <2>1, <2>3, <2>4, <2>5, <2>6 DEF StreamsAccepted
<1>. QED BY <1>1, <1>2, <1>3, <1>4, <1>5, <1>6 DEF TransportsInv

\* Connection::close, outside of a recv.
LEMMA CloseKeeps == TransportsInv /\ Close => TransportsInv'
<1>. SUFFICES ASSUME TransportsInv, Close PROVE TransportsInv'
  OBVIOUS
<1>1. /\ state = "open" /\ recv = "none" /\ state' = "closed"
      /\ tried' = tried /\ kind' = kind /\ cut' = cut /\ frames' = frames /\ outbox' = outbox
      /\ transit' = transit /\ accepted' = accepted /\ buf' = buf /\ recv' = recv
      /\ got' = got /\ torn' = torn /\ noise' = noise
  BY DEF Close, sendVars, recvVars
<1>2. kind # "none" /\ torn \in BOOLEAN
  BY <1>1 DEF TransportsInv, Staged, TransportsTypeOK
<1>3. torn' = (torn \/ (state' = "open" /\ recv = "holding"))
  BY <1>1, <1>2
<1>. QED BY <1>1, <1>2, <1>3, StillKeeps

\* recv is called: nothing has been read for it yet.
LEMMA CallKeeps == TransportsInv /\ Call => TransportsInv'
<1>. SUFFICES ASSUME TransportsInv, Call PROVE TransportsInv'
  OBVIOUS
<1>1. /\ state = "open" /\ recv = "none" /\ recv' = "pending" /\ state' = state
      /\ tried' = tried /\ kind' = kind /\ cut' = cut /\ frames' = frames /\ outbox' = outbox
      /\ transit' = transit /\ accepted' = accepted /\ buf' = buf
      /\ got' = got /\ torn' = torn /\ noise' = noise
  BY DEF Call, linkVars, sendVars
<1>2. kind # "none" /\ torn \in BOOLEAN
  BY <1>1 DEF TransportsInv, Staged, TransportsTypeOK
<1>3. torn' = (torn \/ (state' = "open" /\ recv = "holding"))
  BY <1>1, <1>2
<1>. QED BY <1>1, <1>2, <1>3, StillKeeps

\* select!: what the connection has read stays with the connection.
LEMMA DropKeeps == TransportsInv /\ Drop => TransportsInv'
<1>. SUFFICES ASSUME TransportsInv, Drop PROVE TransportsInv'
  OBVIOUS
<1>1. /\ recv # "none" /\ recv' = "none" /\ buf' = buf /\ torn' = (torn \/ recv = "holding")
      /\ tried' = tried /\ kind' = kind /\ state' = state /\ cut' = cut /\ frames' = frames
      /\ outbox' = outbox /\ transit' = transit /\ accepted' = accepted
      /\ got' = got /\ noise' = noise
  BY DEF Drop, Kept, linkVars, sendVars
<1>2. state = "open" /\ kind # "none" /\ torn \in BOOLEAN
  BY <1>1 DEF TransportsInv, Staged, TransportsTypeOK
<1>3. torn' = (torn \/ (state' = "open" /\ recv = "holding"))
  BY <1>1, <1>2
<1>. QED BY <1>1, <1>2, <1>3, StillKeeps

\* A recv fails: the stream is shut or cannot be read.
LEMMA StreamEndsKeeps == TransportsInv /\ StreamEnds => TransportsInv'
<1>. SUFFICES ASSUME TransportsInv, StreamEnds PROVE TransportsInv'
  OBVIOUS
<1>1. /\ recv # "none" /\ recv' = "none" /\ state' = "closed"
      /\ tried' = tried /\ kind' = kind /\ cut' = cut /\ frames' = frames
      /\ outbox' = outbox /\ transit' = transit /\ accepted' = accepted /\ buf' = buf
      /\ got' = got /\ noise' = noise /\ torn' = torn
  BY DEF StreamEnds, sendVars
<1>2. state = "open" /\ kind # "none" /\ torn \in BOOLEAN
  BY <1>1 DEF TransportsInv, Staged, TransportsTypeOK
<1>3. torn' = (torn \/ (state' = "open" /\ recv = "holding"))
  BY <1>1, <1>2
<1>. QED BY <1>1, <1>2, <1>3, StillKeeps

\* One sequence of units behind another.
LEMMA UnitsConcat ==
  ASSUME NEW a \in Seq(StreamUnits), NEW b \in Seq(StreamUnits)
  PROVE  /\ a \o b \in Seq(StreamUnits) /\ Len(a) \in Nat /\ Len(b) \in Nat
         /\ Len(a \o b) = Len(a) + Len(b) /\ Len(a \o b) \in Nat
         /\ \A i \in 1 .. Len(a) : (a \o b)[i] = a[i]
         /\ a # <<>> => a \o b # <<>> /\ (a \o b)[1] = a[1] /\ Len(a) > 0
<1>. DEFINE c == a \o b
<1>2. /\ c \in Seq(StreamUnits) /\ Len(c) = Len(a) + Len(b)
      /\ \A i \in 1 .. Len(a) + Len(b) : c[i] = IF i <= Len(a) THEN a[i] ELSE b[i - Len(a)]
  BY ConcatProperties
<1>3. Len(a) \in Nat /\ Len(b) \in Nat
  BY LenProperties
<1>. HIDE DEF c
<1>4. Len(c) \in Nat /\ \A i \in 1 .. Len(a) : c[i] = a[i]
  BY <1>2, <1>3
<1>5. a # <<>> => c # <<>> /\ c[1] = a[1] /\ Len(a) > 0
  <2>1. a # <<>> => Len(a) > 0
    BY <1>3, EmptySeq
  <2>2. Len(a) > 0 => c # <<>>
    BY <1>2, <1>3, EmptySeq
  <2>. QED BY <1>3, <1>4, <2>1, <2>2
<1>. QED BY <1>2, <1>3, <1>4, <1>5 DEF c

\* What is on a stream, of tls and of the server.
LEMMA StreamFacts ==
  ASSUME TransportsInv, kind \in {"tls", "server"}
  PROVE  /\ buf \in Seq(StreamUnits) /\ transit \in Seq(StreamUnits) /\ outbox \in Seq(StreamUnits)
         /\ Len(buf) \in Nat /\ Len(transit) \in Nat /\ Len(outbox) \in Nat
         /\ transit \o outbox \in Seq(StreamUnits) /\ Stream = buf \o (transit \o outbox)
         /\ Stream \in Seq(StreamUnits) /\ Len(Stream) \in Nat /\ Len(buf) <= Len(Stream)
         /\ \A i \in 1 .. Len(buf) : Stream[i] = buf[i]
         /\ Gapless(Stream, Len(got) + 1, frames)
         /\ buf # <<>> => /\ Stream # <<>> /\ buf[1] = <<Len(got) + 1, 1>>
                          /\ Len(got) + 1 \in DOMAIN frames
<1>1. /\ buf \in Seq(StreamUnits) /\ transit \in Seq(StreamUnits) /\ outbox \in Seq(StreamUnits)
      /\ Gapless(Stream, Len(got) + 1, frames)
  BY DEF TransportsInv, StreamGapless
<1>2. Len(buf) \in Nat /\ Len(transit) \in Nat /\ Len(outbox) \in Nat
  BY <1>1, LenProperties
<1>3. transit \o outbox \in Seq(StreamUnits)
  BY <1>1, ConcatProperties
<1>4. Stream = buf \o (transit \o outbox)
  BY <1>1, ConcatAssociative DEF Stream
<1>. DEFINE r == transit \o outbox
<1>5. r \in Seq(StreamUnits) /\ Len(r) \in Nat
  BY <1>3, LenProperties
<1>. HIDE DEF r
<1>6. /\ buf \o r \in Seq(StreamUnits) /\ Len(buf \o r) = Len(buf) + Len(r)
      /\ \A i \in 1 .. Len(buf) + Len(r) :
           (buf \o r)[i] = IF i <= Len(buf) THEN buf[i] ELSE r[i - Len(buf)]
  BY <1>1, <1>5, ConcatProperties
<1>7. Stream = buf \o r
  BY <1>4 DEF r
<1>8. /\ Stream \in Seq(StreamUnits) /\ Len(Stream) \in Nat /\ Len(buf) <= Len(Stream)
      /\ \A i \in 1 .. Len(buf) : Stream[i] = buf[i]
  BY <1>2, <1>5, <1>6, <1>7
<1>9. ASSUME buf # <<>>
      PROVE  /\ Stream # <<>> /\ buf[1] = <<Len(got) + 1, 1>>
             /\ Len(got) + 1 \in DOMAIN frames
  <2>1. Len(buf) > 0 /\ 1 \in 1 .. Len(buf)
    BY <1>1, <1>2, <1>9, EmptySeq
  <2>2. Stream # <<>>
    BY <1>2, <1>8, <2>1, EmptySeq
  <2>3. Len(got) + 1 \in Nat /\ Len(got) + 1 > 0 /\ Countable(frames)
    BY LinkFacts
  <2>4. Len(got) + 1 \in DOMAIN frames
    BY <1>1, <1>8, <2>2, <2>3, GaplessFrame
  <2>. QED BY <1>1, <1>8, <2>1, <2>2, <2>4 DEF Gapless
<1>. QED BY <1>1, <1>2, <1>3, <1>4, <1>8, <1>9

\* write_all, however much the socket takes: the stream is the same.
LEMMA WriteKeeps ==
  ASSUME TransportsInv, NEW n \in Units, TlsWrite(n)
  PROVE  TransportsInv'
<1>1. /\ n \in 1 .. Len(outbox)
      /\ transit' = transit \o SubSeq(outbox, 1, n)
      /\ outbox' = SubSeq(outbox, n + 1, Len(outbox))
      /\ tried' = tried /\ kind' = kind /\ state' = state /\ cut' = cut /\ frames' = frames
      /\ accepted' = accepted /\ buf' = buf /\ recv' = recv /\ got' = got /\ torn' = torn
      /\ noise' = noise
  BY DEF TlsWrite, linkVars, recvVars
<1>2. kind \in {"tls", "server"}
  <2>1. CASE outbox = <<>>
    <3>1. Len(<<>>) = 0
      OBVIOUS
    <3>. QED BY <1>1, <2>1, <3>1
  <2>. QED BY <2>1 DEF TransportsInv, Staged
<1>3. TransportsTypeOK'
  BY <1>1, LengthsStay DEF TransportsInv, TransportsTypeOK
<1>4. FramesSealed' /\ GotSealed'
  BY <1>1, FramesStay, GotStays DEF TransportsInv
<1>5. Staged'
  <2>1. kind # "none"
    BY <1>2
  <2>. QED BY <1>1, <1>2, <2>1 DEF TransportsInv, Staged
<1>6. StreamGapless'
  <2>1. /\ buf \in Seq(StreamUnits) /\ transit \in Seq(StreamUnits) /\ outbox \in Seq(StreamUnits)
        /\ Len(outbox) \in Nat
    BY <1>2, StreamFacts
  <2>2. n \in 0 .. Len(outbox)
    BY <1>1, <2>1
  <2>. DEFINE p == Taken(outbox, n)
              q == Left(outbox, n)
  <2>3. /\ p \in Seq(StreamUnits) /\ q \in Seq(StreamUnits)
        /\ (transit \o p) \o q = transit \o outbox
    <3>1. /\ Taken(outbox, n) \in Seq(StreamUnits) /\ Left(outbox, n) \in Seq(StreamUnits)
      BY <2>1, <2>2, Parts
    <3>2. (transit \o Taken(outbox, n)) \o Left(outbox, n) = transit \o outbox
      BY <2>1, <2>2, Moves
    <3>. QED BY <3>1, <3>2
  <2>. HIDE DEF p, q
  <2>4. transit' = transit \o p /\ outbox' = q
    BY <1>1 DEF p, q, Taken, Left
  <2>5. transit' \in Seq(StreamUnits) /\ outbox' \in Seq(StreamUnits)
    BY <2>1, <2>3, <2>4, ConcatProperties
  <2>6. Stream' = buf \o (transit' \o outbox')
    <3>. DEFINE a == buf
                t == transit'
                o == outbox'
    <3>1. a \in Seq(StreamUnits) /\ t \in Seq(StreamUnits) /\ o \in Seq(StreamUnits)
      BY <2>1, <2>5
    <3>2. Stream' = (a \o t) \o o
      BY <1>1 DEF Stream
    <3>. HIDE DEF a, t, o
    <3>3. (a \o t) \o o = a \o (t \o o)
      BY <3>1, ConcatAssociative
    <3>. QED BY <3>2, <3>3 DEF a, t, o
  <2>7. Stream' = Stream
    BY <1>2, <2>3, <2>4, <2>6, StreamFacts
  <2>. QED BY <1>1, <2>1, <2>5, <2>7, StreamStays DEF TransportsInv
<1>. QED BY <1>1, <1>2, <1>3, <1>4, <1>5, <1>6, OfOtherKinds DEF TransportsInv

\* The prefix first, then the frame: what read_exact wants never reaches into the
\* next frame.
LEMMA ReadStaysInFrame ==
  ASSUME TransportsInv, kind = "server", ~Complete, NEW n \in Nat, n <= Wanted,
         NEW b, b \in Seq(StreamUnits), Len(b) = Len(buf) + n, Len(b) >= Prefix,
         buf # <<>> => b[1] = buf[1], b[1][1] \in DOMAIN frames
  PROVE  Len(b) <= Prefix + Size(frames[b[1][1]])
<1>1. Prefix \in Nat /\ Prefix > 0 /\ Len(buf) \in Nat
  BY LinkNumbers, StreamFacts
<1>2. Size(frames[b[1][1]]) \in Nat
  BY LinkFacts DEF Countable
<1>3. CASE Len(buf) < Prefix
  <2>1. Wanted = Prefix - Len(buf)
    BY <1>3 DEF Wanted
  <2>. QED BY <1>1, <1>2, <2>1
<1>4. CASE Len(buf) >= Prefix
  <2>1. Wanted = Prefix + FrameLength - Len(buf)
    BY <1>1, <1>4 DEF Wanted
  <2>2. buf # <<>>
    BY <1>1, <1>4, EmptySeq
  <2>3. FrameLength = Size(frames[b[1][1]])
    BY <2>2 DEF FrameLength
  <2>. QED BY <1>1, <1>2, <2>1, <2>3
<1>. QED BY <1>1, <1>3, <1>4

\* However much one read returns, and whoever reads: the stream is the same.
LEMMA ReadKeeps ==
  ASSUME TransportsInv, NEW n \in Units, TlsRead(n)
  PROVE  TransportsInv'
<1>1. /\ kind \in {"tls", "server"} /\ ~Complete /\ n \in 1 .. Len(transit) /\ n <= Wanted
      /\ buf' = buf \o SubSeq(transit, 1, n)
      /\ transit' = SubSeq(transit, n + 1, Len(transit))
      /\ tried' = tried /\ kind' = kind /\ state' = state /\ cut' = cut /\ frames' = frames
      /\ outbox' = outbox /\ accepted' = accepted /\ recv' = recv /\ got' = got /\ torn' = torn
      /\ noise' = noise
  BY DEF TlsRead, linkVars, sendVars
<1>2. /\ buf \in Seq(StreamUnits) /\ transit \in Seq(StreamUnits) /\ outbox \in Seq(StreamUnits)
      /\ Len(buf) \in Nat /\ Len(transit) \in Nat
  BY <1>1, StreamFacts
<1>. DEFINE p == Taken(transit, n)
            q == Left(transit, n)
<1>3. n \in Nat /\ n > 0 /\ n \in 0 .. Len(transit)
  BY <1>1, <1>2
<1>4. /\ p \in Seq(StreamUnits) /\ Len(p) = n /\ q \in Seq(StreamUnits)
      /\ (buf \o p) \o q = buf \o transit
  <2>1. n \in 0 .. Len(transit) /\ buf \in Seq(StreamUnits) /\ transit \in Seq(StreamUnits)
    BY <1>2, <1>3
  <2>2. /\ Taken(transit, n) \in Seq(StreamUnits) /\ Len(Taken(transit, n)) = n
        /\ Left(transit, n) \in Seq(StreamUnits)
        /\ (buf \o Taken(transit, n)) \o Left(transit, n) = buf \o transit
    <3>1. /\ Taken(transit, n) \in Seq(StreamUnits) /\ Len(Taken(transit, n)) = n
          /\ Left(transit, n) \in Seq(StreamUnits)
      BY <2>1, Parts
    <3>2. (buf \o Taken(transit, n)) \o Left(transit, n) = buf \o transit
      BY <2>1, Moves
    <3>. QED BY <3>1, <3>2
  <2>. QED BY <2>2
<1>. HIDE DEF p, q
<1>5. buf' = buf \o p /\ transit' = q
  BY <1>1 DEF p, q, Taken, Left
<1>6. /\ buf' \in Seq(StreamUnits) /\ transit' \in Seq(StreamUnits)
      /\ Len(buf') = Len(buf) + n
      /\ \A i \in 1 .. Len(buf) : buf'[i] = buf[i]
  <2>1. /\ buf \o p \in Seq(StreamUnits) /\ Len(buf \o p) = Len(buf) + Len(p)
        /\ \A i \in 1 .. Len(buf) + Len(p) :
             (buf \o p)[i] = IF i <= Len(buf) THEN buf[i] ELSE p[i - Len(buf)]
    BY <1>2, <1>4, ConcatProperties
  <2>2. \A i \in 1 .. Len(buf) : i \in 1 .. Len(buf) + Len(p) /\ i <= Len(buf)
    BY <1>2, <1>3, <1>4
  <2>. QED BY <1>4, <1>5, <2>1, <2>2
<1>7. Stream' = Stream
  BY <1>1, <1>4, <1>5 DEF Stream
<1>8. StreamGapless'
  BY <1>1, <1>2, <1>5, <1>6, <1>7 DEF StreamGapless, TransportsInv, Gapless, Apart, Reaches, UnitsOf, Size
<1>9. kind = "server" /\ Len(buf') >= Prefix => Len(buf') <= Prefix + FrameLength'
  <2>. SUFFICES ASSUME kind = "server", Len(buf') >= Prefix
                PROVE  Len(buf') <= Prefix + Size(frames[buf'[1][1]])
    BY <1>1 DEF FrameLength
  <2>1. buf # <<>> => buf'[1] = buf[1]
    BY <1>2, <1>6, EmptySeq
  <2>2. buf'[1][1] \in DOMAIN frames
    <3>1. buf' # <<>>
      BY <1>2, <1>3, <1>6, EmptySeq
    <3>2. Stream'[1] = buf'[1] /\ Stream' # <<>>
      <4>1. Stream' = buf' \o (transit' \o outbox) /\ transit' \o outbox \in Seq(StreamUnits)
        <5>. DEFINE a == buf'
                    t == transit'
                    o == outbox
        <5>1. a \in Seq(StreamUnits) /\ t \in Seq(StreamUnits) /\ o \in Seq(StreamUnits)
          BY <1>2, <1>6
        <5>2. Stream' = (a \o t) \o o
          BY <1>1 DEF Stream
        <5>. HIDE DEF a, t, o
        <5>3. (a \o t) \o o = a \o (t \o o) /\ t \o o \in Seq(StreamUnits)
          BY <5>1, ConcatAssociative, ConcatProperties
        <5>. QED BY <5>2, <5>3 DEF a, t, o
      <4>. QED BY <1>6, <3>1, <4>1, UnitsConcat
    <3>3. Stream # <<>> /\ Stream[1][1] = Len(got) + 1
      <4>1. Stream # <<>> /\ Gapless(Stream, Len(got) + 1, frames)
        BY <1>1, <1>7, <3>2, StreamFacts
      <4>. QED BY <4>1 DEF Gapless
    <3>4. Len(got) + 1 \in DOMAIN frames
      <4>1. /\ Len(got) + 1 \in Nat /\ Len(got) + 1 > 0 /\ Countable(frames)
            /\ Stream \in Seq(StreamUnits) /\ Gapless(Stream, Len(got) + 1, frames)
        BY SMTT(30), <1>1, StreamFacts, LinkFacts
      <4>. QED BY <3>3, <4>1, GaplessFrame
    <3>. QED BY <1>7, <3>2, <3>3, <3>4
  <2>. QED BY <1>1, <1>3, <1>6, <2>1, <2>2, ReadStaysInFrame
<1>10. TransportsTypeOK'
  BY <1>1, <1>9 DEF TransportsInv, TransportsTypeOK
<1>11. FramesSealed' /\ GotSealed'
  BY <1>1, FramesStay, GotStays DEF TransportsInv
<1>12. Staged'
  <2>1. kind # "none"
    BY <1>1
  <2>. QED BY <1>1, <2>1 DEF TransportsInv, Staged
<1>. QED BY <1>1, <1>8, <1>10, <1>11, <1>12, OfOtherKinds DEF TransportsInv

\* What is returned next is numbered higher than all before.
LEMMA ReceiveKeeps ==
  ASSUME TransportsInv, NEW i \in DOMAIN frames,
         got' = Append(got, [sequence |-> i - 1, message |-> Messages[i]]),
         frames' = frames, torn' = torn,
         Len(got) > 0 => got[Len(got)].sequence < i - 1,
         ~torn => i = Len(got) + 1
  PROVE  GotSealed' /\ Len(got') = Len(got) + 1 /\ DOMAIN got' = 1 .. Len(got) + 1
         /\ (\A n \in DOMAIN got : got'[n] = got[n])
         /\ got'[Len(got) + 1].sequence = i - 1
<1>. DEFINE e == [sequence |-> i - 1, message |-> Messages[i]]
            l == Len(got)
<1>1. IsSequence(got) /\ l \in Nat /\ DOMAIN got = 1 .. l
  BY LinkFacts DEF TransportsInv, GotSealed
<1>. HIDE DEF e, l
<1>2. /\ IsSequence(got') /\ Len(got') = l + 1 /\ DOMAIN got' = 1 .. l + 1
      /\ \A n \in 1 .. l : got'[n] = got[n]
      /\ got'[l + 1] = e
  BY <1>1, Appending DEF e, l
<1>3. i \in 1 .. Len(frames) /\ Len(frames) \in Nat /\ (i - 1) + 1 = i
  BY LinkFacts
<1>4. e.sequence = i - 1 /\ e.message = Messages[i]
  BY DEF e
<1>5. ASSUME NEW n \in DOMAIN got'
      PROVE  /\ got'[n].sequence \in 0 .. Len(frames) - 1
             /\ got'[n].message = Messages[got'[n].sequence + 1]
             /\ n > 1 => got'[n - 1].sequence < got'[n].sequence
             /\ ~torn => got'[n].sequence = n - 1
  <2>1. CASE n \in 1 .. l
    <3>1. n > 1 => n - 1 \in 1 .. l
      BY <1>1, <2>1
    <3>2. got'[n] = got[n] /\ (n > 1 => got'[n - 1] = got[n - 1])
      BY <1>2, <2>1, <3>1
    <3>. QED BY <1>1, <2>1, <3>2 DEF TransportsInv, GotSealed
  <2>2. CASE n = l + 1
    <3>1. got'[n] = e
      BY <1>2, <2>2
    <3>2. e.sequence \in 0 .. Len(frames) - 1 /\ e.message = Messages[e.sequence + 1]
      BY <1>3, <1>4
    <3>3. n > 1 => got'[n - 1] = got[l] /\ l > 0
      BY <1>1, <1>2, <2>2
    <3>4. ~torn => e.sequence = n - 1
      BY <1>1, <1>4, <2>2 DEF l
    <3>. QED BY <1>4, <3>1, <3>2, <3>3, <3>4 DEF l
  <2>. QED BY <1>1, <1>2, <2>1, <2>2
<1>6. GotSealed'
  BY <1>2, <1>5 DEF GotSealed
<1>. QED BY <1>1, <1>2, <1>4, <1>6 DEF l

\* But for quic, what is returned next is the next message.
LEMMA NextInLine ==
  ASSUME TransportsInv, kind # "quic"
  PROVE  ~torn /\ (Len(got) > 0 => got[Len(got)].sequence < Len(got))
<1>1. ~torn
  BY DEF TransportsInv, Staged
<1>2. ASSUME Len(got) > 0 PROVE got[Len(got)].sequence < Len(got)
  <2>1. Len(got) \in DOMAIN got /\ Len(got) \in Nat
    BY <1>2, LinkFacts
  <2>2. got[Len(got)].sequence = Len(got) - 1
    BY <1>1, <2>1 DEF TransportsInv, GotSealed
  <2>. QED BY <2>1, <2>2
<1>. QED BY <1>1, <1>2

\* TlsTcpConnection::recv, read_frame: a complete frame at the head is the next one.
LEMMA ServeKeeps == TransportsInv /\ TlsServe => TransportsInv'
<1>. SUFFICES ASSUME TransportsInv, TlsServe PROVE TransportsInv'
  OBVIOUS
<1>. DEFINE i == Len(got) + 1
            w == UnitsOf(frames, i)
<1>1. /\ recv = "pending" /\ Complete /\ Hand(SubSeq(buf, Prefix + 1, Prefix + FrameLength))
      /\ buf' = SubSeq(buf, Prefix + FrameLength + 1, Len(buf))
      /\ tried' = tried /\ kind' = kind /\ cut' = cut /\ frames' = frames /\ outbox' = outbox
      /\ transit' = transit /\ accepted' = accepted /\ noise' = noise /\ torn' = torn
  BY DEF TlsServe, sendVars
<1>2. state = "open" /\ Prefix \in Nat /\ Prefix > 0
  BY <1>1, LinkNumbers DEF TransportsInv, Staged
<1>3. buf # <<>> /\ kind \in {"tls", "server"}
  <2>1. buf # <<>>
    <3>1. Len(<<>>) = 0 /\ Len(buf) >= Prefix
      BY <1>1 DEF Complete
    <3>. QED BY <1>2, <3>1
  <2>. QED BY <2>1 DEF TransportsInv, Staged
<1>4. /\ buf \in Seq(StreamUnits) /\ transit \in Seq(StreamUnits) /\ outbox \in Seq(StreamUnits)
      /\ Len(buf) \in Nat /\ transit \o outbox \in Seq(StreamUnits)
      /\ Stream = buf \o (transit \o outbox)
      /\ Stream \in Seq(StreamUnits) /\ Len(Stream) \in Nat /\ Len(buf) <= Len(Stream)
      /\ \A j \in 1 .. Len(buf) : Stream[j] = buf[j]
      /\ Gapless(Stream, i, frames) /\ Stream # <<>>
      /\ buf[1] = <<i, 1>> /\ i \in DOMAIN frames
  BY <1>3, StreamFacts
<1>5. /\ i \in Nat /\ i > 0 /\ Countable(frames) /\ Len(got) \in Nat /\ Len(frames) \in Nat
      /\ DOMAIN frames = 1 .. Len(frames) /\ i - 1 = Len(got)
  BY LinkFacts
<1>6. FrameLength = Size(frames[i]) /\ w = Prefix + FrameLength
  BY <1>4 DEF FrameLength, UnitsOf
<1>7. FrameLength \in Nat /\ FrameLength > 0 /\ w \in Nat /\ Len(buf) >= w /\ w \in 0 .. Len(buf)
  <2>1. FrameLength \in Nat /\ FrameLength > 0
    BY <1>4, <1>5, <1>6 DEF Countable
  <2>2. Len(buf) >= Prefix + FrameLength
    BY <1>1 DEF Complete
  <2>. QED BY <1>2, <1>4, <1>6, <2>1, <2>2
<1>. HIDE DEF i, w
<1>8. /\ \A j \in 1 .. w : Stream[j] = <<i, j>>
      /\ Gapless(SubSeq(Stream, w + 1, Len(Stream)), i + 1, frames)
  <2>1. Len(Stream) >= UnitsOf(frames, i)
    BY <1>4, <1>7 DEF w
  <2>. QED BY <1>4, <1>5, <2>1, GaplessFrame DEF w
<1>9. SubSeq(buf, Prefix + 1, Prefix + FrameLength) = Sealed(i)
  <2>. DEFINE u == SubSeq(buf, Prefix + 1, Prefix + FrameLength)
              v == Sealed(i)
  <2>1. v = [j \in 1 .. FrameLength |-> <<i, Prefix + j>>]
    BY <1>6 DEF Sealed
  <2>. HIDE DEF v
  <2>2. \A j \in 1 .. FrameLength : <<i, Prefix + j>> \in StreamUnits
    BY <1>2, <1>5, <1>7 DEF StreamUnits
  <2>3. v \in Seq(StreamUnits) /\ Len(v) = FrameLength
    BY <1>7, <2>1, <2>2
  <2>4. /\ u \in Seq(StreamUnits) /\ Len(u) = FrameLength
        /\ \A j \in 1 .. FrameLength : u[j] = buf[Prefix + j]
    <3>1. \A j \in Prefix + 1 .. Prefix + FrameLength : j \in 1 .. Len(buf)
      BY <1>2, <1>4, <1>6, <1>7
    <3>2. \A j \in Prefix + 1 .. Prefix + FrameLength : buf[j] \in StreamUnits
      BY <1>4, <3>1, ElementOfSeq
    <3>3. Prefix + 1 \in Int /\ Prefix + FrameLength \in Int
      BY <1>2, <1>7
    <3>. DEFINE m == Prefix + 1
                n == Prefix + FrameLength
    <3>4. m \in Int /\ n \in Int /\ m <= n /\ n - m + 1 = FrameLength
          /\ \A j \in 1 .. FrameLength : m + j - 1 = Prefix + j
      BY <1>2, <1>7
    <3>5. \A j \in m .. n : buf[j] \in StreamUnits
      BY <3>2
    <3>. HIDE DEF m, n
    <3>6. /\ SubSeq(buf, m, n) \in Seq(StreamUnits)
          /\ Len(SubSeq(buf, m, n)) = IF m <= n THEN n - m + 1 ELSE 0
          /\ \A j \in 1 .. n - m + 1 : SubSeq(buf, m, n)[j] = buf[m + j - 1]
      BY <3>4, <3>5, SubSeqProperties
    <3>. QED BY <3>4, <3>6 DEF m, n
  <2>. HIDE DEF u
  <2>5. \A j \in 1 .. FrameLength : u[j] = v[j]
    <3>1. \A j \in 1 .. FrameLength : Prefix + j \in 1 .. w /\ Prefix + j \in 1 .. Len(buf)
      BY <1>2, <1>4, <1>6, <1>7
    <3>2. \A j \in 1 .. FrameLength : buf[Prefix + j] = <<i, Prefix + j>>
      BY <1>4, <1>8, <3>1
    <3>. QED BY <2>1, <2>4, <3>2
  <2>6. u = v
    BY <2>3, <2>4, <2>5, SeqEqual
  <2>. QED BY <2>6 DEF u, v
<1>10. /\ got' = Append(got, [sequence |-> i - 1, message |-> Messages[i]])
       /\ recv' = "none" /\ state' = state
  BY <1>1, <1>4, <1>9, Handed DEF TransportsInv
<1>11. GotSealed' /\ Len(got') = Len(got) + 1
  <2>1. ~torn => i = Len(got) + 1
    BY DEF i
  <2>2. Len(got) > 0 => got[Len(got)].sequence < i - 1
    BY <1>3, <1>5, NextInLine
  <2>. QED BY <1>1, <1>4, <1>10, <2>1, <2>2, ReceiveKeeps
<1>12. /\ buf' = SubSeq(buf, w + 1, Len(buf)) /\ buf' \in Seq(StreamUnits)
       /\ Len(buf') = Len(buf) - w
       /\ Stream' = SubSeq(Stream, w + 1, Len(Stream))
  <2>1. buf' = SubSeq(buf, w + 1, Len(buf))
    BY <1>1, <1>6
  <2>. DEFINE r == transit \o outbox
              t == SubSeq(buf, w + 1, Len(buf))
  <2>2. r \in Seq(StreamUnits)
    BY <1>4
  <2>. HIDE DEF r
  <2>3. /\ t \in Seq(StreamUnits) /\ Len(t) = Len(buf) - w
        /\ t \o r = SubSeq(buf \o r, w + 1, Len(buf \o r))
    BY <1>4, <1>7, <2>2, Shift
  <2>. HIDE DEF t
  <2>4. Stream' = (t \o transit) \o outbox
    BY <1>1, <2>1 DEF Stream, t
  <2>5. (t \o transit) \o outbox = t \o (transit \o outbox)
    <3>1. t \in Seq(StreamUnits) /\ transit \in Seq(StreamUnits) /\ outbox \in Seq(StreamUnits)
      BY <1>4, <2>3
    <3>. QED BY <3>1, ConcatAssociative
  <2>. QED BY <1>4, <2>1, <2>3, <2>4, <2>5 DEF r, t
<1>13. StreamGapless'
  <2>1. ASSUME ~cut PROVE Reaches(Stream', i + 1, frames)
    <3>. DEFINE s == Stream
                t == Stream'
                l == Len(s)
                f == frames
    <3>1. s[l] = <<Len(f), UnitsOf(f, Len(f))>>
      <4>1. Reaches(s, i, f)
        BY <1>3, <2>1 DEF TransportsInv, StreamGapless, i
      <4>. QED BY <1>4, <4>1 DEF Reaches
    <3>2. l \in Nat /\ l >= w
      BY <1>4, <1>7
    <3>3. /\ t \in Seq(StreamUnits) /\ Len(t) = l - w
          /\ \A j \in 1 .. l - w : t[j] = s[w + j]
      <4>1. t = SubSeq(s, w + 1, l) /\ s \in Seq(StreamUnits)
        BY <1>4, <1>12
      <4>. HIDE DEF s, t, l
      <4>2. \A j \in w + 1 .. l : s[j] \in StreamUnits
        <5>1. \A j \in w + 1 .. l : j \in 1 .. l
          BY <1>7, <3>2
        <5>. QED BY <4>1, <5>1, ElementOfSeq DEF l
      <4>. DEFINE m == w + 1
      <4>3. m \in Int /\ l \in Int /\ l - m + 1 = l - w
            /\ (IF m <= l THEN l - m + 1 ELSE 0) = l - w
            /\ \A j \in 1 .. l - w : m + j - 1 = w + j
        BY <1>7, <3>2
      <4>4. \A j \in m .. l : s[j] \in StreamUnits
        BY <4>2
      <4>. HIDE DEF m
      <4>5. /\ SubSeq(s, m, l) \in Seq(StreamUnits)
            /\ Len(SubSeq(s, m, l)) = IF m <= l THEN l - m + 1 ELSE 0
            /\ \A j \in 1 .. l - m + 1 : SubSeq(s, m, l)[j] = s[m + j - 1]
        BY <4>3, <4>4, SubSeqProperties
      <4>. QED BY <4>1, <4>3, <4>5 DEF m
    <3>4. CASE t = <<>>
      <4>1. l = w
        BY <1>7, <3>2, <3>3, <3>4, EmptySeq
      <4>2. w \in 1 .. w
        BY <1>2, <1>6, <1>7
      <4>3. s[l] = <<i, w>>
        BY <1>8, <4>1, <4>2
      <4>. QED BY <3>1, <3>4, <4>3 DEF Reaches
    <3>5. CASE t # <<>>
      <4>1. l - w > 0 /\ l - w \in 1 .. l - w /\ w + (l - w) = l
        BY <1>7, <3>2, <3>3, <3>5, EmptySeq
      <4>2. t[Len(t)] = s[l]
        BY <3>3, <4>1
      <4>. QED BY <3>1, <3>5, <4>2 DEF Reaches
    <3>. QED BY <3>4, <3>5
  <2>2. Len(got') + 1 = i + 1
    BY <1>11 DEF i
  <2>3. Gapless(Stream', Len(got') + 1, frames')
    BY <1>1, <1>8, <1>12, <2>2
  <2>4. ~cut' => Reaches(Stream', Len(got') + 1, frames')
    BY <1>1, <2>1, <2>2
  <2>5. buf' \in Seq(StreamUnits) /\ transit' \in Seq(StreamUnits) /\ outbox' \in Seq(StreamUnits)
    BY <1>1, <1>4, <1>12
  <2>. QED BY <2>3, <2>4, <2>5 DEF StreamGapless
<1>14. TransportsTypeOK'
  <2>1. Len(got') <= Len(frames')
    BY <1>1, <1>4, <1>5, <1>11 DEF i
  <2>2. kind = "server" => Len(buf') = 0
    <3>. SUFFICES ASSUME kind = "server" PROVE Len(buf') = 0
      OBVIOUS
    <3>1. Len(buf) >= Prefix /\ Len(buf) <= Prefix + FrameLength
      BY <1>1 DEF TransportsInv, TransportsTypeOK, Complete
    <3>. QED BY <1>2, <1>4, <1>6, <1>7, <1>12, <3>1
  <2>3. kind' = "server" /\ Len(buf') >= Prefix => Len(buf') <= Prefix + FrameLength'
    <3>1. kind' = "server" => ~(Len(buf') >= Prefix)
      <4>1. ~(0 >= Prefix) /\ kind' = kind
        BY <1>1, <1>2
      <4>. QED BY <2>2, <4>1
    <3>. QED BY <3>1
  <2>. QED BY <1>1, <1>10, <2>1, <2>3 DEF TransportsInv, TransportsTypeOK
<1>15. FramesSealed'
  BY <1>1, FramesStay DEF TransportsInv
<1>16. Staged'
  BY <1>1, <1>2, <1>3, <1>10 DEF TransportsInv, Staged
<1>. QED BY <1>1, <1>3, <1>11, <1>13, <1>14, <1>15, <1>16, OfOtherKinds DEF TransportsInv

\* A message that is not binary stands in the queue and is skipped.
LEMMA NoiseKeeps == TransportsInv /\ WebSocketNoise => TransportsInv'
<1>. SUFFICES ASSUME TransportsInv, WebSocketNoise PROVE TransportsInv'
  OBVIOUS
<1>1. /\ kind = "websocket" /\ noise < MaxNoise /\ noise' = noise + 1
      /\ transit' = Append(transit, 0)
      /\ tried' = tried /\ kind' = kind /\ state' = state /\ cut' = cut /\ frames' = frames
      /\ outbox' = outbox /\ accepted' = accepted /\ buf' = buf /\ recv' = recv /\ got' = got
      /\ torn' = torn
  BY DEF WebSocketNoise, linkVars, sendVars, recvVars
<1>2. TransportsTypeOK'
  <2>1. noise' \in 0 .. MaxNoise
    BY <1>1, LinkNumbers DEF TransportsInv, TransportsTypeOK
  <2>. QED BY <1>1, <2>1, LengthsStay DEF TransportsInv, TransportsTypeOK
<1>3. FramesSealed' /\ GotSealed'
  BY <1>1, FramesStay, GotStays DEF TransportsInv
<1>4. Staged'
  BY <1>1 DEF TransportsInv, Staged
<1>5. MessagesQueued'
  <2>1. /\ transit \in Seq(Nat)
        /\ \A k \in DOMAIN transit : transit[k] = 0 \/ transit[k] \in Len(got) + 1 .. Len(frames)
        /\ \A i \in Len(got) + 1 .. Len(frames) : \E k \in DOMAIN transit : transit[k] = i
        /\ \A j, k \in DOMAIN transit :
             j < k /\ transit[j] # 0 /\ transit[k] # 0 => transit[j] < transit[k]
    BY <1>1 DEF TransportsInv, MessagesQueued
  <2>. DEFINE n == Len(transit)
  <2>2. /\ transit' \in Seq(Nat) /\ DOMAIN transit' = 1 .. n + 1 /\ n \in Nat
        /\ DOMAIN transit = 1 .. n
        /\ \A k \in 1 .. n : transit'[k] = transit[k]
        /\ transit'[n + 1] = 0
    <3>1. /\ transit' \in Seq(Nat) /\ Len(transit') = n + 1
          /\ \A k \in 1 .. n : transit'[k] = transit[k]
          /\ transit'[n + 1] = 0
      BY <1>1, <2>1, AppendProperties
    <3>. QED BY <2>1, <3>1, LenProperties
  <2>. HIDE DEF n
  <2>3. /\ \A k \in DOMAIN transit' : k \in DOMAIN transit \/ transit'[k] = 0
        /\ \A k \in DOMAIN transit : k \in DOMAIN transit' /\ transit'[k] = transit[k]
    BY <2>2
  <2>. QED BY <1>1, <2>1, <2>2, <2>3 DEF MessagesQueued
<1>. QED BY <1>1, <1>2, <1>3, <1>4, <1>5, OfOtherKinds DEF TransportsInv

\* WebSocketConnection::recv: the binary message at the head is the next frame.
LEMMA WebSocketNextKeeps == TransportsInv /\ WebSocketNext => TransportsInv'
<1>. SUFFICES ASSUME TransportsInv, WebSocketNext PROVE TransportsInv'
  OBVIOUS
<1>1. /\ recv = "pending" /\ kind = "websocket" /\ transit # <<>> /\ transit' = Tail(transit)
      /\ IF Head(transit) = 0 THEN got' = got /\ recv' = recv /\ state' = state
         ELSE Hand(Sealed(Head(transit)))
      /\ tried' = tried /\ kind' = kind /\ cut' = cut /\ frames' = frames /\ outbox' = outbox
      /\ accepted' = accepted /\ buf' = buf /\ noise' = noise /\ torn' = torn
  BY DEF WebSocketNext, sendVars
<1>2. state = "open"
  BY <1>1 DEF TransportsInv, Staged
<1>3. /\ transit \in Seq(Nat)
      /\ \A k \in DOMAIN transit : transit[k] = 0 \/ transit[k] \in Len(got) + 1 .. Len(frames)
      /\ \A i \in Len(got) + 1 .. Len(frames) : \E k \in DOMAIN transit : transit[k] = i
      /\ \A j, k \in DOMAIN transit :
           j < k /\ transit[j] # 0 /\ transit[k] # 0 => transit[j] < transit[k]
  BY <1>1 DEF TransportsInv, MessagesQueued
<1>4. /\ Len(got) \in Nat /\ Len(frames) \in Nat /\ Len(got) <= Len(frames)
      /\ DOMAIN frames = 1 .. Len(frames)
  BY LinkFacts
<1>. DEFINE l == Len(transit)
            h == transit[1]
<1>5. l \in Nat /\ l > 0 /\ DOMAIN transit = 1 .. l /\ 1 \in DOMAIN transit /\ Head(transit) = h
  BY <1>1, <1>3, LenProperties, EmptySeq
<1>6. /\ transit' \in Seq(Nat) /\ DOMAIN transit' = 1 .. (l - 1)
      /\ \A k \in 1 .. (l - 1) : transit'[k] = transit[k + 1] /\ k + 1 \in 1 .. l
  <2>1. /\ transit' \in Seq(Nat) /\ Len(transit') = l - 1
        /\ \A k \in 1 .. (l - 1) : transit'[k] = transit[k + 1]
    BY <1>1, <1>3, HeadTailProperties
  <2>2. \A k \in 1 .. (l - 1) : k + 1 \in 1 .. l
    BY <1>5
  <2>. QED BY <2>1, <2>2, LenProperties
<1>. HIDE DEF l, h
\* What follows the head in the queue.
<1>7. \A k \in DOMAIN transit : k = 1 \/ (k - 1 \in DOMAIN transit' /\ transit'[k - 1] = transit[k])
  <2>1. \A k \in 1 .. l : k = 1 \/ (k - 1 \in 1 .. (l - 1) /\ (k - 1) + 1 = k)
    BY <1>5
  <2>. QED BY <1>5, <1>6, <2>1
<1>8. \A j, k \in DOMAIN transit' :
        j < k /\ transit'[j] # 0 /\ transit'[k] # 0 => transit'[j] < transit'[k]
  <2>. SUFFICES ASSUME NEW j \in 1 .. (l - 1), NEW k \in 1 .. (l - 1), j < k,
                       transit[j + 1] # 0, transit[k + 1] # 0
                PROVE  transit[j + 1] < transit[k + 1]
    BY <1>6
  <2>1. j + 1 \in DOMAIN transit /\ k + 1 \in DOMAIN transit /\ j + 1 < k + 1
    BY <1>5, <1>6
  <2>. QED BY <1>3, <2>1
<1>9. FramesSealed'
  BY <1>1, FramesStay DEF TransportsInv
<1>10. CASE h = 0
  <2>1. got' = got /\ recv' = recv /\ state' = state
    BY <1>1, <1>5, <1>10
  <2>2. TransportsTypeOK'
    BY <1>1, <2>1, LengthsStay DEF TransportsInv, TransportsTypeOK
  <2>3. GotSealed'
    BY <1>1, <2>1, GotStays DEF TransportsInv
  <2>4. Staged'
    BY <1>1, <2>1 DEF TransportsInv, Staged
  <2>5. \A k \in DOMAIN transit' : transit'[k] = 0 \/ transit'[k] \in Len(got) + 1 .. Len(frames)
    BY <1>3, <1>5, <1>6
  <2>6. \A i \in Len(got) + 1 .. Len(frames) : \E k \in DOMAIN transit' : transit'[k] = i
    <3>. SUFFICES ASSUME NEW i \in Len(got) + 1 .. Len(frames)
                  PROVE  \E k \in DOMAIN transit' : transit'[k] = i
      OBVIOUS
    <3>1. PICK k \in DOMAIN transit : transit[k] = i
      BY <1>3
    <3>2. i # 0
      BY <1>4
    <3>3. k # 1
      BY <1>10, <3>1, <3>2 DEF h
    <3>. QED BY <1>7, <3>1, <3>3
  <2>7. MessagesQueued'
    BY <1>1, <1>6, <1>8, <2>1, <2>5, <2>6 DEF MessagesQueued
  <2>. QED BY <1>1, <1>9, <2>2, <2>3, <2>4, <2>7, OfOtherKinds DEF TransportsInv
<1>11. CASE h # 0
  <2>1. h \in Len(got) + 1 .. Len(frames)
    BY <1>3, <1>5, <1>11 DEF h
  <2>2. h = Len(got) + 1 /\ h \in DOMAIN frames
    <3>1. Len(got) + 1 \in Len(got) + 1 .. Len(frames)
      BY <1>4, <2>1
    <3>2. PICK k \in DOMAIN transit : transit[k] = Len(got) + 1
      BY <1>3, <3>1
    <3>3. k = 1 \/ h < transit[k]
      <4>1. transit[k] # 0
        BY <1>4, <3>2
      <4>2. k = 1 \/ 1 < k
        BY <1>5
      <4>. QED BY <1>3, <1>5, <1>11, <4>1, <4>2 DEF h
    <3>. QED BY <1>4, <2>1, <3>2, <3>3 DEF h
  <2>3. /\ got' = Append(got, [sequence |-> h - 1, message |-> Messages[h]])
        /\ recv' = "none" /\ state' = state
    BY <1>1, <1>5, <1>11, <2>2, Handed DEF TransportsInv
  <2>4. GotSealed' /\ Len(got') = Len(got) + 1
    <3>1. h - 1 = Len(got)
      BY <1>4, <2>2
    <3>2. Len(got) > 0 => got[Len(got)].sequence < h - 1
      BY <1>1, <3>1, NextInLine
    <3>. QED BY <1>1, <2>2, <2>3, <3>2, ReceiveKeeps
  <2>5. TransportsTypeOK'
    <3>1. Len(got') <= Len(frames')
      BY <1>1, <1>4, <2>1, <2>2, <2>4
    <3>2. kind' # "server"
      BY <1>1
    <3>. QED BY <1>1, <2>3, <3>1, <3>2 DEF TransportsInv, TransportsTypeOK
  <2>6. Staged'
    BY <1>1, <1>2, <2>3 DEF TransportsInv, Staged
  <2>7. \A k \in DOMAIN transit' : transit'[k] = 0 \/ transit'[k] \in Len(got') + 1 .. Len(frames)
    <3>. SUFFICES ASSUME NEW k \in 1 .. (l - 1), transit[k + 1] # 0
                  PROVE  transit[k + 1] \in Len(got') + 1 .. Len(frames)
      BY <1>6
    <3>1. k + 1 \in DOMAIN transit /\ 1 < k + 1
      BY <1>5, <1>6
    <3>2. h < transit[k + 1]
      BY <1>3, <1>5, <1>11, <3>1 DEF h
    <3>3. transit[k + 1] \in Len(got) + 1 .. Len(frames)
      BY <1>3, <3>1
    <3>. QED BY <1>4, <2>2, <2>4, <3>2, <3>3
  <2>8. \A i \in Len(got') + 1 .. Len(frames) : \E k \in DOMAIN transit' : transit'[k] = i
    <3>. SUFFICES ASSUME NEW i \in Len(got') + 1 .. Len(frames)
                  PROVE  \E k \in DOMAIN transit' : transit'[k] = i
      OBVIOUS
    <3>1. i \in Len(got) + 1 .. Len(frames) /\ i # h
      BY <1>4, <2>2, <2>4
    <3>2. PICK k \in DOMAIN transit : transit[k] = i
      BY <1>3, <3>1
    <3>3. k # 1
      BY <3>1, <3>2 DEF h
    <3>. QED BY <1>7, <3>2, <3>3
  <2>9. MessagesQueued'
    BY <1>1, <1>6, <1>8, <2>7, <2>8 DEF MessagesQueued
  <2>. QED BY <1>1, <1>9, <2>4, <2>5, <2>6, <2>9, OfOtherKinds DEF TransportsInv
<1>. QED BY <1>10, <1>11

\* What arrives on a stream of quic arrives whole, or its prefix first.
LEMMA ArriveKeeps ==
  ASSUME TransportsInv, NEW i \in DOMAIN Messages, QuicArrive(i)
  PROVE  TransportsInv'
<1>1. /\ kind = "quic" /\ i \in DOMAIN transit
      /\ tried' = tried /\ kind' = kind /\ state' = state /\ cut' = cut /\ frames' = frames
      /\ outbox' = outbox /\ accepted' = accepted /\ buf' = buf /\ recv' = recv /\ got' = got
      /\ torn' = torn /\ noise' = noise
  BY DEF QuicArrive, linkVars, sendVars, recvVars
<1>2. PICK n \in {Prefix, Whole(i)} : transit' = [transit EXCEPT ![i] = n]
  BY DEF QuicArrive
<1>3. TransportsTypeOK'
  BY <1>1, LengthsStay DEF TransportsInv, TransportsTypeOK
<1>4. FramesSealed' /\ GotSealed'
  BY <1>1, FramesStay, GotStays DEF TransportsInv
<1>5. Staged'
  BY <1>1 DEF TransportsInv, Staged
<1>6. StreamsAccepted'
  <2>1. /\ transit \in Seq(Nat) /\ Len(transit) = Len(frames)
        /\ \A k \in DOMAIN transit : transit[k] \in {0, Prefix, Whole(k)}
    BY <1>1 DEF TransportsInv, StreamsAccepted
  <2>2. DOMAIN transit = DOMAIN frames /\ DOMAIN transit = 1 .. Len(transit)
    BY <2>1, LinkFacts, LenProperties
  <2>3. n \in Nat
    BY <1>1, <2>2, LinkFacts, LinkNumbers
  <2>4. /\ transit' \in Seq(Nat) /\ Len(transit') = Len(transit)
        /\ \A k \in 1 .. Len(transit) : transit'[k] = IF k = i THEN n ELSE transit[k]
    BY <1>1, <1>2, <2>1, <2>2, <2>3, ExceptSeq
  <2>5. DOMAIN transit' = 1 .. Len(transit)
    BY <2>4, LenProperties
  <2>6. \A k \in DOMAIN transit' : transit'[k] \in {0, Prefix, Whole(k)}
    BY <2>1, <2>2, <2>4, <2>5
  <2>7. Held' = Held /\ \A k : Whole(k)' = Whole(k)
    BY <1>1 DEF Held, Whole
  <2>. QED BY <1>1, <2>1, <2>4, <2>6, <2>7 DEF TransportsInv, StreamsAccepted
<1>. QED BY <1>1, <1>3, <1>4, <1>5, <1>6, OfOtherKinds DEF TransportsInv

\* accept_bi: the next stream, in the order in which they were opened.
LEMMA AcceptKeeps == TransportsInv /\ QuicAccept => TransportsInv'
<1>. SUFFICES ASSUME TransportsInv, QuicAccept PROVE TransportsInv'
  OBVIOUS
<1>1. /\ recv = "pending" /\ kind = "quic" /\ (\E i \in DOMAIN transit : i > accepted)
      /\ accepted' = accepted + 1 /\ recv' = "holding"
      /\ tried' = tried /\ kind' = kind /\ state' = state /\ cut' = cut /\ frames' = frames
      /\ outbox' = outbox /\ transit' = transit /\ buf' = buf /\ got' = got
      /\ torn' = torn /\ noise' = noise
  BY DEF QuicAccept, linkVars, sendVars
<1>2. state = "open"
  BY <1>1 DEF TransportsInv, Staged
<1>3. /\ transit \in Seq(Nat) /\ Len(transit) = Len(frames)
      /\ \A k \in DOMAIN transit : transit[k] \in {0, Prefix, Whole(k)}
      /\ accepted \in Held .. Len(frames)
      /\ Len(got) + Held <= accepted
      /\ \A n \in DOMAIN got : got[n].sequence < accepted - Held
      /\ ~torn /\ state = "open" => Len(got) + Held = accepted
  BY <1>1 DEF TransportsInv, StreamsAccepted
<1>4. Held = 0 /\ Held' = 1
  BY <1>1 DEF Held
<1>5. Len(got) \in Nat /\ Len(frames) \in Nat
  BY LinkFacts
<1>6. accepted' \in 1 .. Len(frames) /\ accepted \in Nat /\ accepted' - 1 = accepted
  <2>1. DOMAIN transit = 1 .. Len(frames)
    BY <1>3, LenProperties
  <2>2. accepted \in Nat /\ accepted < Len(frames)
    BY <1>1, <1>3, <1>4, <1>5, <2>1
  <2>. QED BY <1>1, <1>5, <2>2
<1>7. StreamsAccepted'
  <2>1. Len(got') + Held' <= accepted' /\ (~torn' /\ state' = "open" => Len(got') + Held' = accepted')
    BY <1>1, <1>3, <1>4, <1>5, <1>6
  <2>2. \A n \in DOMAIN got' : got'[n].sequence < accepted' - Held'
    <3>1. \A n \in DOMAIN got : got[n].sequence < accepted - 0
      BY <1>3, <1>4
    <3>2. accepted - 0 = accepted' - 1
      <4>1. \A a \in Nat : a - 0 = a
        OBVIOUS
      <4>. QED BY <1>6, <4>1
    <3>3. \A n \in DOMAIN got : got[n].sequence < accepted' - 1
      BY <3>1, <3>2
    <3>. QED BY <1>1, <1>4, <3>3
  <2>3. \A k : Whole(k)' = Whole(k)
    BY <1>1 DEF Whole
  <2>. QED BY <1>1, <1>3, <1>4, <1>6, <2>1, <2>2, <2>3 DEF StreamsAccepted
<1>8. TransportsTypeOK'
  <2>1. accepted' \in 0 .. Len(frames)
    BY <1>5, <1>6
  <2>. QED BY <1>1, <2>1 DEF TransportsInv, TransportsTypeOK
<1>9. FramesSealed' /\ GotSealed'
  BY <1>1, FramesStay, GotStays DEF TransportsInv
<1>10. Staged'
  BY <1>1, <1>2 DEF TransportsInv, Staged
<1>. QED BY <1>1, <1>7, <1>8, <1>9, <1>10, OfOtherKinds DEF TransportsInv

\* read_exact: the frame of the stream that was accepted last.
LEMMA QuicReadKeeps == TransportsInv /\ QuicRead => TransportsInv'
<1>. SUFFICES ASSUME TransportsInv, QuicRead PROVE TransportsInv'
  OBVIOUS
<1>1. /\ recv = "holding" /\ Hand(Sealed(accepted))
      /\ tried' = tried /\ kind' = kind /\ cut' = cut /\ frames' = frames /\ outbox' = outbox
      /\ transit' = transit /\ accepted' = accepted /\ buf' = buf /\ noise' = noise
      /\ torn' = torn
  BY DEF QuicRead, sendVars
<1>2. state = "open" /\ kind = "quic"
  BY <1>1 DEF TransportsInv, Staged
<1>3. /\ transit \in Seq(Nat) /\ Len(transit) = Len(frames)
      /\ \A k \in DOMAIN transit : transit[k] \in {0, Prefix, Whole(k)}
      /\ accepted \in Held .. Len(frames)
      /\ Len(got) + Held <= accepted
      /\ \A n \in DOMAIN got : got[n].sequence < accepted - Held
      /\ ~torn /\ state = "open" => Len(got) + Held = accepted
  BY <1>2 DEF TransportsInv, StreamsAccepted
<1>4. Held = 1
  BY <1>1 DEF Held
<1>5. Len(got) \in Nat /\ Len(frames) \in Nat /\ DOMAIN got = 1 .. Len(got)
      /\ DOMAIN frames = 1 .. Len(frames)
  BY LinkFacts
<1>6. accepted \in Nat /\ accepted \in DOMAIN frames /\ accepted <= Len(frames)
  BY <1>3, <1>4, <1>5
<1>7. /\ got' = Append(got, [sequence |-> accepted - 1, message |-> Messages[accepted]])
      /\ recv' = "none" /\ state' = state
  BY <1>1, <1>6, Handed DEF TransportsInv
<1>8. /\ GotSealed' /\ Len(got') = Len(got) + 1 /\ DOMAIN got' = 1 .. Len(got) + 1
      /\ \A n \in DOMAIN got : got'[n] = got[n]
      /\ got'[Len(got) + 1].sequence = accepted - 1
  <2>1. Len(got) > 0 => got[Len(got)].sequence < accepted - 1
    <3>1. Len(got) > 0 => Len(got) \in DOMAIN got
      BY <1>5
    <3>. QED BY <1>3, <1>4, <3>1
  <2>2. ~torn => accepted = Len(got) + 1
    BY <1>2, <1>3, <1>4
  <2>. QED BY <1>1, <1>6, <1>7, <2>1, <2>2, ReceiveKeeps
<1>9. Held' = 0
  BY <1>7 DEF Held
<1>10. \A n \in DOMAIN got' : got'[n].sequence < accepted
  <2>. SUFFICES ASSUME NEW n \in DOMAIN got' PROVE got'[n].sequence < accepted
    OBVIOUS
  <2>1. CASE n \in DOMAIN got
    <3>1. got[n].sequence < accepted - 1 /\ got[n].sequence \in Int
      BY <1>3, <1>4, <1>5, <2>1 DEF TransportsInv, GotSealed
    <3>. QED BY <1>6, <1>8, <2>1, <3>1
  <2>2. CASE n = Len(got) + 1
    BY <1>6, <1>8, <2>2
  <2>. QED BY <1>5, <1>8, <2>1, <2>2
<1>11. StreamsAccepted'
  <2>1. Len(got') + Held' <= accepted' /\ (~torn' /\ state' = "open" => Len(got') + Held' = accepted')
    BY <1>1, <1>2, <1>3, <1>4, <1>5, <1>6, <1>8, <1>9
  <2>2. \A n \in DOMAIN got' : got'[n].sequence < accepted' - Held'
    <3>1. accepted' - Held' = accepted
      BY <1>1, <1>6, <1>9
    <3>. QED BY <1>10, <3>1
  <2>3. accepted' \in Held' .. Len(frames)
    BY <1>1, <1>5, <1>6, <1>9
  <2>4. \A k : Whole(k)' = Whole(k)
    BY <1>1 DEF Whole
  <2>. QED BY <1>1, <1>3, <2>1, <2>2, <2>3, <2>4 DEF StreamsAccepted
<1>12. TransportsTypeOK'
  <2>1. Len(got') <= Len(frames')
    BY <1>1, <1>3, <1>4, <1>5, <1>6, <1>8
  <2>2. kind' # "server"
    BY <1>1, <1>2
  <2>. QED BY <1>1, <1>7, <2>1, <2>2 DEF TransportsInv, TransportsTypeOK
<1>13. FramesSealed'
  BY <1>1, FramesStay DEF TransportsInv
<1>14. Staged'
  BY <1>1, <1>2, <1>7 DEF TransportsInv, Staged
<1>. QED BY <1>1, <1>2, <1>8, <1>11, <1>12, <1>13, <1>14, OfOtherKinds DEF TransportsInv

\* No step of a connection, of the network or of select! breaks the framing.
LEMMA TransportsSteps == TransportsInv /\ [TransportsNext]_transportsVars => TransportsInv'
<1>. SUFFICES ASSUME TransportsInv, [TransportsNext]_transportsVars PROVE TransportsInv'
  OBVIOUS
<1>1. CASE UNCHANGED transportsVars
  <2>1. /\ tried' = tried /\ kind' = kind /\ state' = state /\ cut' = cut /\ frames' = frames
        /\ outbox' = outbox /\ transit' = transit /\ accepted' = accepted /\ buf' = buf
        /\ recv' = recv /\ got' = got /\ torn' = torn /\ noise' = noise
    BY <1>1 DEF transportsVars, linkVars, sendVars, recvVars
  <2>2. FramesSealed' /\ GotSealed' /\ MessagesQueued'
    BY <2>1, FramesStay, GotStays, QueueStays DEF TransportsInv
  <2>3. StreamGapless'
    <3>1. Stream' = Stream
      BY <2>1 DEF Stream
    <3>2. kind \in {"tls", "server"} =>
            /\ buf' \in Seq(StreamUnits) /\ transit' \in Seq(StreamUnits)
            /\ outbox' \in Seq(StreamUnits)
      BY <2>1 DEF TransportsInv, StreamGapless
    <3>. QED BY <2>1, <3>1, <3>2, StreamStays DEF TransportsInv
  <2>4. StreamsAccepted'
    BY <2>1, AcceptedStays DEF TransportsInv, Held
  <2>5. TransportsTypeOK'
    BY <2>1, LengthsStay DEF TransportsInv, TransportsTypeOK
  <2>6. Staged'
    BY <2>1 DEF TransportsInv, Staged
  <2>. QED BY <2>2, <2>3, <2>4, <2>5, <2>6 DEF TransportsInv
<1>2. CASE TransportsNext
  BY <1>2, ConnectKeeps, CutKeeps, CloseKeeps, TlsSendKeeps, WebSocketSendKeeps, QuicSendKeeps,
     WriteKeeps, ReadKeeps, NoiseKeeps, ArriveKeeps, CallKeeps, DropKeeps, ServeKeeps,
     WebSocketNextKeeps, AcceptKeeps, QuicReadKeeps, StreamEndsKeeps DEF TransportsNext
<1>. QED BY <1>1, <1>2

\* quic.rs, tls_tcp.rs, websocket.rs and the frames of the server: however a stream is
\* cut into reads and writes, and whichever recv is dropped, the connection stays in
\* step with what was sealed.
THEOREM FramingInvariant == TransportsSpec => []TransportsInv
<1>. QED BY TransportsStart, TransportsSteps, PTL DEF TransportsSpec

\* The shapes, and that read_exact never reads into the next frame.
THEOREM TransportsTypeCorrect == TransportsSpec => []TransportsTypeOK
<1>1. TransportsInv => TransportsTypeOK
  BY DEF TransportsInv
<1>. QED BY <1>1, FramingInvariant, PTL

\* tls_tcp.rs, read_buf: messages are received whole, in order, each once and under
\* the number it was sealed with, and without a gap unless a quic recv was dropped
\* while it held a stream.
THEOREM WholeChunksAlways == TransportsSpec => []WholeChunks
<1>1. TransportsInv => WholeChunks
  <2>. SUFFICES ASSUME TransportsInv PROVE WholeChunks
    OBVIOUS
  <2>1. \A n \in DOMAIN got :
          /\ got[n].message = Messages[got[n].sequence + 1]
          /\ n > 1 => got[n - 1].sequence < got[n].sequence
          /\ ~torn => got[n].sequence = n - 1
    BY DEF TransportsInv, GotSealed
  <2>. QED BY <2>1 DEF WholeChunks
<1>. QED BY <1>1, FramingInvariant, PTL

-----------------------------------------------------------------------------
(* Failover: when a link is left.                                          *)

USE FailoverAssumption DEF Deaf

-----------------------------------------------------------------------------
(* The inductive invariant.                                                *)

\* The probes keep pace with the silence: the next tick comes when a probe is
\* due, or the last probe is no older than the silence.
ProbesPaced ==
  probed + wait >= ProbeInterval \/ probed >= Smaller(silence, ProbeInterval)

\* Every departure from a running loop on a sound link has left its mark.
Excused ==
  /\ since = {} => phase = "select" /\ link = "up"
  /\ phase = "parked" => "stall" \in since
  /\ phase \in {"switching", "ended"} => "attempt" \in since
  /\ link # "up" => "fault" \in since

\* While nothing is wrong, the tick that would declare the link dead is two
\* intervals away, or one and an answer is due before the one after it, or an
\* answer is due before the tick itself.
AnswerAwaited ==
  since = {} =>
    \/ silence + wait < 2 * ProbeInterval
    \/ /\ silence + wait < 3 * ProbeInterval
       /\ \E r \in replies : r < wait + ProbeInterval
    \/ \E r \in replies : r < wait

\* A running loop does not let the silence grow past the first tick after the
\* timeout.
SilenceBounded ==
  phase = "select" /\ since \subseteq {"fault"} => silence + wait < Timeout + ProbeInterval

\* The loop goes on while fewer than MaxFailed attempts to switch have failed.
StillTrying == phase # "ended" => failed < MaxFailed

IInv == TypeOK /\ StillTrying /\ ProbesPaced /\ Excused /\ AnswerAwaited /\ SilenceBounded

-----------------------------------------------------------------------------
(* Each part is kept by every step.                                        *)

\* The initial state: the loop starts on a link that has just been heard.
LEMMA InvInit == Init => IInv
<1> SUFFICES ASSUME Init PROVE IInv OBVIOUS
<1>1. TypeOK BY DEF Init, TypeOK
<1>2. ProbesPaced BY DEF Init, ProbesPaced, Smaller
<1>3. Excused BY DEF Init, Excused
<1>4. AnswerAwaited BY DEF Init, AnswerAwaited
<1>5. SilenceBounded BY DEF Init, SilenceBounded
<1>6. StillTrying BY DEF Init, StillTrying
<1>. QED BY <1>1, <1>2, <1>3, <1>4, <1>5, <1>6 DEF IInv

\* Timers stay within their ranges, and the loop gives up in time.
LEMMA TypeStep == ASSUME IInv, [Next]_vars PROVE TypeOK'
<1> USE DEF IInv, TypeOK, monitorVars
<1>1. CASE Pass
  <2>1. silence' \in 0 .. Deaf /\ probed' \in 0 .. ProbeInterval /\ wait' \in 0 .. ProbeInterval
    BY <1>1 DEF Pass, Smaller
  <2>2. replies' \subseteq 0 .. RoundTrip
    BY <1>1 DEF Pass
  <2>. QED BY <1>1, <2>1, <2>2 DEF Pass
<1>2. CASE Network
  BY <1>2 DEF Network, ServerSends, GoSilent, Recover, Reset
<1>3. CASE Inbound BY <1>3 DEF Inbound, Sends
<1>4. CASE DeclareDead BY <1>4 DEF DeclareDead, Leave
<1>5. CASE Probe
  <2>1. replies' \subseteq 0 .. RoundTrip
    BY <1>5 DEF Probe
  <2>2. since' \subseteq {"fault", "stall", "attempt"} /\ phase' \in {"select", "parked"}
    BY <1>5 DEF Probe, Sends, Stalls
  <2>. QED BY <1>5, <2>1, <2>2 DEF Probe
<1>6. CASE QuietTick BY <1>6 DEF QuietTick
<1>7. CASE SendPacket BY <1>7 DEF SendPacket, Sends, Stalls, Leave
<1>8. CASE Unpark BY <1>8 DEF Unpark, Leave
<1>9. CASE RecvFails BY <1>9 DEF RecvFails, Leave
<1>10. CASE SwitchOver BY <1>10 DEF SwitchOver
<1>11. CASE SwitchFails
  <2>1. phase' \in {"select", "ended"} /\ failed' = failed + 1
    BY <1>11 DEF SwitchFails
  <2>2. failed' \in 0 .. MaxFailed
    BY <1>11 DEF SwitchFails, StillTrying
  <2>. QED BY <1>11, <2>1, <2>2 DEF SwitchFails
<1>12. CASE UNCHANGED vars BY <1>12 DEF vars
<1>. QED BY <1>1, <1>2, <1>3, <1>4, <1>5, <1>6, <1>7, <1>8, <1>9, <1>10, <1>11, <1>12
     DEF Next, Loop

\* The failures are counted, and the last one admitted ends the loop.
LEMMA TryingStep == ASSUME IInv, [Next]_vars PROVE StillTrying'
<1> USE DEF IInv, TypeOK, StillTrying
<1>1. CASE Pass \/ Network \/ QuietTick \/ UNCHANGED vars
  BY <1>1 DEF Pass, Network, ServerSends, GoSilent, Recover, Reset, QuietTick, vars
<1>2. CASE Inbound \/ DeclareDead \/ Probe \/ SendPacket \/ Unpark \/ RecvFails
  BY <1>2 DEF Inbound, DeclareDead, Probe, SendPacket, Unpark, RecvFails, Leave
<1>3. CASE SwitchOver BY <1>3 DEF SwitchOver
<1>4. CASE SwitchFails BY <1>4 DEF SwitchFails
<1>. QED BY <1>1, <1>2, <1>3, <1>4 DEF Next, Loop

\* A tick leaves a probe behind or finds that none is due yet, and then waits
\* an interval; time ages the probe as it ages the silence.
LEMMA PacedStep == ASSUME IInv, [Next]_vars PROVE ProbesPaced'
<1> USE DEF IInv, TypeOK, ProbesPaced, Smaller, monitorVars
<1>1. CASE Pass BY <1>1 DEF Pass
<1>2. CASE Network
  BY <1>2 DEF Network, ServerSends, GoSilent, Recover, Reset
<1>3. CASE Inbound \/ SwitchOver BY <1>3 DEF Inbound, SwitchOver
<1>4. CASE DeclareDead \/ Probe \/ QuietTick
  BY <1>4 DEF DeclareDead, Probe, QuietTick
<1>5. CASE SendPacket \/ Unpark \/ RecvFails \/ SwitchFails
  BY <1>5 DEF SendPacket, Unpark, RecvFails, SwitchFails
<1>6. CASE UNCHANGED vars BY <1>6 DEF vars
<1>. QED BY <1>1, <1>2, <1>3, <1>4, <1>5, <1>6 DEF Next, Loop

\* A fault, a parked send and an attempt to leave are recorded when they
\* happen, and only a frame or a new connection clears the record.
LEMMA ExcusedStep == ASSUME IInv, [Next]_vars PROVE Excused'
<1> USE DEF IInv, Excused
<1>1. CASE Pass \/ QuietTick \/ UNCHANGED vars
  BY <1>1 DEF Pass, QuietTick, vars
<1>2. CASE Network
  BY <1>2 DEF Network, ServerSends, GoSilent, Recover, Reset
<1>3. CASE Inbound BY <1>3 DEF Inbound, Sends
<1>4. CASE Probe BY <1>4 DEF Probe, Sends, Stalls
<1>5. CASE SendPacket BY <1>5 DEF SendPacket, Sends, Stalls, Leave
<1>6. CASE DeclareDead \/ Unpark \/ RecvFails
  BY <1>6 DEF DeclareDead, Unpark, RecvFails, Leave
<1>7. CASE SwitchOver BY <1>7 DEF SwitchOver
<1>8. CASE SwitchFails BY <1>8 DEF SwitchFails
<1>. QED BY <1>1, <1>2, <1>3, <1>4, <1>5, <1>6, <1>7, <1>8 DEF Next, Loop

\* While the loop runs on a sound link, the silence grows only while the next
\* tick comes closer, and a tick that finds no answer on its way sends for one.
LEMMA AwaitedStep == ASSUME IInv, [Next]_vars PROVE AnswerAwaited'
<1> USE DEF IInv, TypeOK
<1>1. CASE Pass
  <2> SUFFICES ASSUME since = {} PROVE AnswerAwaited'
    BY <1>1 DEF Pass, AnswerAwaited
  <2>1. phase = "select" /\ wait > 0 /\ 0 \notin replies
    BY <1>1 DEF Pass, Excused
  <2>2. wait' = wait - 1
    BY <1>1, <2>1 DEF Pass
  <2>3. \A bound \in Nat : silence + wait < bound => silence' + wait' < bound
    BY <1>1, <2>1 DEF Pass, Smaller
  <2>4. \A r \in replies : r > 0 /\ r - 1 \in replies'
    BY <1>1, <2>1 DEF Pass
  <2>5. CASE silence + wait < 2 * ProbeInterval
    <3>1. silence' + wait' < 2 * ProbeInterval BY <2>5, <2>3
    <3>. QED BY <3>1 DEF AnswerAwaited
  <2>6. CASE /\ silence + wait < 3 * ProbeInterval
             /\ \E r \in replies : r < wait + ProbeInterval
    <3>1. silence' + wait' < 3 * ProbeInterval BY <2>6, <2>3
    <3>2. PICK r \in replies : r < wait + ProbeInterval BY <2>6
    <3>3. r - 1 \in replies' /\ r - 1 < wait' + ProbeInterval BY <2>2, <2>4, <3>2
    <3>. QED BY <3>1, <3>3 DEF AnswerAwaited
  <2>7. CASE \E r \in replies : r < wait
    <3>1. PICK r \in replies : r < wait BY <2>7
    <3>2. r - 1 \in replies' /\ r - 1 < wait' BY <2>2, <2>4, <3>1
    <3>. QED BY <3>2 DEF AnswerAwaited
  <2>. QED BY <2>5, <2>6, <2>7 DEF AnswerAwaited
<1>2. CASE ServerSends
  <2>1. replies \subseteq replies' BY <1>2 DEF ServerSends
  <2>. QED BY <1>2, <2>1 DEF ServerSends, AnswerAwaited, monitorVars
<1>3. CASE GoSilent \/ Reset \/ DeclareDead \/ RecvFails \/ SwitchFails
  <2>1. since' # {}
    BY <1>3 DEF GoSilent, Reset, DeclareDead, RecvFails, SwitchFails, Leave, Excused
  <2>. QED BY <2>1 DEF AnswerAwaited
<1>4. CASE Recover \/ UNCHANGED vars
  BY <1>4 DEF Recover, AnswerAwaited, monitorVars, vars
<1>5. CASE Inbound
  <2>1. silence' + wait' < 2 * ProbeInterval BY <1>5 DEF Inbound
  <2>. QED BY <2>1 DEF AnswerAwaited
<1>6. CASE Probe
  <2> SUFFICES ASSUME since' = {} PROVE AnswerAwaited'
    BY DEF AnswerAwaited
  <2>1. since = {} /\ link = "up" /\ wait = 0 /\ wait' = ProbeInterval /\ silence' = silence
    BY <1>6 DEF Probe, Stalls, Excused
  <2>2. silence < 2 * ProbeInterval \/ \E r \in replies : r < ProbeInterval
    BY <2>1 DEF AnswerAwaited
  <2>3. PICK n \in 0 .. RoundTrip : replies' = replies \cup {n}
    BY <1>6, <2>1 DEF Probe
  <2>4. CASE silence < 2 * ProbeInterval
    <3>1. silence' + wait' < 3 * ProbeInterval BY <2>1, <2>4
    <3>2. n \in replies' /\ n < wait' + ProbeInterval BY <2>1, <2>3
    <3>. QED BY <3>1, <3>2 DEF AnswerAwaited
  <2>5. CASE \E r \in replies : r < ProbeInterval
    BY <2>1, <2>3, <2>5 DEF AnswerAwaited
  <2>. QED BY <2>2, <2>4, <2>5
<1>7. CASE QuietTick
  <2> SUFFICES ASSUME since' = {} PROVE AnswerAwaited'
    BY DEF AnswerAwaited
  <2>1. since = {} /\ wait = 0 /\ wait' = ProbeInterval /\ UNCHANGED <<silence, replies>>
    BY <1>7 DEF QuietTick, monitorVars
  <2>2. silence < ProbeInterval
    BY <1>7, <2>1 DEF QuietTick, ShouldProbe, ProbesPaced, Smaller
  <2>3. silence' + wait' < 2 * ProbeInterval BY <2>1, <2>2
  <2>. QED BY <2>3 DEF AnswerAwaited
<1>8. CASE SendPacket \/ Unpark
  BY <1>8 DEF SendPacket, Unpark, Stalls, Leave, AnswerAwaited, monitorVars
<1>9. CASE SwitchOver
  <2>1. silence' + wait' < 2 * ProbeInterval BY <1>9 DEF SwitchOver
  <2>. QED BY <2>1 DEF AnswerAwaited
<1>. QED BY <1>1, <1>2, <1>3, <1>4, <1>5, <1>6, <1>7, <1>8, <1>9 DEF Next, Loop, Network

\* A tick that does not declare the link dead has found it silent for less than
\* the timeout.
LEMMA BoundedStep == ASSUME IInv, [Next]_vars PROVE SilenceBounded'
<1> USE DEF IInv, TypeOK, SilenceBounded
<1>1. CASE Pass BY <1>1 DEF Pass, Smaller
<1>2. CASE Network
  BY <1>2 DEF Network, ServerSends, GoSilent, Recover, Reset, monitorVars
<1>3. CASE Inbound \/ SwitchOver BY <1>3 DEF Inbound, SwitchOver
<1>4. CASE Probe \/ QuietTick
  <2>1. silence < Timeout BY <1>4 DEF Probe, QuietTick, IsDead
  <2>2. silence' = silence /\ wait' = ProbeInterval
    BY <1>4 DEF Probe, QuietTick, monitorVars
  <2>. QED BY <2>1, <2>2
<1>5. CASE SendPacket BY <1>5 DEF SendPacket, Stalls, Leave, monitorVars
<1>6. CASE DeclareDead \/ RecvFails BY <1>6 DEF DeclareDead, RecvFails, Leave
<1>7. CASE Unpark BY <1>7 DEF Unpark, Leave, Excused
<1>8. CASE SwitchFails BY <1>8 DEF SwitchFails, Excused
<1>9. CASE UNCHANGED vars BY <1>9 DEF vars
<1>. QED BY <1>1, <1>2, <1>3, <1>4, <1>5, <1>6, <1>7, <1>8, <1>9 DEF Next, Loop

-----------------------------------------------------------------------------
(* The theorems.                                                           *)

\* The invariant holds throughout every run of the loop.
LEMMA Invariant == Spec => []IInv
<1>1. IInv /\ [Next]_vars => IInv'
  BY TypeStep, TryingStep, PacedStep, ExcusedStep, AwaitedStep, BoundedStep DEF IInv
<1>. QED BY InvInit, <1>1, PTL DEF Spec

\* Every variable of the loop keeps its shape; in particular the count of
\* failed switches stays within MAX_FAILED_SWITCHES.
THEOREM TypeCorrect == Spec => []TypeOK
<1>1. IInv => TypeOK BY DEF IInv
<1>. QED BY Invariant, <1>1, PTL

\* For every probe interval, a link that has been sound since its last frame
\* and answers within two intervals is not declared dead by any tick.
THEOREM QuietLinkKeptAlways == Spec => []QuietLinkKept
<1>1. ASSUME IInv, phase = "select", wait = 0, IsDead, since = {} PROVE FALSE
  <2>1. ~(silence + wait < 3 * ProbeInterval)
    BY <1>1 DEF IInv, TypeOK, IsDead
  <2>2. \A r \in replies : ~(r < wait)
    BY <1>1 DEF IInv, TypeOK
  <2>. QED BY <1>1, <2>1, <2>2 DEF IInv, TypeOK, AnswerAwaited
<1>2. IInv => QuietLinkKept BY <1>1 DEF QuietLinkKept
<1>. QED BY Invariant, <1>2, PTL

\* For every probe interval, a running loop lets no link stay silent for a whole
\* interval beyond the timeout.
THEOREM SilenceNoticedAlways == Spec => []SilenceNoticed
<1>1. IInv => SilenceNoticed BY DEF IInv, TypeOK, SilenceBounded, SilenceNoticed
<1>. QED BY Invariant, <1>1, PTL
=============================================================================
