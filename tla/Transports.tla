------------------------------ MODULE Transports ------------------------------
(***************************************************************************)
(* One direction of a connection of kanrin, from a message to a message:   *)
(* the chunk of wire.rs, sealed by the session, framed by one of the three *)
(* transports (quic.rs, tls_tcp.rs, websocket.rs) or by the server's       *)
(* write_frame, carried in pieces, put together by a recv future that      *)
(* select! may drop at any await, and opened again.  Uplink and Downlink   *)
(* take from here that a connection is a queue of whole chunks.            *)
(*                                                                         *)
(* Lengths are counted in units: a header, a field of a payload, a padding *)
(* and a tag are one unit each, and <<i, j>> is the j-th unit that frame i *)
(* puts on a stream.  A sealed chunk opens only when every unit of it is   *)
(* there, with the key and the nonce that sealed it.  Frames stay far      *)
(* below the limit of 1 MiB: payload_length has 16 bits, and no payload    *)
(* needs them all (MessagesAssumption).                                    *)
(*                                                                         *)
(* An operator whose name starts with Bad is a plausible mistake in the    *)
(* operator that follows it.  No definition of the model uses one.         *)
(***************************************************************************)
EXTENDS Integers, Sequences

CONSTANTS
  Messages,  \* what one side sends: a sequence of [type, body] records
  Prefix,    \* units of the length prefix
  Width,     \* 2^16: payload_length is taken modulo Width
  ReadSize,  \* the most units one read returns
  MaxNoise   \* bound on websocket messages that are not binary

ASSUME TransportsAssumption ==
  {Prefix, ReadSize} \subseteq Nat \ {0} /\ Width \in Nat \ {0} /\ MaxNoise \in Nat

\* The kind "server" is a TLS stream that the server reads.
Kinds == {"quic", "tls", "websocket", "server"}

Malformed == [type |-> "malformed"]

VARIABLES
  tried,    \* transports tried by auto_connect
  kind,     \* the transport that connected, or "none"
  state,    \* "dialling", "open", "closed", "failed"
  frames,   \* the sealed chunks given to send, in order
  outbox,   \* units the send future has not written
  transit,  \* tls: units on the stream; websocket: messages; quic: units arrived per stream
  accepted, \* quic: streams accepted
  buf,      \* tls: read_buf; server: what read_exact has read
  recv,     \* the recv future: "none", "pending", or "holding" a quic stream
  got,      \* what decrypt_incoming has returned
  cut,      \* the network is gone
  noise,    \* websocket messages that were not binary
  torn      \* history: a recv future was dropped while it held a stream

linkVars == <<tried, kind, state, cut>>
sendVars == <<frames, outbox>>
recvVars == <<accepted, buf, recv, got, torn>>
transportsVars == <<linkVars, sendVars, transit, recvVars, noise>>

TransportsInit ==
  /\ tried = 0 /\ kind = "none" /\ state = "dialling" /\ cut = FALSE
  /\ frames = <<>> /\ outbox = <<>> /\ transit = <<>> /\ noise = 0
  /\ accepted = 0 /\ buf = <<>> /\ recv = "none" /\ got = <<>> /\ torn = FALSE

-----------------------------------------------------------------------------
(* ControlMessage: the messages that are ever sent, field by field.        *)

ControlEncode(m) ==
  CASE m.kind \in {"ping", "pong"} -> <<m.kind, m.timestamp>>
    [] m.kind = "disconnect" -> <<m.kind, m.reason>>
    [] m.kind = "ack" -> <<m.kind, m.next, Len(m.ranges)>> \o m.ranges

\* The order of the ranges is the subject of ContinuityBuffers.
ControlDecode(f) ==
  CASE Len(f) >= 2 /\ f[1] \in {"ping", "pong"} -> [kind |-> f[1], timestamp |-> f[2]]
    [] Len(f) >= 2 /\ f[1] = "disconnect" -> [kind |-> f[1], reason |-> f[2]]
    [] Len(f) >= 3 /\ f[1] = "ack" /\ Len(f) >= 3 + f[3] ->
         [kind |-> f[1], next |-> f[2], ranges |-> SubSeq(f, 4, 3 + f[3])]
    [] OTHER -> Malformed

-----------------------------------------------------------------------------
(* Chunk.                                                                  *)

\* new_data and new_control, with a padding of pad units.
NewChunk(m, pad) ==
  LET payload == IF m.type = "control" THEN ControlEncode(m.body) ELSE m.body
  IN  [header |-> [type |-> m.type, sequence |-> 0,
                   payloadLength |-> Len(payload) % Width, paddingLength |-> pad],
       payload |-> payload]

\* Messages are of the types of the code, and their payloads are short: a packet
\* comes from a buffer of 1500 bytes (device.rs), a control message has a few fields.
\* "as u16" in NewChunk therefore takes nothing away.
IsControl(b) ==
  \/ b.kind \in {"ping", "pong"} /\ b = [kind |-> b.kind, timestamp |-> b.timestamp]
  \/ b.kind = "disconnect" /\ b = [kind |-> b.kind, reason |-> b.reason]
  \/ /\ b.kind = "ack" /\ b = [kind |-> b.kind, next |-> b.next, ranges |-> b.ranges]
     /\ b.ranges \in Seq(Nat \X Nat)

IsMessage(m) ==
  /\ m = [type |-> m.type, body |-> m.body]
  /\ \/ m.type = "control" /\ IsControl(m.body)
     \/ /\ m.type \in {"data", "handshake", "resume"}
        /\ m.body \in Seq({m.body[i] : i \in DOMAIN m.body})

ASSUME MessagesAssumption ==
  /\ Len(Messages) \in Nat /\ DOMAIN Messages = 1 .. Len(Messages)
  /\ \A i \in DOMAIN Messages :
       IsMessage(Messages[i]) /\ Len(NewChunk(Messages[i], 0).payload) < Width

BodySize(header) == header.payloadLength + header.paddingLength + 1

EncodeEncrypted(chunk, key, nonce) ==
  [header |-> chunk.header, plain |-> chunk.payload, key |-> key, nonce |-> nonce]

EncodeSequenced(chunk, key, sequence) ==
  EncodeEncrypted([chunk EXCEPT !.header.sequence = sequence], key, sequence)

Size(frame) == 1 + Len(frame.plain) + frame.header.paddingLength + 1

\* The units of frame i after its length prefix.
Sealed(i) == [j \in 1 .. Size(frames[i]) |-> <<i, Prefix + j>>]

DecodeHeader(u) ==
  IF u # <<>> /\ u[1][2] = Prefix + 1 THEN frames[u[1][1]].header ELSE Malformed

DecodeEncrypted(u, key, nonce) ==
  LET header == DecodeHeader(u)
      total  == 1 + BodySize(header)
      frame  == frames[u[1][1]]
  IN  IF /\ header # Malformed
         /\ Len(u) >= total
         /\ SubSeq(u, 1, total) = Sealed(u[1][1]) /\ frame.key = key /\ frame.nonce = nonce
        THEN [type |-> header.type, sequence |-> header.sequence,
              payload |-> SubSeq(frame.plain, 1, header.payloadLength)]
        ELSE Malformed

DecodeSequenced(u, key) ==
  LET header == DecodeHeader(u)
  IN  IF header = Malformed THEN Malformed ELSE DecodeEncrypted(u, key, header.sequence)

-----------------------------------------------------------------------------
(* Session.                                                                *)

EncryptOutgoing(chunk, isClient) ==
  EncodeSequenced(chunk, IF isClient THEN "client_write" ELSE "server_write", Len(frames))

DecryptIncoming(u, isClient) ==
  DecodeSequenced(u, IF isClient THEN "server_write" ELSE "client_write")

\* What the receiving loop does with a chunk.  The client drops one it cannot
\* open, the server hangs up.
Hand(u) ==
  LET chunk == DecryptIncoming(u, kind # "server")
  IN  /\ got' = IF chunk = Malformed THEN got
                ELSE Append(got, [sequence |-> chunk.sequence,
                                  message  |-> [type |-> chunk.type,
                                                body |-> IF chunk.type = "control"
                                                           THEN ControlDecode(chunk.payload)
                                                           ELSE chunk.payload]])
      /\ recv' = "none"
      /\ state' = IF chunk = Malformed /\ kind = "server" THEN "closed" ELSE state

-----------------------------------------------------------------------------
(* Connecting.                                                             *)

\* What a connect may return; each of its steps may fail or run into the timeout.
QuicConnect == {"quic", "none"}
TlsConnect == {"tls", "server", "none"}
WebSocketConnect == {"websocket", "none"}
Connect == <<QuicConnect, TlsConnect, WebSocketConnect>>

\* auto_connect keeps the first connection it gets.
AutoConnect ==
  /\ state = "dialling"
  /\ tried' = tried + 1
  /\ kind' \in Connect[tried']
  /\ state' = IF kind' # "none" THEN "open"
              ELSE IF tried' = Len(Connect) THEN "failed" ELSE "dialling"
  /\ UNCHANGED <<cut, sendVars, transit, recvVars, noise>>

Cut ==
  /\ state = "open" /\ ~cut
  /\ cut' = TRUE
  /\ outbox' = <<>>
  /\ UNCHANGED <<tried, kind, state, frames, transit, recvVars, noise>>

\* The local side closes the connection; a recv in select! is over by then.
Close ==
  /\ state = "open" /\ recv = "none"
  /\ state' = "closed"
  /\ UNCHANGED <<tried, kind, cut, sendVars, transit, recvVars, noise>>

-----------------------------------------------------------------------------
(* Sending.                                                                *)

\* The next message is sealed and given to send, which one loop awaits.
Seal(pad) ==
  /\ state = "open" /\ ~cut /\ outbox = <<>> /\ Len(frames) < Len(Messages)
  /\ frames' = Append(frames, EncryptOutgoing(NewChunk(Messages[Len(frames) + 1], pad),
                                              kind = "server"))

TlsSend(pad) ==
  /\ kind \in {"tls", "server"}
  /\ Seal(pad)
  /\ LET i == Len(frames')
     IN  outbox' = [j \in 1 .. Prefix + Size(frames'[i]) |-> <<i, j>>]
  /\ UNCHANGED <<linkVars, transit, recvVars, noise>>

\* write_all, as much as the socket takes
TlsWrite(n) ==
  /\ n \in 1 .. Len(outbox)
  /\ transit' = transit \o SubSeq(outbox, 1, n)
  /\ outbox' = SubSeq(outbox, n + 1, Len(outbox))
  /\ UNCHANGED <<linkVars, frames, recvVars, noise>>

WebSocketSend(pad) ==
  /\ kind = "websocket"
  /\ Seal(pad)
  /\ transit' = Append(transit, Len(frames'))
  /\ UNCHANGED <<linkVars, outbox, recvVars, noise>>

\* A ping, a pong or a text: 0 stands for any message that is not binary.
WebSocketNoise ==
  /\ kind = "websocket" /\ state = "open" /\ ~cut /\ noise < MaxNoise
  /\ noise' = noise + 1
  /\ transit' = Append(transit, 0)
  /\ UNCHANGED <<linkVars, sendVars, recvVars>>

\* Every frame has a stream of its own.
QuicSend(pad) ==
  /\ kind = "quic"
  /\ Seal(pad)
  /\ transit' = Append(transit, 0)
  /\ UNCHANGED <<linkVars, outbox, recvVars, noise>>

Whole(i) == Prefix + Size(frames[i])

QuicArrive(i) ==
  /\ kind = "quic" /\ ~cut /\ i \in DOMAIN transit
  /\ transit[i] < Whole(i)
  /\ \E n \in {Prefix, Whole(i)} : n > transit[i] /\ transit' = [transit EXCEPT ![i] = n]
  /\ UNCHANGED <<linkVars, sendVars, recvVars, noise>>

-----------------------------------------------------------------------------
(* Receiving.                                                              *)

\* The loop polls recv, or the server calls read_frame.
Call ==
  /\ state = "open" /\ recv = "none"
  /\ recv' = "pending"
  /\ UNCHANGED <<linkVars, sendVars, transit, accepted, buf, got, noise, torn>>

\* (Mistake: what was read of a frame belongs to the future.)
BadKept == <<>>
\* read_buf belongs to the connection.
Kept == buf

\* Another branch of select! wins and the future is dropped.  A websocket keeps
\* what it has read of a message; a quic stream goes with the future.  The server
\* reads in a task that nothing cancels.
Drop ==
  /\ recv # "none" /\ kind # "server"
  /\ recv' = "none"
  /\ buf' = Kept
  /\ torn' = (torn \/ recv = "holding")
  /\ UNCHANGED <<linkVars, sendVars, transit, accepted, got, noise>>

\* The length in the prefix at the head of buf.
FrameLength == Size(frames[buf[1][1]])

\* (Mistake: off by one.)
BadComplete == Len(buf) > Prefix /\ Len(buf) > Prefix + FrameLength
Complete == Len(buf) >= Prefix /\ Len(buf) >= Prefix + FrameLength

TlsServe ==
  /\ recv = "pending" /\ Complete
  /\ Hand(SubSeq(buf, Prefix + 1, Prefix + FrameLength))
  /\ buf' = SubSeq(buf, Prefix + FrameLength + 1, Len(buf))
  /\ UNCHANGED <<tried, kind, cut, sendVars, transit, accepted, noise, torn>>

\* (Mistake: the server takes what there is, too.)
BadWanted == ReadSize
\* read takes what there is; read_exact takes the prefix, then the frame.
Wanted ==
  IF kind = "tls" THEN ReadSize
  ELSE IF Len(buf) < Prefix THEN Prefix - Len(buf) ELSE Prefix + FrameLength - Len(buf)

TlsRead(n) ==
  /\ recv = "pending" /\ kind \in {"tls", "server"} /\ ~Complete
  /\ n \in 1 .. Len(transit) /\ n <= Wanted
  /\ buf' = buf \o SubSeq(transit, 1, n)
  /\ transit' = SubSeq(transit, n + 1, Len(transit))
  /\ UNCHANGED <<linkVars, sendVars, accepted, recv, got, noise, torn>>

WebSocketNext ==
  /\ recv = "pending" /\ kind = "websocket" /\ transit # <<>>
  /\ transit' = Tail(transit)
  /\ IF Head(transit) = 0 THEN UNCHANGED <<got, recv, state>> ELSE Hand(Sealed(Head(transit)))
  /\ UNCHANGED <<tried, kind, cut, sendVars, accepted, buf, noise, torn>>

\* accept_bi: streams open in order, as soon as anything of a later one arrives.
QuicAccept ==
  /\ recv = "pending" /\ kind = "quic" /\ ~cut
  /\ \E i \in DOMAIN transit : i > accepted /\ transit[i] > 0
  /\ accepted' = accepted + 1
  /\ recv' = "holding"
  /\ UNCHANGED <<linkVars, sendVars, transit, buf, got, noise, torn>>

\* read_exact of the prefix and of the frame
QuicRead ==
  /\ recv = "holding" /\ ~cut /\ transit[accepted] = Whole(accepted)
  /\ Hand(Sealed(accepted))
  /\ UNCHANGED <<tried, kind, cut, sendVars, transit, accepted, buf, noise, torn>>

\* The end of the stream, or of the connection.
StreamEnds ==
  /\ recv # "none" /\ cut
  /\ kind = "quic" \/ (transit = <<>> /\ ~Complete)
  /\ state' = "closed" /\ recv' = "none"
  /\ UNCHANGED <<tried, kind, cut, sendVars, transit, accepted, buf, got, noise, torn>>

-----------------------------------------------------------------------------
Units == 1 .. ReadSize
Pads == {0, 1}

TransportsNext ==
  \/ AutoConnect \/ Cut \/ Close
  \/ \E pad \in Pads : TlsSend(pad) \/ WebSocketSend(pad) \/ QuicSend(pad)
  \/ \E n \in Units : TlsWrite(n) \/ TlsRead(n)
  \/ WebSocketNoise
  \/ \E i \in DOMAIN Messages : QuicArrive(i)
  \/ Call \/ Drop \/ TlsServe \/ WebSocketNext \/ QuicAccept \/ QuicRead \/ StreamEnds

\* The network delivers, the loop polls recv again and again, and select!, which
\* picks at random among the branches that are ready, does not drop a recv that
\* could go on for ever.
Fairness ==
  /\ WF_transportsVars(\E n \in Units : TlsWrite(n))
  /\ \A i \in DOMAIN Messages : WF_transportsVars(QuicArrive(i))
  /\ WF_transportsVars(Call)
  /\ SF_transportsVars(\E n \in Units : TlsRead(n)) /\ SF_transportsVars(TlsServe)
  /\ SF_transportsVars(WebSocketNext) /\ SF_transportsVars(QuicAccept) /\ SF_transportsVars(QuicRead)

TransportsSpec == TransportsInit /\ [][TransportsNext]_transportsVars /\ Fairness

-----------------------------------------------------------------------------
(* Properties.                                                             *)

\* The shape of every variable.  read_exact never reads into the next frame.
TransportsTypeOK ==
  /\ tried \in 0 .. Len(Connect) /\ kind \in Kinds \cup {"none"}
  /\ state \in {"dialling", "open", "closed", "failed"} /\ cut \in BOOLEAN
  /\ Len(frames) <= Len(Messages) /\ Len(got) <= Len(frames)
  /\ accepted \in 0 .. Len(frames) /\ noise \in 0 .. MaxNoise
  /\ recv \in {"none", "pending", "holding"} /\ torn \in BOOLEAN
  /\ kind = "server" /\ Len(buf) >= Prefix => Len(buf) <= Prefix + FrameLength

\* tls_tcp.rs, read_buf: dropping the recv future must not desynchronise the
\* framing.  However the stream is cut into reads and whichever of them are
\* cancelled, what arrives is what was sent, each message once, in order, with the
\* sequence number it was sealed under, and without a gap: except that a quic recv
\* which is dropped between accept_bi and the end of its frame loses that frame.
WholeChunks ==
  /\ \A n \in DOMAIN got : got[n].message = Messages[got[n].sequence + 1]
  /\ \A n \in DOMAIN got : n > 1 => got[n - 1].sequence < got[n].sequence
  /\ ~torn => \A n \in DOMAIN got : got[n].sequence = n - 1

\* A message that has been sent is received, however often recv is cancelled, unless
\* the connection ends or a quic recv was dropped while it held a stream.
ChunksArrive ==
  \A i \in DOMAIN Messages :
    Len(frames) = i /\ outbox = <<>> ~> Len(got) >= i \/ cut \/ torn \/ state # "open"
=============================================================================
