------------------------------- MODULE Admission -------------------------------
(***************************************************************************)
(* How a connection becomes a tunnel: the front door of kanrin-server      *)
(* (ClientSession::run, serve_web, Admitter::admit, Origin::respond), the  *)
(* handshake and the resumption behind it (run_tunnel, accept_new,         *)
(* accept_resume) and the peers that drive them (run_pipeline, resume_on). *)
(*                                                                         *)
(* A connection carries items in order and without loss until it breaks.   *)
(* Cookies, chunks and proofs are what their checks can tell apart: a      *)
(* token stands for a nonce with its timestamp and a valid MAC, NoToken    *)
(* for everything Admitter::admit turns away before it looks at a clock.   *)
(*                                                                         *)
(* An operator whose name starts with Bad is a plausible mistake in the    *)
(* operator that follows it.  No definition of the model uses one.         *)
(***************************************************************************)
EXTENDS Integers, Sequences

CONSTANTS
  Conns,       \* connections
  Kinds,       \* what their peers may be: a "visitor", a "client" that asks for the
               \* tunnel as frontdoor.rs means it to, or a "bare" one that does not
  Tokens,      \* cookies that were minted with the server's password
  NoToken,     \* no cookie, or one that does not parse or verify
  TokenTime,   \* TokenTime[t]: the timestamp in the cookie t
  MaxAge,      \* Admitter::max_age, in seconds
  MaxDrift,    \* MAX_TIMESTAMP_DRIFT_SECS and MAX_RESUME_DRIFT_SECS
  MaxClock,    \* bound on the wall clock
  Upstream     \* whether Origin is Upstream (or one that always has bytes)

Clock == 0 .. MaxClock

ASSUME AdmissionAssumption ==
  /\ NoToken \notin Tokens
  /\ TokenTime \in [Tokens -> Nat]
  /\ MaxAge \in Nat /\ MaxDrift \in Nat /\ MaxClock \in Nat
  /\ Kinds \subseteq {"visitor", "client", "bare"}
  /\ Upstream \in BOOLEAN

VARIABLES
  now,       \* the wall clock, in seconds
  seen,      \* Admitter::seen
  registry,  \* the sessions a resume can attach to, each by the connection it began on
  kind,      \* kind[c]: what the peer of c is
  stage,     \* stage[c]: where the task of c waits or works
  first,     \* first[c]: c is still in run, not yet in serve_web
  req,       \* req[c]: the request being served
  unread,    \* unread[c]: bytes of a refused body are left on the stream
  answer,    \* answer[c]: what the origin gave for it, "bytes" or "nothing"
  at,        \* at[c]: current_timestamp() as read for the admission
  admission, \* admission[c]: what admit concluded, "Web" or "Tunnel"
  peer,      \* peer[c]: how far the peer has come
  toServer, toClient, \* items on their way
  spent,     \* history: the tokens that have opened a tunnel, with the connection
  reused,    \* history: a token has opened a second one
  latest,    \* history: the clock reading of the last successful admission
  regressed  \* history: a later admission used an earlier clock reading

doorVars  == <<first, req, unread, answer, at, admission>>
histVars  == <<spent, reused, latest, regressed>>
vars == <<now, seen, registry, kind, stage, doorVars, peer, toServer, toClient, histVars>>

\* What is sent, and what of it the receiver's checks can tell apart.
RequestHead == [type : {"http"}, cookie : Tokens \cup {NoToken}, body : {"fits", "big"}, keep : BOOLEAN]
AdmissionRequest(t) == [type |-> "http", cookie |-> t, body |-> "fits", keep |-> TRUE]
NoRequest == [cookie |-> NoToken, keep |-> TRUE]
ClientHello    == [type : {"hello"}, at : Nat]
ClientFinished == [type : {"auth"}, password : BOOLEAN]
ResumeRequest  == [type : {"resume"}, at : Nat, session : Conns]
Response       == "response"
ServerHello    == "shello"
ServerFinished(ok) == IF ok THEN "accepted" ELSE "refused"
ResumeResponse == "resumed"

Item   == RequestHead \cup ClientHello \cup ClientFinished \cup ResumeRequest
Answer == {Response, ServerHello, ResumeResponse} \cup {ServerFinished(ok) : ok \in BOOLEAN}

Init ==
  /\ now = 0 /\ seen = {} /\ registry = {}
  /\ kind \in [Conns -> Kinds]
  /\ stage = [c \in Conns |-> "head"]
  /\ first = [c \in Conns |-> TRUE]
  /\ req = [c \in Conns |-> NoRequest]
  /\ unread = [c \in Conns |-> FALSE]
  /\ answer = [c \in Conns |-> "bytes"]
  /\ at = [c \in Conns |-> 0]
  /\ admission = [c \in Conns |-> "Web"]
  /\ peer = [c \in Conns |-> "connected"]
  /\ toServer = [c \in Conns |-> <<>>] /\ toClient = [c \in Conns |-> <<>>]
  /\ spent = {} /\ reused = FALSE /\ latest = 0 /\ regressed = FALSE

-----------------------------------------------------------------------------
(* The world: time, failures, and the reaper of the registry.              *)

Tick ==
  /\ now < MaxClock
  /\ now' = now + 1
  /\ UNCHANGED <<seen, registry, kind, stage, doorVars, peer, toServer, toClient, histVars>>

Distance(a, b) == IF a < b THEN b - a ELSE a - b

\* Every read and write of the task fails once the connection is gone; what
\* had not arrived is lost, and so is what the task held.
Break(c) ==
  /\ stage[c] \notin {"register", "ended"}
  /\ stage' = [stage EXCEPT ![c] = "ended"]
  /\ toServer' = [toServer EXCEPT ![c] = <<>>]
  /\ toClient' = [toClient EXCEPT ![c] = <<>>]
  /\ req' = [req EXCEPT ![c] = NoRequest]
  /\ answer' = [answer EXCEPT ![c] = "bytes"]
  /\ at' = [at EXCEPT ![c] = 0]
  /\ admission' = [admission EXCEPT ![c] = "Web"]
  /\ first' = [first EXCEPT ![c] = TRUE]
  /\ unread' = [unread EXCEPT ![c] = FALSE]
  /\ UNCHANGED <<now, seen, registry, kind, peer, histVars>>

Expire(s) ==
  /\ s \in registry
  /\ registry' = registry \ {s}
  /\ UNCHANGED <<now, seen, kind, stage, doorVars, peer, toServer, toClient, histVars>>

-----------------------------------------------------------------------------
(* The front door.                                                         *)

Receives(c, type) ==
  /\ toServer[c] # <<>>
  /\ Head(toServer[c]).type = type
  /\ toServer' = [toServer EXCEPT ![c] = Tail(@)]

Goes(c, s) == stage' = [stage EXCEPT ![c] = s]
Replies(c, a) == toClient' = [toClient EXCEPT ![c] = Append(@, a)]

\* (Mistake: a body that is refused is taken for an empty one.)
BadBodyRefused(c, r) == FALSE
\* run gives up on a body above MAX_REQUEST_BODY; serve_web goes on without it.
BodyRefused(c, r) == r.body = "big" /\ first[c]

\* read_request_head and read_body.
Serves(c, r) ==
  /\ stage[c] = "head"
  /\ req' = [req EXCEPT ![c] = [cookie |-> r.cookie, keep |-> r.keep]]
  /\ unread' = [unread EXCEPT ![c] = @ \/ r.body = "big"]
  /\ Goes(c, IF BodyRefused(c, r) THEN "ended" ELSE "origin")
  /\ UNCHANGED <<now, seen, registry, kind, first, answer, at, admission, toClient, histVars>>

\* The request of a client that asks for a tunnel.  A chunk is no request: its
\* bytes are read and the head stays incomplete, so nothing happens.
ReadRequest(c) ==
  /\ Receives(c, "http")
  /\ Serves(c, Head(toServer[c]))
  /\ UNCHANGED peer

\* One of a visitor, who may send what he likes, a cookie he has seen included.
ReadVisitor(c) ==
  /\ kind[c] = "visitor"
  /\ \E r \in RequestHead : Serves(c, r)
  /\ UNCHANGED <<peer, toServer>>

\* A malformed or oversized head ends the connection, in serve_web too.
BadRequest(c) ==
  /\ stage[c] = "head" /\ kind[c] = "visitor"
  /\ Goes(c, "ended")
  /\ UNCHANGED <<now, seen, registry, kind, doorVars, peer, toServer, toClient, histVars>>

\* (Mistake: the seconds are rounded up.)
BadCurrentTimestamp == now + 1
CurrentTimestamp == now

\* What an upstream gives: an error or a timeout is answered for with a 502,
\* but one that closes at once has given an empty response, which is passed on.
FetchUpstream == {"bytes", "nothing"}
ServeStatic == {"bytes"}
OriginGives == IF Upstream THEN FetchUpstream ELSE ServeStatic

\* The content; then current_timestamp(), an argument of admit, is read before
\* the lock is taken.
Respond(c) ==
  /\ stage[c] = "origin"
  /\ \E bytes \in OriginGives : answer' = [answer EXCEPT ![c] = bytes]
  /\ at' = [at EXCEPT ![c] = CurrentTimestamp]
  /\ Goes(c, "lock")
  /\ UNCHANGED <<now, seen, registry, kind, first, req, unread, admission,
                 peer, toServer, toClient, histVars>>

Fresh(t, when) == Distance(when, TokenTime[t]) <= MaxAge

\* (Mistake: a nonce is forgotten in the last second of its window.)
BadRemembered(when) == {t \in seen : Distance(when, TokenTime[t]) < MaxAge}
\* seen.retain
Remembered(when) == {t \in seen : Fresh(t, when)}

Admit(c) ==
  /\ stage[c] = "lock"
  /\ LET t == req[c].cookie
         valid == t \in Tokens /\ Fresh(t, at[c])
         opens == valid /\ t \notin Remembered(at[c])
     IN  /\ admission' = [admission EXCEPT ![c] = IF opens THEN "Tunnel" ELSE "Web"]
         /\ seen' = IF valid THEN Remembered(at[c]) \cup {t} ELSE seen
         /\ regressed' = (regressed \/ (valid /\ at[c] < latest))
         /\ latest' = IF valid THEN at[c] ELSE latest
         /\ reused' = (reused \/ (opens /\ \E d \in Conns : <<t, d>> \in spent))
         /\ spent' = IF opens THEN spent \cup {<<t, c>>} ELSE spent
  /\ at' = [at EXCEPT ![c] = 0]
  /\ Goes(c, "reply")
  /\ UNCHANGED <<now, registry, kind, first, req, unread, answer, peer, toServer, toClient>>

\* run upgrades or turns to serve_web, whatever the request said of keep-alive;
\* serve_web goes on only if it may, and has no tunnel to offer.
AfterReply(c) ==
  IF admission[c] = "Tunnel" THEN (IF first[c] THEN "tunnel" ELSE "ended")
  ELSE IF first[c] \/ req[c].keep THEN "head" ELSE "ended"

SendResponse(c) ==
  /\ stage[c] = "reply"
  /\ IF answer[c] = "bytes" /\ kind[c] # "visitor"
       THEN Replies(c, Response)
       ELSE UNCHANGED toClient
  /\ Goes(c, AfterReply(c))
  /\ first' = [first EXCEPT ![c] = AfterReply(c) = "tunnel"]
  /\ IF AfterReply(c) = "tunnel" THEN UNCHANGED <<req, answer>>
     ELSE /\ req' = [req EXCEPT ![c] = NoRequest]
          /\ answer' = [answer EXCEPT ![c] = "bytes"]
  /\ admission' = [admission EXCEPT ![c] = "Web"]
  /\ UNCHANGED <<now, seen, registry, kind, unread, at, peer, toServer, histVars>>

-----------------------------------------------------------------------------
(* The tunnel, as the server enters it.                                    *)

\* recv_frame of what is not a frame (the next request of a visitor, read as a
\* length), or a first chunk of another type.
NotAFrame(c) ==
  /\ stage[c] = "tunnel" /\ kind[c] = "visitor"
  /\ Goes(c, "ended")
  /\ UNCHANGED <<now, seen, registry, kind, doorVars, peer, toServer, toClient, histVars>>

\* ServerHandshake::process_client_hello.  Both programs have the same
\* PROTOCOL_VERSION, so only the timestamp can be wrong.
ProcessClientHello(c) ==
  /\ stage[c] = "tunnel"
  /\ Receives(c, "hello")
  /\ LET hello == Head(toServer[c])
         ok == Distance(now, hello.at) <= MaxDrift
     IN  /\ Goes(c, IF ok THEN "auth" ELSE "ended")
         /\ IF ok THEN Replies(c, ServerHello) ELSE UNCHANGED toClient
  /\ UNCHANGED <<now, seen, registry, kind, doorVars, peer, histVars>>

\* verify_auth, and ServerFinished with the verdict.
VerifyAuth(c) ==
  /\ stage[c] = "auth"
  /\ Receives(c, "auth")
  /\ LET ok == Head(toServer[c]).password
     IN  /\ Replies(c, ServerFinished(ok))
         /\ Goes(c, IF ok THEN "register" ELSE "ended")
  /\ UNCHANGED <<now, seen, registry, kind, doorVars, peer, histVars>>

\* register_client and registry.insert, after the client has been told.  There is
\* no await before them, so a lost connection is not noticed first.
RegisterSession(c) ==
  /\ stage[c] = "register"
  /\ registry' = registry \cup {c}
  /\ Goes(c, "serving")
  /\ UNCHANGED <<now, seen, kind, doorVars, peer, toServer, toClient, histVars>>

\* (Mistake: a refused resume is ignored instead of dropping the connection.)
BadAcceptResume(c) ==
  /\ stage[c] = "tunnel"
  /\ Receives(c, "resume")
  /\ LET r == Head(toServer[c])
         ok == r.session \in registry /\ Distance(now, r.at) <= MaxDrift
     IN  /\ Goes(c, IF ok THEN "serving" ELSE "tunnel")
         /\ IF ok THEN Replies(c, ResumeResponse) ELSE UNCHANGED toClient
  /\ UNCHANGED <<now, seen, registry, kind, doorVars, peer, histVars>>

\* accept_resume: an unknown session or a stale request is not answered.
AcceptResume(c) ==
  /\ stage[c] = "tunnel"
  /\ Receives(c, "resume")
  /\ LET r == Head(toServer[c])
         ok == r.session \in registry /\ Distance(now, r.at) <= MaxDrift
     IN  /\ Goes(c, IF ok THEN "serving" ELSE "ended")
         /\ IF ok THEN Replies(c, ResumeResponse) ELSE UNCHANGED toClient
  /\ UNCHANGED <<now, seen, registry, kind, doorVars, peer, histVars>>

-----------------------------------------------------------------------------
(* The peers.                                                              *)

\* The clock of a client agrees with the server's, or is far ahead of it.
Stamp == {now, MaxClock + MaxDrift + 1}

Sends(c, item) == toServer' = [toServer EXCEPT ![c] = Append(@, item)]
Becomes(c, p) == peer' = [peer EXCEPT ![c] = p]
Hears(c, a) ==
  /\ toClient[c] # <<>>
  /\ Head(toClient[c]) = a
  /\ toClient' = [toClient EXCEPT ![c] = Tail(@)]

\* admission_request, with a cookie of Admitter::mint.  (No client of this
\* repository sends it yet.)
Ask(c) ==
  /\ kind[c] = "client" /\ peer[c] = "connected" /\ stage[c] # "ended"
  /\ \E t \in Tokens : Sends(c, AdmissionRequest(t))
  /\ Becomes(c, "asking")
  /\ UNCHANGED <<now, seen, registry, kind, stage, doorVars, toClient, histVars>>

\* Whether the peer may open with its first chunk: after the answer to its
\* request, or at once, as run_pipeline does after auto_connect.
Opens(c) ==
  \/ peer[c] = "asking" /\ Hears(c, Response)
  \/ kind[c] = "bare" /\ peer[c] = "connected" /\ stage[c] # "ended" /\ UNCHANGED toClient

SendHello(c) ==
  /\ Opens(c)
  /\ \E when \in Stamp : Sends(c, [type |-> "hello", at |-> when])
  /\ Becomes(c, "hello")
  /\ UNCHANGED <<now, seen, registry, kind, stage, doorVars, histVars>>

SendResume(c) ==
  /\ Opens(c)
  /\ \E when \in Stamp, s \in {d \in Conns : peer[d] = "up"} :
       Sends(c, [type |-> "resume", at |-> when, session |-> s])
  /\ Becomes(c, "resume")
  /\ UNCHANGED <<now, seen, registry, kind, stage, doorVars, histVars>>

\* ServerHello: the keys are derived and the password is sent under them.
SendFinished(c) ==
  /\ peer[c] = "hello"
  /\ Hears(c, ServerHello)
  /\ \E a \in ClientFinished : Sends(c, a)
  /\ Becomes(c, "finished")
  /\ UNCHANGED <<now, seen, registry, kind, stage, doorVars, histVars>>

\* ServerFinished, or a resume response that verifies.
Conclude(c) ==
  /\ \/ peer[c] = "finished" /\ Hears(c, ServerFinished(TRUE)) /\ Becomes(c, "up")
     \/ peer[c] = "finished" /\ Hears(c, ServerFinished(FALSE)) /\ Becomes(c, "failed")
     \/ peer[c] = "resume" /\ Hears(c, ResumeResponse) /\ Becomes(c, "up")
  /\ UNCHANGED <<now, seen, registry, kind, stage, doorVars, toServer, histVars>>

\* The end of the stream, or an error, where an answer was expected.
PeerFails(c) ==
  /\ kind[c] # "visitor" /\ peer[c] \notin {"up", "failed"}
  /\ stage[c] = "ended" /\ toClient[c] = <<>>
  /\ Becomes(c, "failed")
  /\ UNCHANGED <<now, seen, registry, kind, stage, doorVars, toServer, toClient, histVars>>

-----------------------------------------------------------------------------
Server(c) ==
  \/ ReadRequest(c) \/ Respond(c) \/ Admit(c) \/ SendResponse(c)
  \/ NotAFrame(c) \/ ProcessClientHello(c) \/ VerifyAuth(c) \/ RegisterSession(c)
  \/ AcceptResume(c)

Client(c) ==
  \/ Ask(c) \/ SendHello(c) \/ SendResume(c) \/ SendFinished(c)
  \/ Conclude(c) \/ PeerFails(c)

Next ==
  \/ Tick
  \/ \E s \in Conns : Expire(s)
  \/ \E c \in Conns : Server(c) \/ Client(c) \/ ReadVisitor(c) \/ BadRequest(c) \/ Break(c)

Spec == Init /\ [][Next]_vars

\* The tasks of both sides run; visitors, time and failures are not owed.
FairSpec == Spec /\ \A c \in Conns : WF_vars(Server(c)) /\ WF_vars(Client(c))

-----------------------------------------------------------------------------
(* Properties.                                                             *)

\* The shape of every variable.
TypeOK ==
  /\ now \in Clock /\ latest \in Clock
  /\ seen \subseteq Tokens /\ spent \subseteq Tokens \X Conns /\ registry \subseteq Conns
  /\ kind \in [Conns -> Kinds]
  /\ stage \in [Conns -> {"head", "origin", "lock", "reply", "tunnel",
                          "auth", "register", "serving", "ended"}]
  /\ first \in [Conns -> BOOLEAN] /\ unread \in [Conns -> BOOLEAN]
  /\ req \in [Conns -> [cookie : Tokens \cup {NoToken}, keep : BOOLEAN]]
  /\ answer \in [Conns -> {"bytes", "nothing"}]
  /\ at \in [Conns -> Clock]
  /\ admission \in [Conns -> {"Web", "Tunnel"}]
  /\ peer \in [Conns -> {"connected", "asking", "hello", "finished", "resume", "up", "failed"}]
  /\ toServer \in [Conns -> Seq(Item)] /\ toClient \in [Conns -> Seq(Answer)]
  /\ reused \in BOOLEAN /\ regressed \in BOOLEAN

\* frontdoor.rs, Admitter::seen: "a captured cookie cannot be replayed even
\* within" its window.  However many connections present it, a cookie opens at
\* most one tunnel, as long as the clock readings reach the lock in order; the
\* reading is taken before the lock, so near the edge of a window a thread that
\* is overtaken, or a clock that is set back, can find the nonce forgotten.
CookieOnce == reused => regressed

\* session.rs, read_request_head: nothing past the head may be consumed, and
\* nothing of the request may be left.  The tunnel starts at a frame boundary:
\* no byte of a refused body is ever read as the length of the first frame.
TunnelStartsClean ==
  \A c \in Conns : stage[c] \in {"tunnel", "auth", "register", "serving"} => ~unread[c]

\* A peer whose connection has become a tunnel is not left waiting: it comes up
\* or learns that it has failed, if the front door had bytes to answer with.
TunnelSettles ==
  \A c \in Conns :
    (stage[c] = "tunnel" /\ kind[c] # "visitor" /\ answer[c] = "bytes")
      ~> peer[c] \in {"up", "failed"}
=============================================================================
