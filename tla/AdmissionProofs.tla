---------------------------- MODULE AdmissionProofs ----------------------------
(***************************************************************************)
(* Theorems about Admission, for every set of cookies, any window and any  *)
(* number of connections: a cookie opens one tunnel, as long as the clock  *)
(* readings reach the lock of the seen nonces in order; and a tunnel       *)
(* starts at a frame boundary.                                             *)
(***************************************************************************)
EXTENDS Admission, SequenceTheorems, TLAPS

USE AdmissionAssumption DEF Clock

ClockTypes ==
  /\ now \in Nat /\ latest \in Nat /\ at \in [Conns -> Nat]
  /\ regressed \in BOOLEAN /\ reused \in BOOLEAN

\* A cookie that has opened a tunnel is remembered, or its window is over for every
\* reading from now on; and its window had begun when it did.
SpentIsKnown ==
  ~regressed =>
    \A t \in Tokens, d \in Conns : <<t, d>> \in spent =>
      /\ latest + MaxAge >= TokenTime[t]
      /\ t \in seen \/ latest > TokenTime[t] + MaxAge

AdmissionInv == ClockTypes /\ SpentIsKnown /\ CookieOnce

memory == <<now, at, seen, histVars>>

-----------------------------------------------------------------------------

\* Before anyone is admitted nothing is spent.
LEMMA InitAdmissionInv == Init => AdmissionInv
<1> SUFFICES ASSUME Init PROVE AdmissionInv
  OBVIOUS
<1>1. now \in Nat /\ latest \in Nat /\ at \in [Conns -> Nat]
  BY DEF Init
<1>2. regressed \in BOOLEAN /\ reused \in BOOLEAN /\ ~reused /\ spent = {}
  BY DEF Init
<1> QED
  BY <1>1, <1>2 DEF AdmissionInv, ClockTypes, SpentIsKnown, CookieOnce

\* The steps that do not come near the front door's memory.
LEMMA Undisturbed ==
  ASSUME AdmissionInv, UNCHANGED memory
  PROVE  AdmissionInv'
BY DEF AdmissionInv, ClockTypes, SpentIsKnown, CookieOnce, memory, histVars

\* Those that only read a clock, or forget what they read.
LEMMA ReadingKeeps ==
  ASSUME AdmissionInv, NEW c \in Conns, NEW v \in Nat, at' = [at EXCEPT ![c] = v],
         UNCHANGED <<now, seen, histVars>>
  PROVE  AdmissionInv'
BY DEF AdmissionInv, ClockTypes, SpentIsKnown, CookieOnce, histVars

\* admit, under the lock.
LEMMA AdmitKeeps ==
  ASSUME AdmissionInv, NEW c \in Conns, Admit(c)
  PROVE  AdmissionInv'
<1> DEFINE t == req[c].cookie
           when == at[c]
           valid == t \in Tokens /\ Fresh(t, when)
           opens == valid /\ t \notin Remembered(when)
<1>1. /\ seen' = IF valid THEN Remembered(when) \cup {t} ELSE seen
      /\ regressed' = (regressed \/ (valid /\ when < latest))
      /\ latest' = IF valid THEN when ELSE latest
      /\ reused' = (reused \/ (opens /\ \E d \in Conns : <<t, d>> \in spent))
      /\ spent' = IF opens THEN spent \cup {<<t, c>>} ELSE spent
      /\ at' = [at EXCEPT ![c] = 0] /\ now' = now
  BY DEF Admit
<1>2. /\ now \in Nat /\ latest \in Nat /\ when \in Nat /\ at \in [Conns -> Nat]
      /\ regressed \in BOOLEAN /\ reused \in BOOLEAN
  BY DEF AdmissionInv, ClockTypes
<1>3. MaxAge \in Nat /\ \A u \in Tokens : TokenTime[u] \in Nat
  OBVIOUS
<1> HIDE DEF t, when, opens
<1>4. ClockTypes'
  BY <1>1, <1>2 DEF ClockTypes
<1>5. ASSUME ~regressed', valid
      PROVE  ~regressed /\ when >= latest
  <2>1. ~regressed /\ ~(when < latest)
    BY <1>1, <1>5, Zenon
  <2> QED
    BY <1>2, <2>1
<1>6. CASE ~valid
  <2>1. UNCHANGED <<seen, regressed, latest, reused, spent>>
    BY <1>1, <1>2, <1>6 DEF opens
  <2> QED
    BY <1>4, <2>1 DEF AdmissionInv, SpentIsKnown, CookieOnce
<1>7. CASE valid
  <2>1. /\ t \in Tokens /\ when <= TokenTime[t] + MaxAge /\ TokenTime[t] <= when + MaxAge
    BY <1>2, <1>3, <1>7 DEF Fresh, Distance
  <2>2. SpentIsKnown'
    <3> SUFFICES ASSUME ~regressed', NEW u \in Tokens, NEW d \in Conns, <<u, d>> \in spent'
                 PROVE  /\ when + MaxAge >= TokenTime[u]
                        /\ u \in seen' \/ when > TokenTime[u] + MaxAge
      BY <1>1, <1>7 DEF SpentIsKnown
    <3>1. ~regressed /\ when >= latest
      BY <1>5, <1>7
    <3>2. CASE u = t
      BY <1>1, <1>2, <1>3, <1>7, <2>1, <3>2
    <3>3. CASE u # t
      <4>1. <<u, d>> \in spent
        BY <1>1, <3>3
      <4>2. latest + MaxAge >= TokenTime[u] /\ (u \in seen \/ latest > TokenTime[u] + MaxAge)
        BY <3>1, <4>1 DEF AdmissionInv, SpentIsKnown
      <4>3. when + MaxAge >= TokenTime[u]
        BY <1>2, <1>3, <3>1, <4>2
      <4>4. CASE latest > TokenTime[u] + MaxAge
        BY <1>2, <1>3, <3>1, <4>3, <4>4
      <4>5. CASE u \in seen /\ when <= TokenTime[u] + MaxAge
        <5>1. u \in Remembered(when)
          BY <1>2, <1>3, <4>3, <4>5 DEF Remembered, Fresh, Distance
        <5> QED
          BY <1>1, <1>7, <4>3, <5>1
      <4> QED
        BY <1>2, <1>3, <4>2, <4>3, <4>4, <4>5
    <3> QED
      BY <3>2, <3>3
  <2>3. CookieOnce'
    <3> SUFFICES ASSUME ~regressed' PROVE ~reused'
      BY DEF CookieOnce
    <3>1. ~regressed /\ when >= latest /\ ~reused
      BY <1>5, <1>7 DEF AdmissionInv, CookieOnce
    <3>2. SUFFICES ASSUME t \notin Remembered(when), NEW d \in Conns, <<t, d>> \in spent
                   PROVE  FALSE
      BY <1>1, <3>1 DEF opens
    <3>3. t \in seen \/ latest > TokenTime[t] + MaxAge
      BY <2>1, <3>1, <3>2 DEF AdmissionInv, SpentIsKnown
    <3>4. t \notin seen
      BY <1>7, <3>2 DEF Remembered
    <3> QED
      BY <1>2, <1>3, <2>1, <3>1, <3>3, <3>4
  <2> QED
    BY <1>4, <2>2, <2>3 DEF AdmissionInv
<1> QED
  BY <1>6, <1>7

\* Every step of the specification keeps the invariant.
LEMMA NextAdmissionInv == AdmissionInv /\ [Next]_vars => AdmissionInv'
<1> SUFFICES ASSUME AdmissionInv, [Next]_vars PROVE AdmissionInv'
  OBVIOUS
<1>1. CASE Tick
  BY <1>1 DEF Tick, doorVars, histVars, AdmissionInv, ClockTypes, SpentIsKnown, CookieOnce
<1>2. CASE \E s \in Conns : Expire(s)
  BY <1>2, Undisturbed DEF Expire, doorVars, memory
<1>3. CASE UNCHANGED vars
  BY <1>3, Undisturbed DEF vars, doorVars, memory
<1>4. ASSUME NEW c \in Conns, Server(c)
      PROVE  AdmissionInv'
  <2>1. CASE Respond(c)
    <3>1. now \in Nat
      BY DEF AdmissionInv, ClockTypes
    <3> QED
      BY <2>1, <3>1, ReadingKeeps DEF Respond, CurrentTimestamp
  <2>2. CASE Admit(c)
    BY <2>2, AdmitKeeps
  <2>3. CASE ReadRequest(c) \/ SendResponse(c)
    BY <2>3, Undisturbed DEF ReadRequest, Serves, SendResponse, memory, histVars
  <2>4. CASE \/ NotAFrame(c) \/ ProcessClientHello(c) \/ VerifyAuth(c)
             \/ RegisterSession(c) \/ AcceptResume(c)
    BY <2>4, Undisturbed
    DEF NotAFrame, ProcessClientHello, VerifyAuth, RegisterSession, AcceptResume, doorVars, memory
  <2> QED
    BY <1>4, <2>1, <2>2, <2>3, <2>4 DEF Server
<1>5. ASSUME NEW c \in Conns, Client(c)
      PROVE  AdmissionInv'
  BY <1>5, Undisturbed
  DEF Client, Ask, SendHello, SendResume, SendFinished, Conclude, PeerFails, doorVars, memory
<1>6. ASSUME NEW c \in Conns, ReadVisitor(c) \/ BadRequest(c)
      PROVE  AdmissionInv'
  BY <1>6, Undisturbed DEF ReadVisitor, Serves, BadRequest, doorVars, memory, histVars
<1>7. ASSUME NEW c \in Conns, Break(c)
      PROVE  AdmissionInv'
  BY <1>7, ReadingKeeps DEF Break
<1> QED
  BY <1>1, <1>2, <1>3, <1>4, <1>5, <1>6, <1>7 DEF Next

\* frontdoor.rs, Admitter::admit: a cookie that opens a second tunnel does so only
\* after a later admission has used an earlier clock reading.
THEOREM CookieOnceAlways == Spec => []CookieOnce
<1>1. AdmissionInv => CookieOnce
  BY DEF AdmissionInv
<1> QED
  BY <1>1, InitAdmissionInv, NextAdmissionInv, PTL DEF Spec

-----------------------------------------------------------------------------
(* Frames start at a frame boundary.                                       *)

InTunnel == {"tunnel", "auth", "register", "serving"}
Stages == InTunnel \cup {"head", "origin", "lock", "reply", "ended"}

\* Only the first request can lead to a tunnel, and a connection whose first body
\* was refused has ended.
CleanInv ==
  /\ stage \in [Conns -> Stages] /\ first \in [Conns -> BOOLEAN] /\ unread \in [Conns -> BOOLEAN]
  /\ \A c \in Conns : first[c] /\ stage[c] # "ended" => ~unread[c]
  /\ TunnelStartsClean

\* No stage changes.
LEMMA StageStays ==
  ASSUME CleanInv, UNCHANGED <<stage, first, unread>>
  PROVE  CleanInv'
BY DEF CleanInv, TunnelStartsClean

\* One connection moves on, and not into the tunnel.
LEMMA StageMoves ==
  ASSUME CleanInv, NEW c \in Conns, NEW S \in SUBSET Stages,
         \E s \in S : stage' = [stage EXCEPT ![c] = s],
         stage[c] # "ended", stage[c] \in InTunnel \/ S \cap InTunnel = {},
         UNCHANGED <<first, unread>>
  PROVE  CleanInv'
<1>1. PICK s \in S : stage' = [stage EXCEPT ![c] = s]
  OBVIOUS
<1>2. s \in InTunnel => stage[c] \in InTunnel
  OBVIOUS
<1> QED
  BY <1>1, <1>2 DEF CleanInv, TunnelStartsClean, InTunnel

\* A request is read; a body that is refused ends the first of them.
LEMMA ServesKeeps ==
  ASSUME CleanInv, NEW c \in Conns, NEW r, Serves(c, r)
  PROVE  CleanInv'
<1> DEFINE big == r.body = "big"
<1>1. /\ stage[c] = "head" /\ UNCHANGED first
      /\ unread' = [unread EXCEPT ![c] = unread[c] \/ big]
      /\ stage' = [stage EXCEPT ![c] = IF big /\ first[c] THEN "ended" ELSE "origin"]
  BY DEF Serves, BodyRefused, Goes
<1> HIDE DEF big
<1>2. CASE big /\ first[c]
  BY <1>1, <1>2 DEF CleanInv, TunnelStartsClean, Stages
<1>3. CASE ~big
  BY <1>1, <1>3 DEF CleanInv, TunnelStartsClean, Stages
<1>4. CASE ~first[c]
  BY <1>1, <1>4 DEF CleanInv, TunnelStartsClean, Stages
<1> QED
  BY <1>2, <1>3, <1>4

\* The answer is sent; only the first request leads to a tunnel.
LEMMA SendResponseKeeps ==
  ASSUME CleanInv, NEW c \in Conns, SendResponse(c)
  PROVE  CleanInv'
<1>1. /\ stage[c] = "reply" /\ UNCHANGED unread
      /\ stage' = [stage EXCEPT ![c] = AfterReply(c)]
      /\ first' = [first EXCEPT ![c] = (AfterReply(c) = "tunnel")]
  BY DEF SendResponse, Goes
<1>2. AfterReply(c) \in {"tunnel", "head", "ended"} /\ (AfterReply(c) = "tunnel" => first[c])
  BY DEF AfterReply
<1>3. CASE AfterReply(c) = "tunnel"
  BY <1>1, <1>2, <1>3 DEF CleanInv, TunnelStartsClean, Stages, InTunnel
<1>4. CASE AfterReply(c) \in {"head", "ended"}
  BY <1>1, <1>4 DEF CleanInv, TunnelStartsClean, Stages, InTunnel
<1> QED
  BY <1>2, <1>3, <1>4

\* Every step of the specification keeps the invariant.
LEMMA NextCleanInv == CleanInv /\ [Next]_vars => CleanInv'
<1> SUFFICES ASSUME CleanInv, [Next]_vars PROVE CleanInv'
  OBVIOUS
<1>1. CASE Tick \/ (\E s \in Conns : Expire(s)) \/ UNCHANGED vars
  BY <1>1, StageStays DEF Tick, Expire, vars, doorVars
<1>2. ASSUME NEW c \in Conns, Server(c)
      PROVE  CleanInv'
  <2>1. CASE ReadRequest(c)
    BY <2>1, ServesKeeps DEF ReadRequest
  <2>2. CASE SendResponse(c)
    BY <2>2, SendResponseKeeps
  <2>3. CASE Respond(c)
    <3>1. /\ \E s \in {"lock"} : stage' = [stage EXCEPT ![c] = s]
          /\ stage[c] = "origin" /\ UNCHANGED <<first, unread>>
      BY <2>3 DEF Respond, Goes
    <3> QED
      BY <3>1, StageMoves DEF Stages, InTunnel
  <2>4. CASE Admit(c)
    <3>1. /\ \E s \in {"reply"} : stage' = [stage EXCEPT ![c] = s]
          /\ stage[c] = "lock" /\ UNCHANGED <<first, unread>>
      BY <2>4 DEF Admit, Goes
    <3> QED
      BY <3>1, StageMoves DEF Stages, InTunnel
  <2>5. CASE NotAFrame(c)
    <3>1. /\ \E s \in {"ended"} : stage' = [stage EXCEPT ![c] = s]
          /\ stage[c] = "tunnel" /\ UNCHANGED <<first, unread>>
      BY <2>5 DEF NotAFrame, Goes, doorVars
    <3> QED
      BY <3>1, StageMoves DEF Stages, InTunnel
  <2>6. CASE ProcessClientHello(c)
    <3>1. /\ \E s \in {"auth", "ended"} : stage' = [stage EXCEPT ![c] = s]
          /\ stage[c] = "tunnel" /\ UNCHANGED <<first, unread>>
      BY <2>6 DEF ProcessClientHello, Goes, doorVars
    <3> QED
      BY <3>1, StageMoves DEF Stages, InTunnel
  <2>7. CASE VerifyAuth(c)
    <3>1. /\ \E s \in {"register", "ended"} : stage' = [stage EXCEPT ![c] = s]
          /\ stage[c] = "auth" /\ UNCHANGED <<first, unread>>
      BY <2>7 DEF VerifyAuth, Goes, doorVars
    <3> QED
      BY <3>1, StageMoves DEF Stages, InTunnel
  <2>8. CASE RegisterSession(c)
    <3>1. /\ \E s \in {"serving"} : stage' = [stage EXCEPT ![c] = s]
          /\ stage[c] = "register" /\ UNCHANGED <<first, unread>>
      BY <2>8 DEF RegisterSession, Goes, doorVars
    <3> QED
      BY <3>1, StageMoves DEF Stages, InTunnel
  <2>9. CASE AcceptResume(c)
    <3>1. /\ \E s \in {"serving", "ended"} : stage' = [stage EXCEPT ![c] = s]
          /\ stage[c] = "tunnel" /\ UNCHANGED <<first, unread>>
      BY <2>9 DEF AcceptResume, Goes, doorVars
    <3> QED
      BY <3>1, StageMoves DEF Stages, InTunnel
  <2> QED
    BY <1>2, <2>1, <2>2, <2>3, <2>4, <2>5, <2>6, <2>7, <2>8, <2>9 DEF Server
<1>3. ASSUME NEW c \in Conns, Client(c)
      PROVE  CleanInv'
  BY <1>3, StageStays
  DEF Client, Ask, SendHello, SendResume, SendFinished, Conclude, PeerFails, doorVars
<1>4. ASSUME NEW c \in Conns, ReadVisitor(c)
      PROVE  CleanInv'
  BY <1>4, ServesKeeps DEF ReadVisitor
<1>5. ASSUME NEW c \in Conns, BadRequest(c)
      PROVE  CleanInv'
  <2>1. /\ \E s \in {"ended"} : stage' = [stage EXCEPT ![c] = s]
        /\ stage[c] = "head" /\ UNCHANGED <<first, unread>>
    BY <1>5 DEF BadRequest, Goes, doorVars
  <2> QED
    BY <2>1, StageMoves DEF Stages, InTunnel
<1>6. ASSUME NEW c \in Conns, Break(c)
      PROVE  CleanInv'
  <2>1. /\ stage' = [stage EXCEPT ![c] = "ended"] /\ first' = [first EXCEPT ![c] = TRUE]
        /\ unread' = [unread EXCEPT ![c] = FALSE]
    BY <1>6 DEF Break
  <2> QED
    BY <2>1 DEF CleanInv, TunnelStartsClean, Stages
<1> QED
  BY <1>1, <1>2, <1>3, <1>4, <1>5, <1>6 DEF Next

\* session.rs, run and serve_web: no byte of a body that was refused is read as the
\* start of a frame.
THEOREM TunnelStartsCleanAlways == Spec => []TunnelStartsClean
<1>1. Init => CleanInv
  <2> SUFFICES ASSUME Init PROVE CleanInv
    OBVIOUS
  <2>1. /\ stage = [c \in Conns |-> "head"] /\ first = [c \in Conns |-> TRUE]
        /\ unread = [c \in Conns |-> FALSE]
    BY DEF Init
  <2> QED
    BY <2>1 DEF CleanInv, TunnelStartsClean, Stages
<1>2. CleanInv => TunnelStartsClean
  BY DEF CleanInv
<1> QED
  BY <1>1, <1>2, NextCleanInv, PTL DEF Spec

-----------------------------------------------------------------------------
(* The types.                                                              *)

\* What a peer sends is an item, what the server sends an answer.
LEMMA MessageTypes ==
  /\ \A t \in Tokens : AdmissionRequest(t) \in Item
  /\ \A when \in Nat : [type |-> "hello", at |-> when] \in Item
  /\ \A when \in Nat, s \in Conns : [type |-> "resume", at |-> when, session |-> s] \in Item
  /\ ClientFinished \subseteq Item
  /\ {Response, ServerHello, ResumeResponse, ServerFinished(TRUE), ServerFinished(FALSE)} \subseteq Answer
  /\ NoRequest \in [cookie : Tokens \cup {NoToken}, keep : BOOLEAN]
<1>1. \A t \in Tokens : AdmissionRequest(t) \in Item
  BY DEF AdmissionRequest, Item, RequestHead
<1>2. \A when \in Nat : [type |-> "hello", at |-> when] \in Item
  BY DEF Item, ClientHello
<1>3. \A when \in Nat, s \in Conns : [type |-> "resume", at |-> when, session |-> s] \in Item
  BY DEF Item, ResumeRequest
<1>4. ClientFinished \subseteq Item
  BY DEF Item
<1>5. {Response, ServerHello, ResumeResponse, ServerFinished(TRUE), ServerFinished(FALSE)} \subseteq Answer
  BY DEF Answer
<1>6. NoRequest \in [cookie : Tokens \cup {NoToken}, keep : BOOLEAN]
  BY DEF NoRequest
<1>. QED BY <1>1, <1>2, <1>3, <1>4, <1>5, <1>6

\* Taking from a channel, and adding to it, keep its type.
LEMMA ChannelTypes ==
  ASSUME TypeOK, NEW c \in Conns
  PROVE  /\ \A type : Receives(c, type) =>
              /\ toServer' \in [Conns -> Seq(Item)]
              /\ Head(toServer[c]) \in Item /\ Head(toServer[c]).type = type
         /\ \A a : Hears(c, a) => toClient' \in [Conns -> Seq(Answer)]
         /\ \A x \in Item : Sends(c, x) => toServer' \in [Conns -> Seq(Item)]
         /\ \A a \in Answer : Replies(c, a) => toClient' \in [Conns -> Seq(Answer)]
<1>1. toServer \in [Conns -> Seq(Item)] /\ toClient \in [Conns -> Seq(Answer)]
  BY DEF TypeOK
<1>2. ASSUME NEW type, Receives(c, type)
      PROVE  /\ toServer' \in [Conns -> Seq(Item)]
             /\ Head(toServer[c]) \in Item /\ Head(toServer[c]).type = type
  <2>1. toServer[c] # <<>> /\ toServer' = [toServer EXCEPT ![c] = Tail(@)]
        /\ Head(toServer[c]).type = type
    BY <1>2 DEF Receives
  <2>2. Head(toServer[c]) \in Item /\ Tail(toServer[c]) \in Seq(Item)
    BY <1>1, <2>1, HeadTailProperties
  <2>. QED BY <1>1, <2>1, <2>2
<1>3. ASSUME NEW a, Hears(c, a) PROVE toClient' \in [Conns -> Seq(Answer)]
  <2>1. toClient[c] # <<>> /\ toClient' = [toClient EXCEPT ![c] = Tail(@)]
    BY <1>3 DEF Hears
  <2>2. Tail(toClient[c]) \in Seq(Answer)
    BY <1>1, <2>1, HeadTailProperties
  <2>. QED BY <1>1, <2>1, <2>2
<1>4. ASSUME NEW x \in Item, Sends(c, x) PROVE toServer' \in [Conns -> Seq(Item)]
  BY <1>1, <1>4, AppendProperties DEF Sends
<1>5. ASSUME NEW a \in Answer, Replies(c, a) PROVE toClient' \in [Conns -> Seq(Answer)]
  BY <1>1, <1>5, AppendProperties DEF Replies
<1>. QED BY <1>2, <1>3, <1>4, <1>5

\* Every variable starts with its type.
LEMMA InitTypes == Init => TypeOK
<1>. SUFFICES ASSUME Init PROVE TypeOK
  OBVIOUS
<1>1. now \in Clock /\ latest \in Clock /\ at \in [Conns -> Clock]
  BY DEF Init
<1>2. req \in [Conns -> [cookie : Tokens \cup {NoToken}, keep : BOOLEAN]]
  BY MessageTypes DEF Init
<1>3. toServer \in [Conns -> Seq(Item)] /\ toClient \in [Conns -> Seq(Answer)]
  BY EmptySeq DEF Init
<1>. HIDE DEF Clock
<1>. QED BY <1>1, <1>2, <1>3 DEF Init, TypeOK

\* A request that is served leaves its cookie and its wish to go on.
LEMMA ServesTypes ==
  ASSUME TypeOK, NEW c \in Conns, NEW r \in RequestHead, Serves(c, r),
         toServer' \in [Conns -> Seq(Item)], UNCHANGED peer
  PROVE  TypeOK'
<1>1. r.cookie \in Tokens \cup {NoToken} /\ r.keep \in BOOLEAN
  BY DEF RequestHead
<1>2. req' = [req EXCEPT ![c] = [cookie |-> r.cookie, keep |-> r.keep]]
  BY DEF Serves
<1>3. req' \in [Conns -> [cookie : Tokens \cup {NoToken}, keep : BOOLEAN]]
  BY <1>1, <1>2 DEF TypeOK
<1>4. unread' \in [Conns -> BOOLEAN]
  <2>1. unread \in [Conns -> BOOLEAN] /\ (unread[c] \/ r.body = "big") \in BOOLEAN
    BY Zenon DEF TypeOK
  <2>2. unread' = [unread EXCEPT ![c] = unread[c] \/ r.body = "big"]
    BY DEF Serves
  <2>. QED BY <2>1, <2>2
<1>. HIDE DEF Clock
<1>. QED BY <1>3, <1>4 DEF Serves, Goes, TypeOK, histVars

\* admit keeps the memory of the front door, and what it has heard of the clock.
LEMMA AdmitTypes ==
  ASSUME TypeOK, NEW c \in Conns, Admit(c)
  PROVE  TypeOK'
<1>. DEFINE t == req[c].cookie
           valid == t \in Tokens /\ Fresh(t, at[c])
           opens == valid /\ t \notin Remembered(at[c])
<1>1. /\ seen' = IF valid THEN Remembered(at[c]) \cup {t} ELSE seen
      /\ regressed' = (regressed \/ (valid /\ at[c] < latest))
      /\ latest' = IF valid THEN at[c] ELSE latest
      /\ reused' = (reused \/ (opens /\ \E d \in Conns : <<t, d>> \in spent))
      /\ spent' = IF opens THEN spent \cup {<<t, c>>} ELSE spent
      /\ admission' = [admission EXCEPT ![c] = IF opens THEN "Tunnel" ELSE "Web"]
      /\ at' = [at EXCEPT ![c] = 0] /\ stage' = [stage EXCEPT ![c] = "reply"]
      /\ UNCHANGED <<now, registry, kind, first, req, unread, answer, peer, toServer, toClient>>
  BY DEF Admit, Goes
<1>2. 0 \in Clock /\ at[c] \in Clock /\ Remembered(at[c]) \subseteq Tokens
  BY DEF TypeOK, Remembered
<1>3. valid => t \in Tokens
  OBVIOUS
<1>4. regressed' \in BOOLEAN /\ reused' \in BOOLEAN
  BY <1>1, Zenon DEF TypeOK
<1>. HIDE DEF valid, t, Clock
<1>5. seen' \subseteq Tokens /\ latest' \in Clock /\ spent' \subseteq Tokens \X Conns
  BY <1>1, <1>2, <1>3 DEF TypeOK
<1>. HIDE DEF opens
<1>6. admission' \in [Conns -> {"Web", "Tunnel"}] /\ at' \in [Conns -> Clock]
  BY <1>1, <1>2 DEF TypeOK
<1>. QED BY <1>1, <1>4, <1>5, <1>6 DEF TypeOK

\* Every step keeps the types.
LEMMA NextTypes == TypeOK /\ [Next]_vars => TypeOK'
<1>. SUFFICES ASSUME TypeOK, [Next]_vars PROVE TypeOK'
  OBVIOUS
<1>0. 0 \in Clock /\ now \in Clock /\ Clock \subseteq Nat /\ Stamp \subseteq Nat
  BY DEF TypeOK, Stamp
<1>1. CASE Tick
  <2>1. now' \in Clock
    BY <1>0, <1>1 DEF Tick
  <2>. HIDE DEF Clock
  <2>. QED BY <1>1, <2>1 DEF Tick, doorVars, histVars, TypeOK
<1>. HIDE DEF Clock
<1>2. ASSUME NEW s \in Conns, Expire(s) PROVE TypeOK'
  BY <1>2 DEF Expire, doorVars, histVars, TypeOK
<1>3. CASE UNCHANGED vars
  BY <1>3 DEF vars, doorVars, histVars, TypeOK
<1>4. ASSUME NEW c \in Conns, Break(c) PROVE TypeOK'
  <2>1. <<>> \in Seq(Item) /\ <<>> \in Seq(Answer)
    BY EmptySeq
  <2>. QED BY <1>0, <1>4, <2>1, MessageTypes DEF Break, histVars, TypeOK
<1>5. ASSUME NEW c \in Conns, BadRequest(c) PROVE TypeOK'
  BY <1>5 DEF BadRequest, Goes, doorVars, histVars, TypeOK
<1>6. ASSUME NEW c \in Conns, ReadVisitor(c) PROVE TypeOK'
  <2>1. PICK r \in RequestHead : Serves(c, r)
    BY <1>6 DEF ReadVisitor
  <2>. QED BY <1>6, <2>1, ServesTypes DEF ReadVisitor, TypeOK
<1>7. ASSUME NEW c \in Conns, Client(c) PROVE TypeOK'
  <2>. USE DEF Becomes, doorVars, histVars
  <2>1. CASE Ask(c)
    <3>1. toServer' \in [Conns -> Seq(Item)]
      BY <2>1, ChannelTypes, MessageTypes DEF Ask
    <3>. QED BY <2>1, <3>1 DEF Ask, TypeOK
  <2>2. CASE SendHello(c) \/ SendResume(c)
    <3>1. toServer' \in [Conns -> Seq(Item)]
      <4>1. PICK x \in Item : Sends(c, x)
        BY <1>0, <2>2, MessageTypes DEF SendHello, SendResume
      <4>. QED BY <4>1, ChannelTypes
    <3>2. toClient' \in [Conns -> Seq(Answer)]
      <4>1. toClient' = toClient \/ Hears(c, Response)
        BY <2>2 DEF SendHello, SendResume, Opens
      <4>. QED BY <4>1, ChannelTypes DEF TypeOK
    <3>. QED BY <2>2, <3>1, <3>2 DEF SendHello, SendResume, TypeOK
  <2>3. CASE SendFinished(c)
    <3>1. toServer' \in [Conns -> Seq(Item)] /\ toClient' \in [Conns -> Seq(Answer)]
      BY <2>3, ChannelTypes, MessageTypes DEF SendFinished
    <3>. QED BY <2>3, <3>1 DEF SendFinished, TypeOK
  <2>4. CASE Conclude(c)
    <3>1. toClient' \in [Conns -> Seq(Answer)]
      BY <2>4, ChannelTypes DEF Conclude
    <3>. QED BY <2>4, <3>1 DEF Conclude, TypeOK
  <2>5. CASE PeerFails(c)
    BY <2>5 DEF PeerFails, TypeOK
  <2>. QED BY <1>7, <2>1, <2>2, <2>3, <2>4, <2>5 DEF Client
<1>8. ASSUME NEW c \in Conns, Server(c) PROVE TypeOK'
  <2>. USE DEF Goes, doorVars, histVars
  <2>1. CASE ReadRequest(c)
    <3>1. /\ Head(toServer[c]) \in Item /\ Head(toServer[c]).type = "http"
          /\ toServer' \in [Conns -> Seq(Item)] /\ UNCHANGED peer
          /\ Serves(c, Head(toServer[c]))
      BY <2>1, ChannelTypes DEF ReadRequest
    <3>2. Head(toServer[c]) \in RequestHead
      BY <3>1 DEF Item, ClientHello, ClientFinished, ResumeRequest
    <3>. QED BY <3>1, <3>2, ServesTypes
  <2>2. CASE Respond(c)
    <3>1. OriginGives \subseteq {"bytes", "nothing"}
      BY DEF OriginGives, FetchUpstream, ServeStatic
    <3>. QED BY <1>0, <2>2, <3>1 DEF Respond, CurrentTimestamp, TypeOK
  <2>3. CASE Admit(c)
    BY <2>3, AdmitTypes
  <2>4. CASE SendResponse(c)
    <3>1. toClient' \in [Conns -> Seq(Answer)]
      <4>1. toClient' = toClient \/ Replies(c, Response)
        BY <2>4 DEF SendResponse
      <4>. QED BY <4>1, ChannelTypes, MessageTypes DEF TypeOK
    <3>2. AfterReply(c) \in {"tunnel", "head", "ended"}
      BY DEF AfterReply
    <3>3. first' = [first EXCEPT ![c] = (AfterReply(c) = "tunnel")]
      BY <2>4 DEF SendResponse
    <3>4. (AfterReply(c) = "tunnel") \in BOOLEAN
      OBVIOUS
    <3>5. first' \in [Conns -> BOOLEAN]
      BY <3>3, <3>4 DEF TypeOK
    <3>6. req' \in [Conns -> [cookie : Tokens \cup {NoToken}, keep : BOOLEAN]]
      BY ZenonT(60), <2>4, MessageTypes DEF SendResponse, TypeOK
    <3>. QED BY <2>4, <3>1, <3>2, <3>5, <3>6 DEF SendResponse, TypeOK
  <2>5. CASE NotAFrame(c)
    BY <2>5 DEF NotAFrame, TypeOK
  <2>6. CASE ProcessClientHello(c) \/ VerifyAuth(c) \/ AcceptResume(c)
    <3>1. toServer' \in [Conns -> Seq(Item)]
      BY <2>6, ChannelTypes DEF ProcessClientHello, VerifyAuth, AcceptResume
    <3>2. toClient' = toClient \/ \E a \in Answer : Replies(c, a)
      <4>1. CASE ProcessClientHello(c)
        BY <4>1, MessageTypes DEF ProcessClientHello
      <4>2. CASE AcceptResume(c)
        BY <4>2, MessageTypes DEF AcceptResume
      <4>3. CASE VerifyAuth(c)
        <5>1. Head(toServer[c]) \in Item /\ Head(toServer[c]).type = "auth"
          BY <4>3, ChannelTypes DEF VerifyAuth
        <5>2. Head(toServer[c]).password \in BOOLEAN
          BY <5>1 DEF Item, RequestHead, ClientHello, ClientFinished, ResumeRequest
        <5>3. ServerFinished(Head(toServer[c]).password) \in Answer
          BY <5>2, MessageTypes
        <5>. QED BY <4>3, <5>3 DEF VerifyAuth
      <4>. QED BY <2>6, <4>1, <4>2, <4>3
    <3>3. toClient' \in [Conns -> Seq(Answer)]
      BY <3>2, ChannelTypes DEF TypeOK
    <3>4. \E s \in {"auth", "ended", "register", "serving"} : stage' = [stage EXCEPT ![c] = s]
      BY <2>6 DEF ProcessClientHello, VerifyAuth, AcceptResume
    <3>5. UNCHANGED <<now, seen, registry, kind, doorVars, peer, histVars>>
      BY <2>6 DEF ProcessClientHello, VerifyAuth, AcceptResume
    <3>. QED BY <3>1, <3>3, <3>4, <3>5 DEF TypeOK
  <2>7. CASE RegisterSession(c)
    BY <2>7 DEF RegisterSession, TypeOK
  <2>. QED BY <1>8, <2>1, <2>2, <2>3, <2>4, <2>5, <2>6, <2>7 DEF Server
<1>. QED BY <1>1, <1>2, <1>3, <1>4, <1>5, <1>6, <1>7, <1>8 DEF Next

\* The shape of every variable; in particular the readings of the clock that the
\* front door remembers are readings, and only sent items are received.
THEOREM TypeCorrect == Spec => []TypeOK
BY InitTypes, NextTypes, PTL DEF Spec
=============================================================================
