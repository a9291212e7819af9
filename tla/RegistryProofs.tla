---------------------------- MODULE RegistryProofs ----------------------------
(***************************************************************************)
(* Theorems about SessionRegistry, for any number of connections, any pool *)
(* and any bound on the clients: an address is in one place, and a reply   *)
(* queue belongs to the owner of its address.  The proof follows an        *)
(* address around: out of the pool, reserved by a connection, owned by an  *)
(* entry, in the hands of the reaper, and back.  Placed says where an      *)
(* address is without speaking of connections or stages; the first half    *)
(* shows that each move keeps it, the second that each action is a move.   *)
(***************************************************************************)
EXTENDS SessionRegistry, TLAPS

\* Of the addresses below n, each is owned by one member of O, in rec, equal to
\* rel, or in the pool.
Placed(O, ad, rec, rel, pool, n) ==
  /\ \A c \in O : ad[c] \in 2 .. (n - 1) /\ ad[c] \notin rec /\ ad[c] # rel /\ ad[c] \notin pool
  /\ \A c, d \in O : ad[c] = ad[d] => c = d
  /\ \A a \in rec : a \in 2 .. (n - 1) /\ a # rel /\ a \notin pool
  /\ \A a \in pool : a \in 2 .. (n - 1) /\ a # rel
  /\ rel # NoAddr => rel \in 2 .. (n - 1)
  /\ \A a \in 2 .. (n - 1) : a \in pool \/ a \in rec \/ a = rel \/ \E c \in O : ad[c] = a

Owners == Reserving \cup registry

\* How the stage of a connection, the session it holds and the registry go together.
StagesAgree ==
  \A c \in Conns :
    /\ stage[c] = "registered" => session[c] = c
    /\ stage[c] = "resuming" => session[c] # c
    /\ c \in registry => stage[c] \in {"attaching", "serving", "ended"}
    /\ c \in registry /\ stage[c] # "ended" => session[c] = c
    /\ stage[c] = "unused" => addr[c] = NoAddr

\* The pool holds an address once, and every address is in one place.
PoolAgrees ==
  /\ IsInjective(freed)
  /\ Placed(Owners, addr, reclaimed, releasing, Range(freed), next)

RegistryInv == TypeOK /\ StagesAgree /\ PoolAgrees /\ QueueBelongsToOwner

USE RegistryAssumption DEF NoAddr

-----------------------------------------------------------------------------
(* The moves of an address.                                                *)

\* A freed address is taken from the pool.
LEMMA TakeFreed ==
  ASSUME NEW O, NEW ad, NEW rec, NEW rel, NEW pool, NEW n \in Nat, NEW c, NEW a,
         Placed(O, ad, rec, rel, pool, n), c \notin O, c \in DOMAIN ad, O \subseteq DOMAIN ad, a \in pool
  PROVE  Placed(O \cup {c}, [ad EXCEPT ![c] = a], rec, rel, pool \ {a}, n)
BY DEF Placed

\* An address that was never used is taken.
LEMMA TakeNew ==
  ASSUME NEW O, NEW ad, NEW rec, NEW rel, NEW pool, NEW n \in Nat, NEW c,
         Placed(O, ad, rec, rel, pool, n), n >= 2, c \notin O, c \in DOMAIN ad, O \subseteq DOMAIN ad
  PROVE  Placed(O \cup {c}, [ad EXCEPT ![c] = n], rec, rel, pool, n + 1)
<1> DEFINE ad2 == [ad EXCEPT ![c] = n]
<1>1. ad2[c] = n /\ \A d \in O : ad2[d] = ad[d]
  OBVIOUS
<1>2. \A x : x \in 2 .. n <=> x \in 2 .. (n - 1) \/ x = n
  OBVIOUS
<1>3. n \notin 2 .. (n - 1) /\ (n + 1) - 1 = n
  OBVIOUS
<1> HIDE DEF ad2
<1>4. rel # n /\ n \notin rec /\ n \notin pool
  BY <1>3 DEF Placed
<1> QED BY <1>1, <1>2, <1>3, <1>4 DEF Placed

\* An owner gives its address back.
LEMMA GiveBack ==
  ASSUME NEW O, NEW ad, NEW rec, NEW rel, NEW pool, NEW n \in Nat, NEW c \in O,
         Placed(O, ad, rec, rel, pool, n)
  PROVE  Placed(O \ {c}, ad, rec, rel, pool \cup {ad[c]}, n)
BY DEF Placed

\* Owners expire and leave their addresses to the reaper.
LEMMA Expire ==
  ASSUME NEW O, NEW ad, NEW pool, NEW n \in Nat, NEW E \in SUBSET O,
         Placed(O, ad, {}, NoAddr, pool, n)
  PROVE  Placed(O \ E, ad, {ad[s] : s \in E}, NoAddr, pool, n)
BY DEF Placed

\* The reaper takes up one address.
LEMMA Bury ==
  ASSUME NEW O, NEW ad, NEW rec, NEW pool, NEW n \in Nat, NEW a \in rec,
         Placed(O, ad, rec, NoAddr, pool, n)
  PROVE  Placed(O, ad, rec \ {a}, a, pool, n)
BY DEF Placed

\* And gives it back.
LEMMA Return ==
  ASSUME NEW O, NEW ad, NEW rec, NEW rel, NEW pool, NEW n \in Nat, rel # NoAddr,
         Placed(O, ad, rec, rel, pool, n)
  PROVE  Placed(O, ad, rec, NoAddr, pool \cup {rel}, n)
BY DEF Placed

\* Taking the last element of a sequence without repetitions.
LEMMA PopProperties ==
  ASSUME NEW S, NEW s \in Seq(S), s # <<>>, IsInjective(s)
  PROVE  /\ Front(s) \in Seq(S) /\ IsInjective(Front(s))
         /\ Last(s) \in Range(s) /\ Range(Front(s)) = Range(s) \ {Last(s)}
<1>1. Len(s) \in Nat /\ Len(s) > 0 /\ DOMAIN s = 1 .. Len(s)
  OBVIOUS
<1>2. Front(s) \in Seq(S) /\ Len(Front(s)) = Len(s) - 1 /\ DOMAIN Front(s) = 1 .. (Len(s) - 1)
      /\ \A i \in 1 .. (Len(s) - 1) : Front(s)[i] = s[i]
  BY <1>1 DEF Front
<1>3. \A n \in Nat : n > 0 =>
        /\ \A i \in 1 .. n : i \in 1 .. (n - 1) \/ i = n
        /\ \A i \in 1 .. (n - 1) : i \in 1 .. n /\ i # n
        /\ n \in 1 .. n
  OBVIOUS
<1> DEFINE n == Len(s)
<1>4. n \in Nat /\ n > 0 /\ DOMAIN s = 1 .. n /\ Last(s) = s[n] /\ DOMAIN Front(s) = 1 .. (n - 1)
      /\ \A i \in 1 .. (n - 1) : Front(s)[i] = s[i]
  BY <1>1, <1>2 DEF Last
<1> HIDE DEF n
<1>5. IsInjective(Front(s))
  BY <1>3, <1>4 DEF IsInjective
<1>6. Last(s) \in Range(s) /\ Range(Front(s)) = Range(s) \ {Last(s)}
  BY <1>3, <1>4 DEF Range, IsInjective
<1> QED BY <1>2, <1>5, <1>6

\* Appending what the sequence does not hold.
LEMMA PushProperties ==
  ASSUME NEW S, NEW s \in Seq(S), NEW a \in S, a \notin Range(s), IsInjective(s)
  PROVE  /\ Append(s, a) \in Seq(S) /\ IsInjective(Append(s, a))
         /\ Range(Append(s, a)) = Range(s) \cup {a}
<1>1. Len(s) \in Nat /\ DOMAIN s = 1 .. Len(s)
  OBVIOUS
<1>2. Append(s, a) \in Seq(S) /\ DOMAIN Append(s, a) = 1 .. (Len(s) + 1)
      /\ Append(s, a)[Len(s) + 1] = a /\ \A i \in 1 .. Len(s) : Append(s, a)[i] = s[i]
  OBVIOUS
<1>3. \A i \in 1 .. (Len(s) + 1) : i \in 1 .. Len(s) \/ i = Len(s) + 1
  BY <1>1
<1>4. \A i \in 1 .. Len(s) : i \in 1 .. (Len(s) + 1) /\ i # Len(s) + 1
  BY <1>1
<1>5. Len(s) + 1 \in 1 .. (Len(s) + 1)
  BY <1>1
<1> QED BY <1>1, <1>2, <1>3, <1>4, <1>5 DEF IsInjective, Range

-----------------------------------------------------------------------------
(* The actions.                                                            *)

\* What is placed is an address of the pool's range.
LEMMA OwnedIsHost ==
  ASSUME TypeOK, PoolAgrees
  PROVE  /\ next \in Nat /\ next >= 2 /\ 2 .. (next - 1) \subseteq Hosts
         /\ \A c \in Owners : addr[c] \in Hosts
<1>1. next \in Nat /\ next >= 2 /\ 2 .. (next - 1) \subseteq Hosts
  BY DEF TypeOK, Hosts
<1> QED BY <1>1 DEF PoolAgrees, Placed

\* Every step keeps the types.
LEMMA NextTypes ==
  ASSUME TypeOK, PoolAgrees, [Next]_vars
  PROVE  TypeOK'
<1>1. ASSUME NEW c \in Conns, Admit(c) PROVE TypeOK'
  <2>1. freed' \in Seq(Hosts) /\ (next' \in 2 .. HostEnd \/ next' = 2)
    BY <1>1, PopProperties DEF Admit, Allocate, TypeOK, PoolAgrees
  <2>2. PICK a \in Hosts : addr' = [addr EXCEPT ![c] = a]
    BY <1>1 DEF Admit
  <2> QED BY <2>1, <2>2, <1>1 DEF Admit, TypeOK, Holding, Running, connVars, entryVars, poolVars, reapVars
<1>2. ASSUME NEW c \in Conns, Refuse(c) PROVE TypeOK'
  BY <1>2 DEF Refuse, TypeOK, Holding, Running, connVars, entryVars, poolVars, reapVars
<1>3. ASSUME NEW c \in Conns, Fail(c) PROVE TypeOK'
  <2>1. freed' \in Seq(Hosts)
    BY <1>3 DEF Fail, Release, TypeOK, poolVars
  <2> QED BY <2>1, <1>3 DEF Fail, Release, TypeOK, Holding, Running, connVars, entryVars, poolVars, reapVars
<1>4. ASSUME NEW c \in Conns, Authenticate(c) PROVE TypeOK'
  BY <1>4 DEF Authenticate, TypeOK, Holding, Running, connVars, entryVars, poolVars, reapVars
<1>5. ASSUME NEW c \in Conns, RegisterClient(c) PROVE TypeOK'
  <2>1. addr[c] \in Hosts
    BY <1>5, OwnedIsHost DEF RegisterClient, Owners, Reserving
  <2>2. DOMAIN clients' \subseteq Hosts /\ clients' \in [DOMAIN clients' -> Conns]
    BY <1>5, <2>1 DEF RegisterClient, TypeOK
  <2> QED BY <2>2, <1>5 DEF RegisterClient, TypeOK, Holding, Running, connVars, entryVars, poolVars, reapVars
<1>6. ASSUME NEW c \in Conns, Insert(c) PROVE TypeOK'
  BY <1>6 DEF Insert, TypeOK, Holding, Running, connVars, entryVars, poolVars, reapVars
<1>7. ASSUME NEW c \in Conns, NEW s \in Conns, Resume(c, s) PROVE TypeOK'
  BY <1>7 DEF Resume, TypeOK, Holding, Running, connVars, entryVars, poolVars, reapVars
<1>8. ASSUME NEW c \in Conns, AnswerResume(c) PROVE TypeOK'
  BY <1>8 DEF AnswerResume, TypeOK, Holding, Running, connVars, entryVars, poolVars, reapVars
<1>9. ASSUME NEW c \in Conns, Attach(c) PROVE TypeOK'
  BY <1>9 DEF Attach, TypeOK, Holding, Running, connVars, entryVars, poolVars, reapVars
<1>10. ASSUME NEW c \in Conns, Read(c) PROVE TypeOK'
  BY <1>10 DEF Read, TypeOK, Holding, Running, connVars, entryVars, poolVars, reapVars
<1>11. ASSUME NEW c \in Conns, WriterEnds(c) PROVE TypeOK'
  BY <1>11 DEF WriterEnds, TypeOK, Holding, Running, connVars, entryVars, poolVars, reapVars
<1>12. ASSUME NEW c \in Conns, End(c) PROVE TypeOK'
  <2>1. freed' \in Seq(Hosts)
    <3>1. CASE session[c] = c
      BY <1>12, <3>1 DEF End, TypeOK, poolVars
    <3>2. CASE session[c] # c
      <4>1. Release(addr[c])
        BY <1>12, <3>2 DEF End
      <4> QED BY <4>1 DEF Release, TypeOK
    <3> QED BY <3>1, <3>2
  <2>2. UNCHANGED next
    BY <1>12 DEF End, Release, poolVars
  <2> QED BY <2>1, <2>2, <1>12 DEF End, TypeOK, Holding, Running, connVars, entryVars, poolVars, reapVars
<1>13. CASE Tick
  BY <1>13 DEF Tick, TypeOK, Holding, Running, connVars, entryVars, poolVars, reapVars
<1>14. CASE ReapExpired
  <2>1. reclaimed' \subseteq Hosts
    BY <1>14, OwnedIsHost DEF ReapExpired, Expired, Owners
  <2> QED BY <2>1, <1>14 DEF ReapExpired, TypeOK, Holding, Running, connVars, entryVars, poolVars, reapVars
<1>15. ASSUME NEW a \in Hosts, UnregisterClient(a) PROVE TypeOK'
  BY <1>15 DEF UnregisterClient, Restrict, TypeOK, Holding, Running, connVars, entryVars, poolVars, reapVars
<1>16. CASE ReleaseExpired
  <2>1. freed' \in Seq(Hosts)
    BY <1>16 DEF ReleaseExpired, Release, TypeOK, poolVars
  <2> QED BY <2>1, <1>16 DEF ReleaseExpired, Release, TypeOK, Holding, Running, connVars, entryVars, poolVars, reapVars
<1>17. ASSUME NEW a \in Hosts, LookUp(a) PROVE TypeOK'
  BY <1>17 DEF LookUp, TypeOK, Holding, Running, connVars, entryVars, poolVars, reapVars
<1>18. CASE Dispatch
  <2>1. DOMAIN clients' \subseteq Hosts /\ clients' \in [DOMAIN clients' -> Conns]
    BY <1>18 DEF Dispatch, Restrict, TypeOK
  <2>2. dispatching' \in [addr : Hosts \cup {NoAddr}, to : Conns \cup {NoConn}]
    BY <1>18 DEF Dispatch, NoDispatch
  <2> QED BY <2>1, <2>2, <1>18 DEF Dispatch, TypeOK, Holding, Running, connVars, entryVars, poolVars, reapVars
<1>19. CASE UNCHANGED vars
  BY <1>19 DEF vars, TypeOK, Holding, Running, connVars, entryVars, poolVars, reapVars
<1> QED BY <1>1, <1>2, <1>3, <1>4, <1>5, <1>6, <1>7, <1>8, <1>9, <1>10, <1>11, <1>12, <1>13, <1>14, <1>15, <1>16, <1>17, <1>18, <1>19 DEF Next, Connection, Reaper

\* Every step keeps stages, sessions and registry in agreement.
LEMMA NextStages ==
  ASSUME TypeOK, StagesAgree, [Next]_vars
  PROVE  StagesAgree'
<1>1. ASSUME NEW c \in Conns, Admit(c) PROVE StagesAgree'
  BY <1>1 DEF Admit, TypeOK, StagesAgree, Holding, Running, connVars, entryVars, poolVars, reapVars
<1>2. ASSUME NEW c \in Conns, Refuse(c) PROVE StagesAgree'
  BY <1>2 DEF Refuse, TypeOK, StagesAgree, Holding, Running, connVars, entryVars, poolVars, reapVars
<1>3. ASSUME NEW c \in Conns, Fail(c) PROVE StagesAgree'
  BY <1>3 DEF Fail, Release, TypeOK, StagesAgree, Holding, Running, connVars, entryVars, poolVars, reapVars
<1>4. ASSUME NEW c \in Conns, Authenticate(c) PROVE StagesAgree'
  BY <1>4 DEF Authenticate, TypeOK, StagesAgree, Holding, Running, connVars, entryVars, poolVars, reapVars
<1>5. ASSUME NEW c \in Conns, RegisterClient(c) PROVE StagesAgree'
  BY <1>5 DEF RegisterClient, TypeOK, StagesAgree, Holding, Running, connVars, entryVars, poolVars, reapVars
<1>6. ASSUME NEW c \in Conns, Insert(c) PROVE StagesAgree'
  BY <1>6 DEF Insert, TypeOK, StagesAgree, Holding, Running, connVars, entryVars, poolVars, reapVars
<1>7. ASSUME NEW c \in Conns, NEW s \in Conns, Resume(c, s) PROVE StagesAgree'
  BY <1>7 DEF Resume, TypeOK, StagesAgree, Holding, Running, connVars, entryVars, poolVars, reapVars
<1>8. ASSUME NEW c \in Conns, AnswerResume(c) PROVE StagesAgree'
  BY <1>8 DEF AnswerResume, TypeOK, StagesAgree, Holding, Running, connVars, entryVars, poolVars, reapVars
<1>9. ASSUME NEW c \in Conns, Attach(c) PROVE StagesAgree'
  BY <1>9 DEF Attach, TypeOK, StagesAgree, Holding, Running, connVars, entryVars, poolVars, reapVars
<1>10. ASSUME NEW c \in Conns, Read(c) PROVE StagesAgree'
  BY <1>10 DEF Read, TypeOK, StagesAgree, Holding, Running, connVars, entryVars, poolVars, reapVars
<1>11. ASSUME NEW c \in Conns, WriterEnds(c) PROVE StagesAgree'
  BY <1>11 DEF WriterEnds, TypeOK, StagesAgree, Holding, Running, connVars, entryVars, poolVars, reapVars
<1>12. ASSUME NEW c \in Conns, End(c) PROVE StagesAgree'
  BY <1>12 DEF End, Release, TypeOK, StagesAgree, Holding, Running, connVars, entryVars, poolVars, reapVars
<1>13. CASE Tick
  BY <1>13 DEF Tick, TypeOK, StagesAgree, Holding, Running, connVars, entryVars, poolVars, reapVars
<1>14. CASE ReapExpired
  BY <1>14 DEF ReapExpired, Expired, TypeOK, StagesAgree, Holding, Running, connVars, entryVars, poolVars, reapVars
<1>15. ASSUME NEW a \in Hosts, UnregisterClient(a) PROVE StagesAgree'
  BY <1>15 DEF UnregisterClient, Restrict, TypeOK, StagesAgree, Holding, Running, connVars, entryVars, poolVars, reapVars
<1>16. CASE ReleaseExpired
  BY <1>16 DEF ReleaseExpired, Release, TypeOK, StagesAgree, Holding, Running, connVars, entryVars, poolVars, reapVars
<1>17. ASSUME NEW a \in Hosts, LookUp(a) PROVE StagesAgree'
  BY <1>17 DEF LookUp, TypeOK, StagesAgree, Holding, Running, connVars, entryVars, poolVars, reapVars
<1>18. CASE Dispatch
  BY <1>18 DEF Dispatch, Restrict, TypeOK, StagesAgree, Holding, Running, connVars, entryVars, poolVars, reapVars
<1>19. CASE UNCHANGED vars
  BY <1>19 DEF vars, TypeOK, StagesAgree, Holding, Running, connVars, entryVars, poolVars, reapVars
<1> QED BY <1>1, <1>2, <1>3, <1>4, <1>5, <1>6, <1>7, <1>8, <1>9, <1>10, <1>11, <1>12, <1>13, <1>14, <1>15, <1>16, <1>17, <1>18, <1>19 DEF Next, Connection, Reaper

\* Every step leaves each queue to the owner of its address.
LEMMA NextQueues ==
  ASSUME TypeOK, StagesAgree, QueueBelongsToOwner, [Next]_vars
  PROVE  QueueBelongsToOwner'
<1>1. ASSUME NEW c \in Conns, Admit(c) PROVE QueueBelongsToOwner'
  BY <1>1 DEF Admit, TypeOK, StagesAgree, QueueBelongsToOwner, Hosts, connVars, entryVars, poolVars, reapVars
<1>2. ASSUME NEW c \in Conns, Refuse(c) PROVE QueueBelongsToOwner'
  BY <1>2 DEF Refuse, TypeOK, StagesAgree, QueueBelongsToOwner, Hosts, connVars, entryVars, poolVars, reapVars
<1>3. ASSUME NEW c \in Conns, Fail(c) PROVE QueueBelongsToOwner'
  BY <1>3 DEF Fail, Release, TypeOK, StagesAgree, QueueBelongsToOwner, Hosts, connVars, entryVars, poolVars, reapVars
<1>4. ASSUME NEW c \in Conns, Authenticate(c) PROVE QueueBelongsToOwner'
  BY <1>4 DEF Authenticate, TypeOK, StagesAgree, QueueBelongsToOwner, Hosts, connVars, entryVars, poolVars, reapVars
<1>5. ASSUME NEW c \in Conns, RegisterClient(c) PROVE QueueBelongsToOwner'
  BY <1>5 DEF RegisterClient, TypeOK, StagesAgree, QueueBelongsToOwner, Hosts, connVars, entryVars, poolVars, reapVars
<1>6. ASSUME NEW c \in Conns, Insert(c) PROVE QueueBelongsToOwner'
  BY <1>6 DEF Insert, TypeOK, StagesAgree, QueueBelongsToOwner, Hosts, connVars, entryVars, poolVars, reapVars
<1>7. ASSUME NEW c \in Conns, NEW s \in Conns, Resume(c, s) PROVE QueueBelongsToOwner'
  BY <1>7 DEF Resume, TypeOK, StagesAgree, QueueBelongsToOwner, Hosts, connVars, entryVars, poolVars, reapVars
<1>8. ASSUME NEW c \in Conns, AnswerResume(c) PROVE QueueBelongsToOwner'
  BY <1>8 DEF AnswerResume, TypeOK, StagesAgree, QueueBelongsToOwner, Hosts, connVars, entryVars, poolVars, reapVars
<1>9. ASSUME NEW c \in Conns, Attach(c) PROVE QueueBelongsToOwner'
  BY <1>9 DEF Attach, TypeOK, StagesAgree, QueueBelongsToOwner, Hosts, connVars, entryVars, poolVars, reapVars
<1>10. ASSUME NEW c \in Conns, Read(c) PROVE QueueBelongsToOwner'
  BY <1>10 DEF Read, TypeOK, StagesAgree, QueueBelongsToOwner, Hosts, connVars, entryVars, poolVars, reapVars
<1>11. ASSUME NEW c \in Conns, WriterEnds(c) PROVE QueueBelongsToOwner'
  BY <1>11 DEF WriterEnds, TypeOK, StagesAgree, QueueBelongsToOwner, Hosts, connVars, entryVars, poolVars, reapVars
<1>12. ASSUME NEW c \in Conns, End(c) PROVE QueueBelongsToOwner'
  BY <1>12 DEF End, Release, TypeOK, StagesAgree, QueueBelongsToOwner, Hosts, connVars, entryVars, poolVars, reapVars
<1>13. CASE Tick
  BY <1>13 DEF Tick, TypeOK, StagesAgree, QueueBelongsToOwner, Hosts, connVars, entryVars, poolVars, reapVars
<1>14. CASE ReapExpired
  BY <1>14 DEF ReapExpired, Expired, TypeOK, StagesAgree, QueueBelongsToOwner, Hosts, connVars, entryVars, poolVars, reapVars
<1>15. ASSUME NEW a \in Hosts, UnregisterClient(a) PROVE QueueBelongsToOwner'
  BY <1>15 DEF UnregisterClient, Restrict, TypeOK, StagesAgree, QueueBelongsToOwner, Hosts, connVars, entryVars, poolVars, reapVars
<1>16. CASE ReleaseExpired
  BY <1>16 DEF ReleaseExpired, Release, TypeOK, StagesAgree, QueueBelongsToOwner, Hosts, connVars, entryVars, poolVars, reapVars
<1>17. ASSUME NEW a \in Hosts, LookUp(a) PROVE QueueBelongsToOwner'
  BY <1>17 DEF LookUp, TypeOK, StagesAgree, QueueBelongsToOwner, Hosts, connVars, entryVars, poolVars, reapVars
<1>18. CASE Dispatch
  BY <1>18 DEF Dispatch, Restrict, TypeOK, StagesAgree, QueueBelongsToOwner, Hosts, connVars, entryVars, poolVars, reapVars
<1>19. CASE UNCHANGED vars
  BY <1>19 DEF vars, TypeOK, StagesAgree, QueueBelongsToOwner, Hosts, connVars, entryVars, poolVars, reapVars
<1> QED BY <1>1, <1>2, <1>3, <1>4, <1>5, <1>6, <1>7, <1>8, <1>9, <1>10, <1>11, <1>12, <1>13, <1>14, <1>15, <1>16, <1>17, <1>18, <1>19 DEF Next, Connection, Reaper

-----------------------------------------------------------------------------
(* Every action moves addresses as above, or not at all.                   *)

\* No address moves.
LEMMA NothingMoves ==
  ASSUME PoolAgrees, UNCHANGED <<poolVars, addr, reapVars>>, Owners' = Owners
  PROVE  PoolAgrees'
BY DEF PoolAgrees, poolVars, reapVars

\* release() of an address that was handed out puts it back, once.
LEMMA ReleaseReturns ==
  ASSUME TypeOK, PoolAgrees, NEW a \in 2 .. (next - 1), a \notin Range(freed), Release(a)
  PROVE  next' = next /\ IsInjective(freed') /\ Range(freed') = Range(freed) \cup {a}
<1>1. a \in Hosts /\ freed' = Append(freed, a) /\ next' = next
  BY OwnedIsHost DEF Release
<1> QED BY <1>1, PushProperties DEF TypeOK, PoolAgrees

\* An owner that is not in the registry ends and returns its address.
LEMMA OwnerReturns ==
  ASSUME TypeOK, PoolAgrees, NEW c \in Owners, Release(addr[c]), Owners' = Owners \ {c},
         UNCHANGED <<addr, reapVars>>
  PROVE  PoolAgrees'
<1>1. addr[c] \in 2 .. (next - 1) /\ addr[c] \notin Range(freed)
  BY DEF PoolAgrees, Placed
<1>2. next' = next /\ IsInjective(freed') /\ Range(freed') = Range(freed) \cup {addr[c]}
  BY <1>1, ReleaseReturns
<1>3. Placed(Owners \ {c}, addr, reclaimed, releasing, Range(freed) \cup {addr[c]}, next)
  BY GiveBack, OwnedIsHost DEF PoolAgrees
<1> QED BY <1>2, <1>3 DEF PoolAgrees, reapVars

\* The accept loop takes an address for a connection that had none.
LEMMA AdmitMoves ==
  ASSUME TypeOK, StagesAgree, PoolAgrees, NEW c \in Conns, Admit(c)
  PROVE  PoolAgrees'
<1>1. PICK a \in Hosts : Allocate(a) /\ addr' = [addr EXCEPT ![c] = a]
  BY DEF Admit
<1>2. c \notin Owners /\ Owners' = Owners \cup {c}
  <2>1. stage[c] = "unused" /\ c \notin Owners
    BY DEF Admit, Owners, Reserving, StagesAgree
  <2>2. \A d \in Conns \ {c} : stage'[d] = stage[d] /\ session'[d] = session[d]
    BY DEF Admit, TypeOK
  <2>3. stage'[c] = "admitted" /\ registry' = registry
    BY DEF Admit, TypeOK, entryVars
  <2>4. c \in Reserving' /\ \A d \in Conns \ {c} : d \in Reserving' <=> d \in Reserving
    BY <2>2, <2>3 DEF Reserving
  <2> QED BY <2>1, <2>3, <2>4 DEF Owners, Reserving, TypeOK
<1>3. c \in DOMAIN addr /\ Owners \subseteq DOMAIN addr
  BY DEF TypeOK, Owners, Reserving
<1>4. UNCHANGED <<reclaimed, releasing>>
  BY DEF Admit, reapVars
<1>5. CASE freed # <<>>
  <2>1. a = Last(freed) /\ freed' = Front(freed) /\ next' = next
    BY <1>1, <1>5 DEF Allocate
  <2>2. a \in Range(freed) /\ Range(freed') = Range(freed) \ {a} /\ IsInjective(freed')
    BY <2>1, <1>5, PopProperties DEF TypeOK, PoolAgrees
  <2>3. Placed(Owners \cup {c}, [addr EXCEPT ![c] = a], reclaimed, releasing, Range(freed) \ {a}, next)
    BY <1>2, <1>3, <2>2, TakeFreed, OwnedIsHost DEF PoolAgrees
  <2> QED BY <1>1, <1>2, <1>4, <2>1, <2>2, <2>3 DEF PoolAgrees
<1>6. CASE freed = <<>>
  <2>1. a = next /\ next' = next + 1 /\ freed' = freed
    BY <1>1, <1>6 DEF Allocate
  <2>2. Placed(Owners \cup {c}, [addr EXCEPT ![c] = next], reclaimed, releasing, Range(freed), next + 1)
    BY <1>2, <1>3, TakeNew, OwnedIsHost DEF PoolAgrees
  <2> QED BY <1>1, <1>2, <1>4, <2>1, <2>2 DEF PoolAgrees
<1> QED BY <1>5, <1>6

\* The reaper takes expired entries out of the registry, all at once.
LEMMA ReapMoves ==
  ASSUME TypeOK, StagesAgree, PoolAgrees, ReapExpired
  PROVE  PoolAgrees'
<1>1. Expired \in SUBSET Owners /\ reclaimed = {} /\ releasing = NoAddr
  BY DEF ReapExpired, Expired, Owners
<1>2. Owners' = Owners \ Expired
  BY DEF ReapExpired, Expired, Owners, Reserving, StagesAgree, TypeOK, connVars
<1>3. Placed(Owners \ Expired, addr, {addr[s] : s \in Expired}, NoAddr, Range(freed), next)
  BY <1>1, Expire, OwnedIsHost DEF PoolAgrees
<1> QED BY <1>1, <1>2, <1>3 DEF PoolAgrees, ReapExpired, poolVars, connVars

\* It forgets the queue of one address, which it holds until it is released.
LEMMA UnregisterMoves ==
  ASSUME TypeOK, PoolAgrees, NEW a \in Hosts, UnregisterClient(a)
  PROVE  PoolAgrees'
<1>1. Owners' = Owners
  BY DEF UnregisterClient, Owners, Reserving, connVars, entryVars
<1>2. Placed(Owners, addr, reclaimed \ {a}, a, Range(freed), next)
  BY Bury, OwnedIsHost DEF UnregisterClient, PoolAgrees
<1> QED BY <1>1, <1>2 DEF PoolAgrees, UnregisterClient, poolVars, connVars

\* And releases it.
LEMMA ReleaseMoves ==
  ASSUME TypeOK, PoolAgrees, ReleaseExpired
  PROVE  PoolAgrees'
<1>1. Owners' = Owners
  BY DEF ReleaseExpired, Owners, Reserving, connVars, entryVars
<1>2. releasing \in 2 .. (next - 1) /\ releasing \notin Range(freed)
  BY DEF ReleaseExpired, PoolAgrees, Placed
<1>3. next' = next /\ IsInjective(freed') /\ Range(freed') = Range(freed) \cup {releasing}
  BY <1>2, ReleaseReturns DEF ReleaseExpired
<1>4. Placed(Owners, addr, reclaimed, NoAddr, Range(freed) \cup {releasing}, next)
  BY Return, OwnedIsHost DEF ReleaseExpired, PoolAgrees
<1> QED BY <1>1, <1>3, <1>4 DEF PoolAgrees, ReleaseExpired, connVars

\* Every step leaves every address in one place.
LEMMA NextPool ==
  ASSUME TypeOK, StagesAgree, PoolAgrees, [Next]_vars
  PROVE  PoolAgrees'
<1>1. ASSUME NEW c \in Conns, Admit(c) PROVE PoolAgrees'
  BY <1>1, AdmitMoves
<1>2. ASSUME NEW c \in Conns, Refuse(c) PROVE PoolAgrees'
  <2>1. Owners' = Owners
    BY <1>2 DEF Refuse, Owners, Reserving, Holding, TypeOK, StagesAgree, connVars, entryVars
  <2> QED BY <2>1, <1>2, NothingMoves DEF Refuse, connVars
<1>3. ASSUME NEW c \in Conns, Fail(c) PROVE PoolAgrees'
  <2>1. c \in Owners /\ Owners' = Owners \ {c}
    BY <1>3 DEF Fail, Owners, Reserving, Holding, TypeOK, StagesAgree, entryVars
  <2> QED BY <2>1, <1>3, OwnerReturns DEF Fail
<1>4. ASSUME NEW c \in Conns, Authenticate(c) PROVE PoolAgrees'
  <2>1. Owners' = Owners
    BY <1>4 DEF Authenticate, Owners, Reserving, Holding, TypeOK, StagesAgree, connVars, entryVars
  <2> QED BY <2>1, <1>4, NothingMoves DEF Authenticate, connVars
<1>5. ASSUME NEW c \in Conns, RegisterClient(c) PROVE PoolAgrees'
  <2>1. Owners' = Owners
    BY <1>5 DEF RegisterClient, Owners, Reserving, Holding, TypeOK, StagesAgree, connVars, entryVars
  <2> QED BY <2>1, <1>5, NothingMoves DEF RegisterClient, connVars
<1>6. ASSUME NEW c \in Conns, Insert(c) PROVE PoolAgrees'
  <2>1. Owners' = Owners
    BY <1>6 DEF Insert, Owners, Reserving, Holding, TypeOK, StagesAgree, connVars, entryVars
  <2> QED BY <2>1, <1>6, NothingMoves DEF Insert, connVars
<1>7. ASSUME NEW c \in Conns, NEW s \in Conns, Resume(c, s) PROVE PoolAgrees'
  <2>1. Owners' = Owners
    BY <1>7 DEF Resume, Owners, Reserving, Holding, TypeOK, StagesAgree, connVars, entryVars
  <2> QED BY <2>1, <1>7, NothingMoves DEF Resume, connVars
<1>8. ASSUME NEW c \in Conns, AnswerResume(c) PROVE PoolAgrees'
  <2>1. Owners' = Owners
    BY <1>8 DEF AnswerResume, Owners, Reserving, Holding, TypeOK, StagesAgree, connVars, entryVars
  <2> QED BY <2>1, <1>8, NothingMoves DEF AnswerResume, connVars
<1>9. ASSUME NEW c \in Conns, Attach(c) PROVE PoolAgrees'
  <2>1. Owners' = Owners
    BY <1>9 DEF Attach, Owners, Reserving, Holding, TypeOK, StagesAgree, connVars, entryVars
  <2> QED BY <2>1, <1>9, NothingMoves DEF Attach, connVars
<1>10. ASSUME NEW c \in Conns, Read(c) PROVE PoolAgrees'
  <2>1. Owners' = Owners
    BY <1>10 DEF Read, Owners, Reserving, Holding, TypeOK, StagesAgree, connVars, entryVars
  <2> QED BY <2>1, <1>10, NothingMoves DEF Read, connVars
<1>11. ASSUME NEW c \in Conns, WriterEnds(c) PROVE PoolAgrees'
  <2>1. Owners' = Owners
    BY <1>11 DEF WriterEnds, Owners, Reserving, Holding, TypeOK, StagesAgree, connVars, entryVars
  <2> QED BY <2>1, <1>11, NothingMoves DEF WriterEnds, connVars
<1>12. ASSUME NEW c \in Conns, End(c) PROVE PoolAgrees'
  <2>1. CASE session[c] = c
    <3>1. Owners' = Owners
      BY <1>12, <2>1 DEF End, Owners, Reserving, Holding, TypeOK, StagesAgree, entryVars
    <3> QED BY <3>1, <2>1, <1>12, NothingMoves DEF End
  <2>2. CASE session[c] # c
    <3>1. c \in Owners /\ Owners' = Owners \ {c}
      BY <1>12, <2>2 DEF End, Owners, Reserving, Holding, TypeOK, StagesAgree, entryVars
    <3> QED BY <3>1, <2>2, <1>12, OwnerReturns DEF End
  <2> QED BY <2>1, <2>2
<1>13. CASE Tick
  <2>1. Owners' = Owners
    BY <1>13 DEF Tick, Owners, Reserving, Holding, TypeOK, StagesAgree, connVars, entryVars
  <2> QED BY <2>1, <1>13, NothingMoves DEF Tick, connVars
<1>14. CASE ReapExpired
  BY <1>14, ReapMoves
<1>15. ASSUME NEW a \in Hosts, UnregisterClient(a) PROVE PoolAgrees'
  BY <1>15, UnregisterMoves
<1>16. CASE ReleaseExpired
  BY <1>16, ReleaseMoves
<1>17. ASSUME NEW a \in Hosts, LookUp(a) PROVE PoolAgrees'
  <2>1. Owners' = Owners
    BY <1>17 DEF LookUp, Owners, Reserving, Holding, TypeOK, StagesAgree, connVars, entryVars
  <2> QED BY <2>1, <1>17, NothingMoves DEF LookUp, connVars
<1>18. CASE Dispatch
  <2>1. Owners' = Owners
    BY <1>18 DEF Dispatch, Owners, Reserving, Holding, TypeOK, StagesAgree, connVars, entryVars
  <2> QED BY <2>1, <1>18, NothingMoves DEF Dispatch, connVars
<1>19. CASE UNCHANGED vars
  <2>1. Owners' = Owners
    BY <1>19 DEF vars, Owners, Reserving, Holding, TypeOK, StagesAgree, connVars, entryVars
  <2> QED BY <2>1, <1>19, NothingMoves DEF vars, connVars
<1> QED BY <1>1, <1>2, <1>3, <1>4, <1>5, <1>6, <1>7, <1>8, <1>9, <1>10, <1>11, <1>12, <1>13, <1>14, <1>15, <1>16, <1>17, <1>18, <1>19 DEF Next, Connection, Reaper

-----------------------------------------------------------------------------
(* The theorems.                                                           *)

\* An empty server satisfies the invariant.
LEMMA InitRegistryInv == Init => RegistryInv
<1> SUFFICES ASSUME Init PROVE RegistryInv
  OBVIOUS
<1>1. TypeOK
  BY DEF Init, TypeOK, Holding, Running, NoDispatch
<1>2. StagesAgree
  BY DEF Init, StagesAgree
<1>3. Range(freed) = {} /\ IsInjective(freed) /\ Owners = {}
  BY DEF Init, Range, IsInjective, Owners, Reserving
<1>4. PoolAgrees
  BY <1>3 DEF Init, PoolAgrees, Placed
<1>5. QueueBelongsToOwner
  BY DEF Init, QueueBelongsToOwner
<1> QED BY <1>1, <1>2, <1>4, <1>5 DEF RegistryInv

\* The invariant says what the run checks, in the terms of one address at a time.
LEMMA InvImpliesOnePlace == RegistryInv => AddressInOnePlace
<1> SUFFICES ASSUME RegistryInv PROVE AddressInOnePlace
  OBVIOUS
<1> DEFINE held   == {addr[c] : c \in Owners}
           reaped == reclaimed \cup ({releasing} \ {NoAddr})
<1>1. Reserving \cap registry = {}
  BY DEF RegistryInv, StagesAgree, TypeOK, Reserving
<1>2. IsInjective([c \in Owners |-> addr[c]])
  BY DEF RegistryInv, PoolAgrees, Placed, IsInjective
<1>3. IsInjective(freed) /\ releasing \notin reclaimed
  BY DEF RegistryInv, PoolAgrees, Placed
<1>4. held \cap reaped = {} /\ held \cap Range(freed) = {} /\ reaped \cap Range(freed) = {}
  BY DEF RegistryInv, PoolAgrees, Placed
<1>5. held \cup reaped \cup Range(freed) = 2 .. (next - 1)
  <2>1. NoAddr \notin 2 .. (next - 1)
    BY DEF RegistryInv, TypeOK
  <2> QED BY <2>1 DEF RegistryInv, PoolAgrees, Placed
<1> QED BY <1>1, <1>2, <1>3, <1>4, <1>5 DEF AddressInOnePlace, Owners

\* Stages, sessions, registry, pool, reaper and queues always agree.
THEOREM RegistryAgrees == Spec => []RegistryInv
<1>1. RegistryInv /\ [Next]_vars => RegistryInv'
  BY NextTypes, NextStages, NextPool, NextQueues DEF RegistryInv
<1> QED BY InitRegistryInv, <1>1, PTL DEF Spec

\* The shape of every variable.
THEOREM TypeCorrect == Spec => []TypeOK
BY RegistryAgrees, PTL DEF RegistryInv

\* session.rs, IpAllocator: no address is handed out twice and none leaks, however
\* connections fail, sessions resume and entries expire.
THEOREM AddressInOnePlaceAlways == Spec => []AddressInOnePlace
BY RegistryAgrees, InvImpliesOnePlace, PTL

\* main.rs, reaper: a reply never finds the queue of a session that no longer owns
\* its address, unless the reaper is just burying it.
THEOREM QueueBelongsToOwnerAlways == Spec => []QueueBelongsToOwner
BY RegistryAgrees, PTL DEF RegistryInv
=============================================================================
