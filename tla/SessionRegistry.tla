--------------------------- MODULE SessionRegistry ---------------------------
(***************************************************************************)
(* The server's bookkeeping of kanrin-server: the accept loop and its      *)
(* IpAllocator, one task per connection that creates or resumes a session, *)
(* the SessionRegistry with its reaper, and the reply queues and           *)
(* dispatcher of the PacketForwarder.  What the connections carry is the   *)
(* subject of Uplink and Downlink.                                         *)
(*                                                                         *)
(* A session is named by the connection that created it, so addr[s] is     *)
(* also the assigned_ip of its entry.  An operator whose name starts with  *)
(* Bad is a plausible mistake that no definition of the model uses.        *)
(***************************************************************************)
EXTENDS Integers, FiniteSets, Sequences, SequencesExt, Functions

CONSTANTS
  Conns,       \* the connections accepted over the server's life (a bound)
  NoConn,      \* no session, no connection
  HostEnd,     \* host octets 2 .. HostEnd-1 can be handed out (254 in the code)
  MaxClients,  \* ServerConfig::max_clients
  Linger       \* SESSION_LINGER, in ticks of the clock

ASSUME RegistryAssumption ==
  /\ NoConn \notin Conns
  /\ HostEnd \in Nat /\ MaxClients \in Nat /\ Linger \in Nat

Hosts == 2 .. (HostEnd - 1)
NoAddr == 0

VARIABLES
  next,        \* AllocatorState::next
  freed,       \* AllocatorState::freed, a stack
  stage,       \* stage[c]: how far the task of connection c has come
  addr,        \* addr[c]: the address reserved for c when it was accepted
  session,     \* session[c]: the session whose entry c holds
  registry,    \* SessionRegistry::entries
  attached,    \* attached[s]: the connection whose writer handle s holds
  writing,     \* the connections whose writer task has not finished
  idle,        \* idle[s]: SessionEntry::idle_for, capped above Linger
  clients,     \* PacketForwarder::clients: the session whose queue serves an address
  dispatching, \* the sender cloned by the dispatcher and its address
  reclaimed,   \* the reaper: expired addresses still to unregister
  releasing    \* the reaper: the address unregistered and not yet released

poolVars  == <<next, freed>>
connVars  == <<stage, addr, session>>
entryVars == <<registry, attached, writing, idle>>
reapVars  == <<reclaimed, releasing>>
vars == <<poolVars, connVars, entryVars, clients, dispatching, reapVars>>

\* The stages in which the task of a connection holds a session's entry.
Holding == {"registered", "resuming", "attaching", "serving"}
\* Those in which the task runs at all, and counts in active_clients.
Running == {"admitted", "authenticated"} \cup Holding

ActiveClients == Cardinality({c \in Conns : stage[c] \in Running})

NoDispatch == [addr |-> NoAddr, to |-> NoConn]

Init ==
  /\ next = 2 /\ freed = <<>>
  /\ stage = [c \in Conns |-> "unused"]
  /\ addr = [c \in Conns |-> NoAddr]
  /\ session = [c \in Conns |-> NoConn]
  /\ registry = {} /\ writing = {}
  /\ attached = [c \in Conns |-> NoConn]
  /\ idle = [c \in Conns |-> 0]
  /\ clients = <<>>
  /\ dispatching = NoDispatch
  /\ reclaimed = {} /\ releasing = NoAddr

-----------------------------------------------------------------------------
(* The address pool and the accept loop.                                   *)

\* (Mistake: a freed address is read and not removed.)
BadAllocate(a) ==
  IF freed # <<>> THEN a = Last(freed) /\ UNCHANGED <<next, freed>>
  ELSE next < HostEnd /\ a = next /\ next' = next + 1 /\ UNCHANGED freed
Allocate(a) ==
  IF freed # <<>> THEN a = Last(freed) /\ freed' = Front(freed) /\ UNCHANGED next
  ELSE next < HostEnd /\ a = next /\ next' = next + 1 /\ UNCHANGED freed

Exhausted == freed = <<>> /\ next >= HostEnd

Release(a) ==
  /\ freed' = IF a \in Hosts /\ a \notin Range(freed) THEN Append(freed, a) ELSE freed
  /\ UNCHANGED next

Admit(c) ==
  /\ stage[c] = "unused"
  /\ ActiveClients < MaxClients
  /\ \E a \in Hosts : Allocate(a) /\ addr' = [addr EXCEPT ![c] = a]
  /\ stage' = [stage EXCEPT ![c] = "admitted"]
  /\ UNCHANGED <<session, entryVars, clients, dispatching, reapVars>>

\* Every connection takes a slot and an address, a resuming one too.
Refuse(c) ==
  /\ stage[c] = "unused"
  /\ ActiveClients >= MaxClients \/ Exhausted
  /\ stage' = [stage EXCEPT ![c] = "ended"]
  /\ UNCHANGED <<poolVars, addr, session, entryVars, clients, dispatching, reapVars>>

-----------------------------------------------------------------------------
(* One connection: ClientSession::run, accept_new, accept_resume, serve.   *)

\* (Mistake: the entry is not given up with the connection.)
BadFail(c) ==
  /\ stage[c] \in {"admitted", "resuming"}
  /\ stage' = [stage EXCEPT ![c] = "ended"]
  /\ Release(addr[c])
  /\ UNCHANGED <<addr, session, entryVars, clients, dispatching, reapVars>>

\* A web visitor leaves, the handshake or the authentication fails, a resume
\* names no live session or fails its proof, or a write fails: the reserved
\* address goes back.
Fail(c) ==
  /\ stage[c] \in {"admitted", "resuming"}
  /\ stage' = [stage EXCEPT ![c] = "ended"]
  /\ session' = [session EXCEPT ![c] = NoConn]
  /\ Release(addr[c])
  /\ UNCHANGED <<addr, entryVars, clients, dispatching, reapVars>>

\* ServerFinished has been sent.
Authenticate(c) ==
  /\ stage[c] = "admitted"
  /\ stage' = [stage EXCEPT ![c] = "authenticated"]
  /\ UNCHANGED <<poolVars, addr, session, entryVars, clients, dispatching, reapVars>>

RegisterClient(c) ==
  /\ stage[c] = "authenticated"
  /\ clients' = [a \in DOMAIN clients \cup {addr[c]} |->
                   IF a = addr[c] THEN c ELSE clients[a]]
  /\ session' = [session EXCEPT ![c] = c]
  /\ stage' = [stage EXCEPT ![c] = "registered"]
  /\ UNCHANGED <<poolVars, addr, entryVars, dispatching, reapVars>>

Insert(c) ==
  /\ stage[c] = "registered"
  /\ registry' = registry \cup {c}
  /\ idle' = [idle EXCEPT ![c] = 0]
  /\ stage' = [stage EXCEPT ![c] = "attaching"]
  /\ UNCHANGED <<poolVars, addr, session, attached, writing, clients, dispatching, reapVars>>

\* accept_resume finds the entry and verifies the proof; nothing marks the
\* entry as wanted until serve attaches.
Resume(c, s) ==
  /\ stage[c] = "admitted"
  /\ s \in registry
  /\ session' = [session EXCEPT ![c] = s]
  /\ stage' = [stage EXCEPT ![c] = "resuming"]
  /\ UNCHANGED <<poolVars, addr, entryVars, clients, dispatching, reapVars>>

AnswerResume(c) ==
  /\ stage[c] = "resuming"
  /\ stage' = [stage EXCEPT ![c] = "attaching"]
  /\ UNCHANGED <<poolVars, addr, session, entryVars, clients, dispatching, reapVars>>

\* After the replay: the writer task is spawned and attach() aborts the one
\* attached before.
Attach(c) ==
  /\ stage[c] = "attaching"
  /\ stage' = [stage EXCEPT ![c] = "serving"]
  /\ writing' = (writing \ {attached[session[c]]}) \cup {c}
  /\ attached' = [attached EXCEPT ![session[c]] = c]
  /\ idle' = [idle EXCEPT ![session[c]] = 0]
  /\ UNCHANGED <<poolVars, addr, session, registry, clients, dispatching, reapVars>>

\* A frame of the client arrives and touches the entry.
Read(c) ==
  /\ stage[c] = "serving"
  /\ idle' = [idle EXCEPT ![session[c]] = 0]
  /\ UNCHANGED <<poolVars, connVars, registry, attached, writing, clients, dispatching, reapVars>>

\* The writer ends by itself when a write fails, and when the forwarder has
\* dropped the queue it reads.
WriterEnds(c) ==
  /\ c \in writing
  /\ writing' = writing \ {c}
  /\ UNCHANGED <<poolVars, connVars, registry, attached, idle, clients, dispatching, reapVars>>

\* (Mistake: the writer of a connection is left running.)
BadEnd(c) ==
  /\ stage[c] = "serving"
  /\ stage' = [stage EXCEPT ![c] = "ended"]
  /\ idle' = [idle EXCEPT ![session[c]] = 0]
  /\ IF session[c] = c THEN UNCHANGED poolVars ELSE Release(addr[c])
  /\ session' = [session EXCEPT ![c] = NoConn]
  /\ UNCHANGED <<addr, registry, attached, writing, clients, dispatching, reapVars>>

\* The reader loop ends.  A connection that created its session leaves the
\* address to the entry; one that resumed a session returns its own.
End(c) ==
  /\ stage[c] = "serving"
  /\ stage' = [stage EXCEPT ![c] = "ended"]
  /\ writing' = writing \ {c}
  /\ idle' = [idle EXCEPT ![session[c]] = 0]
  /\ IF session[c] = c THEN UNCHANGED poolVars ELSE Release(addr[c])
  /\ session' = [session EXCEPT ![c] = NoConn]
  /\ UNCHANGED <<addr, registry, attached, clients, dispatching, reapVars>>

-----------------------------------------------------------------------------
(* The reaper.                                                             *)

\* A new session has nothing to replay, so it is attached within a tick; the
\* replay of a resumed one takes as long as its link needs.
Tick ==
  /\ \A c \in registry : stage[c] = "attaching" => idle[c] = 0
  /\ idle' = [s \in Conns |->
                IF s \in registry /\ idle[s] <= Linger THEN idle[s] + 1 ELSE idle[s]]
  /\ idle' # idle
  /\ UNCHANGED <<poolVars, connVars, registry, attached, writing, clients, dispatching, reapVars>>

IsAttached(s) == attached[s] \in writing

Expired == {s \in registry : ~IsAttached(s) /\ idle[s] > Linger}

ReapExpired ==
  /\ reclaimed = {} /\ releasing = NoAddr
  /\ Expired # {}
  /\ registry' = registry \ Expired
  /\ reclaimed' = {addr[s] : s \in Expired}
  /\ UNCHANGED <<poolVars, connVars, attached, writing, idle, clients, dispatching, releasing>>

\* (Mistake: the address is released before its queue is dropped.)
BadUnregisterClient(a) ==
  /\ releasing = NoAddr /\ a \in reclaimed
  /\ Release(a)
  /\ reclaimed' = reclaimed \ {a} /\ releasing' = a
  /\ UNCHANGED <<connVars, entryVars, clients, dispatching>>
UnregisterClient(a) ==
  /\ releasing = NoAddr /\ a \in reclaimed
  /\ clients' = Restrict(clients, DOMAIN clients \ {a})
  /\ reclaimed' = reclaimed \ {a} /\ releasing' = a
  /\ UNCHANGED <<poolVars, connVars, entryVars, dispatching>>

ReleaseExpired ==
  /\ releasing # NoAddr
  /\ Release(releasing)
  /\ releasing' = NoAddr
  /\ UNCHANGED <<connVars, entryVars, clients, dispatching, reclaimed>>

-----------------------------------------------------------------------------
(* The dispatcher of reply packets.                                        *)

\* A packet for address a: its sender is cloned and the lock dropped.
LookUp(a) ==
  /\ dispatching = NoDispatch
  /\ a \in DOMAIN clients
  /\ dispatching' = [addr |-> a, to |-> clients[a]]
  /\ UNCHANGED <<poolVars, connVars, entryVars, clients, reapVars>>

\* The receiver of a session's queue lives as long as its entry: in the
\* registry, or in the hands of a connection.
QueueAlive(s) == s \in registry \/ \E c \in Conns : session[c] = s

\* A send that fails removes whatever queue the address has by now.
Dispatch ==
  /\ dispatching # NoDispatch
  /\ clients' = IF QueueAlive(dispatching.to) THEN clients
                ELSE Restrict(clients, DOMAIN clients \ {dispatching.addr})
  /\ dispatching' = NoDispatch
  /\ UNCHANGED <<poolVars, connVars, entryVars, reapVars>>

-----------------------------------------------------------------------------
Connection(c) ==
  \/ Admit(c) \/ Refuse(c) \/ Fail(c) \/ Authenticate(c) \/ RegisterClient(c) \/ Insert(c)
  \/ \E s \in Conns : Resume(c, s)
  \/ AnswerResume(c) \/ Attach(c) \/ Read(c) \/ WriterEnds(c) \/ End(c)

Reaper == ReapExpired \/ (\E a \in Hosts : UnregisterClient(a)) \/ ReleaseExpired

Next ==
  \/ \E c \in Conns : Connection(c)
  \/ Tick
  \/ Reaper
  \/ \E a \in Hosts : LookUp(a)
  \/ Dispatch

Spec == Init /\ [][Next]_vars

\* The clock and the reaper keep going; what clients do is left to chance.
FairSpec == Spec /\ WF_vars(Tick) /\ WF_vars(Reaper)

-----------------------------------------------------------------------------
(* Properties.                                                             *)

\* The shape of every variable; a queue or an entry exists only for a session
\* that was given an address.
TypeOK ==
  /\ next \in 2 .. HostEnd \/ next = 2
  /\ freed \in Seq(Hosts)
  /\ stage \in [Conns -> Running \cup {"unused", "ended"}]
  /\ addr \in [Conns -> Hosts \cup {NoAddr}]
  /\ session \in [Conns -> Conns \cup {NoConn}]
  /\ \A c \in Conns : session[c] # NoConn <=> stage[c] \in Holding
  /\ registry \subseteq Conns /\ writing \subseteq Conns
  /\ attached \in [Conns -> Conns \cup {NoConn}]
  /\ idle \in [Conns -> 0 .. (Linger + 1)]
  /\ DOMAIN clients \subseteq Hosts /\ clients \in [DOMAIN clients -> Conns]
  /\ dispatching \in [addr : Hosts \cup {NoAddr}, to : Conns \cup {NoConn}]
  /\ reclaimed \subseteq Hosts /\ releasing \in Hosts \cup {NoAddr}

\* The connections that hold the address reserved for them: until a session
\* takes it over, or until they end.
Reserving ==
  {c \in Conns : \/ stage[c] \in {"admitted", "authenticated", "registered"}
                 \/ stage[c] \in {"resuming", "attaching", "serving"} /\ session[c] # c}

\* Every address handed out so far is in exactly one place: reserved by one
\* connection, owned by one registry entry, in the hands of the reaper, or
\* back in the pool, once.  None is handed out twice and none leaks, however
\* connections fail, sessions resume and entries expire.
AddressInOnePlace ==
  LET owners == Reserving \cup registry
      held   == {addr[c] : c \in owners}
      reaped == reclaimed \cup ({releasing} \ {NoAddr})
  IN  /\ Reserving \cap registry = {} /\ IsInjective([c \in owners |-> addr[c]])
      /\ IsInjective(freed) /\ releasing \notin reclaimed
      /\ held \cap reaped = {} /\ held \cap Range(freed) = {} /\ reaped \cap Range(freed) = {}
      /\ held \cup reaped \cup Range(freed) = 2 .. (next - 1)

\* main.rs, reaper: "Unregister before releasing: otherwise the forwarder
\* would still hold a queue for an address about to be handed to a different
\* client."  A queue belongs to the session that owns its address, or to one
\* the reaper is still burying.
QueueBelongsToOwner ==
  \A a \in DOMAIN clients :
    LET s == clients[a]
    IN  addr[s] = a /\ (s \in registry \/ stage[s] = "registered" \/ a \in reclaimed)

\* Once no connection is left, every address comes back to the pool.
PoolRefills ==
  (\A c \in Conns : stage[c] \in {"unused", "ended"})
    ~> (Range(freed) = 2 .. (next - 1) \/ \E c \in Conns : stage[c] \in Running)
=============================================================================
