---------------------------- MODULE ClientLifecycle ----------------------------
(***************************************************************************)
(* The life of kanrin-client in its process and on its machine, as built   *)
(* for Linux: the calls of the C interface (ffi.rs) on the one client      *)
(* (KanrinClient::new, start, stop, Drop), the runtime and the pipeline    *)
(* task of each start (run_pipeline around its loop, which Uplink,         *)
(* Downlink and Failover model), and what they change outside of it: the   *)
(* TUN device, the default route and the host route to the server.         *)
(*                                                                         *)
(* A task that waits is dropped, with what it owns, once its runtime shuts *)
(* down; between two awaits nothing can stop it, not even the end of the   *)
(* five seconds that stop gives it.                                        *)
(*                                                                         *)
(* An operator whose name starts with Bad is a plausible mistake in the    *)
(* operator that follows it.  No definition of the model uses one.         *)
(***************************************************************************)
EXTENDS Naturals

CONSTANT MaxRuns  \* bound on the successful calls of start

Runs == 1 .. MaxRuns

\* Waiting: run_pipeline is at an await.  The other phases are synchronous.
Waiting == {"connecting", "resolving", "running", "closing"}
Working == {"creating", "saving", "host", "default", "killswitch", "report",
            "undo", "unhost", "unwrap"}
Phases  == {"unborn", "over"} \cup Waiting \cup Working

ASSUME LifecycleAssumption == MaxRuns \in Nat

VARIABLES
  client,   \* CLIENT holds a KanrinClient
  state,    \* its ClientState
  runtime,  \* its runtime, by the run it belongs to; 0 for None
  call,     \* the call that holds the lock of CLIENT, and what it is waiting for
  born,     \* runs so far
  mine,     \* mine[p]: the state that run p writes is the one of this client
  signal,   \* signal[p]: the shutdown channel of p says so, or has lost its sender
  stopping, \* stopping[p]: the runtime of p shuts down
  phase,    \* phase[p]: where run_pipeline is
  dropped,  \* dropped[p]: the task was dropped instead of returning
  fd,       \* fd[p]: its TUN descriptor, "none", "open" or "closed"
  reading,  \* reading[p]: a blocking read of the device is in flight
  saved,    \* saved[p]: RoutingManager::saved
  active,   \* active[p]: KillSwitch::active
  original, \* the default route the machine had: by a gateway or by a link
  route,    \* the default route it has
  hostRoute,\* a route to the server is installed, or one is left that failed to go
  lost,     \* history: a gateway was not read, or not put back, and nobody noticed
  overrun   \* history: a stop has returned before its pipeline had ended

callerVars == <<client, state, runtime, call, born, mine>>
runVars    == <<signal, stopping, phase, dropped>>
ownedVars  == <<fd, reading, saved, active>>
systemVars == <<original, route, hostRoute, lost>>
vars == <<callerVars, runVars, ownedVars, systemVars, overrun>>

Idle == [at |-> "idle", run |-> 0, then |-> "nothing"]

Init ==
  /\ client = FALSE /\ state = "Disconnected" /\ runtime = 0 /\ call = Idle
  /\ born = 0 /\ mine = [p \in Runs |-> FALSE]
  /\ signal = [p \in Runs |-> FALSE] /\ stopping = [p \in Runs |-> FALSE]
  /\ phase = [p \in Runs |-> "unborn"] /\ dropped = [p \in Runs |-> FALSE]
  /\ fd = [p \in Runs |-> "none"] /\ reading = [p \in Runs |-> FALSE]
  /\ saved = [p \in Runs |-> "none"] /\ active = [p \in Runs |-> FALSE]
  /\ original \in {"gateway", "link"}
  /\ route = original /\ hostRoute = "none" /\ lost = FALSE /\ overrun = FALSE

-----------------------------------------------------------------------------
(* The calls of the C interface.  One at a time: each holds the lock.      *)

Free == call = Idle

\* What is left of a call once the client has let go of its runtime:
\* kanrin_init puts a new client in place of the old, kanrin_destroy none.
Finish(then) ==
  /\ call' = Idle
  /\ runtime' = IF then \in {"init", "destroy"} THEN 0 ELSE runtime
  /\ client' = (client /\ then # "destroy")
  /\ mine' = IF then \in {"init", "destroy"} THEN [p \in Runs |-> FALSE] ELSE mine
  /\ state' = IF then = "started" THEN state ELSE "Disconnected"

KanrinInit ==
  /\ Free /\ ~client
  /\ client' = TRUE
  /\ UNCHANGED <<state, runtime, call, born, mine, runVars, ownedVars, systemVars, overrun>>

\* KanrinClient::start.  The old runtime, if the client still holds one, is
\* dropped by the assignment of the new, when the new task is already running.
KanrinStart ==
  /\ Free /\ client /\ state = "Disconnected" /\ born < MaxRuns
  /\ LET p == born + 1
         old == runtime
     IN  /\ born' = p
         /\ phase' = [phase EXCEPT ![p] = "connecting"]
         /\ mine' = [mine EXCEPT ![p] = TRUE]
         /\ runtime' = p
         /\ IF old = 0 THEN UNCHANGED <<call, signal, stopping>>
            ELSE /\ call' = [at |-> "drop", run |-> old, then |-> "started"]
                 /\ signal' = [signal EXCEPT ![old] = TRUE]
                 /\ stopping' = [stopping EXCEPT ![old] = TRUE]
  /\ state' = "Connecting"
  /\ UNCHANGED <<client, dropped, ownedVars, systemVars, overrun>>

\* The runtime could not be built: the state has changed all the same.
KanrinStartFails ==
  /\ Free /\ client /\ state = "Disconnected"
  /\ state' = "Connecting"
  /\ UNCHANGED <<client, runtime, call, born, mine, runVars, ownedVars, systemVars, overrun>>

\* KanrinClient::stop, for kanrin_stop itself, for kanrin_destroy, and for
\* kanrin_init through Drop.  A client that is Disconnected does nothing, but
\* destroy and init then drop it, and with it the runtime it may still hold.
KanrinStop(then) ==
  /\ Free /\ client
  /\ IF state = "Disconnected"
       THEN /\ then # "nothing"
            /\ IF runtime = 0 THEN Finish(then) /\ UNCHANGED <<stopping, signal>>
               ELSE /\ call' = [at |-> "drop", run |-> runtime, then |-> then]
                    /\ stopping' = [stopping EXCEPT ![runtime] = TRUE]
                    /\ UNCHANGED <<client, state, runtime, mine, signal>>
       ELSE IF runtime = 0 THEN Finish(then) /\ UNCHANGED <<stopping, signal>>
       ELSE /\ state' = "Disconnecting"
            /\ signal' = [signal EXCEPT ![runtime] = TRUE]
            /\ call' = [at |-> "signalled", run |-> runtime, then |-> then]
            /\ UNCHANGED <<client, runtime, mine, stopping>>
  /\ UNCHANGED <<born, phase, dropped, ownedVars, systemVars, overrun>>

BeginShutdown ==
  /\ call.at = "signalled"
  /\ stopping' = [stopping EXCEPT ![call.run] = TRUE]
  /\ call' = [call EXCEPT !.at = "stop"]
  /\ runtime' = 0
  /\ UNCHANGED <<client, state, born, mine, signal, phase, dropped, ownedVars, systemVars, overrun>>

\* All tasks of a runtime have ended, and its blocking threads too.
Drained(p) == phase[p] = "over" /\ ~reading[p]

\* shutdown_timeout returns when all is done, or after five seconds.
StopReturns ==
  /\ call.at = "stop"
  /\ overrun' = (overrun \/ phase[call.run] # "over")
  /\ Finish(call.then)
  /\ UNCHANGED <<born, runVars, ownedVars, systemVars>>

\* Drop of a Runtime waits for its blocking threads, however long they take.
DropReturns ==
  /\ call.at = "drop"
  /\ Drained(call.run)
  /\ Finish(call.then)
  /\ UNCHANGED <<born, runVars, ownedVars, systemVars, overrun>>

-----------------------------------------------------------------------------
(* The pipeline of run p.                                                  *)

Goes(p, f) == phase' = [phase EXCEPT ![p] = f]
At(p, f) == phase[p] = f
\* A waiting task goes on only while its runtime does.
Resumes(p, f) == phase[p] = f /\ ~stopping[p]
Writes(p, s) == state' = IF mine[p] THEN s ELSE state
\* (Mistake: the end of a pipeline is not written to the state.)
BadReturns(p, s) == Goes(p, "over") /\ UNCHANGED state
Returns(p, s) == Goes(p, "over") /\ Writes(p, s)
NotCaller == UNCHANGED <<client, runtime, call, born, mine, overrun>>

\* Detection, auto_connect and the handshake.
Connect(p) ==
  /\ Resumes(p, "connecting")
  /\ Goes(p, "creating")
  /\ NotCaller /\ UNCHANGED <<state, signal, stopping, dropped, ownedVars, systemVars>>

ConnectFails(p) ==
  /\ Resumes(p, "connecting")
  /\ Returns(p, "Error")
  /\ NotCaller /\ UNCHANGED <<signal, stopping, dropped, ownedVars, systemVars>>

\* The interface exists until its descriptor is closed and no read is left in it;
\* TUNSETIFF of the same name is refused as long as it does.
DeviceBusy(p) == \E q \in Runs : fd[q] = "open" \/ (fd[q] = "closed" /\ reading[q])

\* (Mistake: the interface is named by a pattern, for which there is always a free name.)
BadCreate(p) ==
  /\ At(p, "creating")
  /\ fd' = [fd EXCEPT ![p] = "open"]
  /\ Goes(p, "resolving")
  /\ NotCaller
  /\ UNCHANGED <<state, signal, stopping, dropped, reading, saved, active, systemVars>>
Create(p) ==
  /\ At(p, "creating")
  /\ IF DeviceBusy(p) THEN Returns(p, "Error") /\ UNCHANGED fd
     ELSE /\ fd' = [fd EXCEPT ![p] = "open"]
          /\ Goes(p, "resolving")
          /\ UNCHANGED state
  /\ NotCaller
  /\ UNCHANGED <<signal, stopping, dropped, reading, saved, active, systemVars>>

\* lookup_host, for a server that is given by name.
Resolve(p) ==
  /\ Resumes(p, "resolving")
  /\ Goes(p, "saving")
  /\ NotCaller /\ UNCHANGED <<state, signal, stopping, dropped, ownedVars, systemVars>>

\* What "ip route show default" says after "via"; a route by a link has none.
DefaultGateway == IF route \in {"gateway", "tun"} THEN route ELSE "no gateway"

\* RoutingManager::activate.  Without a gateway there is no way round the tunnel
\* for the server's packets.  An "ip" that cannot be started leaves the rest
\* undone; one that fails is taken to say that there is no gateway.
SaveRoutes(p) ==
  /\ At(p, "saving")
  /\ \/ /\ saved' = [saved EXCEPT ![p] = DefaultGateway]
        /\ Goes(p, IF DefaultGateway = "no gateway" THEN "default" ELSE "host")
        /\ UNCHANGED lost
     \/ /\ saved' = [saved EXCEPT ![p] = "no gateway"]
        /\ Goes(p, "default")
        /\ lost' = (lost \/ DefaultGateway # "no gateway")
     \/ UNCHANGED <<saved, lost>> /\ Goes(p, "killswitch")
  /\ NotCaller
  /\ UNCHANGED <<state, signal, stopping, dropped, fd, reading, active, original, route, hostRoute>>

\* Only an "ip" that cannot be started is an error; one that fails is not.
AddHostRoute(p) ==
  /\ At(p, "host")
  /\ \/ hostRoute' \in {"present", hostRoute} /\ Goes(p, "default")
     \/ UNCHANGED hostRoute /\ Goes(p, "killswitch")
  /\ NotCaller
  /\ UNCHANGED <<state, signal, stopping, dropped, ownedVars, original, route, lost>>

\* Whatever became of the command, the routes count as activated.
SetDefaultRoute(p) ==
  /\ At(p, "default")
  /\ route' \in {"tun", route}
  /\ Goes(p, "killswitch")
  /\ NotCaller
  /\ UNCHANGED <<state, signal, stopping, dropped, ownedVars, original, hostRoute, lost>>

\* nft is started, or cannot be.  The rules are never written to its input and
\* its exit status is not looked at, so nothing on the machine changes.
ActivateLinux == BOOLEAN

ActivateKillSwitch(p) ==
  /\ At(p, "killswitch")
  /\ \E on \in ActivateLinux : active' = [active EXCEPT ![p] = on]
  /\ Goes(p, "report")
  /\ NotCaller
  /\ UNCHANGED <<state, signal, stopping, dropped, fd, reading, saved, systemVars>>

\* The state is Connected, the reader of the device is spawned, the loop begins.
Report(p) ==
  /\ At(p, "report")
  /\ Writes(p, "Connected")
  /\ reading' = [reading EXCEPT ![p] = TRUE]
  /\ Goes(p, "running")
  /\ NotCaller
  /\ UNCHANGED <<signal, stopping, dropped, fd, saved, active, systemVars>>

\* shutdown_rx.changed(), or MAX_FAILED_SWITCHES: the loop ends.
LeaveLoop(p) ==
  /\ Resumes(p, "running")
  /\ signal[p]
  /\ Goes(p, "closing")
  /\ NotCaller /\ UNCHANGED <<state, signal, stopping, dropped, ownedVars, systemVars>>

GiveUp(p) ==
  /\ Resumes(p, "running")
  /\ Goes(p, "closing")
  /\ NotCaller /\ UNCHANGED <<state, signal, stopping, dropped, ownedVars, systemVars>>

CloseConnection(p) ==
  /\ Resumes(p, "closing")
  /\ Goes(p, "undo")
  /\ NotCaller /\ UNCHANGED <<state, signal, stopping, dropped, ownedVars, systemVars>>

\* (Mistake: RoutingManager and KillSwitch have no Drop.)
BadDropTask(p) ==
  /\ phase[p] \in Waiting /\ stopping[p]
  /\ Goes(p, "over")
  /\ dropped' = [dropped EXCEPT ![p] = TRUE]
  /\ NotCaller /\ UNCHANGED <<state, signal, stopping, ownedVars, systemVars>>

\* The runtime drops the task where it waits, and with it the RoutingManager and
\* the KillSwitch, whose Drop undoes what they did.  LinuxTun has none.
DropTask(p) ==
  /\ phase[p] \in Waiting /\ stopping[p]
  /\ Goes(p, "undo")
  /\ dropped' = [dropped EXCEPT ![p] = TRUE]
  /\ NotCaller /\ UNCHANGED <<state, signal, stopping, ownedVars, systemVars>>

\* (Mistake: what was saved is put back even where it names no gateway.)
BadUndo(p) ==
  /\ At(p, "undo")
  /\ active' = [active EXCEPT ![p] = FALSE]
  /\ route' = saved[p]
  /\ Goes(p, "unhost")
  /\ NotCaller
  /\ UNCHANGED <<state, signal, stopping, dropped, fd, reading, saved, original, hostRoute, lost>>

\* KillSwitch::deactivate and the first half of RoutingManager::deactivate, whose
\* command may fail, or not start, without anybody noticing or trying again.
Undo(p) ==
  /\ At(p, "undo")
  /\ active' = [active EXCEPT ![p] = FALSE]
  /\ IF saved[p] \in {"gateway", "tun"}
       THEN \/ route' = saved[p] /\ UNCHANGED lost
            \/ UNCHANGED route /\ lost' = (lost \/ route # saved[p])
       ELSE UNCHANGED <<route, lost>>
  /\ Goes(p, "unhost")
  /\ NotCaller
  /\ UNCHANGED <<state, signal, stopping, dropped, fd, reading, saved, original, hostRoute>>

\* (Mistake: the host route stays.)
BadRemoveHostRoute(p) ==
  /\ At(p, "unhost")
  /\ saved' = [saved EXCEPT ![p] = "none"]
  /\ Goes(p, IF dropped[p] THEN "over" ELSE "unwrap")
  /\ NotCaller
  /\ UNCHANGED <<state, signal, stopping, dropped, fd, reading, active, systemVars>>

\* The second half.  What was saved is forgotten, whatever became of the commands.
RemoveHostRoute(p) ==
  /\ At(p, "unhost")
  /\ hostRoute' \in IF saved[p] = "none" THEN {hostRoute}
                   ELSE {"none", IF hostRoute = "none" THEN "none" ELSE "left"}
  /\ saved' = [saved EXCEPT ![p] = "none"]
  /\ Goes(p, IF dropped[p] THEN "over" ELSE "unwrap")
  /\ NotCaller
  /\ UNCHANGED <<state, signal, stopping, dropped, fd, reading, active, original, route, lost>>

\* The kernel takes the routes of an interface away with it.
RouteWithout(device) == IF device /\ route = "tun" THEN "none" ELSE route

\* tun_reader.abort() and Arc::try_unwrap: the device is closed only if the
\* aborted task has already let go of its clone.  A read in flight goes on.
Unwrap(p) ==
  /\ At(p, "unwrap")
  /\ \/ UNCHANGED <<fd, route>>
     \/ /\ fd' = [fd EXCEPT ![p] = "closed"]
        /\ route' = RouteWithout(~reading[p])
  /\ Returns(p, "Disconnected")
  /\ NotCaller
  /\ UNCHANGED <<signal, stopping, dropped, reading, saved, active, original, hostRoute, lost>>

\* A packet ends the read; there is no task left to start the next one.
ReadReturns(p) ==
  /\ reading[p] /\ phase[p] = "over"
  /\ reading' = [reading EXCEPT ![p] = FALSE]
  /\ route' = RouteWithout(fd[p] = "closed")
  /\ NotCaller
  /\ UNCHANGED <<state, runVars, fd, saved, active, original, hostRoute, lost>>

-----------------------------------------------------------------------------
Pipeline(p) ==
  \/ Connect(p) \/ Create(p) \/ Resolve(p) \/ SaveRoutes(p) \/ AddHostRoute(p)
  \/ SetDefaultRoute(p) \/ ActivateKillSwitch(p) \/ Report(p) \/ LeaveLoop(p)
  \/ CloseConnection(p) \/ DropTask(p) \/ Undo(p) \/ RemoveHostRoute(p) \/ Unwrap(p)

Caller == BeginShutdown \/ StopReturns \/ DropReturns

Next ==
  \/ Caller \/ KanrinInit \/ KanrinStart \/ KanrinStartFails
  \/ \E then \in {"nothing", "init", "destroy"} : KanrinStop(then)
  \/ \E p \in Runs : Pipeline(p) \/ ConnectFails(p) \/ GiveUp(p) \/ ReadReturns(p)

Spec == Init /\ [][Next]_vars

\* Threads run and time passes; nobody owes a call, a failure or a packet.
FairSpec == Spec /\ WF_vars(Caller) /\ \A p \in Runs : WF_vars(Pipeline(p))

-----------------------------------------------------------------------------
(* Properties.                                                             *)

\* The shape of every variable.
TypeOK ==
  /\ {client, lost, overrun} \subseteq BOOLEAN
  /\ state \in {"Disconnected", "Connecting", "Connected", "Disconnecting", "Error"}
  /\ runtime \in 0 .. born /\ born \in 0 .. MaxRuns
  /\ call \in [at : {"idle", "signalled", "stop", "drop"}, run : 0 .. MaxRuns,
               then : {"nothing", "init", "destroy", "started"}]
  /\ {mine, signal, stopping, dropped, reading, active} \subseteq [Runs -> BOOLEAN]
  /\ phase \in [Runs -> Phases]
  /\ fd \in [Runs -> {"none", "open", "closed"}]
  /\ saved \in [Runs -> {"none", "no gateway", "gateway", "tun"}]
  /\ original \in {"gateway", "link"}
  /\ route \in {"gateway", "link", "tun", "none"}
  /\ hostRoute \in {"none", "present", "left"}

Over(p) == phase[p] \in {"unborn", "over"}

\* routing.rs, deactivate: "Restore original routing table."  Whatever calls were
\* made and wherever they caught their pipelines, once all of these have ended
\* the machine has its default route back and the route to the server is gone.
\* Where that fails, an "ip route" for this very route has failed, which nobody
\* notices and no later run makes good; or the default route had no gateway,
\* which deactivate does not restore.
NetworkRestored ==
  (\A p \in Runs : Over(p)) =>
    /\ hostRoute # "present"
    /\ original = "gateway" /\ ~lost => route = original

\* Runs overlap when a stop gives up waiting, but never in the routes: the TUN
\* name, the same for every run here, keeps a second run out until the first has
\* put them back, so that no run saves the tunnel of another as the route to
\* restore, not even when putting them back failed.
RoutesHaveOneOwner ==
  /\ \A p, q \in Runs : saved[p] # "none" /\ saved[q] # "none" => p = q
  /\ \A p \in Runs : saved[p] # "tun"

\* lib.rs, ClientState: unless a stop gave up on a pipeline, which goes on to
\* write its state, a client that is not in a call and says Connected has a
\* pipeline that has set up its device and has not yet put everything back.
ConnectedIsTrue ==
  (Free /\ state = "Connected" /\ ~overrun) =>
    runtime # 0 /\ phase[runtime] \in {"running", "closing", "undo", "unhost", "unwrap"}

\* Whenever a pipeline is told to stop, the machine gets its route back, even if
\* the pipeline was in the middle of taking it and whatever calls come next; or
\* the command that should have done so has failed.
RouteComesBack == (original = "gateway" /\ call.at = "stop") ~> (route = original \/ lost)
=============================================================================
