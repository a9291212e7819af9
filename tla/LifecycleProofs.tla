---------------------------- MODULE LifecycleProofs ----------------------------
(***************************************************************************)
(* Theorems about ClientLifecycle, for any number of starts: routes have   *)
(* one owner, and the network is restored unless a command for that failed *)
(* unnoticed.  Both rest on RouteInv, whose core is that the TUN device    *)
(* belongs to one run at a time and that every change of the routes is     *)
(* owed by the run that holds it until it has tried to undo it.            *)
(***************************************************************************)
EXTENDS ClientLifecycle, TLAPS

\* Run p keeps the interface in existence.
Holds(p) == fd[p] = "open" \/ (fd[p] = "closed" /\ reading[p])

\* The phases between the creation of the device and the end of the loop, those
\* in which routes may have been saved, those in which they may have been set.
SetUp  == {"resolving", "saving", "host", "default", "killswitch", "report", "running", "closing"}
Saving == {"host", "default", "killswitch", "report", "running", "closing", "undo", "unhost"}
Taking == {"killswitch", "report", "running", "closing", "undo"}
Taken  == Taking \cup {"unhost", "unwrap", "over"}

RouteTypes ==
  /\ born \in 0 .. MaxRuns
  /\ phase \in [Runs -> Phases] /\ dropped \in [Runs -> BOOLEAN]
  /\ fd \in [Runs -> {"none", "open", "closed"}] /\ reading \in [Runs -> BOOLEAN]
  /\ saved \in [Runs -> {"none", "no gateway", "gateway", "tun"}]
  /\ route \in {"gateway", "link", "tun", "none"} /\ original \in {"gateway", "link"}
  /\ hostRoute \in {"none", "present", "left"} /\ lost \in BOOLEAN

\* A run that has not been started has done nothing.
UnbornWaits == \A p \in Runs : p > born => phase[p] = "unborn"

\* A run that is being set up, or still undoes its routes itself, has its device
\* open, and nobody reads from a device that was never created.
DeviceIsOpen ==
  \A p \in Runs :
    /\ phase[p] \in SetUp \cup {"unwrap"} => fd[p] = "open"
    /\ phase[p] \in {"undo", "unhost"} /\ ~dropped[p] => fd[p] = "open"
    /\ reading[p] => fd[p] # "none"

\* The name of the interface is taken while any run holds it.
OneDevice == \A p, q \in Runs : Holds(p) /\ Holds(q) => p = q

\* Saved routes belong to a run that holds its device, and are never the tunnel.
SavedWithDevice ==
  \A p \in Runs :
    /\ saved[p] # "none" => fd[p] = "open" /\ phase[p] \in Saving /\ saved[p] # "tun"
    /\ phase[p] \in {"host", "default"} =>
         saved[p] # "none" /\ (original = "gateway" => saved[p] = "gateway" \/ lost)

\* A default route through the tunnel needs the interface.
TunIsHeld == route = "tun" => \E q \in Runs : Holds(q) /\ phase[q] \in Taken

\* Whoever has taken the default route of a gateway will try to put it back.
GatewayIsOwed ==
  original = "gateway" /\ ~lost =>
    \/ route = "gateway"
    \/ route = "tun" /\ \E q \in Runs : saved[q] = "gateway" /\ phase[q] \in Taking

\* The run that added the route to the server has yet to try and remove it.
HostRouteIsOwed ==
  hostRoute = "present" => \E q \in Runs : saved[q] # "none" /\ phase[q] \in Saving \ {"host"}

RouteInv ==
  /\ RouteTypes /\ UnbornWaits /\ DeviceIsOpen /\ OneDevice
  /\ SavedWithDevice /\ TunIsHeld /\ GatewayIsOwed /\ HostRouteIsOwed

pipelineVars == <<born, phase, dropped, fd, reading, saved, systemVars>>

USE LifecycleAssumption DEF Runs

-----------------------------------------------------------------------------
(* RouteInv is inductive.                                                  *)

\* At the start no run has been born and the machine has its own route.
LEMMA InitRouteInv == Init => RouteInv
<1> SUFFICES ASSUME Init PROVE RouteInv
  OBVIOUS
<1>0. born \in 0 .. MaxRuns /\ UnbornWaits
  <2>1. born = 0 /\ phase = [p \in Runs |-> "unborn"]
    BY DEF Init
  <2> QED
    BY <2>1 DEF UnbornWaits
<1>1. /\ route \in {"gateway", "link", "tun", "none"} /\ original \in {"gateway", "link"}
      /\ hostRoute \in {"none", "present", "left"} /\ lost \in BOOLEAN
  BY DEF Init
<1>2. /\ phase \in [Runs -> Phases] /\ fd \in [Runs -> {"none", "open", "closed"}]
      /\ saved \in [Runs -> {"none", "no gateway", "gateway", "tun"}]
      /\ dropped \in [Runs -> BOOLEAN] /\ reading \in [Runs -> BOOLEAN]
  BY DEF Init, Phases
<1>3. DeviceIsOpen /\ OneDevice /\ SavedWithDevice
  BY DEF Init, DeviceIsOpen, OneDevice, SavedWithDevice, Holds, SetUp
<1>4. TunIsHeld /\ GatewayIsOwed /\ HostRouteIsOwed
  BY DEF Init, TunIsHeld, GatewayIsOwed, HostRouteIsOwed
<1> QED
  BY <1>0, <1>1, <1>2, <1>3, <1>4 DEF RouteInv, RouteTypes

\* Most calls change nothing that RouteInv speaks of.
LEMMA Undisturbed ==
  ASSUME RouteInv, UNCHANGED pipelineVars
  PROVE  RouteInv'
BY DEF RouteInv, RouteTypes, UnbornWaits, DeviceIsOpen, OneDevice, SavedWithDevice,
       TunIsHeld, GatewayIsOwed, HostRouteIsOwed, Holds, pipelineVars, systemVars

\* A run that goes on without touching anything else.
LEMMA PhaseMoves ==
  ASSUME RouteInv, NEW p \in Runs, NEW f, phase' = [phase EXCEPT ![p] = f],
         <<phase[p], f>> \in {<<"connecting", "creating">>, <<"connecting", "over">>,
                             <<"creating", "over">>, <<"resolving", "saving">>,
                             <<"saving", "killswitch">>, <<"killswitch", "report">>,
                             <<"running", "closing">>, <<"closing", "undo">>},
         UNCHANGED <<born, dropped, fd, reading, saved, systemVars>>
  PROVE  RouteInv'
<1>1. RouteTypes'
  BY DEF systemVars, RouteInv,
         RouteTypes, Phases, Waiting, Working
<1>2. UnbornWaits' /\ DeviceIsOpen' /\ OneDevice'
  BY DEF systemVars, RouteInv,
         RouteTypes, UnbornWaits, DeviceIsOpen, OneDevice, Holds, SetUp
<1>3. SavedWithDevice'
  BY DEF systemVars, RouteInv,
         RouteTypes, DeviceIsOpen, SavedWithDevice, SetUp, Saving
<1>4. TunIsHeld' /\ GatewayIsOwed' /\ HostRouteIsOwed'
  BY ZenonT(60) DEF systemVars, RouteInv,
         RouteTypes, DeviceIsOpen, OneDevice, SavedWithDevice, TunIsHeld, GatewayIsOwed, HostRouteIsOwed,
         Holds, SetUp, Saving, Taking, Taken
<1> QED
  BY <1>1, <1>2, <1>3, <1>4 DEF RouteInv

\* The steps that only move on, whether they succeed or end the run.
LEMMA MovesKeep ==
  ASSUME RouteInv, NEW p \in Runs,
         \/ Connect(p) \/ ConnectFails(p) \/ Resolve(p) \/ LeaveLoop(p)
         \/ GiveUp(p) \/ CloseConnection(p) \/ ActivateKillSwitch(p)
  PROVE  RouteInv'
<1>1. CASE Connect(p)
  BY <1>1, PhaseMoves DEF Connect, Resumes, Returns, Goes, NotCaller, ownedVars
<1>2. CASE ConnectFails(p)
  BY <1>2, PhaseMoves DEF ConnectFails, Resumes, Returns, Goes, NotCaller, ownedVars
<1>3. CASE Resolve(p)
  BY <1>3, PhaseMoves DEF Resolve, Resumes, Returns, Goes, NotCaller, ownedVars
<1>4. CASE LeaveLoop(p)
  BY <1>4, PhaseMoves DEF LeaveLoop, Resumes, Returns, Goes, NotCaller, ownedVars
<1>5. CASE GiveUp(p)
  BY <1>5, PhaseMoves DEF GiveUp, Resumes, Returns, Goes, NotCaller, ownedVars
<1>6. CASE CloseConnection(p)
  BY <1>6, PhaseMoves DEF CloseConnection, Resumes, Returns, Goes, NotCaller, ownedVars
<1>7. CASE ActivateKillSwitch(p)
  BY <1>7, PhaseMoves DEF ActivateKillSwitch, At, Goes, NotCaller
<1> QED
  BY <1>1, <1>2, <1>3, <1>4, <1>5, <1>6, <1>7

\* A run is born: no run holds anything under its number yet.
LEMMA KanrinStartKeeps ==
  ASSUME RouteInv, KanrinStart
  PROVE  RouteInv'
<1> DEFINE p == born + 1
<1>0. p \in Runs /\ phase[p] = "unborn"
  <2>1. born < MaxRuns
    BY DEF KanrinStart
  <2>2. born \in 0 .. MaxRuns /\ \A q \in Runs : q > born => phase[q] = "unborn"
    BY DEF RouteInv, RouteTypes, UnbornWaits
  <2> QED
    BY <2>1, <2>2
<1>a. /\ born' = p /\ phase' = [phase EXCEPT ![p] = "connecting"]
      /\ UNCHANGED <<dropped, fd, reading, saved, systemVars>>
  BY DEF KanrinStart, ownedVars
<1>b. born' \in 0 .. MaxRuns /\ \A q \in Runs : q > born' => q > born /\ q # p
  <2>1. born \in 0 .. MaxRuns
    BY DEF RouteInv, RouteTypes
  <2>2. born' = born + 1 /\ born + 1 \in 1 .. MaxRuns
    BY <1>0, <1>a DEF p
  <2> QED
    BY <2>1, <2>2 DEF p
<1> HIDE DEF p
<1>1. RouteTypes'
  BY <1>0, <1>a, <1>b DEF systemVars, RouteInv,
         RouteTypes, Phases, Waiting, Working
<1>2. UnbornWaits' /\ DeviceIsOpen' /\ OneDevice'
  BY <1>0, <1>a, <1>b DEF systemVars, RouteInv,
         RouteTypes, UnbornWaits, DeviceIsOpen, OneDevice, Holds, SetUp
<1>3. SavedWithDevice'
  BY <1>0, <1>a, <1>b DEF systemVars, RouteInv,
         RouteTypes, DeviceIsOpen, SavedWithDevice, SetUp, Saving
<1>4. TunIsHeld' /\ GatewayIsOwed' /\ HostRouteIsOwed'
  BY <1>0, <1>a, <1>b DEF systemVars, RouteInv,
         RouteTypes, DeviceIsOpen, OneDevice, SavedWithDevice, TunIsHeld, GatewayIsOwed, HostRouteIsOwed,
         Holds, SetUp, Saving, Taking, Taken
<1> QED
  BY <1>1, <1>2, <1>3, <1>4 DEF RouteInv

\* The device is created only while no run holds one, so it is not shared; and no
\* route is owed then.
LEMMA CreateKeeps ==
  ASSUME RouteInv, NEW p \in Runs, Create(p)
  PROVE  RouteInv'
<1>1. CASE DeviceBusy(p)
  BY <1>1, PhaseMoves DEF Create, At, Returns, Goes, NotCaller
<1>2. CASE ~DeviceBusy(p)
  <2>a. \A q \in Runs : ~Holds(q)
    BY <1>2 DEF DeviceBusy, Holds
  <2>b. /\ phase[p] = "creating" /\ phase' = [phase EXCEPT ![p] = "resolving"]
        /\ fd' = [fd EXCEPT ![p] = "open"]
        /\ UNCHANGED <<born, dropped, reading, saved, systemVars>>
    BY <1>2 DEF Create, At, Goes, NotCaller
  <2>1. RouteTypes'
    BY <2>a, <2>b DEF systemVars, RouteInv,
           RouteTypes, Phases, Waiting, Working
  <2>2. UnbornWaits' /\ DeviceIsOpen' /\ OneDevice'
    BY <2>a, <2>b DEF systemVars, RouteInv,
           RouteTypes, UnbornWaits, DeviceIsOpen, OneDevice, Holds, SetUp
  <2>3. SavedWithDevice'
    BY <2>a, <2>b DEF systemVars, RouteInv,
           RouteTypes, DeviceIsOpen, SavedWithDevice, SetUp, Saving
  <2>4. TunIsHeld' /\ GatewayIsOwed' /\ HostRouteIsOwed'
    BY <2>a, <2>b DEF systemVars, RouteInv,
           RouteTypes, DeviceIsOpen, OneDevice, SavedWithDevice, TunIsHeld, GatewayIsOwed, HostRouteIsOwed,
           Holds, SetUp, Saving, Taking, Taken
  <2> QED
    BY <2>1, <2>2, <2>3, <2>4 DEF RouteInv
<1> QED
  BY <1>1, <1>2

\* What a run saves as the default route, be it that there is none.
LEMMA Saves ==
  ASSUME RouteInv, NEW p \in Runs, phase[p] = "saving", route # "tun",
         NEW f \in {"default", "host"}, NEW gw \in {"gateway", "no gateway"},
         original = "gateway" => gw = "gateway" \/ lost',
         saved' = [saved EXCEPT ![p] = gw], phase' = [phase EXCEPT ![p] = f],
         lost' \in BOOLEAN, lost => lost',
         UNCHANGED <<born, dropped, fd, reading, original, route, hostRoute>>
  PROVE  RouteInv'
<1>1. RouteTypes'
  BY DEF RouteInv, RouteTypes, Phases, Waiting, Working
<1>2. UnbornWaits' /\ DeviceIsOpen' /\ OneDevice'
  BY DEF RouteInv, RouteTypes, UnbornWaits, DeviceIsOpen, OneDevice, Holds, SetUp
<1>3. SavedWithDevice'
  BY DEF RouteInv, RouteTypes, DeviceIsOpen, SavedWithDevice, SetUp, Saving
<1>4. TunIsHeld' /\ GatewayIsOwed' /\ HostRouteIsOwed'
  BY DEF RouteInv, RouteTypes, DeviceIsOpen, OneDevice, SavedWithDevice, TunIsHeld,
         GatewayIsOwed, HostRouteIsOwed, Holds, SetUp, Saving, Taking, Taken
<1>. QED
  BY <1>1, <1>2, <1>3, <1>4 DEF RouteInv

\* A run that saves the default route holds the device, so nobody else has put the
\* tunnel in its place.
LEMMA SaveRoutesKeeps ==
  ASSUME RouteInv, NEW p \in Runs, SaveRoutes(p)
  PROVE  RouteInv'
<1>a. phase[p] = "saving" /\ route # "tun"
  BY DEF SaveRoutes, At, RouteInv, DeviceIsOpen, OneDevice, TunIsHeld, Holds, SetUp, Taking, Taken
<1>b. /\ DefaultGateway \in {"gateway", "no gateway"} /\ lost \in BOOLEAN
      /\ original = "gateway" => DefaultGateway = "gateway" \/ lost
  BY <1>a DEF DefaultGateway, RouteInv, RouteTypes, GatewayIsOwed
<1>c. UNCHANGED <<born, dropped, fd, reading, original, route, hostRoute>>
  BY DEF SaveRoutes, NotCaller
<1>1. CASE UNCHANGED <<saved, lost>> /\ Goes(p, "killswitch")
  BY <1>a, <1>c, <1>1, PhaseMoves DEF Goes, systemVars
<1>2. CASE /\ saved' = [saved EXCEPT ![p] = DefaultGateway]
           /\ Goes(p, IF DefaultGateway = "no gateway" THEN "default" ELSE "host")
           /\ UNCHANGED lost
  <2>. DEFINE f == IF DefaultGateway = "no gateway" THEN "default" ELSE "host"
  <2>1. f \in {"default", "host"} /\ phase' = [phase EXCEPT ![p] = f]
    BY <1>2 DEF Goes
  <2>. HIDE DEF f
  <2>. QED
    BY <1>a, <1>b, <1>c, <1>2, <2>1, Saves
<1>3. CASE /\ saved' = [saved EXCEPT ![p] = "no gateway"]
           /\ Goes(p, "default")
           /\ lost' = (lost \/ DefaultGateway # "no gateway")
  <2>1. lost' \in BOOLEAN /\ (lost => lost') /\ (original = "gateway" => lost')
    BY <1>b, <1>3
  <2>2. phase' = [phase EXCEPT ![p] = "default"]
    BY <1>3 DEF Goes
  <2>. QED
    BY <1>a, <1>c, <1>3, <2>1, <2>2, Saves
<1> QED
  BY <1>1, <1>2, <1>3 DEF SaveRoutes

\* The host route is owed by the run that saved the gateway it leads through.
LEMMA AddHostRouteKeeps ==
  ASSUME RouteInv, NEW p \in Runs, AddHostRoute(p)
  PROVE  RouteInv'
<1>1. RouteTypes'
  BY DEF AddHostRoute, At, systemVars, ownedVars, Goes, NotCaller, RouteInv,
         RouteTypes, Phases, Waiting, Working
<1>2. UnbornWaits' /\ DeviceIsOpen' /\ OneDevice'
  BY DEF AddHostRoute, At, systemVars, ownedVars, Goes, NotCaller, RouteInv,
         RouteTypes, UnbornWaits, DeviceIsOpen, OneDevice, Holds, SetUp
<1>3. SavedWithDevice'
  BY DEF AddHostRoute, At, systemVars, ownedVars, Goes, NotCaller, RouteInv,
         RouteTypes, DeviceIsOpen, SavedWithDevice, SetUp, Saving
<1>4. TunIsHeld' /\ GatewayIsOwed' /\ HostRouteIsOwed'
  BY DEF AddHostRoute, At, systemVars, ownedVars, Goes, NotCaller, RouteInv,
         RouteTypes, DeviceIsOpen, OneDevice, SavedWithDevice, TunIsHeld, GatewayIsOwed, HostRouteIsOwed,
         Holds, SetUp, Saving, Taking, Taken
<1> QED
  BY <1>1, <1>2, <1>3, <1>4 DEF RouteInv

\* The run that takes the default route has saved what to put back.
LEMMA SetDefaultRouteKeeps ==
  ASSUME RouteInv, NEW p \in Runs, SetDefaultRoute(p)
  PROVE  RouteInv'
<1>1. RouteTypes'
  BY DEF SetDefaultRoute, At, systemVars, ownedVars, Goes, NotCaller, RouteInv,
         RouteTypes, Phases, Waiting, Working
<1>2. UnbornWaits' /\ DeviceIsOpen' /\ OneDevice'
  BY DEF SetDefaultRoute, At, systemVars, ownedVars, Goes, NotCaller, RouteInv,
         RouteTypes, UnbornWaits, DeviceIsOpen, OneDevice, Holds, SetUp
<1>3. SavedWithDevice'
  BY DEF SetDefaultRoute, At, systemVars, ownedVars, Goes, NotCaller, RouteInv,
         RouteTypes, DeviceIsOpen, SavedWithDevice, SetUp, Saving
<1>4. TunIsHeld' /\ GatewayIsOwed' /\ HostRouteIsOwed'
  BY DEF SetDefaultRoute, At, systemVars, ownedVars, Goes, NotCaller, RouteInv,
         RouteTypes, DeviceIsOpen, OneDevice, SavedWithDevice, TunIsHeld, GatewayIsOwed, HostRouteIsOwed,
         Holds, SetUp, Saving, Taking, Taken
<1> QED
  BY <1>1, <1>2, <1>3, <1>4 DEF RouteInv

\* Reading starts on a device that is open.
LEMMA ReportKeeps ==
  ASSUME RouteInv, NEW p \in Runs, Report(p)
  PROVE  RouteInv'
<1>1. RouteTypes'
  BY DEF Report, At, systemVars, Goes, NotCaller, RouteInv,
         RouteTypes, Phases, Waiting, Working
<1>2. UnbornWaits' /\ DeviceIsOpen' /\ OneDevice'
  BY DEF Report, At, systemVars, Goes, NotCaller, RouteInv,
         RouteTypes, UnbornWaits, DeviceIsOpen, OneDevice, Holds, SetUp
<1>3. SavedWithDevice'
  BY DEF Report, At, systemVars, Goes, NotCaller, RouteInv,
         RouteTypes, DeviceIsOpen, SavedWithDevice, SetUp, Saving
<1>4. TunIsHeld' /\ GatewayIsOwed' /\ HostRouteIsOwed'
  BY DEF Report, At, systemVars, Goes, NotCaller, RouteInv,
         RouteTypes, DeviceIsOpen, OneDevice, SavedWithDevice, TunIsHeld, GatewayIsOwed, HostRouteIsOwed,
         Holds, SetUp, Saving, Taking, Taken
<1> QED
  BY <1>1, <1>2, <1>3, <1>4 DEF RouteInv

\* A task that is dropped keeps its device and still undoes its routes.
LEMMA DropTaskKeeps ==
  ASSUME RouteInv, NEW p \in Runs, DropTask(p)
  PROVE  RouteInv'
<1>1. RouteTypes'
  BY DEF DropTask, Waiting, systemVars, ownedVars, Goes, NotCaller, RouteInv,
         RouteTypes, Phases, Waiting, Working
<1>2. UnbornWaits' /\ DeviceIsOpen' /\ OneDevice'
  BY DEF DropTask, Waiting, systemVars, ownedVars, Goes, NotCaller, RouteInv,
         RouteTypes, UnbornWaits, DeviceIsOpen, OneDevice, Holds, SetUp
<1>3. SavedWithDevice'
  BY DEF DropTask, Waiting, systemVars, ownedVars, Goes, NotCaller, RouteInv,
         RouteTypes, DeviceIsOpen, SavedWithDevice, SetUp, Saving
<1>4. TunIsHeld' /\ GatewayIsOwed' /\ HostRouteIsOwed'
  BY ZenonT(60) DEF DropTask, Waiting, systemVars, ownedVars, Goes, NotCaller, RouteInv,
         RouteTypes, DeviceIsOpen, OneDevice, SavedWithDevice, TunIsHeld, GatewayIsOwed, HostRouteIsOwed,
         Holds, SetUp, Saving, Taking, Taken
<1> QED
  BY <1>1, <1>2, <1>3, <1>4 DEF RouteInv

\* What is put back is never the tunnel.
LEMMA UndoKeeps ==
  ASSUME RouteInv, NEW p \in Runs, Undo(p)
  PROVE  RouteInv'
<1>1. RouteTypes'
  BY DEF Undo, At, systemVars, Goes, NotCaller, RouteInv,
         RouteTypes, Phases, Waiting, Working
<1>2. UnbornWaits' /\ DeviceIsOpen' /\ OneDevice'
  BY DEF Undo, At, systemVars, Goes, NotCaller, RouteInv,
         RouteTypes, UnbornWaits, DeviceIsOpen, OneDevice, Holds, SetUp
<1>3. SavedWithDevice'
  BY DEF Undo, At, systemVars, Goes, NotCaller, RouteInv,
         RouteTypes, DeviceIsOpen, SavedWithDevice, SetUp, Saving
<1>4. TunIsHeld' /\ GatewayIsOwed' /\ HostRouteIsOwed'
  BY DEF Undo, At, systemVars, Goes, NotCaller, RouteInv,
         RouteTypes, DeviceIsOpen, OneDevice, SavedWithDevice, TunIsHeld, GatewayIsOwed, HostRouteIsOwed,
         Holds, SetUp, Saving, Taking, Taken
<1> QED
  BY <1>1, <1>2, <1>3, <1>4 DEF RouteInv

\* The run that saved the routes takes the host route away and forgets them.
LEMMA RemoveHostRouteKeeps ==
  ASSUME RouteInv, NEW p \in Runs, RemoveHostRoute(p)
  PROVE  RouteInv'
<1>1. RouteTypes'
  BY DEF RemoveHostRoute, At, systemVars, Goes, NotCaller, RouteInv,
         RouteTypes, Phases, Waiting, Working
<1>2. UnbornWaits' /\ DeviceIsOpen' /\ OneDevice'
  BY DEF RemoveHostRoute, At, systemVars, Goes, NotCaller, RouteInv,
         RouteTypes, UnbornWaits, DeviceIsOpen, OneDevice, Holds, SetUp
<1>3. SavedWithDevice'
  BY DEF RemoveHostRoute, At, systemVars, Goes, NotCaller, RouteInv,
         RouteTypes, DeviceIsOpen, SavedWithDevice, SetUp, Saving
<1>4. TunIsHeld' /\ GatewayIsOwed' /\ HostRouteIsOwed'
  BY ZenonT(60) DEF RemoveHostRoute, At, systemVars, Goes, NotCaller, RouteInv,
         RouteTypes, DeviceIsOpen, OneDevice, SavedWithDevice, TunIsHeld, GatewayIsOwed, HostRouteIsOwed,
         Holds, SetUp, Saving, Taking, Taken
<1> QED
  BY <1>1, <1>2, <1>3, <1>4 DEF RouteInv

\* A run that closes its device owes no route any more.
LEMMA UnwrapKeeps ==
  ASSUME RouteInv, NEW p \in Runs, Unwrap(p)
  PROVE  RouteInv'
<1>1. RouteTypes'
  BY DEF Unwrap, At, Returns, RouteWithout, Goes, NotCaller, RouteInv,
         RouteTypes, Phases, Waiting, Working
<1>2. UnbornWaits' /\ DeviceIsOpen' /\ OneDevice'
  BY DEF Unwrap, At, Returns, RouteWithout, Goes, NotCaller, RouteInv,
         RouteTypes, UnbornWaits, DeviceIsOpen, OneDevice, Holds, SetUp
<1>3. SavedWithDevice'
  BY DEF Unwrap, At, Returns, RouteWithout, Goes, NotCaller, RouteInv,
         RouteTypes, DeviceIsOpen, SavedWithDevice, SetUp, Saving
<1>4. TunIsHeld' /\ GatewayIsOwed' /\ HostRouteIsOwed'
  BY DEF Unwrap, At, Returns, RouteWithout, Goes, NotCaller, RouteInv,
         RouteTypes, DeviceIsOpen, OneDevice, SavedWithDevice, TunIsHeld, GatewayIsOwed, HostRouteIsOwed,
         Holds, SetUp, Saving, Taking, Taken
<1> QED
  BY <1>1, <1>2, <1>3, <1>4 DEF RouteInv

\* The interface goes with the last read, and no route that is owed with it.
LEMMA ReadReturnsKeeps ==
  ASSUME RouteInv, NEW p \in Runs, ReadReturns(p)
  PROVE  RouteInv'
<1>1. RouteTypes'
  BY DEF ReadReturns, RouteWithout, runVars, Goes, NotCaller, RouteInv,
         RouteTypes, Phases, Waiting, Working
<1>2. UnbornWaits' /\ DeviceIsOpen' /\ OneDevice'
  BY DEF ReadReturns, RouteWithout, runVars, Goes, NotCaller, RouteInv,
         RouteTypes, UnbornWaits, DeviceIsOpen, OneDevice, Holds, SetUp
<1>3. SavedWithDevice'
  BY DEF ReadReturns, RouteWithout, runVars, Goes, NotCaller, RouteInv,
         RouteTypes, DeviceIsOpen, SavedWithDevice, SetUp, Saving
<1>4. TunIsHeld' /\ GatewayIsOwed' /\ HostRouteIsOwed'
  BY DEF ReadReturns, RouteWithout, runVars, Goes, NotCaller, RouteInv,
         RouteTypes, DeviceIsOpen, OneDevice, SavedWithDevice, TunIsHeld, GatewayIsOwed, HostRouteIsOwed,
         Holds, SetUp, Saving, Taking, Taken
<1> QED
  BY <1>1, <1>2, <1>3, <1>4 DEF RouteInv

-----------------------------------------------------------------------------
(* The theorems.                                                           *)

\* Every step of the specification keeps RouteInv.
LEMMA NextRouteInv == RouteInv /\ [Next]_vars => RouteInv'
<1> SUFFICES ASSUME RouteInv, [Next]_vars PROVE RouteInv'
  OBVIOUS
<1>1. CASE KanrinStart
  BY <1>1, KanrinStartKeeps
<1>2. CASE \/ Caller \/ KanrinInit \/ KanrinStartFails
           \/ \E then \in {"nothing", "init", "destroy"} : KanrinStop(then)
  <2>1. CASE KanrinInit \/ KanrinStartFails
    BY <2>1, Undisturbed DEF KanrinInit, KanrinStartFails, pipelineVars, runVars, ownedVars
  <2>2. CASE Caller
    BY <2>2, Undisturbed DEF Caller, BeginShutdown, StopReturns, DropReturns, pipelineVars, runVars, ownedVars
  <2>3. CASE \E then \in {"nothing", "init", "destroy"} : KanrinStop(then)
    BY <2>3, Undisturbed DEF KanrinStop, pipelineVars, ownedVars
  <2> QED
    BY <1>2, <2>1, <2>2, <2>3
<1>3. CASE \E p \in Runs : Pipeline(p) \/ ConnectFails(p) \/ GiveUp(p) \/ ReadReturns(p)
  <2>1. PICK p \in Runs : Pipeline(p) \/ ConnectFails(p) \/ GiveUp(p) \/ ReadReturns(p)
    BY <1>3
  <2> QED
    BY <2>1, MovesKeep, CreateKeeps, SaveRoutesKeeps, AddHostRouteKeeps, SetDefaultRouteKeeps,
       ReportKeeps, DropTaskKeeps, UndoKeeps, RemoveHostRouteKeeps, UnwrapKeeps, ReadReturnsKeeps
    DEF Pipeline
<1>4. CASE UNCHANGED vars
  BY <1>4, Undisturbed DEF vars, callerVars, runVars, ownedVars, pipelineVars
<1> QED
  BY <1>1, <1>2, <1>3, <1>4 DEF Next

\* The device belongs to one run at a time, and every change of the routes is owed
\* by the run that holds it, until it has tried to undo it (routing.rs, deactivate,
\* which does not look at whether that worked).
THEOREM RoutesAreOwed == Spec => []RouteInv
BY InitRouteInv, NextRouteInv, PTL DEF Spec

\* No two runs have routes to restore at the same time, and none has saved the
\* tunnel of another as the route to restore (routing.rs, activate), however stops
\* that give up waiting make the runs overlap.
THEOREM RoutesHaveOneOwnerAlways == Spec => []RoutesHaveOneOwner
<1>1. RouteInv => RoutesHaveOneOwner
  BY DEF RouteInv, SavedWithDevice, OneDevice, Holds, RoutesHaveOneOwner
<1> QED
  BY <1>1, RoutesAreOwed, PTL

\* Whenever every pipeline has ended, the default route by a gateway is back and
\* the route to the server is gone (routing.rs, deactivate), unless the command
\* for that very route has failed.
THEOREM NetworkRestoredAlways == Spec => []NetworkRestored
<1>1. RouteInv => NetworkRestored
  BY DEF RouteInv, RouteTypes, GatewayIsOwed, HostRouteIsOwed, NetworkRestored, Over, Saving, Taking
<1> QED
  BY <1>1, RoutesAreOwed, PTL

-----------------------------------------------------------------------------
(* What the client says of its pipeline.                                   *)

\* The variables that RouteTypes does not speak of.
CallTypes ==
  /\ client \in BOOLEAN /\ overrun \in BOOLEAN
  /\ state \in {"Disconnected", "Connecting", "Connected", "Disconnecting", "Error"}
  /\ runtime \in 0 .. born
  /\ call \in [at : {"idle", "signalled", "stop", "drop"}, run : 0 .. MaxRuns,
               then : {"nothing", "init", "destroy", "started"}]
  /\ mine \in [Runs -> BOOLEAN] /\ signal \in [Runs -> BOOLEAN]
  /\ stopping \in [Runs -> BOOLEAN] /\ active \in [Runs -> BOOLEAN]

\* A call in progress, the run it waits for, and what the client still holds.
CallOfRun ==
  /\ call.at = "idle" => call = Idle
  /\ call.at # "idle" => call.run \in 1 .. born
  /\ call.at = "signalled" => runtime = call.run /\ call.then # "started"
  /\ call.at = "stop" => runtime = 0 /\ call.then # "started"
  /\ call.at = "drop" => call.then # "nothing"
  /\ call.at = "drop" => IF call.then = "started" THEN runtime # 0 /\ runtime # call.run
                         ELSE runtime = call.run

\* The run whose runtime the client holds writes to its state, and shuts down only
\* in the call that drops it; a run that was not started does not shut down.
HeldRun ==
  /\ runtime # 0 =>
       /\ mine[runtime]
       /\ stopping[runtime] => call.at = "drop" /\ call.run = runtime
  /\ \A p \in Runs : /\ dropped[p] => stopping[p]
                     /\ p > born => ~stopping[p]

\* The phases of a pipeline that has reported and not yet ended.
Reported == {"running", "closing", "undo", "unhost", "unwrap"}

\* As long as no stop has given up: a pipeline that still runs and may write the
\* state is the one the client holds or waits for, a state of Disconnected means
\* that it has ended, and one of Connected that it has reported.
StateIsTrue ==
  ~overrun =>
    /\ \A p \in Runs : mine[p] /\ ~Over(p) => p = runtime \/ (call.at = "stop" /\ p = call.run)
    /\ runtime # 0 /\ state = "Disconnected" => phase[runtime] = "over"
    /\ state = "Connected" /\ (Free \/ call.then = "started") =>
         runtime # 0 /\ phase[runtime] \in Reported

CallInv == RouteInv /\ CallTypes /\ CallOfRun /\ HeldRun /\ StateIsTrue

\* At the start there is no client, no call and no run.
LEMMA InitCallInv == Init => CallInv
<1>. SUFFICES ASSUME Init PROVE CallInv
  OBVIOUS
<1>1. CallTypes
  <2>1. born = 0 /\ runtime = 0 /\ 0 \in 0 .. MaxRuns
    BY DEF Init
  <2>2. runtime \in 0 .. born
    BY <2>1
  <2>. QED BY <2>1, <2>2 DEF Init, CallTypes, Idle
<1>2. CallOfRun /\ HeldRun /\ StateIsTrue
  BY DEF Init, CallOfRun, HeldRun, StateIsTrue, Idle, Over
<1>. QED BY <1>1, <1>2, InitRouteInv DEF CallInv

\* The state is Disconnected, or what it was, when a call ends.
LEMMA FinishKeeps ==
  ASSUME CallInv, RouteInv', call.at # "idle" \/ runtime = 0,
         NEW then \in {"nothing", "init", "destroy", "started"}, Finish(then),
         then = "started" => call.at = "drop" /\ call.then = "started",
         call.at = "drop" => then = call.then,
         ~overrun' => ~overrun /\ (call.at = "stop" => Over(call.run)),
         overrun' \in BOOLEAN, call.at # "signalled",
         UNCHANGED <<born, phase, signal, stopping, dropped, active>>
  PROVE  CallInv'
<1>. USE DEF CallInv
<1>0. /\ runtime \in 0 .. born /\ born \in Nat /\ mine \in [Runs -> BOOLEAN]
      /\ call' = Idle /\ client' \in BOOLEAN /\ state' \in {state, "Disconnected"}
  <2>1. runtime \in 0 .. born /\ born \in 0 .. MaxRuns /\ mine \in [Runs -> BOOLEAN]
    BY DEF CallTypes, RouteInv, RouteTypes
  <2>2. call' = Idle /\ state' \in {state, "Disconnected"}
    BY DEF Finish
  <2>3. client' \in BOOLEAN
    BY Zenon DEF Finish
  <2>. QED BY <2>1, <2>2, <2>3
<1>1. CallTypes'
  <2>1. runtime' \in 0 .. born' /\ mine' \in [Runs -> BOOLEAN]
    BY <1>0 DEF Finish
  <2>2. Idle \in [at : {"idle", "signalled", "stop", "drop"}, run : 0 .. MaxRuns,
                  then : {"nothing", "init", "destroy", "started"}]
    BY DEF Idle
  <2>. QED BY <1>0, <2>1, <2>2 DEF CallTypes
<1>2. CallOfRun'
  BY <1>0 DEF CallOfRun, Idle
<1>3. runtime' # 0 => /\ then = "started" /\ runtime' = runtime /\ state' = state
                      /\ mine' = mine /\ call.at = "drop"
  <2>. SUFFICES ASSUME runtime' # 0
                PROVE  /\ then = "started" /\ runtime' = runtime /\ state' = state
                       /\ mine' = mine /\ call.at = "drop"
    OBVIOUS
  <2>1. then \notin {"init", "destroy"} /\ runtime' = runtime /\ mine' = mine
    BY DEF Finish
  <2>2. call.at = "drop"
    <3>1. call.at # "idle" /\ call.at # "stop" /\ call.at # "signalled"
      BY <2>1 DEF CallOfRun
    <3>2. call.at \in {"idle", "signalled", "stop", "drop"}
      BY DEF CallTypes
    <3>. QED BY <3>1, <3>2
  <2>3. then = "started"
    BY <2>1, <2>2 DEF CallOfRun
  <2>. QED BY <2>1, <2>2, <2>3 DEF Finish
<1>4. HeldRun'
  BY <1>3 DEF HeldRun, CallOfRun
<1>5. StateIsTrue'
  <2>. SUFFICES ASSUME ~overrun' PROVE StateIsTrue'
    BY DEF StateIsTrue
  <2>1. ASSUME NEW p \in Runs, mine'[p], ~Over(p)' PROVE p = runtime'
    <3>1. mine[p] /\ ~Over(p) /\ mine' = mine
      BY <2>1 DEF Finish, Over
    <3>2. p = runtime \/ (call.at = "stop" /\ p = call.run)
      BY <3>1 DEF StateIsTrue
    <3>3. p = runtime
      BY <3>1, <3>2
    <3>4. p # 0
      OBVIOUS
    <3>5. then = "started" \/ runtime' = runtime
      BY <3>1, <2>1 DEF Finish
    <3>. QED BY <3>3, <3>5 DEF Finish
  <2>2. runtime' # 0 /\ state' = "Disconnected" => phase'[runtime'] = "over"
    BY <1>3 DEF StateIsTrue
  <2>3. state' = "Connected" => runtime' # 0 /\ phase'[runtime'] \in Reported
    BY <1>3 DEF StateIsTrue, Finish
  <2>. QED BY <1>0, <2>1, <2>2, <2>3 DEF StateIsTrue
<1>. QED BY <1>1, <1>2, <1>4, <1>5

\* A call of the C interface, and what is left of one.
LEMMA CallsKeep ==
  ASSUME CallInv, RouteInv',
         \/ KanrinInit \/ KanrinStartFails \/ BeginShutdown \/ StopReturns \/ DropReturns
         \/ \E then \in {"nothing", "init", "destroy"} : KanrinStop(then)
  PROVE  CallInv'
<1>. USE DEF CallInv, ownedVars, systemVars, runVars
<1>1. CASE KanrinInit \/ KanrinStartFails
  BY ZenonT(60), <1>1 DEF KanrinInit, KanrinStartFails, CallTypes, CallOfRun, HeldRun, StateIsTrue, Over, Free
<1>2. CASE BeginShutdown
  <2>0. /\ call.at = "signalled" /\ runtime = call.run /\ call.run \in 1 .. born
        /\ born \in 0 .. MaxRuns /\ call.then # "started" /\ call.run \in Runs
    <3>1. /\ call.at = "signalled" /\ runtime = call.run /\ call.run \in 1 .. born
          /\ call.then # "started"
      BY <1>2 DEF BeginShutdown, CallOfRun
    <3>2. born \in 0 .. MaxRuns
      BY DEF RouteInv, RouteTypes
    <3>. QED BY <3>1, <3>2
  <2>1. CallTypes'
    <3>1. /\ runtime' = 0 /\ call' = [call EXCEPT !.at = "stop"]
          /\ stopping' = [stopping EXCEPT ![call.run] = TRUE]
          /\ UNCHANGED <<client, overrun, state, born, mine, signal, active>>
      BY <1>2 DEF BeginShutdown
    <3>2. runtime' \in 0 .. born'
      BY <2>0, <3>1
    <3>. QED BY <2>0, <3>1, <3>2 DEF CallTypes
  <2>2. call'.at = "stop" /\ call'.run = call.run /\ call'.then = call.then
    BY <1>2 DEF BeginShutdown, CallTypes
  <2>3. CallOfRun'
    BY <1>2, <2>0, <2>2 DEF BeginShutdown, CallOfRun
  <2>4. HeldRun'
    BY <1>2, <2>0, <2>2 DEF BeginShutdown, CallTypes, HeldRun
  <2>5. StateIsTrue'
    BY <1>2, <2>0, <2>2 DEF BeginShutdown, StateIsTrue, Over, Free, Idle
  <2>. QED BY <2>1, <2>3, <2>4, <2>5
<1>3. CASE StopReturns
  <2>1. overrun \in BOOLEAN /\ call.then \in {"nothing", "init", "destroy", "started"}
    BY DEF CallTypes
  <2>2. call.at = "stop" /\ call.then # "started" /\ overrun' = (overrun \/ phase[call.run] # "over")
    BY <1>3 DEF StopReturns, CallOfRun
  <2>3. ~overrun' => ~overrun /\ Over(call.run)
    BY <2>2, Zenon DEF Over
  <2>. QED BY <1>3, <2>1, <2>2, <2>3, FinishKeeps DEF StopReturns
<1>4. CASE DropReturns
  <2>1. overrun \in BOOLEAN /\ call.then \in {"nothing", "init", "destroy", "started"}
    BY DEF CallTypes
  <2>. QED BY <1>4, <2>1, FinishKeeps DEF DropReturns
<1>5. ASSUME NEW then \in {"nothing", "init", "destroy"}, KanrinStop(then) PROVE CallInv'
  <2>0. /\ call = Idle /\ Idle.at = "idle" /\ born \in 0 .. MaxRuns /\ runtime \in 0 .. born
        /\ UNCHANGED <<born, phase, dropped, active, overrun>>
    BY <1>5 DEF KanrinStop, Free, Idle, RouteInv, RouteTypes, CallTypes
  <2>1. CASE runtime = 0
    <3>1. CASE Finish(then) /\ UNCHANGED <<stopping, signal>>
      <4>1. overrun \in BOOLEAN
        BY DEF CallTypes
      <4>. QED BY <2>0, <2>1, <3>1, <4>1, FinishKeeps
    <3>. QED BY <1>5, <2>1, <3>1 DEF KanrinStop
  <2>2. CASE runtime # 0
    <3>0. runtime \in 1 .. born /\ runtime \in Runs
      BY <2>0, <2>2
    <3>1. CASE state = "Disconnected"
      <4>0. /\ call' = [at |-> "drop", run |-> runtime, then |-> then]
            /\ stopping' = [stopping EXCEPT ![runtime] = TRUE]
            /\ then # "nothing" /\ UNCHANGED <<client, state, runtime, mine, signal>>
        BY <1>5, <2>2, <3>1 DEF KanrinStop
      <4>1. CallTypes'
        BY <2>0, <3>0, <4>0 DEF CallTypes
      <4>2. CallOfRun'
        BY <2>0, <3>0, <4>0 DEF CallOfRun
      <4>3. HeldRun'
        BY <2>0, <3>0, <4>0 DEF HeldRun, CallTypes
      <4>4. StateIsTrue'
        BY <2>0, <3>0, <4>0 DEF StateIsTrue, Over, Free, Idle
      <4>. QED BY <4>1, <4>2, <4>3, <4>4
    <3>2. CASE state # "Disconnected"
      <4>0. /\ state' = "Disconnecting" /\ signal' = [signal EXCEPT ![runtime] = TRUE]
            /\ call' = [at |-> "signalled", run |-> runtime, then |-> then]
            /\ UNCHANGED <<client, runtime, mine, stopping>>
        BY <1>5, <2>2, <3>2 DEF KanrinStop
      <4>1. CallTypes'
        BY <2>0, <3>0, <4>0 DEF CallTypes
      <4>2. CallOfRun'
        BY <2>0, <3>0, <4>0 DEF CallOfRun
      <4>3. HeldRun'
        BY <2>0, <3>0, <4>0 DEF HeldRun
      <4>4. StateIsTrue'
        BY <2>0, <3>0, <4>0 DEF StateIsTrue, Over, Free, Idle
      <4>. QED BY <4>1, <4>2, <4>3, <4>4
    <3>. QED BY <3>1, <3>2
  <2>. QED BY <2>1, <2>2
<1>. QED BY <1>1, <1>2, <1>3, <1>4, <1>5

\* A start: the run that it drops has ended, for the client was Disconnected.
LEMMA StartKeeps ==
  ASSUME CallInv, RouteInv', KanrinStart
  PROVE  CallInv'
<1>. DEFINE p == born + 1
<1>0. /\ p \in Runs /\ born \in 0 .. MaxRuns /\ runtime \in 0 .. born
      /\ p > born /\ runtime # p /\ p # 0 /\ (runtime # 0 => runtime \in Runs)
  <2>1. born < MaxRuns /\ born \in 0 .. MaxRuns /\ runtime \in 0 .. born
    BY DEF KanrinStart, CallInv, RouteInv, RouteTypes, CallTypes
  <2>. QED BY <2>1
<1>1. phase[p] = "unborn" /\ ~stopping[p] /\ ~dropped[p]
  BY <1>0 DEF CallInv, RouteInv, UnbornWaits, HeldRun
<1>2. /\ born' = p /\ runtime' = p /\ state' = "Connecting" /\ call = Idle
      /\ state = "Disconnected"
      /\ phase' = [phase EXCEPT ![p] = "connecting"] /\ mine' = [mine EXCEPT ![p] = TRUE]
      /\ UNCHANGED <<client, dropped, active, overrun>>
  BY DEF KanrinStart, Free, ownedVars
<1>3. \/ runtime = 0 /\ UNCHANGED <<call, signal, stopping>>
      \/ /\ runtime # 0 /\ call' = [at |-> "drop", run |-> runtime, then |-> "started"]
         /\ signal' = [signal EXCEPT ![runtime] = TRUE]
         /\ stopping' = [stopping EXCEPT ![runtime] = TRUE]
  BY DEF KanrinStart
<1>4. /\ runtime' \in 0 .. born' /\ runtime \in 0 .. MaxRuns
      /\ runtime # 0 => runtime \in 1 .. born'
      /\ \A q \in Runs : q > born' => q > born /\ q # p /\ q # runtime
  BY <1>0, <1>2
<1>. HIDE DEF p
<1>5. CallTypes'
  <2>1. call' \in [at : {"idle", "signalled", "stop", "drop"}, run : 0 .. MaxRuns,
                  then : {"nothing", "init", "destroy", "started"}]
    BY <1>3, <1>4 DEF CallInv, CallTypes
  <2>2. /\ signal' \in [Runs -> BOOLEAN] /\ stopping' \in [Runs -> BOOLEAN]
        /\ mine' \in [Runs -> BOOLEAN]
    BY <1>2, <1>3 DEF CallInv, CallTypes
  <2>. QED BY <1>2, <1>4, <2>1, <2>2 DEF CallInv, CallTypes
<1>6. CallOfRun'
  BY <1>0, <1>2, <1>3, <1>4 DEF CallInv, CallOfRun, Idle
<1>7. HeldRun'
  <2>1. mine'[p] /\ ~stopping'[p]
    BY <1>0, <1>1, <1>2, <1>3 DEF CallInv, CallTypes
  <2>2. \A q \in Runs : stopping[q] => stopping'[q]
    BY <1>3 DEF CallInv, CallTypes
  <2>3. \A q \in Runs : q > born' => stopping'[q] = stopping[q]
    BY <1>3, <1>4 DEF CallInv, CallTypes
  <2>. QED BY <1>2, <1>4, <2>1, <2>2, <2>3 DEF CallInv, HeldRun
<1>8. StateIsTrue'
  <2>. SUFFICES ASSUME ~overrun' PROVE StateIsTrue'
    BY DEF StateIsTrue
  <2>1. ASSUME NEW q \in Runs, q # p, mine'[q], ~Over(q)' PROVE FALSE
    <3>1. mine[q] /\ ~Over(q)
      BY <1>0, <1>2, <2>1 DEF CallInv, RouteInv, RouteTypes, CallTypes, Over
    <3>2. q = runtime /\ q # 0
      BY <1>2, <3>1 DEF CallInv, StateIsTrue, Idle
    <3>. QED BY <1>2, <3>1, <3>2 DEF CallInv, StateIsTrue, Over
  <2>. QED BY <1>2, <2>1 DEF StateIsTrue
<1>. QED BY <1>5, <1>6, <1>7, <1>8 DEF CallInv

\* What a step of a pipeline may do to what CallInv speaks of: it moves its own
\* phase, and it writes the state of its own client.
Moves(p) ==
  /\ UNCHANGED <<client, runtime, call, born, mine, overrun, stopping>>
  /\ phase[p] \notin {"unborn", "over"} /\ \E f \in Phases \ {"unborn"} : phase' = [phase EXCEPT ![p] = f]
  /\ \/ /\ state' = state
        /\ phase'[p] # "over" /\ UNCHANGED dropped
        /\ phase[p] \in Reported => phase'[p] \in Reported
     \/ /\ state' = state
        /\ stopping[p] /\ dropped' \in {dropped, [dropped EXCEPT ![p] = TRUE]}
     \/ /\ phase'[p] = "over" /\ UNCHANGED dropped
        /\ \E s \in {"Disconnected", "Error"} : Writes(p, s)
     \/ /\ phase'[p] = "running" /\ UNCHANGED dropped
        /\ Writes(p, "Connected")

LEMMA MovesKeepCallInv ==
  ASSUME CallInv, RouteInv', CallTypes', NEW p \in Runs, Moves(p)
  PROVE  CallInv'
<1>. USE DEF CallInv
<1>0. PICK f \in Phases \ {"unborn"} : phase' = [phase EXCEPT ![p] = f]
  BY DEF Moves
<1>1. CallOfRun'
  BY DEF CallOfRun, Moves
<1>2. p <= born
  <2>1. ~(p > born) /\ born \in 0 .. MaxRuns
    BY DEF RouteInv, RouteTypes, UnbornWaits, Moves
  <2>. QED BY <2>1
<1>3. /\ phase'[p] = f /\ \A q \in Runs \ {p} : phase'[q] = phase[q]
      /\ phase[p] \notin {"unborn", "over"}
  BY <1>0 DEF RouteInv, RouteTypes, Moves
<1>4. HeldRun'
  BY DEF HeldRun, Moves, RouteInv, RouteTypes
<1>5. ASSUME ~overrun, mine[p] PROVE p = runtime \/ (call.at = "stop" /\ p = call.run)
  BY <1>3, <1>5 DEF StateIsTrue, Over
<1>6. ASSUME ~overrun, NEW q \in Runs, mine[q], ~Over(q)'
      PROVE  q = runtime \/ (call.at = "stop" /\ q = call.run)
  BY <1>3, <1>5, <1>6 DEF StateIsTrue, Over
<1>7. runtime # 0 => runtime \in Runs
  <2>1. runtime \in 0 .. born /\ born \in 0 .. MaxRuns
    BY DEF CallTypes, RouteInv, RouteTypes
  <2>. QED BY <2>1
<1>8. ASSUME ~overrun, runtime # 0, state' = "Disconnected"
      PROVE  phase'[runtime] = "over"
  <2>1. CASE state' = state
    BY <1>3, <1>7, <1>8, <2>1 DEF StateIsTrue
  <2>2. CASE mine[p] /\ state' # state
    <3>1. phase'[p] = "over"
      BY <1>8, <2>2 DEF Moves, Writes
    <3>2. p = runtime
      BY <1>5, <1>8, <2>2 DEF CallOfRun
    <3>. QED BY <3>1, <3>2
  <2>. QED BY <2>1, <2>2 DEF Moves, Writes
<1>9. ASSUME ~overrun, state' = "Connected", call = Idle \/ call.then = "started"
      PROVE  runtime # 0 /\ phase'[runtime] \in Reported
  <2>0. call.at # "stop" /\ call.at # "signalled"
    BY <1>9 DEF CallOfRun, Idle
  <2>1. CASE mine[p] /\ state' # state
    <3>1. phase'[p] = "running"
      BY <1>9, <2>1 DEF Moves, Writes
    <3>2. p = runtime /\ p # 0
      BY <1>5, <1>9, <2>0, <2>1
    <3>. QED BY <3>1, <3>2 DEF Reported
  <2>2. CASE state' = state
    <3>1. runtime # 0 /\ phase[runtime] \in Reported
      BY <1>9, <2>2 DEF StateIsTrue, Free
    <3>2. CASE p # runtime
      BY <1>3, <1>7, <3>1, <3>2
    <3>3. CASE p = runtime
      <4>1. mine[p] /\ ~stopping[p]
        BY <1>9, <2>0, <3>1, <3>3 DEF HeldRun, CallOfRun, Idle
      <4>. QED BY <1>9, <2>2, <3>1, <3>3, <4>1 DEF Moves, Writes, Reported
    <3>. QED BY <3>2, <3>3
  <2>. QED BY <2>1, <2>2 DEF Moves, Writes
<1>10. StateIsTrue'
  <2>1. UNCHANGED <<runtime, call, mine, overrun>>
    BY DEF Moves
  <2>. QED BY <1>6, <1>8, <1>9, <2>1 DEF StateIsTrue, Free
<1>. QED BY <1>1, <1>4, <1>10

\* Every step of a pipeline is such a move, or does not touch any of it.
LEMMA PipelineKeeps ==
  ASSUME CallInv, RouteInv', NEW p \in Runs,
         Pipeline(p) \/ ConnectFails(p) \/ GiveUp(p) \/ ReadReturns(p)
  PROVE  CallInv'
<1>. USE DEF NotCaller, Goes, At, Resumes, ownedVars, systemVars, runVars
<1>1. CallTypes'
  <2>1. \/ state' = state
        \/ \E s \in {"Connected", "Disconnected", "Error"} : Writes(p, s)
    BY DEF Pipeline, Connect, ConnectFails, Resolve, Create, SaveRoutes, AddHostRoute,
           SetDefaultRoute, ActivateKillSwitch, Report, LeaveLoop, GiveUp, CloseConnection,
           DropTask, Undo, RemoveHostRoute, Unwrap, ReadReturns, Returns
  <2>2. UNCHANGED <<client, overrun, runtime, born, call, mine, signal, stopping>>
    BY DEF Pipeline, Connect, ConnectFails, Resolve, Create, SaveRoutes, AddHostRoute,
           SetDefaultRoute, ActivateKillSwitch, Report, LeaveLoop, GiveUp, CloseConnection,
           DropTask, Undo, RemoveHostRoute, Unwrap, ReadReturns, Returns
  <2>3. active' = active \/ \E on \in BOOLEAN : active' = [active EXCEPT ![p] = on]
    BY DEF Pipeline, Connect, ConnectFails, Resolve, Create, SaveRoutes, AddHostRoute,
           SetDefaultRoute, ActivateKillSwitch, ActivateLinux, Report, LeaveLoop, GiveUp,
           CloseConnection, DropTask, Undo, RemoveHostRoute, Unwrap, ReadReturns, Returns
  <2>. QED BY <2>1, <2>2, <2>3 DEF CallInv, CallTypes, Writes
<1>2. CASE ReadReturns(p)
  BY <1>1, <1>2 DEF ReadReturns, CallInv, CallOfRun, HeldRun, StateIsTrue, Over, Free
<1>3. CASE ~ReadReturns(p)
  <2>. SUFFICES Moves(p)
    BY <1>1, MovesKeepCallInv
  <2>0. phase \in [Runs -> Phases]
    BY DEF CallInv, RouteInv, RouteTypes
  <2>. USE DEF Phases, Waiting, Working, Reported, Moves
  <2>1. CASE Connect(p) \/ Resolve(p)
    BY <2>0, <2>1 DEF Connect, Resolve
  <2>2. CASE SaveRoutes(p)
    BY <2>0, <2>2 DEF SaveRoutes
  <2>3. CASE AddHostRoute(p) \/ SetDefaultRoute(p) \/ ActivateKillSwitch(p)
    BY <2>0, <2>3 DEF AddHostRoute, SetDefaultRoute, ActivateKillSwitch
  <2>4. CASE ConnectFails(p) \/ Create(p)
    BY <2>0, <2>4 DEF ConnectFails, Create, Returns
  <2>5. CASE Report(p)
    BY <2>0, <2>5 DEF Report
  <2>6. CASE LeaveLoop(p) \/ GiveUp(p) \/ CloseConnection(p)
    BY <2>0, <2>6 DEF LeaveLoop, GiveUp, CloseConnection
  <2>7. CASE Undo(p)
    BY <2>0, <2>7 DEF Undo
  <2>8. CASE DropTask(p)
    BY <2>0, <2>8 DEF DropTask
  <2>9. CASE RemoveHostRoute(p)
    BY <2>0, <2>9 DEF RemoveHostRoute, CallInv, HeldRun
  <2>10. CASE Unwrap(p)
    BY <2>0, <2>10 DEF Unwrap, Returns
  <2>. QED
    BY <1>3, <2>1, <2>2, <2>3, <2>4, <2>5, <2>6, <2>7, <2>8, <2>9, <2>10 DEF Pipeline
<1>. QED BY <1>2, <1>3

\* Every step of the specification keeps CallInv.
LEMMA NextCallInv == CallInv /\ [Next]_vars => CallInv'
<1>. SUFFICES ASSUME CallInv, [Next]_vars PROVE CallInv'
  OBVIOUS
<1>1. RouteInv'
  BY NextRouteInv DEF CallInv
<1>2. CASE UNCHANGED vars
  <2>1. UNCHANGED <<callerVars, runVars, ownedVars, overrun>>
    BY <1>2 DEF vars
  <2>. QED BY <1>1, <2>1 DEF callerVars, runVars, ownedVars, CallInv, CallTypes, CallOfRun,
                             HeldRun, StateIsTrue, Over, Free
<1>3. CASE Next
  BY <1>1, <1>3, CallsKeep, StartKeeps, PipelineKeeps DEF Next, Caller
<1>. QED BY <1>2, <1>3

\* A call waits for the run that the client held, and only that run, or one it
\* waits for, writes to its state.
THEOREM CallsAreTrue == Spec => []CallInv
BY InitCallInv, NextCallInv, PTL DEF Spec

\* The shape of every variable.
THEOREM TypeCorrect == Spec => []TypeOK
<1>1. CallInv => TypeOK
  BY DEF CallInv, CallTypes, RouteInv, RouteTypes, TypeOK
<1>. QED BY <1>1, CallsAreTrue, PTL

\* lib.rs, ClientState: unless a stop has given up on a pipeline, a client that says
\* Connected has one that has set up its device and not yet ended, whatever calls
\* overlapped with the runs they started and stopped.
THEOREM ConnectedIsTrueAlways == Spec => []ConnectedIsTrue
<1>1. CallInv => ConnectedIsTrue
  BY DEF CallInv, StateIsTrue, ConnectedIsTrue, Reported
<1>. QED BY <1>1, CallsAreTrue, PTL
=============================================================================
