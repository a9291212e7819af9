------------------------------- MODULE Failover -------------------------------
(***************************************************************************)
(* When the client of kanrin leaves a connection: the select! loop of      *)
(* pipeline.rs with the LivenessMonitor of switch.rs, in discrete time.    *)
(* The module keeps the timing and the order in which the loop notices     *)
(* things; what the connections carry is the subject of Uplink and         *)
(* Downlink.                                                               *)
(*                                                                         *)
(* Timers are kept as the time elapsed since an instant or left until one. *)
(* The loop is prompt: time does not pass while it waits in select! and a  *)
(* branch is ready.  Which of several ready branches runs is a choice.     *)
(*                                                                         *)
(* An operator whose name starts with Bad is a plausible mistake in the    *)
(* operator that follows it.  No definition of the model uses one.         *)
(***************************************************************************)
EXTENDS Integers

CONSTANTS
  ProbeInterval,  \* PROBE_INTERVAL: period of the liveness tick and of probes
  Timeout,        \* LIVENESS_TIMEOUT
  RoundTrip,      \* longest time between a ping and the reply of a sound link
  MaxFailed       \* MAX_FAILED_SWITCHES

ASSUME FailoverAssumption ==
  /\ ProbeInterval \in Nat \ {0}
  /\ Timeout = 3 * ProbeInterval
  /\ RoundTrip \in Nat /\ RoundTrip < 2 * ProbeInterval
  /\ MaxFailed \in Nat \ {0}

\* Silence is not measured beyond this point (bounds the model).
Deaf == Timeout + ProbeInterval

VARIABLES
  phase,    \* what run_pipeline is doing: "select", "parked" in a send,
            \* "switching" in attempt_switch, "ended"
  link,     \* the active connection: "up", "silent" (drops everything), "reset"
  silence,  \* LivenessMonitor: last_inbound.elapsed(), up to Deaf
  probed,   \* LivenessMonitor: last_probe.elapsed(), up to ProbeInterval
  wait,     \* time until the next liveness_tick, 0 when it is due
  replies,  \* frames on the way to the client: times until they can be read
  failed,   \* failed_switches
  since     \* history: what has happened since the last inbound frame, of
            \* "fault" (of the link), "stall" (of the loop), "attempt" (to leave)

vars == <<phase, link, silence, probed, wait, replies, failed, since>>
monitorVars == <<silence, probed>>

Smaller(a, b) == IF a < b THEN a ELSE b

Init ==
  /\ phase = "select" /\ link = "up"
  /\ silence = 0 /\ probed = 0 /\ wait = 0
  /\ replies = {} /\ failed = 0 /\ since = {}

-----------------------------------------------------------------------------
(* Time and the network.                                                   *)

Pass ==
  /\ phase # "ended"
  /\ phase = "select" => wait > 0 /\ 0 \notin replies /\ link # "reset"
  /\ silence' = Smaller(silence + 1, Deaf)
  /\ probed' = Smaller(probed + 1, ProbeInterval)
  /\ wait' = IF wait > 0 THEN wait - 1 ELSE 0
  /\ replies' = {IF r > 0 THEN r - 1 ELSE 0 : r \in replies}
  /\ UNCHANGED <<phase, link, failed, since>>

\* The server sends something of its own accord: data, an ack.
ServerSends ==
  /\ phase # "ended" /\ link = "up"
  /\ \E r \in 0 .. RoundTrip : replies' = replies \cup {r}
  /\ UNCHANGED <<phase, link, monitorVars, wait, failed, since>>

\* The link drops everything without an error, or fails with one.  A frame
\* that has arrived can still be read.
GoSilent ==
  /\ phase # "ended" /\ link = "up"
  /\ link' = "silent"
  /\ replies' = replies \cap {0}
  /\ since' = since \cup {"fault"}
  /\ UNCHANGED <<phase, monitorVars, wait, failed>>

Recover ==
  /\ phase # "ended" /\ link = "silent"
  /\ link' = "up"
  /\ UNCHANGED <<phase, monitorVars, wait, replies, failed, since>>

Reset ==
  /\ phase # "ended" /\ link \in {"up", "silent"}
  /\ link' = "reset"
  /\ replies' = {}
  /\ since' = since \cup {"fault"}
  /\ UNCHANGED <<phase, monitorVars, wait, failed>>

-----------------------------------------------------------------------------
(* The loop.                                                               *)

\* (Mistake: the comparison is strict.)
BadIsDead == silence > Timeout
IsDead == silence >= Timeout

ShouldProbe == silence >= ProbeInterval /\ probed >= ProbeInterval

\* A send on a connection that takes nothing parks the loop; a sound one may
\* be congested for a while.
Sends == phase' \in (IF link = "reset" THEN {"select"} ELSE {"select", "parked"})

Stalls == since' = IF phase' = "parked" THEN since \cup {"stall"} ELSE since

Leave ==
  /\ phase' = "switching"
  /\ since' = since \cup {"attempt"}

Inbound ==
  /\ phase = "select" /\ 0 \in replies
  /\ replies' = replies \ {0}
  /\ silence' = 0
  /\ Sends
  /\ since' = (IF link = "up" THEN {} ELSE {"fault"})
               \cup (IF phase' = "parked" THEN {"stall"} ELSE {})
  /\ UNCHANGED <<link, probed, wait, failed>>

\* The liveness tick on a link that has been silent for too long.
DeclareDead ==
  /\ phase = "select" /\ wait = 0
  /\ IsDead
  /\ wait' = ProbeInterval
  /\ Leave
  /\ UNCHANGED <<link, monitorVars, replies, failed>>

\* (Mistake: a ping counts as a sign of life.)
BadProbe ==
  /\ phase = "select" /\ wait = 0
  /\ ~IsDead /\ ShouldProbe
  /\ wait' = ProbeInterval
  /\ probed' = 0 /\ silence' = 0
  /\ \/ link = "up" /\ \E r \in 0 .. RoundTrip : replies' = replies \cup {r}
     \/ link # "up" /\ UNCHANGED replies
  /\ Sends /\ Stalls
  /\ UNCHANGED <<link, failed>>

\* The liveness tick on a link that has been quiet for a while: a ping, which
\* a sound link answers within RoundTrip.  An error of this send is ignored.
Probe ==
  /\ phase = "select" /\ wait = 0
  /\ ~IsDead /\ ShouldProbe
  /\ wait' = ProbeInterval
  /\ probed' = 0
  /\ \/ /\ link = "up"
        /\ \E r \in 0 .. RoundTrip : replies' = replies \cup {r}
     \/ /\ link # "up"
        /\ UNCHANGED replies
  /\ Sends /\ Stalls
  /\ UNCHANGED <<link, silence, failed>>

QuietTick ==
  /\ phase = "select" /\ wait = 0
  /\ ~IsDead /\ ~ShouldProbe
  /\ wait' = ProbeInterval
  /\ UNCHANGED <<phase, link, monitorVars, replies, failed, since>>

\* A packet of the TUN device.
SendPacket ==
  /\ phase = "select"
  /\ IF link = "reset" THEN Leave ELSE (Sends /\ Stalls)
  /\ UNCHANGED <<link, monitorVars, wait, replies, failed>>

\* A parked send completes, or ends with an error: one of a data chunk or an
\* ack leaves the connection, one of a ping is ignored.
Unpark ==
  /\ phase = "parked"
  /\ \/ link = "up" /\ phase' = "select" /\ UNCHANGED since
     \/ link = "reset" /\ (Leave \/ (phase' = "select" /\ UNCHANGED since))
  /\ UNCHANGED <<link, monitorVars, wait, replies, failed>>

RecvFails ==
  /\ phase = "select" /\ link = "reset"
  /\ Leave
  /\ UNCHANGED <<link, monitorVars, wait, replies, failed>>

\* (Mistake: the monitor is not reset.)
BadSwitchOver ==
  /\ phase = "switching"
  /\ phase' = "select" /\ link' = "up"
  /\ replies' = {} /\ failed' = 0 /\ since' = {}
  /\ UNCHANGED <<monitorVars, wait>>

\* attempt_switch returns the previous connection.
SwitchOver ==
  /\ phase = "switching"
  /\ phase' = "select" /\ link' = "up"
  /\ silence' = 0 /\ probed' = 0
  /\ replies' = {} /\ failed' = 0 /\ since' = {}
  /\ UNCHANGED wait

\* (Mistake: one failure too many is let through.)
BadSwitchFails ==
  /\ phase = "switching"
  /\ failed' = failed + 1
  /\ phase' = IF failed + 1 > MaxFailed THEN "ended" ELSE "select"
  /\ UNCHANGED <<link, monitorVars, wait, replies, since>>

\* It returns None: the connection is kept, until there have been too many.
SwitchFails ==
  /\ phase = "switching"
  /\ failed' = failed + 1
  /\ phase' = IF failed + 1 >= MaxFailed THEN "ended" ELSE "select"
  /\ UNCHANGED <<link, monitorVars, wait, replies, since>>

-----------------------------------------------------------------------------
Network == ServerSends \/ GoSilent \/ Recover \/ Reset

Loop ==
  \/ Inbound \/ DeclareDead \/ Probe \/ QuietTick \/ SendPacket
  \/ Unpark \/ RecvFails \/ SwitchOver \/ SwitchFails

Next == Pass \/ Network \/ Loop

Spec == Init /\ [][Next]_vars

\* Time passes, and the loop runs when it is neither parked nor switching.
FairSpec ==
  Spec /\ WF_vars(Pass) /\ WF_vars(Inbound) /\ WF_vars(DeclareDead) /\ WF_vars(Probe \/ QuietTick)

-----------------------------------------------------------------------------
(* Properties.                                                             *)

\* The shape of every variable.
TypeOK ==
  /\ phase \in {"select", "parked", "switching", "ended"}
  /\ link \in {"up", "silent", "reset"}
  /\ silence \in 0 .. Deaf
  /\ probed \in 0 .. ProbeInterval /\ wait \in 0 .. ProbeInterval
  /\ replies \subseteq 0 .. RoundTrip
  /\ failed \in 0 .. MaxFailed
  /\ since \subseteq {"fault", "stall", "attempt"}

\* switch.rs, should_probe: a quiet link is probed so that its silence means
\* something.  So a link that has been sound since the last frame, and that
\* answers a ping in less than two probe intervals, is never taken for dead,
\* however idle the tunnel is and however the ticks fall.
QuietLinkKept ==
  phase = "select" /\ wait = 0 /\ IsDead => since # {}

\* A link that delivers nothing is noticed by the first tick after the
\* timeout, so within one probe interval of it, unless the loop was parked in
\* a send.
SilenceNoticed ==
  phase = "select" /\ since \subseteq {"fault"} => silence < Timeout + ProbeInterval

\* pipeline.rs, on the liveness tick: the loop probes and then leaves a link
\* that delivers nothing.  A link that stays silent is left sooner or later, or
\* the attempts to leave it fail until the tunnel is given up; only a parked
\* send keeps the loop from trying.
SilenceActedOn ==
  link = "silent" ~> link # "silent" \/ phase \in {"parked", "switching", "ended"}
=============================================================================
