# Verification of kanrin

kanrin is a VPN whose tunnel outlives its transports: a client carries the IP
packets of a TUN device over one connection (TLS/TCP, WebSocket or QUIC), and when
that connection fails or is blocked it resumes the session on another one,
replaying what the peer has not received. This directory holds TLA+ models of
that machinery, the TLC runs that check them on small instances, and TLAPS proofs
of the properties that matter most.

Source paths below are relative to `src/kanrin/kanrin-core/crates/`; the exact
lines each definition stands for are in `PROJECT.json` ("map").

## Inventory

| component | state | operations | speaks to | module |
|---|---|---|---|---|
| continuity layer, `kanrin-protocol/continuity.rs` | send buffer, receive buffer, replay cursor, byte counters | push, apply_ack, replay, accept, drain_ready, build_ack | owned by the client pipeline and by the server's session entry | ContinuityBuffers |
| session and wire, `session.rs`, `wire.rs` | send and receive sequence | encrypt, decrypt, encode, decode | everything above a connection | Transports, ContinuityBuffers |
| transports, `kanrin-transport` | read buffer, streams, socket | auto_connect, send, recv, close | pipeline, server | Transports |
| handshake, resumption, `handshake.rs`, `resume.rs` | key pair used once, resumption key | hello, verify, request, answer | first frames of a connection | Admission |
| client pipeline, `kanrin-client/pipeline.rs` | active and draining connection, buffers, failed switches, timers | one `select!` loop; setup and cleanup | transports, TUN, events | Uplink, Downlink, Failover, Steering, ClientLifecycle |
| switching, `switch.rs` | LivenessMonitor, SwitchPolicy | prepare_standby, resume_on, replay_onto, probe, allows, record | called by the pipeline | Uplink, Downlink, Failover, Steering |
| posture, `posture.rs` | posture, floor, streak, time at the posture | observe, force | pipeline | Steering |
| multipath, `multipath.rs` | paths, credits, health of each | add, remove, assign, hedge, record | nothing calls it yet | Multipath |
| client lifecycle, `lib.rs`, `ffi.rs` | runtime, pipeline task, shutdown signal, state | new, start, stop, destroy | pipeline | ClientLifecycle |
| TUN, routes, kill switch, `kanrin-tun` | device, saved routes, host route | open, activate, deactivate | pipeline | ClientLifecycle |
| server session, `kanrin-server/session.rs` | address pool; a reader and a writer task per connection | accept_new, accept_resume, serve | registry, forwarder | Uplink, Downlink, SessionRegistry, Admission |
| session registry, `registry.rs`, `main.rs` | entries, attached writer, last activity, active clients | insert, get, attach, touch, reap | accept loop, reaper, sessions | SessionRegistry |
| forwarder, `forwarder.rs` | reply queue per address | register, unregister, dispatch | TUN of the server, sessions | SessionRegistry, Downlink |
| front door, `frontdoor.rs`, `http.rs`, `origin.rs` | nonces seen | admit, respond | first bytes of a connection | Admission |
| path selection, `kanrin-engine` | probe windows, scores, current path | probe_all, update, evaluate, record_switch | nothing calls it yet | PathChoice |
| DNS pool, NAT, routing rules, stealth, plugins, CLI | configuration, tables | | | not modelled |

The hard behaviours: two connections of one session alive at the same time, each
with its own tasks on the server; acknowledgements that arrive late and over a
connection already left; futures and tasks dropped at an await; a reaper and a
dispatcher beside them; a client whose one loop does everything, so that whatever
it awaits delays the rest; calls of the C interface that return before what they
stop has ended; a clock read before the lock under which it is used.
`PROJECT.json` lists the hazards with the line where each bites and the
properties aimed at it.

What makes each part correct:

* continuity: packets leave in the order they entered, each once; a packet is
  retained until the peer has it; byte counters are exact;
* transports: what arrives is what was sent, whole and in order, whichever reads
  are cancelled;
* switching: a switch, and a failed switch, loses nothing; a silent link is
  left and a sound one is not; a flapping network does not make a loop of switches;
* posture: evasion is left only after a quiet time, and is left in the end;
* server: an address has one owner and comes back to the pool; replies go to the
  owner of their address;
* front door: a cookie opens one tunnel, and a tunnel starts at a frame boundary;
* lifecycle: whatever calls are made, the machine gets its routes back, as far as the
  commands that do it succeed;
* multipath and path selection: traffic is split as promised, a blocked path is
  left, and the choice settles.

## Modules

| module | models | notes |
|---|---|---|
| `ContinuityBuffers` | every operation of `continuity.rs` as operators on records | no state of its own |
| `ReliablePipe` | what `continuity.rs` promises | the abstract specification |
| `Uplink` | client to server: TUN branch, standby, replay, swap; attachment, reader loop, acknowledgements | extends ContinuityBuffers, implements ReliablePipe |
| `Downlink` | server to client: dispatcher, writer task, replay under the lock, attachment; the client's inbound branch | the same |
| `Transports` | one direction of one connection, from message to message | what Uplink and Downlink assume of a link |
| `SessionRegistry` | accept loop, IpAllocator, registry, reaper, forwarder | connections without their traffic |
| `Admission` | front door, handshake, resumption, and the peers that drive them | how a connection comes to the stage where SessionRegistry and Uplink take it up |
| `Failover` | the `select!` loop in time: liveness ticks, probes, parked sends, switch attempts | links without their traffic |
| `Steering` | posture controller and SwitchPolicy in the time of that loop | |
| `ClientLifecycle` | C interface, runtimes, pipeline setup and cleanup, device and routes | |
| `Multipath` | `multipath.rs` | its caller is modelled from its comments and tests |
| `PathChoice` | Prober, ScoreBoard, Switcher | the same |
| `BufferProofs`, `UplinkProofs`, `DownlinkProofs`, `RegistryProofs`, `AdmissionProofs`, `LifecycleProofs` | theorems | each extends the module it is about |
| `LinkProofs` | theorems about one link: Transports (what it carries) and Failover (when it is left) | two specifications side by side, not a composition |
| `PolicyProofs` | theorems about what the client decides by: Steering and Multipath | the same |
| `MCUplink`, `MCDownlink`, `MCTransports`, `MCRegistry`, `MCAdmission`, `MCFailover`, `MCSteering`, `MCLifecycle`, `MCMultipath`, `MCPathChoice` | instances for TLC | values of CONSTANTS only |

An operator named `Bad...` is a plausible mistake in the operator after it; no
definition of a model uses one. They exist so that each property can be shown to
fail when the code is wrong (`PROJECT.json`, "mutants"). The names of Transports and
Multipath that every module has (`TransportsSpec`, `SchedulerTypeOK`) carry a prefix,
because `LinkProofs` and `PolicyProofs` each extend two specifications at once.

### State and actions against the code

**ContinuityBuffers.** A `BTreeMap` of chunks is a function from a finite set of
sequences. A payload is a member of `Data` with a `Size`. `Accept`, `Drain` and
`Ready` split `accept`/`drain_ready` into the three things they do; `BuildAck`
coalesces the held sequences into runs and keeps the lowest `MaxSackRanges`. What
a byte counter should say, `TotalSize`, is the number of pairs of a held sequence
and a place in its chunk.

**Uplink.** A *link* is one connection: a FIFO of frames each way, numbered in
the order the client opens them. `Break` loses a suffix of what is in flight.
`phase` says where the client is inside `attempt_switch`: preparing, resumed,
replaying. While it is there the `select!` loop does nothing else, as in the code.
On the server, `serving[l]` is the progress of the task of link `l`; accepting a
chunk and draining (under the lock of the receive buffer), forwarding (after it)
and acknowledging are separate steps, because other readers run in between.

**Downlink.** `task[l]` is the writer task of link `l`. It owns the reply queue
while it runs, waits for the lock of the send buffer with every packet it has taken
(`parked`), whether a replay, a resumption or an acknowledgement holds it, and may be
aborted at either await. `accepted`, `dropped` and `raced` are history: the replies in
the order in which the writers took them, the sequences lost with an aborted writer,
and whether a chunk was retained too late for the replay of a connection about to attach. `AcceptResume`, `BeginReplay`,
`ReplayChunk`, `EndReplay` and `Attach` are the stages of a resumed connection.

**Transports.** Lengths are counted in units (a header, a field, a padding, a tag,
a piece of the length prefix), so that a read may end anywhere inside a prefix or
a frame. `Call` starts a `recv` future and `Drop` is what `select!` does to it when
another branch wins; what survives is what the code keeps outside of the future
(`read_buf` of `tls_tcp.rs`, the stream inside the WebSocket library, nothing of an
accepted QUIC stream). The server reads with `read_exact` and is never cancelled.
`AutoConnect` is one step of the loop of `auto_connect`: a connection, the next
transport, or, after the last, failure.
`torn` is a history variable: a QUIC `recv` was dropped while it held a stream.

**SessionRegistry.** A session is named by the connection that created it. The
reaper's removal from the registry, from the forwarder and the release of the
address are separate steps; so are the dispatcher's lookup and its send. Time
is a tick that ages every entry, capped just above `Linger`.

**Admission.** `stage[c]` follows the task of connection `c`: reading a head,
asking the origin, waiting for the lock of the seen nonces, writing the reply, then
the tunnel: first chunk, password, registration. The clock is read (`at[c]`) before the
lock is taken, as in `admit`. A peer is a visitor, who may send anything a
browser would, a client that asks with a cookie, as `frontdoor.rs` describes it, or a
bare one that starts with its hello, as the client of this commit does.
`spent`, `reused`, `latest` and `regressed` are history: which cookie opened which
tunnel, and whether an admission used an earlier reading than one before it.

**Failover.** Timers are kept as time elapsed or left, so the state space is
finite without a clock. The loop is prompt: no time passes in `select!` while a
branch is ready. A send may complete or park the loop (`Sends`); a parked send
ends when the link recovers or is reset. `since` is a history variable: what has gone
wrong since the last frame arrived.

**Steering.** The same loop as the posture controller sees it: `wait` is the time
until `posture_tick` is due and is negative when the loop is late for it, because
it waits in a send or in a switch. `quiet` (time since the last adverse signal) and
`recent` (ages of the voluntary switches) are history.

**ClientLifecycle.** The phases of `run_pipeline` are split into those that wait,
where a runtime that shuts down drops the task and with it its owners (`DropTask`
and what follows), and the synchronous ones, which nothing interrupts, not even the
end of the five seconds `stop` grants. Every step of setup and cleanup that can
fail does, those whose failure the code does not look at included: each `ip route`
may fail unnoticed, when a route is read, set, put back or removed (`routing.rs:163-186`,
250-255, 305-308, 333-336), and what was saved is forgotten all the same. The kernel's
side is what the steps need: the name of a TUN device is taken while a descriptor, or
a read in flight, keeps it; a default route through the device disappears with it.
Every run asks for the same name, as it does with the default configuration: with
a name of its own per run nothing keeps two of them apart. `overrun` and `lost` are
history: a stop returned before its pipeline had ended; a gateway was not read, or not
put back, because a command failed. A route to the server that could not be removed is
`left`.

**Multipath.** Any number of paths, with capacities of a few units. Credit is counted in
parts of a chunk (`Chunk` of them) that every total of capacities divides, so that the
arithmetic is exact; the code's is in floating point, where rounding decides which of
equal credits wins, so any of the richest paths may be chosen (`Richest`). Smoothed loss
is counted in sixty-fourths. The sum of the healthy capacities, `Total`, is the number of
their units (`Capacity`). `flight` is what is really on its way; `out` is the difference
of the code's three counters.

**PathChoice.** A probe window is a sequence of latencies and failures; scores are
exact fractions of it. The order in which a hash map is walked is a choice made
whenever an entry is added, so that equal scores are ranked in either order. What a
probe finds (`net`) and what a connect needs (`Connects`) are two things: the probe of
tls-tcp ends with the TCP connection (`tls_tcp.rs:132-148`), so a path whose handshake is
cut (`filtered`) passes it. The scheduler may report any of the paths
(`multipath.rs:236`), as others may.

## Runs

| run | instance | properties, and what it shows |
|---|---|---|
| `uplink_safety` | 2 packet sizes, 3 sequences, 1 control chunk, 2 breakable links | `ForwardedOnce`, `RetainedUntilReceived`, `StreamInv`, `AcksDecodable`, `BuffersBounded` (exact byte counters within their limits), `ImplementsPipe`: nothing is forwarded twice or released before the peer has it |
| `uplink_live` | 2 packets, 3 links of which the third is sound | `NothingStranded` (what a sound link carries, while no control chunk and no rejected packet has left a gap), `EveryPacketDelivered`: every packet is forwarded |
| `uplink_control_hole` | as `uplink_live`, with a control chunk | **violation** of `EveryPacketDelivered`: see below |
| `downlink_switch` | 2 packet sizes, 2 sequences, 1 control chunk, 3 links, the third sound | `RetainedUnlessDropped`, `ImplementsPipe`, `EveryReplyDelivered` (unless one was rejected, dropped or raced, is behind a control chunk, or the sound link was evicted) |
| `registry_safety` | 3 connections, 2 addresses, 2 slots | `TypeOK`, `AddressInOnePlace`, `QueueBelongsToOwner`, `PoolRefills` |
| `admission_door` | 2 connections of any kind, 2 cookies a second apart, an upstream origin | `TypeOK`, `CookieOnce`, `TunnelStartsClean`, `TunnelSettles` |
| `failover_timing` | probe interval 3, timeout 9, round trip up to 5 | `TypeOK`, `QuietLinkKept`, `SilenceNoticed`, `SilenceActedOn` |
| `steering_posture` | clean period 2, three of them to relax, minimum time 4, flap window 4 | `TypeOK`, `RelaxedOnlyWhenQuiet`, `VoluntaryIsRateLimited`, `ReturnsToFloor` |
| `lifecycle_calls` | 3 starts | `TypeOK`, `NetworkRestored`, `RoutesHaveOneOwner`, `ConnectedIsTrue`, `RouteComesBack` |
| `transports_framing` | 3 messages: ping, ack, data; prefix of 2 units, reads of up to 3 | `TransportsTypeOK`, `WholeChunks`, `ChunksArrive` |
| `multipath_split` | 3 paths, equal or one of double capacity, 1 chunk in flight on each, 1 loss, 1 removal or change of capacity | `SchedulerTypeOK`, `SplitIsProportional`, `SilenceMeansOwing` |
| `pathchoice_settle` | 2 paths (quic in 20 ms; tls-tcp in 470 ms or 5 s, at times filtered), windows of 2 probes, cooldown 1 | `LeavesBlockedPath`, `SettlesWithoutNews` |

`uplink_control_hole` shows the code disagree with its own comment: an ack or a
ping takes a sequence of the data space that the receive buffer is never offered,
and every later packet is held above it for ever (the finding in `PROJECT.json`
has the quotation). It bounds what the others can say: in `uplink_safety` and
`downlink_switch` a control chunk does occur and everything after it is held, which
the safety properties allow; delivery is checked without control chunks
(`uplink_live`) or with the exception named (`downlink_switch`).

### Bounds, and why they are enough

* Two sizes of packet and bounds of 1 to 3 bytes let a buffer be empty, partly
  full, full, refuse a chunk while not full, and take one oversized chunk.
* Two or three sequences give a gap with a held chunk behind it, and a replay of
  more than one chunk; `MaxSackRanges = 1` puts the cap on the ranges into effect.
* Two links give duplicates and reordering across a switch; the third lets a
  switch be interrupted by the next one while the old connection is still read.
* Three connections over two addresses make exhaustion, reuse after reaping, and
  a resumption beside both.
* Two connections and two cookies with a window of one second let a cookie be
  presented twice, forgotten, and presented by a request that was overtaken at the
  edge of its window; a third connection would only repeat one of the two.
* In `Failover` the ratio of timeout to probe interval is the code's (750 ms to
  250 ms), three units per interval place the ticks, frames and faults in every
  relative order, and `RoundTrip < 2 * ProbeInterval` is the exact limit: with a
  round trip of two intervals TLC finds a sound idle link declared dead. For the
  code's constants that is a round trip of 500 ms.
* In `Steering` the minimum time is as long as all clean periods but one, which is
  the code's case (120 s, five periods of 30 s), a stall lasts up to two periods, and
  three doublings reach the maximal cooldown.
* Three starts let one run linger, the next fail on the taken name, and a third
  begin while either of them is cleaning up.
* Three messages of different shapes and reads of up to three units end a read
  inside a prefix, at its end, inside a frame, and across two frames.
* Three paths are the client's three transports, and the fewest of which one can fall a
  whole chunk behind; one loss quarantines a path, one removal lets it be added again
  with a chunk in flight, and one change of capacity gives a path twice the share. The
  names of paths may be permuted.
* A window of two probes has every mixture of success and failure that the score
  tells apart. One path is just prompt enough to outweigh every report and measurement
  (470 ms: `Prompt`), or, at 5 s, is outweighed by them, so both cases occur. Without
  either exception of `LeavesBlockedPath`, for slow and for filtered paths, TLC finds it
  violated on this instance.
* `FaultFree` names the link that does not break. Without one, no delivery can
  be promised; it is 0, and every link may break, in the safety runs.

Symmetry is used for the three paths of `multipath_split` only, which checks
invariants. Deadlock is checked in `steering_posture`, whose loop never stops. The
other systems really may stop: a bounded number of packets, links, connections,
messages or starts runs out, a client gives up, a prober is shut down.

### Fairness, and why the code justifies it

* `Uplink`, `Downlink`: weak fairness of each server task, of the client's
  receive branch, of the end of a switch, and of leaving an unusable link: tokio
  polls every task that can run, `select!` picks at random among the ready
  branches, and the liveness tick declares a dead link dead. Breaking a link, reading a
  packet and switching for no reason are never required.
* `SessionRegistry`: weak fairness of the clock and of the reaper, which is an
  interval in a task of its own. Connections are not required to end.
* `Admission`: weak fairness of the server's and of the client's task of each
  connection. Visits, failures and the passing of time are not required.
* `Failover`: time passes, and the ready branches of the loop are run.
  Nothing is required of the network, of a parked send or of a switch attempt.
* `Steering`: strong fairness of time and of the posture tick, because other branches
  of `select!` come and go beside them and the choice among ready ones is
  random; weak fairness of the end of a send and of a switch. That a send ends is an
  assumption on the network (Failover has the case in which it does not).
* `ClientLifecycle`: weak fairness of the caller that is inside a call and of each
  pipeline. Nobody owes a call, a failure, or a packet for the blocking read.
* `Transports`: the network delivers what was written; strong fairness of the reads,
  since `select!` drops `recv` now and then but, choosing at random, not for ever.
* `PathChoice`: weak fairness of ticks, probes and time; strong fairness of the shutdown
  branch, of asking the switcher and of connecting to a path that lets it through. The
  last two are assumptions on a caller that does not exist yet.

## Departures from the comments

What the models show the code to do where a comment promises otherwise, or where
a property above had to except it. `uplink_control_hole` is a run; the others were
found while modelling and are kept as exceptions in the properties.

Server and sessions:

* Readers of the old and of the new connection forward what they drained after the
  lock is given up, so packets may leave the server out of order (`session.rs:522`).
* Acknowledgements are considered only when a chunk is accepted (`session.rs:510`), so
  a send buffer that is full may stay full; the comment at `session.rs:31-32` promises
  one after a time, so that a slow flow does not wait for the count.
* A writer that is aborted while it waits for the send buffer (`session.rs:447`) loses a
  reply whose sequence is already taken (439-442). An attachment (470) or the end of its
  own reader (559) may do so at any time: not only a replay holds that lock, the readers'
  `apply_ack` (539) and `accept_resume` (251-255) do too. No later reply is delivered
  in order after that, since the client waits for the sequence (`EveryReplyDelivered`
  excepts it as `dropped`).
* A reply retained between the replay of the new connection and its attachment
  (`session.rs:470`) is missing from the connection in use; the comment at 467-469 says
  there is no gap (`raced`).
* Attachments are not ordered: the task of an older connection that attaches late evicts
  the writer of the one in use (`registry.rs:59`), which then delivers nothing more. The
  client leaves it for another connection; where the model has none left,
  `EveryReplyDelivered` excepts it (`Evicted`).
* A session can be reaped while the replay of its accepted resumption is being
  written (`session.rs:238`).
* A keep-alive visitor who upgrades later uses up the cookie and is then turned away
  (`session.rs:655`).
* An upstream that accepts and closes at once gives an empty response, though
  `origin.rs:50` says every path returns bytes; client and server then wait for each
  other without a timeout.
* The client of this commit starts with its hello (`pipeline.rs:195`), which the front
  door takes for a malformed request; it never sends the request and the cookie that
  `frontdoor.rs:57` and `105` say a client does. As built, the two do not meet.

Client:

* The server attaches a standby before its replay has come through, so a switch
  that fails has already cost the connection that is kept its writer
  (`pipeline.rs:99` against 54-55).
* A send on a link that takes nothing parks the loop, and with it the liveness tick
  (`pipeline.rs:502` against 604-606).
* A start after the tunnel has given up waits in the Drop of the old runtime for a
  blocking read that nothing ends (`lib.rs:111`); `lib.rs:70` says "Non-blocking —
  returns immediately".
* A pipeline on which `stop` has given up may still write `Connected` (`lib.rs:132`).
* A default route without a gateway is saved but not restored (`routing.rs:74`).
* "Restore original routing table" (`routing.rs:62`) is one attempt: an `ip` that cannot be
  started, or fails, is not noticed (`routing.rs:250-255`, and 168-172 when the route is
  saved), the saved route is forgotten (84) and the machine stays without its default
  route, or with the route to the server, whatever is called next.
* The kill switch of Linux starts `nft` but never writes the rules to its input
  (`killswitch.rs:243`).
* `PostureController::profile` is never applied, and neither `BetterPathAvailable` nor
  `force` is ever raised by the pipeline.
* A QUIC `recv` dropped after `accept_bi` loses the frame (`quic.rs:187-217`).

Parts that nothing calls yet:

* One loss makes the smoothed rate 0.25, above the limit of 0.20: the path is
  quarantined, and with nothing in flight it never recovers (`multipath.rs:55-58`, `117`).
* "Over any window the split matches the measured capacity ratio exactly"
  (`multipath.rs:249-251`): of three equal paths, one that leaves the rotation and comes
  back, or is removed and added again, can leave another a whole chunk behind its share,
  and with three removals TLC finds one 14 twelfths behind. What holds is a chunk for
  every other path (`SplitIsProportional`).
* "A path that has simply been idle is *not* unhealthy", "otherwise a quiet tunnel would
  disqualify all of its own paths" (`multipath.rs:131-133`): the time of the last success is
  compared while anything is owed (141-142), and not the time since it was sent. After
  more than `STALE_AFTER` (5 s) without traffic the first chunk assigned to a path makes it
  unhealthy at once, until it is acknowledged; a few chunks disqualify all paths.
* "Probe whether this transport can reach the server" (`traits.rs:55`): over tls-tcp the probe
  only opens a TCP connection (`tls_tcp.rs:136`), while `connect` needs the handshake (179).
  Where that is cut, the path passes every probe, may stay first in the ranking and fail
  every connection, of which nothing is recorded; `evaluate` names it again and
  again, and the client stays where it is, even if that path is blocked and a third one works.
* A path that fails every probe still scores up to 0.2 for the praise of others, and up to 0.68
  with a measurement. A path whose probes take longer than 470 ms may score less, and is then
  not switched to: `LeavesBlockedPath` is about prompt ones.
* A measured score is between 0 and 1 while a probe scores up to 50, so every
  measurement ranks the path in use below its equals and the switcher changes
  path at every cooldown; a path that fails may also keep its rank, contrary to the
  comment in `scoreboard.rs` near line 98.
* Below the threshold the switcher moves to an equally bad path although its
  reason says "better option available" (`switcher.rs:69-76`).
* `dns.rs:126` wraps around to evict the oldest fake address and evicts none.

## Proofs

All are checked by TLAPS for every value of the constants that satisfies the
named assumption of the module (`BufferAssumption`, `UplinkAssumption`,
`DownlinkAssumption`, `FailoverAssumption`, `RegistryAssumption`,
`AdmissionAssumption`, `LifecycleAssumption`, `SteeringAssumption`,
`MultipathAssumption`, and `TransportsAssumption` with `MessagesAssumption`), which TLC
evaluates in the runs. In `LinkProofs` and `PolicyProofs` each theorem rests on the
assumptions of its own component only. Every inductive invariant below was first checked
by TLC on the instance of the run, or on a larger one. With them every invariant that a
run checks is a theorem, but for `SplitIsProportional`.

`MessagesAssumption` says that messages are of the types of the code and that their
payloads are shorter than 2^16 units. `Chunk` writes the length of a payload `as u16`
(`wire.rs:131`) and does not look whether it fits; what is given to it does: a packet comes
from a buffer of 1500 bytes (`kanrin-tun/src/device.rs:258`, `325`), a control message is a
few fields. Without the assumption a longer payload would be opened cut off.

**BufferProofs**: what `accept` adds and makes ready (`AcceptProperties`), what
`apply_ack` releases (`ApplyAckProperties`), what `build_ack` claims
(`BuildAckProperties`) and that `decode` takes it (`BuildAckDecodable`): the runs of a
set of sequences are disjoint and never adjacent (`RunProperties`), and cutting
them off after the lowest `MaxSackRanges` leaves no more than that
(`LowestRunsBounded`). `PushKeepsCounter`, `AckKeepsCounter` and `AcceptKeepsCounter`
say that each operation keeps its byte counter exact and within its limit, a
replaced chunk included. They rest on `TotalSizeInsert`, `TotalSizeSplit` and
`TotalSizeReplace`, which follow from the library's theorems about the cardinality of
finite sets; a sum defined by recursion over the buffer could not be proved about.

**UplinkProofs**: `Spec => []TypeOK`, every invariant of the runs, and that Uplink
implements ReliablePipe.

* Neither `ReleasedInOrder` nor `RetainedUntilReceived` is inductive: the
  first needs to know that every frame in flight and every chunk held carries what
  was encrypted under its sequence (`FramesCarrySent`, `BuffersHoldSent`) and how
  that relates to what the TUN device handed over (`ReleasedIsSent`,
  `AcceptedIsSent`); the second that every acknowledgement still in flight, and
  the resume position, claims only what the server holds (`AcksClaimReceived`),
  which stays true because the server's receive buffer only grows
  (`ReceivedMonotone`). Their conjunction is `StreamInv`, checked by TLC in
  `uplink_safety`.
* The refinement maps `delivered` to what `drain_ready` has
  released: a packet that enters is a `Put`, an accepted chunk that drains is a
  `Deliver`, and everything else stutters.
* `ForwardedOnce` counts places: each place of the released stream is
  forwarded or in the hands of one reader, never both, never twice (`ForwardInv`).
* `AcksDecodable` follows each acknowledgement from `build_ack` to the resume request;
  `BuffersBounded` is inductive beside `TypeOK`, by the lemmas on counters.
* `NothingStranded` needs the order in which a link carries its chunks
  (`CarryInv`): a sound active link carries, in ascending order, every chunk sent that
  the server lacks, and a sound standby those that the replay has passed. The
  order is what makes it inductive: the first chunk read that the server does not hold
  is then the one it waits for, which is drained at once and never refused for want of
  room. A control chunk or a rejected packet breaks the argument, which is why `Gapless`
  is a hypothesis and `uplink_control_hole` a violation.

**DownlinkProofs**: `Spec => []TypeOK`, `[]RetainedUnlessDropped`, and that Downlink implements
ReliablePipe; further that acknowledgements stay decodable and counters exact. The
inductive invariant `ReplyInv` has the parts of `StreamInv`, and two about the tasks
of the server: `HandTypes`, what a writer that has taken a packet holds, and
`ReplayHoldsLock`: a connection holds the lock of the send buffer exactly while it
replays, and has no writer of its own before it is attached. So a
task whose replay ends had none that could be waiting (`ParkedStep`), and a reply that
was neither rejected nor dropped is with a waiting writer, in the send buffer or with
the client (`KeptStep`).

**LinkProofs**. *Transports*: `TransportsSpec => []TransportsTypeOK` and `[]WholeChunks`,
for any number of messages, any prefix, any size of a read, over each transport and into
the server.

* What has been returned does not say that the next frame will be whole, so
  `WholeChunks` is not inductive. `StreamGapless` is: what was read and is not decoded,
  what is under way and what is not yet written form one stream, which starts with
  the first unit of the next frame to return and, unless the network is cut, reaches
  the last unit sealed. A write, a read of any size and a dropped `recv` only move units
  along it; a send puts one frame behind it; serving takes one frame off its head.
* "Without a gap" could be a sum of lengths along the stream, and a proof about that an
  induction over data. It is a relation of each two units instead (`Apart`): unit k is
  as far behind unit j as their places, and the frames between them, say. Every part of
  a gapless stream has it at once, and the frame at the head is found where the prefix
  says it ends (`TransportsTypeOK` needs the same: `read_exact` stops there).
* A websocket's queue holds the frames not yet returned, in order, among the messages that
  are skipped (`MessagesQueued`). For QUIC, the streams accepted are those
  returned, one that is held, and those lost with a dropped `recv`
  (`StreamsAccepted`): as long as none was lost, frame n is on stream n.
* A frame sealed with a key under a sequence opens with that key as the message it was
  made of: `encode_sequenced` and `decode_sequenced`, the lengths in the header and the
  fields of every control message agree (`ControlReturns` and the lemmas after it).
* The proof found one thing: `AutoConnect` used a CASE whose guards overlap, of which TLC
  takes the first but which TLA+ leaves open. It is an IF now, as in `auto_connect`.

*Failover*: `Spec => []TypeOK`, `[]QuietLinkKept`, `[]SilenceNoticed`, for
every probe interval P with a timeout of 3P and round trips below 2P. The core is
`AnswerAwaited`: while nothing has gone wrong, the silence at the next tick is below
2P, or it is below 3P and an answer arrives before the tick after it, or an answer
arrives before the tick itself. It needs `ProbesPaced` (a tick that sends no probe on a
quiet link does not exist), `Excused` (the history records every departure from a
running loop on a sound link), `SilenceBounded` and `StillTrying`.

**RegistryProofs**: `Spec => []TypeOK`, `[]AddressInOnePlace`,
`[]QueueBelongsToOwner`, for any number of connections, any pool and any limit on
clients. `Placed` says of each address handed out so far that it is with one owner, with the
reaper, or in the pool; six lemmas show that each way an address moves keeps
it, and each action is then one of these moves. Which owner moves depends on
`StagesAgree`: a connection in the registry created its own session and is past its
registration, one that resumes holds another's, so that End and Fail return exactly
the addresses that no entry owns.

**AdmissionProofs**: `Spec => []TypeOK`, `[]CookieOnce` and `[]TunnelStartsClean`, for any
number of connections and cookies. `CookieOnce` needs `SpentIsKnown`: as long as readings
reach the lock in order, a cookie that has opened a tunnel is still among the seen
nonces, or the latest reading is past the end of its window; and its window had
begun. `TunnelStartsClean` needs that a connection still in `run` has never
refused a body.

**LifecycleProofs**: `Spec => []TypeOK`, `[]RoutesHaveOneOwner`, `[]NetworkRestored` and
`[]ConnectedIsTrue`, for any number of starts. `RouteInv` says that the TUN device is held
by one run at a time (`OneDevice`), that saved routes belong to its holder and are not
the tunnel (`SavedWithDevice`), and that every change of the routes is owed by a run that
is still in a phase that tries to undo it, or a command for it has failed (`TunIsHeld`,
`GatewayIsOwed`, `HostRouteIsOwed`). It is
needed because stops that give up waiting make runs overlap: nothing but the
taken name of the device keeps them apart. `ConnectedIsTrue` needs `CallInv`: as long as
no stop gave up, a run that has not ended and may still write the state is the one the client
holds or the one a call waits for (`CallOfRun`, `HeldRun`), so the state is what that
run last wrote (`StateIsTrue`).

**PolicyProofs**. *Steering*: `Spec => []TypeOK`, `Spec => RelaxedOnlyWhenQuiet` and
`Spec => []VoluntaryIsRateLimited`. For the second, the code
looks at a streak, which counts ticks, and at the time at the posture, which an
adverse signal in Evasion does not restart; neither alone implies quiet. `StreakIsTime` says
that of a streak of n periods, n − 1 whole ones and what has passed of the
current one were quiet, however late ticks were taken. The step needs
`MinTime <= (CleanPeriods - 1) * Period`, which holds with equality for the code.
For the third, `Spaced` says that a switch to a better path with k younger ones is at least
`BaseCooldown * (2^k - 1)` older than the last switch of any kind, and that k is at most the counter that
doubles the cooldown; a forced switch raises that counter and only makes the next
voluntary one wait longer. Ages are distinct, so the number of switches is that of the
admissible k. Powers of two enter as cardinalities of power sets, about which the library
has theorems.

*Multipath*: `SchedulerSpec => []SchedulerTypeOK` and `[]SilenceMeansOwing`, for any finite
set of paths, any threshold of silence and runs of any length.

* `SilenceMeansOwing` needs `CountersAgree`: what is sent and not reported, according to the
  counters, is what is in flight, except for reports that concern an earlier life of the path.
* The rest is that credits stay paired with paths, which needs that a share is defined
  whenever one is taken: there is a unit of capacity if any path is healthy
  (`TotalIsPositive`).

Only model-checked:

* Liveness, which needs fairness and ENABLED, out of the prover's reach:
  `EveryPacketDelivered`, `EveryReplyDelivered`, `PoolRefills`, `TunnelSettles`,
  `SilenceActedOn`, `ReturnsToFloor`, `RouteComesBack`, `ChunksArrive`,
  `LeavesBlockedPath`, `SettlesWithoutNews`. What the first rests on, `NothingStranded`, and
  what `ChunksArrive` rests on, `StreamGapless`, is proved.
* `SplitIsProportional`. That no path is n - 1 chunks ahead or behind is not inductive; what
  is needed bounds every sum of k credits by k(2n - k - 1)/2 chunks, an assignment being a
  chunk earned by the healthy paths together and spent by one of them. Sums over
  sets of paths need an induction over data, which is out of the prover's reach.

## Not modelled, and why

* Cryptography: pure functions of a library. What is used of them is that a sealed
  chunk opens only whole, with its key and nonce (Transports), and that cookies and proofs
  verify or do not (Admission). Exhaustion of the nonce is the bound `MaxNonce`.
* TLS, the text of HTTP and byte layouts beyond fields and lengths: I/O and
  formatting. A head is whole, malformed, or announces a body that is too large.
* A bound on what a connection holds in flight. Links are unbounded queues in
  Uplink and Downlink, so the mutual replay in which both sides write and neither
  reads cannot block there (hazard at `session.rs:403`). The capacity of a socket is
  not in the code, and the two directions together are out of TLC's reach.
* The listener: one accept call inside TLS. Its loop performs the handshake
  without a timeout (hazard at `listener.rs:50`).
* The NAT table: the pipeline makes one and cleans it but never adds a translation. The
  pool of fake addresses of `dns.rs`: nothing calls it.
* Other platforms than Linux: the same steps with other commands.
* `bootstrap.rs` and `detection.rs` of the engine: one pass of I/O each, without state
  that outlives it.
* Statistics, events, configuration, routing rules, stealth modules, plugins and the
  command line: stateless, or outside the tunnel's own logic.

## Plan

Modelled: every component with state of its own that the tunnel, the server or the engine
uses; proved: every invariant of the runs. Left, in this order:

1. Bounded links, to reach the mutual replay, on an instance with one packet each way.
2. A composition of Admission with SessionRegistry, in which a connection's stages are those
   of both.
3. A refinement of the links of Uplink and Downlink by Transports, whose `WholeChunks` says what
   they assume of one.
