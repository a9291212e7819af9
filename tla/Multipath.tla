------------------------------- MODULE Multipath -------------------------------
(***************************************************************************)
(* The multipath scheduler of kanrin-client (multipath.rs): which of the   *)
(* transports in the active set carries the next chunk, and how acks and   *)
(* losses decide which of them are fit to.  No other code calls it yet;    *)
(* its callers are modelled as its comments and tests use it: every chunk  *)
(* given to a path is in flight until it is reported, once, as delivered   *)
(* or as lost.                                                             *)
(*                                                                         *)
(* Capacity is a few units of INITIAL_CAPACITY, and credit is counted in   *)
(* parts of a chunk that every total of capacities divides, so that every  *)
(* sum the code compares is exact; which of equal credits wins, rounding   *)
(* decides in the code and nothing in the model.  Smoothed loss is counted *)
(* in sixty-fourths, rounded down: a loss rate crosses UNHEALTHY_LOSS      *)
(* after as many deliveries as it does in the code.  Round-trip times only *)
(* choose among hedges.                                                    *)
(*                                                                         *)
(* An operator whose name starts with Bad is a plausible mistake in the    *)
(* operator that follows it.  No definition of the model uses one.         *)
(***************************************************************************)
EXTENDS Integers, Sequences, SequencesExt, FiniteSetsExt

CONSTANTS
  Paths,       \* the names of the transports
  MaxCapacity, \* bound on the capacity of a path
  MaxChanges,  \* bound on the removals of a path and the capacities measured anew
  Chunk,       \* the parts of a chunk that credit is counted in
  Stale,       \* STALE_AFTER, in ticks
  MaxFlight,   \* bound on the chunks in flight on a path
  MaxLosses    \* bound on the losses

Capacities == 1 .. MaxCapacity

ASSUME MultipathAssumption ==
  /\ IsFiniteSet(Paths) /\ Paths # {}
  /\ {MaxCapacity, Chunk} \subseteq Nat \ {0}
  /\ {MaxChanges, Stale, MaxFlight, MaxLosses} \subseteq Nat
  /\ \A total \in 1 .. Cardinality(Paths) + MaxChanges * (MaxCapacity - 1) : Chunk % total = 0

Unhealthy == 12  \* UNHEALTHY_LOSS: 0.20 in sixty-fourths

VARIABLES
  order,    \* Scheduler::paths, by name
  credits,  \* Scheduler::credits, in the same order
  cap,      \* cap[p]: capacity_bps
  out,      \* out[p]: sent - acknowledged - lost
  loss,     \* loss[p]: loss_ewma
  idle,     \* idle[p]: last_success.elapsed()
  disabled, \* disabled[p]
  flight,   \* flight[p]: the chunks on their way over p
  losses,   \* losses so far
  changes,  \* removals and changes of capacity so far
  readded   \* history: p was last added while chunks of an earlier life were in flight

health == <<cap, out, loss, idle, disabled>>
schedulerVars == <<order, credits, health, flight, losses, changes, readded>>

SchedulerInit ==
  /\ order = <<>> /\ credits = <<>>
  /\ cap = [p \in Paths |-> 1] /\ out = [p \in Paths |-> 0] /\ loss = [p \in Paths |-> 0]
  /\ idle = [p \in Paths |-> 0] /\ disabled = [p \in Paths |-> FALSE]
  /\ flight = [p \in Paths |-> 0] /\ losses = 0 /\ changes = 0
  /\ readded = [p \in Paths |-> FALSE]

InUse(p) == p \in ToSet(order)

-----------------------------------------------------------------------------
(* PathHealth.                                                             *)

Ewma(previous, sample) == (sample + 3 * previous) \div 4

IsHealthy(p) ==
  /\ ~disabled[p]
  /\ loss[p] <= Unhealthy
  /\ ~(out[p] > 0 /\ idle[p] > Stale)

\* The caller reports through path_mut, which finds nothing for a path that has
\* been removed.
Arrives(p) ==
  /\ flight[p] > 0
  /\ flight' = [flight EXCEPT ![p] = @ - 1]

Changes == changes < MaxChanges /\ changes' = changes + 1

Measures(p, c) ==
  /\ cap' = [cap EXCEPT ![p] = c]
  /\ IF c = cap[p] THEN UNCHANGED changes ELSE Changes

RecordDelivered(p) ==
  /\ Arrives(p)
  /\ IF InUse(p)
       THEN /\ out' = [out EXCEPT ![p] = @ - 1]
            /\ idle' = [idle EXCEPT ![p] = 0]
            /\ loss' = [loss EXCEPT ![p] = Ewma(@, 0)]
            /\ \E c \in Capacities : Measures(p, c)
       ELSE UNCHANGED <<out, idle, loss, cap, changes>>
  /\ UNCHANGED <<order, credits, disabled, losses, readded>>

RecordLost(p) ==
  /\ losses < MaxLosses
  /\ losses' = losses + 1
  /\ Arrives(p)
  /\ IF InUse(p)
       THEN /\ out' = [out EXCEPT ![p] = @ - 1]
            /\ loss' = [loss EXCEPT ![p] = Ewma(@, 64)]
            /\ \E c \in 1 .. cap[p] : Measures(p, c)
       ELSE UNCHANGED <<out, loss, cap, changes>>
  /\ UNCHANGED <<order, credits, idle, disabled, readded>>

Disable(p) ==
  /\ InUse(p) /\ ~disabled[p]
  /\ disabled' = [disabled EXCEPT ![p] = TRUE]
  /\ UNCHANGED <<order, credits, cap, out, loss, idle, flight, losses, changes, readded>>

Enable(p) ==
  /\ InUse(p) /\ disabled[p]
  /\ disabled' = [disabled EXCEPT ![p] = FALSE]
  /\ idle' = [idle EXCEPT ![p] = 0]
  /\ UNCHANGED <<order, credits, cap, out, loss, flight, losses, changes, readded>>

Tick ==
  /\ \E p \in Paths : InUse(p) /\ idle[p] <= Stale
  /\ idle' = [p \in Paths |-> IF InUse(p) /\ idle[p] <= Stale THEN idle[p] + 1 ELSE idle[p]]
  /\ UNCHANGED <<order, credits, cap, out, loss, disabled, flight, losses, changes, readded>>

-----------------------------------------------------------------------------
(* Scheduler.                                                              *)

\* PathHealth::new
New(p) ==
  /\ cap' = [cap EXCEPT ![p] = 1] /\ out' = [out EXCEPT ![p] = 0]
  /\ loss' = [loss EXCEPT ![p] = 0] /\ idle' = [idle EXCEPT ![p] = 0]
  /\ disabled' = [disabled EXCEPT ![p] = FALSE]

AddPath(p) ==
  /\ ~InUse(p)
  /\ order' = Append(order, p) /\ credits' = Append(credits, 0)
  /\ New(p)
  /\ readded' = [readded EXCEPT ![p] = flight[p] > 0]
  /\ UNCHANGED <<flight, losses, changes>>

\* (Mistake: the credit of a path that goes is left behind.)
BadRemovePath(p) ==
  /\ InUse(p)
  /\ order' = SelectSeq(order, LAMBDA q : q # p)
  /\ New(p)
  /\ Changes
  /\ UNCHANGED <<credits, flight, losses, readded>>

\* The measurements of p are dropped; its variables rest at the values of a new path.
RemovePath(p) ==
  /\ InUse(p)
  /\ LET i == CHOOSE j \in DOMAIN order : order[j] = p
     IN  order' = RemoveAt(order, i) /\ credits' = RemoveAt(credits, i)
  /\ New(p)
  /\ Changes
  /\ UNCHANGED <<flight, losses, readded>>

Healthy == {i \in DOMAIN order : IsHealthy(order[i])}

\* The units of capacity of the healthy paths.
Capacity == UNION {{i} \X (1 .. cap[order[i]]) : i \in Healthy}

Total == Cardinality(Capacity)

\* (Mistake: a path that is out of the rotation goes on earning credit.)
BadShared == [i \in DOMAIN credits |-> credits[i] + (Chunk * cap[order[i]]) \div Total]

\* The credits once every healthy path has been given its share of a chunk.
Shared == [i \in DOMAIN credits |->
             IF i \in Healthy THEN credits[i] + (Chunk * cap[order[i]]) \div Total ELSE credits[i]]

\* max_by: the healthy paths with the most credit, of which it takes one.
Richest == {i \in Healthy : \A j \in Healthy : Shared[j] <= Shared[i]}

Spend(i) == [Shared EXCEPT ![i] = @ - Chunk]

\* (Mistake: the hedged copy is not counted.)
BadRecordSent(primary, hedges) ==
  LET ps == {primary} \cup hedges
  IN  /\ \A p \in ps : flight[p] < MaxFlight
      /\ flight' = [p \in Paths |-> IF p \in ps THEN flight[p] + 1 ELSE flight[p]]
      /\ out' = [out EXCEPT ![primary] = @ + 1]

\* record_sent, for the primary and for the hedge.
RecordSent(primary, hedges) ==
  LET ps == {primary} \cup hedges
  IN  /\ \A p \in ps : flight[p] < MaxFlight
      /\ flight' = [p \in Paths |-> IF p \in ps THEN flight[p] + 1 ELSE flight[p]]
      /\ out' = [p \in Paths |-> IF p \in ps THEN out[p] + 1 ELSE out[p]]

\* hedged: the chunk is latency_critical and hedging is on.
Assign(hedged) ==
  /\ \E i \in Richest :
       /\ credits' = Spend(i)
       /\ LET others == {order[j] : j \in Healthy \ {i}}
          IN  IF hedged /\ others # {}
                THEN \E q \in others : RecordSent(order[i], {q})
                ELSE RecordSent(order[i], {})
  /\ UNCHANGED <<order, cap, loss, idle, disabled, losses, changes, readded>>

-----------------------------------------------------------------------------
SchedulerNext ==
  \/ Tick
  \/ \E p \in Paths : \/ AddPath(p) \/ RemovePath(p) \/ Disable(p) \/ Enable(p)
                      \/ RecordDelivered(p) \/ RecordLost(p)
  \/ \E hedged \in BOOLEAN : Assign(hedged)

SchedulerSpec == SchedulerInit /\ [][SchedulerNext]_schedulerVars

-----------------------------------------------------------------------------
(* Properties.                                                             *)

\* The shape of every variable; a credit for every path.
SchedulerTypeOK ==
  /\ order \in Seq(Paths) /\ IsInjective(order)
  /\ credits \in Seq(Int) /\ Len(credits) = Len(order)
  /\ cap \in [Paths -> Capacities]
  /\ out \in [Paths -> -MaxFlight .. MaxFlight] /\ flight \in [Paths -> 0 .. MaxFlight]
  /\ loss \in [Paths -> 0 .. 64] /\ idle \in [Paths -> 0 .. Stale + 1]
  /\ losses \in 0 .. MaxLosses /\ changes \in 0 .. MaxChanges
  /\ {disabled, readded} \subseteq [Paths -> BOOLEAN]

\* multipath.rs, assign: "over any window the split matches the measured capacity
\* ratio".  Through every change of capacity, health and membership, a path stays
\* within a chunk of its share for every other path there may be.  It is not
\* within a single one: of three equal paths, one that is out of the rotation for a
\* while, or is removed and added again, can leave another a whole chunk behind.
SplitIsProportional ==
  LET limit == Chunk * (Cardinality(Paths) - 1)
  IN  \A i \in DOMAIN credits : -limit <= credits[i] /\ credits[i] <= limit

\* multipath.rs, is_healthy: "only one that has been given work and failed to
\* deliver it" is unhealthy.  The three counters say what is really on its way,
\* hedged copies included, so that silence counts against a path exactly while it
\* owes something; except for a path that was removed and added again while chunks
\* of its earlier life were in flight.  How long it has owed it they do not say:
\* after a quiet time the first chunk makes a path unhealthy as it is assigned.
SilenceMeansOwing ==
  \A p \in Paths : InUse(p) /\ ~readded[p] /\ ~disabled[p] /\ loss[p] <= Unhealthy =>
    (IsHealthy(p) <=> ~(flight[p] > 0 /\ idle[p] > Stale))
=============================================================================
