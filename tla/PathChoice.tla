------------------------------ MODULE PathChoice ------------------------------
(***************************************************************************)
(* The path selection engine: the prober (prober.rs), which measures every *)
(* path in turn and remembers its last results, the scoreboard             *)
(* (scoreboard.rs), which blends them with the reports of others and with  *)
(* what is measured on the path in use, and the switcher (switcher.rs),    *)
(* which decides when another path is worth a switch.  A path is a pair of *)
(* an endpoint and a transport, numbered in the order of probe_all.        *)
(*                                                                         *)
(* The pipeline of this commit does not drive the engine yet: its caller,  *)
(* which asks the switcher, connects and records, is modelled from what    *)
(* the operations say of it.  Scores are exact fractions.                  *)
(*                                                                         *)
(* An operator whose name starts with Bad is a plausible mistake in the    *)
(* operator that follows it.  No definition of the model uses one.         *)
(***************************************************************************)
EXTENDS Integers, Sequences, SequencesExt, FiniteSetsExt

CONSTANTS
  Latencies,   \* Latencies[p]: what a probe of path p may take, in 10 ms
  Shallow,     \* the paths over tls-tcp, whose probe stops short of the handshake
  MaxHistory,
  Threshold,   \* switch_threshold
  Cooldown,
  Measures,    \* the health reports of the scheduler, in tenths, that may come in
  Reports      \* the collective scores, in tenths, that may come in

Paths == DOMAIN Latencies
None == -1
Blocked == -1

ASSUME PathAssumption ==
  /\ Latencies \in Seq(SUBSET Nat) /\ Latencies # <<>>
  /\ {MaxHistory, Threshold, Cooldown} \subseteq Nat \ {0}
  /\ Shallow \subseteq Paths
  /\ Measures \cup Reports \subseteq [Paths -> {None} \cup 0 .. 10]

VARIABLES
  net,         \* net[p]: what a probe of path p takes, or Blocked
  filtered,    \* the paths that open a TCP connection and cut its TLS handshake
  window,      \* window[p]: ProbeHistory::results, latencies and Blocked
  local,       \* local[p]: ProbeHistory::score, of the cached rate and mean
  order,       \* the order in which the map of histories is walked
  collective,  \* collective_scores
  measured,    \* measured_scores
  probing,     \* the path probe_all is at; 0 in the select! of run
  shutdown,    \* the channel says so
  ended,       \* Prober::run has returned
  current,     \* Switcher::current_key; 0 for None
  elapsed,     \* last_switch.elapsed(), up to Cooldown
  target       \* the path the caller is switching to; 0 for none

proberVars == <<window, local, order, probing, shutdown, ended>>
switchVars == <<current, elapsed, target>>
vars == <<net, filtered, collective, measured, proberVars, switchVars>>

Outcomes(p) == Latencies[p] \cup {Blocked}

\* A path that was never probed has no entry; the first switch need not wait.
Init ==
  /\ net \in {n \in [Paths -> UNION {Outcomes(p) : p \in Paths}] : \A p \in Paths : n[p] \in Outcomes(p)}
  /\ filtered \in SUBSET Shallow
  /\ window = [p \in Paths |-> <<>>] /\ order = <<>>
  /\ local = [p \in Paths |-> [num |-> 0, den |-> 1]]
  /\ collective = [p \in Paths |-> None] /\ measured = [p \in Paths |-> None]
  /\ probing = 0 /\ shutdown = FALSE /\ ended = FALSE
  /\ current = 0 /\ elapsed = Cooldown /\ target = 0

NetworkChanges ==
  /\ \/ /\ \E p \in Paths : \E n \in Outcomes(p) \ {net[p]} : net' = [net EXCEPT ![p] = n]
        /\ UNCHANGED filtered
     \/ filtered' \in SUBSET Shallow \ {filtered} /\ UNCHANGED net
  /\ UNCHANGED <<collective, measured, proberVars, switchVars>>

-----------------------------------------------------------------------------
(* Prober.                                                                 *)

Tick ==
  /\ probing = 0 /\ ~ended
  /\ probing' = 1
  /\ UNCHANGED <<net, filtered, collective, measured, window, local, order, shutdown, ended, switchVars>>

\* recalculate and score, of the results of a path: the share of successes times
\* 1000 ms over their mean latency; 50 stands in for 1000 / 0.
Score(w) ==
  LET available == SelectSeq(w, LAMBDA r : r # Blocked)
      n == Len(available)
      total == FoldSeq(LAMBDA a, b : a + b, 0, available)
  IN  IF total = 0 THEN [num |-> 50 * n, den |-> Len(w)]
      ELSE [num |-> 100 * n * n, den |-> Len(w) * total]

\* ProbeHistory::record
Record(w, r) ==
  LET all == Append(w, r)
  IN  IF Len(all) > MaxHistory THEN Tail(all) ELSE all

\* A new entry may change the order in which the map is walked.
Orders(p) == IF window[p] = <<>> THEN SetToSeqs(ToSet(order) \cup {p}) ELSE {order}

\* One turn of the two loops of probe_all.  quic and websocket connect within their
\* timeout or report the path blocked; tls-tcp only opens a TCP connection, and a
\* path that is filtered passes.
Probe ==
  /\ probing # 0
  /\ window' = [window EXCEPT ![probing] = Record(@, net[probing])]
  /\ local' = [local EXCEPT ![probing] = Score(window'[probing])]
  /\ order' \in Orders(probing)
  /\ probing' = (probing + 1) % (Len(Latencies) + 1)
  /\ UNCHANGED <<net, filtered, collective, measured, shutdown, ended, switchVars>>

Shutdown ==
  /\ ~shutdown
  /\ shutdown' = TRUE
  /\ UNCHANGED <<net, filtered, collective, measured, window, local, order, probing, ended, switchVars>>

\* Only between two rounds: probe_all does not look at the channel.
Stop ==
  /\ probing = 0 /\ shutdown /\ ~ended
  /\ ended' = TRUE
  /\ UNCHANGED <<net, filtered, collective, measured, window, local, order, probing, shutdown, switchVars>>

-----------------------------------------------------------------------------
(* ScoreBoard.                                                             *)

\* 0.8 of the local score and 0.2 of the collective one, 0.5 if there is none;
\* of a path with a live measurement, 0.4 of that and 0.6 of the measurement.
\* All of it times Scale, so that only the local score is a fraction.
Scale == 250
\* (Mistake: the weights of the local and of the collective score are swapped.)
BadCombined(p) ==
  LET others == IF collective[p] = None THEN 5 ELSE collective[p]
      estimated == 10 * local[p].num + 4 * others * local[p].den
  IN  [num |-> IF measured[p] = None THEN 5 * estimated
               ELSE 15 * measured[p] * local[p].den + 2 * estimated,
       den |-> local[p].den]
Combined(p) ==
  LET others == IF collective[p] = None THEN 5 ELSE collective[p]
      estimated == 40 * local[p].num + others * local[p].den
  IN  [num |-> IF measured[p] = None THEN 5 * estimated
               ELSE 15 * measured[p] * local[p].den + 2 * estimated,
       den |-> local[p].den]

Above(s, t) == s.num * t.den > t.num * s.den

\* The head of ranked_list: a stable sort of the entries by combined score.
Best ==
  LET beaten(i) == \E j \in DOMAIN order \ {i} : Above(Combined(order[j]), Combined(order[i]))
  IN  order[Min({i \in DOMAIN order : ~beaten(i)})]

\* The scheduler reports every path it knows, and the whole set is replaced.
UpdateMeasured ==
  /\ measured' \in Measures
  /\ UNCHANGED <<net, filtered, collective, proberVars, switchVars>>

UpdateCollective ==
  /\ collective' \in Reports
  /\ UNCHANGED <<net, filtered, measured, proberVars, switchVars>>

-----------------------------------------------------------------------------
(* Switcher and its caller.                                                *)

SetCurrent ==
  /\ current = 0
  /\ current' \in Paths
  /\ UNCHANGED <<net, filtered, collective, measured, proberVars, elapsed, target>>

\* What a path scores that may not have been probed yet.
CurrentScore == IF current \in ToSet(order) THEN Combined(current) ELSE [num |-> 0, den |-> 1]

\* (Mistake: the path in use is not excepted.)
BadWorthSwitching(best) ==
  \/ Above([num |-> Scale * Threshold, den |-> 1], CurrentScore)
  \/ Above(Combined(best), [CurrentScore EXCEPT !.num = 2 * @])
\* Below the threshold any other best path will do, even one with the same
\* score; above it one that is more than twice as good.
WorthSwitching(best) ==
  /\ best # current
  /\ \/ Above([num |-> Scale * Threshold, den |-> 1], CurrentScore)
     \/ Above(Combined(best), [CurrentScore EXCEPT !.num = 2 * @])

\* evaluate, when it does not say Stay
Evaluate ==
  /\ target = 0
  /\ elapsed = Cooldown
  /\ current # 0
  /\ order # <<>>
  /\ LET best == Best IN WorthSwitching(best) /\ target' = best
  /\ UNCHANGED <<net, filtered, collective, measured, proberVars, current, elapsed>>

\* What a connect needs, which is more than a probe of tls-tcp.
Connects(p) == net[p] # Blocked /\ p \notin filtered

\* The caller connected, before the network may have changed again.
RecordSwitch ==
  /\ target # 0
  /\ current' = target /\ elapsed' = 0 /\ target' = 0
  /\ UNCHANGED <<net, filtered, collective, measured, proberVars>>

\* The caller could not connect, and records nothing.
SwitchFails ==
  /\ target # 0
  /\ target' = 0
  /\ UNCHANGED <<net, filtered, collective, measured, proberVars, current, elapsed>>

Pass ==
  /\ elapsed < Cooldown
  /\ elapsed' = elapsed + 1
  /\ UNCHANGED <<net, filtered, collective, measured, proberVars, current, target>>

-----------------------------------------------------------------------------
Next ==
  \/ NetworkChanges \/ Tick \/ Probe \/ Shutdown \/ Stop
  \/ UpdateMeasured \/ UpdateCollective
  \/ SetCurrent \/ Evaluate \/ RecordSwitch \/ SwitchFails \/ Pass

\* Ticks come, probes time out, time passes; select! picks at random among the
\* branches that are ready; the caller asks again and again, and connects to a
\* path that lets it through.
Fairness ==
  /\ WF_vars(Tick) /\ WF_vars(Probe) /\ SF_vars(Stop) /\ WF_vars(Pass)
  /\ SF_vars(Evaluate) /\ SF_vars(RecordSwitch /\ target # 0 /\ Connects(target))

Spec == Init /\ [][Next]_vars /\ Fairness

-----------------------------------------------------------------------------
(* Properties.                                                             *)

\* A probe answered in 470 ms outweighs any reports and measurements:
\* 0.4 * 0.8 * 1000 / 470 > 0.6 + 0.4 * 0.2.
Prompt == 47

\* switcher.rs: "decides when to change transport/endpoint and executes the
\* switch".  A path that fails its probes from some time on is left, if the prober
\* goes on and every other path then lets connections through, one of them promptly:
\* its old successes leave the window, and neither praise for it nor complaints
\* about the others keep it first.  A slower path may stay behind it, and one that
\* only passes its probes may come first and fail every connection.
LeavesBlockedPath ==
  \A p \in Paths :
    <>[](/\ net[p] = Blocked /\ ~ended
         /\ \A q \in Paths \ {p} : Connects(q)
         /\ \E q \in Paths \ {p} : net[q] <= Prompt)
      => []<>(current # p)

\* A latency, a report or a measurement changes.
News == <<net, collective, measured>>' # <<net, collective, measured>>

\* switcher.rs, cooldown: "prevent thrashing".  Without news from the network, from
\* others or from the path in use the switcher settles, whatever the order in
\* which equal scores are ranked.
SettlesWithoutNews == []<><<RecordSwitch>>_vars => []<><<News>>_vars
=============================================================================
