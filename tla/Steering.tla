------------------------------- MODULE Steering -------------------------------
(***************************************************************************)
(* What the loop of pipeline.rs makes of the faults it meets: the posture  *)
(* controller (posture.rs), which escalates on adverse evidence and        *)
(* relaxes after clean periods, and the switch policy (switch.rs), which   *)
(* spaces out the switches that are not forced.  Both live in the loop and *)
(* see its time: an interval that falls due while the loop waits in a send *)
(* or in a switch is taken late.                                           *)
(*                                                                         *)
(* Nothing in the pipeline asks for a switch to a better path or forces a  *)
(* posture; both are operations of the two types, and their callers are    *)
(* modelled as the tests use them.                                         *)
(*                                                                         *)
(* An operator whose name starts with Bad is a plausible mistake in the    *)
(* operator that follows it.  No definition of the model uses one.         *)
(***************************************************************************)
EXTENDS Integers, FiniteSets

CONSTANTS
  MinTime,       \* MIN_TIME_AT_POSTURE
  CleanPeriods,  \* CLEAN_PERIODS_TO_RELAX
  Period,        \* the period of posture_tick
  BaseCooldown, MaxCooldown, FlapWindow,
  Doublings,     \* beyond this the cooldown is MaxCooldown (bounds consecutive)
  MaxStall       \* bound on how late posture_tick is taken

\* With 30 s, 5 and 120 s the clean periods alone take the minimum time.
ASSUME SteeringAssumption ==
  /\ {MinTime, CleanPeriods, Period, BaseCooldown, FlapWindow} \subseteq Nat \ {0}
  /\ {MaxCooldown, Doublings, MaxStall} \subseteq Nat
  /\ MinTime <= (CleanPeriods - 1) * Period
  /\ FlapWindow <= MaxCooldown /\ MaxCooldown <= BaseCooldown * 2^Doublings

Performance == 0
Balanced == 1
Evasion == 2
Postures == {Performance, Balanced, Evasion}

Never == MaxCooldown + 1  \* no switch yet

VARIABLES
  busy,        \* the loop waits: for nothing ("no"), in a send ("send"), in
               \* attempt_switch for a "failure" or a "better" path
  posture,     \* PostureController::current
  floor,
  at,          \* changed_at.elapsed(), up to MinTime
  streak,      \* clean_streak, up to CleanPeriods
  wait,        \* time until posture_tick is due; negative when it is overdue
  last,        \* last_switch.elapsed(), up to MaxCooldown, or Never
  consecutive,
  quiet,       \* history: time since the last adverse signal, up to MinTime
  recent       \* history: ages of the switches to a better path, below FlapWindow

postureVars == <<posture, floor, at, streak, quiet>>
policyVars == <<last, consecutive, recent>>
vars == <<busy, postureVars, wait, policyVars>>

Larger(a, b) == IF a > b THEN a ELSE b
Smaller(a, b) == IF a < b THEN a ELSE b

\* with_floor; the first tick of an interval is due at once.
Init ==
  /\ busy = "no" /\ floor \in Postures
  /\ \E initial \in Postures : posture = Larger(initial, floor)
  /\ at = 0 /\ streak = 0 /\ wait = 0 /\ quiet = 0
  /\ last = Never /\ consecutive = 0 /\ recent = {}

\* Time does not pass while the loop waits in select! and the tick is due.
Pass ==
  /\ IF busy = "no" THEN wait > 0 ELSE wait > -MaxStall
  /\ wait' = wait - 1
  /\ at' = Smaller(at + 1, MinTime) /\ quiet' = Smaller(quiet + 1, MinTime)
  /\ last' = IF last = Never THEN last ELSE Smaller(last + 1, MaxCooldown)
  /\ recent' = {a + 1 : a \in {b \in recent : b + 1 < FlapWindow}}
  /\ UNCHANGED <<busy, posture, floor, streak, consecutive>>

-----------------------------------------------------------------------------
(* PostureController.                                                      *)

\* (Mistake: the floor holds only for the posture at the start.)
BadSet(target) ==
  /\ posture' = target
  /\ at' = IF target = posture THEN at ELSE 0
Set(target) ==
  LET new == Larger(target, floor)
  IN  /\ posture' = new
      /\ at' = IF new = posture THEN at ELSE 0

\* observe, of an adverse signal
ObserveAdverse ==
  /\ streak' = 0
  /\ quiet' = 0
  /\ Set(Evasion)
  /\ UNCHANGED floor

\* (Mistake: nothing below Balanced.)
BadRelaxed == IF posture = Evasion THEN Balanced ELSE posture
Relaxed == IF posture = Evasion THEN Balanced ELSE Performance

\* observe, of CleanPeriod
ObserveClean ==
  /\ IF streak + 1 < CleanPeriods \/ at < MinTime \/ posture = Performance
       THEN streak' = Smaller(streak + 1, CleanPeriods) /\ UNCHANGED <<posture, at>>
       ELSE streak' = 0 /\ Set(Relaxed)
  /\ UNCHANGED <<floor, quiet>>

ForcePosture(target) ==
  /\ busy = "no"
  /\ streak' = 0
  /\ Set(target)
  /\ UNCHANGED <<busy, wait, floor, quiet, policyVars>>

\* (Mistake: ticks missed while the loop was busy are made up for.)
BadNextTick == wait + Period
NextTick == Period  \* MissedTickBehavior::Delay

PostureTick ==
  /\ busy = "no" /\ wait <= 0
  /\ wait' = NextTick
  /\ ObserveClean
  /\ UNCHANGED <<busy, policyVars>>

-----------------------------------------------------------------------------
(* SwitchPolicy.                                                           *)

Cooldown == Smaller(BaseCooldown * 2^consecutive, MaxCooldown)

Allows(reason) == reason = "failure" \/ last = Never \/ last >= Cooldown

\* (Mistake: what counts is the time since a switch that was not forced.)
BadRecord ==
  /\ consecutive' = IF busy = "better" /\ last < FlapWindow
                      THEN Smaller(consecutive + 1, Doublings) ELSE 0
  /\ last' = 0
Record ==
  /\ consecutive' = IF last < FlapWindow THEN Smaller(consecutive + 1, Doublings) ELSE 0
  /\ last' = 0

-----------------------------------------------------------------------------
(* The loop.                                                               *)

\* recv fails, or the liveness tick finds the link silent.
LinkFails ==
  /\ busy = "no"
  /\ ObserveAdverse
  /\ busy' = IF Allows("failure") THEN "failure" ELSE "no"
  /\ UNCHANGED <<wait, policyVars>>

\* A send waits for a link that takes nothing; no failed send is a signal.
Send ==
  /\ busy = "no"
  /\ busy' = "send"
  /\ UNCHANGED <<postureVars, wait, policyVars>>

SendReturns ==
  /\ busy = "send"
  /\ busy' \in {"no"} \cup (IF Allows("failure") THEN {"failure"} ELSE {})
  /\ UNCHANGED <<postureVars, wait, policyVars>>

BetterPath ==
  /\ busy = "no"
  /\ Allows("better")
  /\ busy' = "better"
  /\ UNCHANGED <<postureVars, wait, policyVars>>

Switched ==
  /\ busy \in {"failure", "better"}
  /\ Record
  /\ recent' = IF busy = "better" THEN recent \cup {0} ELSE recent
  /\ busy' = "no"
  /\ UNCHANGED <<postureVars, wait>>

NoStandby ==
  /\ busy \in {"failure", "better"}
  /\ busy' = "no"
  /\ UNCHANGED <<postureVars, wait, policyVars>>

-----------------------------------------------------------------------------
Next ==
  \/ Pass \/ PostureTick \/ LinkFails \/ Send \/ SendReturns
  \/ BetterPath \/ Switched \/ NoStandby
  \/ \E target \in Postures : ForcePosture(target)

\* Time passes however much the loop does; select! picks at random among the ready
\* branches, so a tick that is due is taken; and a send or a switch returns.
Fairness ==
  /\ SF_vars(Pass) /\ SF_vars(PostureTick)
  /\ WF_vars(SendReturns) /\ WF_vars(Switched \/ NoStandby)

Spec == Init /\ [][Next]_vars /\ Fairness

-----------------------------------------------------------------------------
(* Properties.                                                             *)

\* The shape of every variable.  The posture is never below the floor.
TypeOK ==
  /\ busy \in {"no", "send", "failure", "better"}
  /\ floor \in Postures /\ posture \in floor .. Evasion
  /\ at \in 0 .. MinTime /\ quiet \in 0 .. MinTime /\ streak \in 0 .. CleanPeriods
  /\ wait \in -MaxStall .. Period
  /\ last \in 0 .. Never /\ consecutive \in 0 .. Doublings
  /\ recent \subseteq 0 .. FlapWindow - 1

Forced == \E target \in Postures : ForcePosture(target)

\* posture.rs: "relaxation is slow and requires a sustained clean record".  Though
\* an adverse signal in Evasion does not restart the time at the posture, and a
\* clean period is reported at every tick whatever happened before it, the client
\* leaves Evasion only when the last adverse signal is MinTime old, however late
\* the ticks are taken.
RelaxedOnlyWhenQuiet ==
  [][posture = Evasion /\ posture' # Evasion => quiet = MinTime \/ Forced]_vars

\* switch.rs: a flapping network cannot induce a switch loop.  In any flap window
\* there are no more switches to a better path than doubling the cooldown leaves
\* room for, whatever failures force in between.
VoluntaryIsRateLimited ==
  Cardinality(recent) <= Cardinality({k \in 0 .. FlapWindow : BaseCooldown * (2^k - 1) < FlapWindow})

\* posture.rs: the cost of evasion is not paid permanently.  Unless the link keeps
\* failing or the user keeps forcing a posture, the client comes down to the floor.
ReturnsToFloor ==
  []<><<LinkFails>>_vars \/ []<><<Forced>>_vars \/ []<>(posture = floor)
=============================================================================
