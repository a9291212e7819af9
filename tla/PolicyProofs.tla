---------------------------- MODULE PolicyProofs ----------------------------
(***************************************************************************)
(* Theorems about what the client decides by: the posture and the switch   *)
(* policy (Steering), and the path scheduler (Multipath, whose             *)
(* specification is SchedulerSpec).  The two share nothing but this        *)
(* module, and no theorem rests on the assumption of the other one.        *)
(*                                                                         *)
(* Steering, for every choice of its periods: the types; that evasion is   *)
(* left only when the network has been quiet for MinTime; and the limit on *)
(* voluntary switches.  The clean streak and the time at the posture,      *)
(* which the code looks at, do not imply the second by themselves: the     *)
(* first counts ticks, the second is not reset by an adverse signal in     *)
(* Evasion.  What does is that ticks are never closer together than        *)
(* Period, so that a streak measures time (StreakIsTime).                  *)
(*                                                                         *)
(* Multipath, for every number of paths and steps: one credit for each     *)
(* path, and silence that counts against a path exactly while it owes      *)
(* something.  How far credits come apart needs sums over sets of paths    *)
(* and stays with TLC.                                                     *)
(***************************************************************************)
EXTENDS Steering, Multipath, FiniteSetTheorems, FunctionTheorems, SequenceTheorems, TLAPS

-----------------------------------------------------------------------------
(* Steering: the posture and the switch policy.                            *)

\* Of a streak of n clean periods, the first one was reported before n - 1 whole
\* periods and what has passed of the current one; all of that was quiet.
StreakIsTime ==
  streak > 0 => quiet = MinTime \/ quiet >= (streak - 1) * Period + (Period - wait)

SteeringInv == TypeOK /\ StreakIsTime

-----------------------------------------------------------------------------

\* The constants are numbers, those that divide time are positive.
LEMMA Numbers ==
  /\ MinTime \in Nat /\ MinTime > 0 /\ CleanPeriods \in Nat /\ CleanPeriods > 0
  /\ Period \in Nat /\ Period > 0 /\ FlapWindow \in Nat /\ FlapWindow > 0
  /\ MaxCooldown \in Nat /\ Doublings \in Nat /\ MaxStall \in Nat
BY SteeringAssumption

\* (k + 1) periods are k periods and one more.
LEMMA OneMorePeriod ==
  ASSUME NEW k \in Int
  PROVE  k * Period \in Int /\ (k + 1) * Period = k * Period + Period
BY Numbers

\* More periods take longer.
LEMMA PeriodsGrow ==
  ASSUME NEW j \in Int, NEW k \in Int, j <= k
  PROVE  j * Period <= k * Period
BY Numbers

\* A posture that is set is not below the floor.
LEMMA SetTypes ==
  ASSUME TypeOK, NEW target \in Postures, Set(target)
  PROVE  posture' \in floor .. Evasion /\ at' \in 0 .. MinTime
BY Numbers DEF TypeOK, Set, Larger, Postures, Performance, Balanced, Evasion

\* Every variable starts with its type.
LEMMA InitTypes == Init => TypeOK
BY Numbers DEF Init, TypeOK, Postures, Performance, Balanced, Evasion, Larger, Never

\* Every step keeps the types.
LEMMA NextTypes == TypeOK /\ [Next]_vars => TypeOK'
<1> SUFFICES ASSUME TypeOK, [Next]_vars PROVE TypeOK'
  OBVIOUS
<1>1. CASE Pass
  BY <1>1, Numbers DEF Pass, TypeOK, Smaller, Never, Postures, Performance, Balanced, Evasion
<1>2. CASE PostureTick
  <2>1. Set(Relaxed) => posture' \in floor .. Evasion /\ at' \in 0 .. MinTime
    BY SetTypes DEF Relaxed, Postures, Performance, Balanced, Evasion
  <2> QED
    BY <1>2, <2>1, Numbers DEF PostureTick, ObserveClean, NextTick, policyVars, TypeOK, Smaller
<1>3. CASE LinkFails
  <2>1. Set(Evasion) => posture' \in floor .. Evasion /\ at' \in 0 .. MinTime
    BY SetTypes DEF Postures
  <2> QED
    BY <1>3, <2>1, Numbers DEF LinkFails, ObserveAdverse, policyVars, TypeOK
<1>4. CASE Send \/ SendReturns \/ BetterPath \/ NoStandby
  BY <1>4, Numbers DEF Send, SendReturns, BetterPath, NoStandby, postureVars, policyVars, TypeOK
<1>5. CASE Switched
  BY <1>5, Numbers DEF Switched, Record, postureVars, TypeOK, Smaller, Never
<1>6. CASE Forced
  <2>1. PICK target \in Postures : ForcePosture(target)
    BY <1>6, Numbers DEF Forced
  <2>2. posture' \in floor .. Evasion /\ at' \in 0 .. MinTime
    BY <2>1, SetTypes DEF ForcePosture
  <2> QED
    BY <2>1, <2>2, Numbers DEF ForcePosture, policyVars, TypeOK
<1>7. CASE UNCHANGED vars
  BY <1>7, Numbers DEF vars, postureVars, policyVars, TypeOK
<1> QED
  BY <1>1, <1>2, <1>3, <1>4, <1>5, <1>6, <1>7 DEF Next, Forced

\* The shape of every variable.
THEOREM TypeCorrect == Spec => []TypeOK
BY InitTypes, NextTypes, PTL DEF Spec

-----------------------------------------------------------------------------
(* A streak measures time.                                                 *)

\* What a streak of one more period promises, at a tick that is due.
LEMMA TickIsQuiet ==
  ASSUME SteeringInv, PostureTick
  PROVE  streak > 0 => quiet = MinTime \/ quiet >= streak * Period
<1>1. streak \in Int /\ wait \in Int /\ quiet \in Int /\ wait <= 0
  BY Numbers DEF SteeringInv, TypeOK, PostureTick
<1>2. (streak - 1) * Period \in Int /\ ((streak - 1) + 1) * Period = (streak - 1) * Period + Period
  BY <1>1, OneMorePeriod
<1>3. (streak - 1) + 1 = streak
  BY <1>1
<1>4. streak > 0 => quiet = MinTime \/ quiet >= (streak - 1) * Period + (Period - wait)
  BY DEF SteeringInv, StreakIsTime
<1> QED
  BY <1>1, <1>2, <1>3, <1>4, Numbers

\* Every step keeps the measure.
LEMMA NextStreakIsTime == SteeringInv /\ [Next]_vars => StreakIsTime'
<1> SUFFICES ASSUME SteeringInv, [Next]_vars PROVE StreakIsTime'
  OBVIOUS
<1>1. CASE Pass
  <2>1. streak \in 0 .. CleanPeriods /\ quiet \in 0 .. MinTime /\ wait \in Int
    BY Numbers DEF SteeringInv, TypeOK
  <2>2. (streak - 1) * Period \in Int
    BY <2>1, OneMorePeriod, Numbers
  <2>3. streak' = streak /\ wait' = wait - 1 /\ quiet' = Smaller(quiet + 1, MinTime)
    BY <1>1 DEF Pass
  <2> QED
    BY <2>1, <2>2, <2>3, Numbers DEF SteeringInv, StreakIsTime, Smaller
<1>2. CASE PostureTick
  <2>1. wait' = Period /\ quiet' = quiet /\ quiet \in 0 .. MinTime /\ streak \in 0 .. CleanPeriods
    BY <1>2, Numbers DEF PostureTick, NextTick, ObserveClean, SteeringInv, TypeOK
  <2>2. streak' \in {0, streak, streak + 1}
    BY <1>2, Numbers DEF PostureTick, ObserveClean, Smaller, SteeringInv, TypeOK
  <2>3. streak > 0 => quiet = MinTime \/ quiet >= streak * Period
    BY <1>2, TickIsQuiet
  <2>4. CASE streak' = 0
    BY <2>4 DEF StreakIsTime
  <2>5. CASE streak' = streak + 1
    <3>1. (streak' - 1) * Period = streak * Period /\ (streak = 0 => streak * Period = 0)
      BY <2>1, <2>5, Numbers
    <3>2. streak * Period \in Int
      BY <2>1, OneMorePeriod, Numbers
    <3> QED
      BY Numbers, <2>1, <2>3, <2>5, <3>1, <3>2 DEF StreakIsTime
  <2>6. CASE streak' = streak
    <3>1. streak \in Int /\ streak - 1 \in Int /\ streak - 1 <= streak
      BY <2>1, Numbers
    <3>2. (streak - 1) * Period \in Int /\ streak * Period \in Int
      BY <3>1, OneMorePeriod
    <3>3. (streak - 1) * Period <= streak * Period
      BY <3>1, PeriodsGrow
    <3> QED
      BY <2>1, <2>3, <2>6, <3>2, <3>3, Numbers DEF StreakIsTime
  <2> QED
    BY <2>2, <2>4, <2>5, <2>6
<1>3. CASE LinkFails
  BY <1>3, Numbers DEF LinkFails, ObserveAdverse, StreakIsTime
<1>4. CASE Send \/ SendReturns \/ BetterPath \/ Switched \/ NoStandby
  BY <1>4 DEF Send, SendReturns, BetterPath, Switched, NoStandby, postureVars,
              SteeringInv, StreakIsTime
<1>5. CASE Forced
  BY <1>5 DEF Forced, ForcePosture, StreakIsTime
<1>6. CASE UNCHANGED vars
  BY <1>6 DEF vars, postureVars, SteeringInv, StreakIsTime
<1> QED
  BY <1>1, <1>2, <1>3, <1>4, <1>5, <1>6 DEF Next, Forced

\* Of a streak of n clean periods, n - 1 whole periods and what has passed of the
\* current one were quiet, however late posture_tick was taken.
THEOREM StreaksAreQuiet == Spec => []SteeringInv
<1>1. Init => SteeringInv
  BY InitTypes DEF SteeringInv, StreakIsTime, Init
<1>2. SteeringInv /\ [Next]_vars => SteeringInv'
  BY NextTypes, NextStreakIsTime DEF SteeringInv
<1> QED
  BY <1>1, <1>2, PTL DEF Spec

\* posture.rs, observe: a step that leaves Evasion is taken when the last adverse
\* signal is MinTime old, or it is the user who forces the posture.
THEOREM RelaxesOnlyWhenQuiet == Spec => RelaxedOnlyWhenQuiet
<1>1. SteeringInv /\ [Next]_vars =>
        [posture = Evasion /\ posture' # Evasion => quiet = MinTime \/ Forced]_vars
  <2> SUFFICES ASSUME SteeringInv, Next, posture = Evasion, posture' # Evasion, ~Forced
               PROVE  quiet = MinTime
    OBVIOUS
  <2>1. PostureTick
    <3>1. ~LinkFails
      BY DEF LinkFails, ObserveAdverse, Set, Larger, SteeringInv, TypeOK, Postures, Performance, Balanced, Evasion
    <3> QED
      BY <3>1 DEF Next, Forced, Pass, Send, SendReturns, BetterPath, Switched, NoStandby, postureVars
  <2>2. streak \in 0 .. CleanPeriods /\ quiet \in 0 .. MinTime
    BY Numbers DEF SteeringInv, TypeOK
  <2>3. CleanPeriods - 1 \in Int /\ streak \in Int /\ CleanPeriods - 1 <= streak
    BY <2>1, <2>2, Numbers DEF PostureTick, ObserveClean
  <2>4. (CleanPeriods - 1) * Period <= streak * Period
    BY <2>3, PeriodsGrow
  <2>5. streak * Period \in Int /\ (CleanPeriods - 1) * Period \in Int
    BY <2>3, OneMorePeriod
  <2>6. MinTime <= (CleanPeriods - 1) * Period
    BY SteeringAssumption
  <2>7. MinTime <= streak * Period
    BY <2>4, <2>5, <2>6, Numbers
  <2>8. streak > 0
    <3>1. CASE streak = 0
      <4>1. streak * Period = 0
        BY <3>1, Numbers
      <4> QED
        BY <2>7, <4>1, Numbers
    <3> QED
      BY <2>2, <3>1, Numbers
  <2>9. quiet = MinTime \/ quiet >= streak * Period
    BY <2>1, <2>8, TickIsQuiet
  <2> QED
    BY <2>2, <2>5, <2>7, <2>9, Numbers
<1> QED
  BY <1>1, StreaksAreQuiet, PTL DEF Spec, RelaxedOnlyWhenQuiet

-----------------------------------------------------------------------------
(* Switches to a better path are rate limited.                             *)

\* The switches to a better path that are younger than one of age a.
Younger(a) == {b \in recent : b < a}

\* One with k younger ones happened when the cooldowns that these had to wait out
\* still lay ahead: BaseCooldown, doubled after each.  And every one of the k counts
\* among the consecutive switches, a forced one in between or not.
Spaced ==
  \A a \in recent :
    /\ Cardinality(Younger(a)) <= consecutive
    /\ a >= last + BaseCooldown * (2^Cardinality(Younger(a)) - 1)

\* A switch to a better path under way is one that the cooldown allowed.
SpacedInv == TypeOK /\ Spaced /\ (busy = "better" => Allows("better"))

\* The powers of two: those of the library, as numbers of subsets.
LEMMA PowerOfTwo ==
  ASSUME NEW k \in Nat
  PROVE  /\ 2^k \in Nat /\ 2^k >= 1
         /\ 2^(k + 1) = 2^k + 2^k
         /\ \A j \in 0 .. k : 2^j <= 2^k
<1>. DEFINE P(n) == SUBSET (1 .. n)
<1>1. ASSUME NEW n \in Nat PROVE IsFiniteSet(P(n)) /\ Cardinality(P(n)) = 2^n /\ 2^n \in Nat
  <2>1. IsFiniteSet(1 .. n) /\ Cardinality(1 .. n) = n
    BY FS_Interval
  <2>2. IsFiniteSet(P(n)) /\ Cardinality(P(n)) = 2^n
    BY <2>1, FS_SUBSET
  <2>. QED BY <2>2, FS_CardinalityType
<1>2. 2^k >= 1
  <2>1. P(k) # {} /\ IsFiniteSet(P(k))
    BY <1>1
  <2>. HIDE DEF P
  <2>2. Cardinality(P(k)) # 0
    BY <2>1, FS_EmptySet
  <2>3. 2^k # 0 /\ 2^k \in Nat
    BY <1>1, <2>2
  <2>. QED BY <2>3
<1>3. ASSUME NEW j \in 0 .. k PROVE 2^j <= 2^k
  <2>1. P(j) \subseteq P(k)
    OBVIOUS
  <2>. HIDE DEF P
  <2>2. Cardinality(P(j)) <= Cardinality(P(k))
    BY <1>1, <2>1, FS_Subset
  <2>. QED BY <1>1, <2>2
<1>4. 2^(k + 1) = 2^k + 2^k
  <2>. DEFINE With == {S \cup {k + 1} : S \in P(k)}
  <2>1. P(k + 1) = P(k) \cup With /\ P(k) \cap With = {}
    <3>1. ASSUME NEW S \in P(k + 1) PROVE S \in P(k) \/ S \in With
      <4>1. S \ {k + 1} \in P(k)
        OBVIOUS
      <4>2. CASE k + 1 \in S
        <5>1. S = (S \ {k + 1}) \cup {k + 1}
          BY <4>2
        <5>. QED BY <4>1, <5>1
      <4>3. CASE k + 1 \notin S
        <5>1. S = S \ {k + 1}
          BY <4>3
        <5>. QED BY <4>1, <5>1
      <4>. QED BY <4>2, <4>3
    <3>2. P(k) \subseteq P(k + 1)
      OBVIOUS
    <3>3. ASSUME NEW S \in P(k) PROVE S \cup {k + 1} \in P(k + 1)
      OBVIOUS
    <3>4. \A S \in P(k) : k + 1 \notin S
      OBVIOUS
    <3>5. \A T \in With : k + 1 \in T
      OBVIOUS
    <3>6. With \subseteq P(k + 1)
      BY <3>3
    <3>. HIDE DEF With, P
    <3>. QED BY <3>1, <3>2, <3>4, <3>5, <3>6
  <2>2. ExistsBijection(P(k), With)
    <3>. DEFINE f == [S \in P(k) |-> S \cup {k + 1}]
    <3>1. f \in [P(k) -> With] /\ \A T \in With : \E S \in P(k) : f[S] = T
      OBVIOUS
    <3>2. \A S, T \in P(k) : f[S] = f[T] => S = T
      <4>1. \A S \in P(k) : k + 1 \notin S /\ f[S] = S \cup {k + 1}
        OBVIOUS
      <4>. QED BY <4>1
    <3>. HIDE DEF f, P, With
    <3>3. f \in Injection(P(k), With)
      BY <3>1, <3>2, Fun_IsInj
    <3>4. f \in Surjection(P(k), With)
      BY <3>1, Fun_IsSurj
    <3>. QED BY <3>3, <3>4 DEF ExistsBijection, Bijection
  <2>. HIDE DEF P, With
  <2>3. IsFiniteSet(With) /\ Cardinality(With) = 2^k
    BY <1>1, <2>2, FS_Bijection
  <2>4. Cardinality(P(k) \cup With) = Cardinality(P(k)) + Cardinality(With) - Cardinality(P(k) \cap With)
    BY <1>1, <2>3, FS_Union
  <2>5. Cardinality(P(k) \cap With) = 0
    BY <2>1, FS_EmptySet
  <2>6. Cardinality(P(k)) = 2^k /\ 2^k \in Nat
    BY <1>1
  <2>7. Cardinality(P(k + 1)) = 2^(k + 1)
    <3>1. k + 1 \in Nat
      OBVIOUS
    <3>. QED BY <1>1, <3>1
  <2>. QED BY <2>1, <2>3, <2>4, <2>5, <2>6, <2>7
<1>. QED BY <1>1, <1>2, <1>3, <1>4

\* Ages are bounded, so there are finitely many of them.
LEMMA FewRecent ==
  ASSUME TypeOK
  PROVE  /\ IsFiniteSet(recent) /\ recent \subseteq 0 .. FlapWindow
         /\ \A a \in recent : /\ IsFiniteSet(Younger(a)) /\ Cardinality(Younger(a)) \in Nat
                              /\ Cardinality(Younger(a)) <= FlapWindow
<1>1. recent \subseteq 0 .. FlapWindow - 1
  BY DEF TypeOK
<1>2. IsFiniteSet(0 .. FlapWindow - 1) /\ Cardinality(0 .. FlapWindow - 1) = FlapWindow
  BY Numbers, FS_Interval
<1>3. IsFiniteSet(recent)
  BY <1>1, <1>2, FS_Subset
<1>4. ASSUME NEW a \in recent
      PROVE  /\ IsFiniteSet(Younger(a)) /\ Cardinality(Younger(a)) \in Nat
             /\ Cardinality(Younger(a)) <= FlapWindow
  <2>1. Younger(a) \subseteq 0 .. FlapWindow - 1
    BY <1>1 DEF Younger
  <2>2. IsFiniteSet(Younger(a)) /\ Cardinality(Younger(a)) <= FlapWindow
    BY <1>2, <2>1, FS_Subset
  <2>. QED BY <2>2, FS_CardinalityType
<1>5. recent \subseteq 0 .. FlapWindow
  BY <1>1, Numbers
<1>. QED BY <1>3, <1>4, <1>5

\* The cooldowns waited out are not negative, so no switch to a better path is
\* younger than the last switch of all.
LEMMA LastIsYoungest ==
  ASSUME SpacedInv, NEW a \in recent
  PROVE  /\ a \in Nat /\ last \in Nat /\ last <= a /\ a < FlapWindow /\ last < Never
         /\ BaseCooldown * (2^Cardinality(Younger(a)) - 1) \in Nat
<1>. DEFINE k == Cardinality(Younger(a))
<1>1. k \in Nat
  BY FewRecent DEF SpacedInv
<1>2. 2^k \in Nat /\ 2^k - 1 \in Nat
  BY <1>1, PowerOfTwo
<1>3. BaseCooldown \in Nat
  BY SteeringAssumption
<1>4. a >= last + BaseCooldown * (2^k - 1)
  BY DEF SpacedInv, Spaced
<1>. HIDE DEF k
<1>5. BaseCooldown * (2^k - 1) \in Nat
  BY <1>2, <1>3
<1>6. last \in 0 .. Never /\ a \in 0 .. FlapWindow - 1 /\ FlapWindow <= MaxCooldown
  BY SteeringAssumption DEF SpacedInv, TypeOK
<1>7. a \in Nat /\ last \in Nat /\ a < FlapWindow
  BY <1>6, Numbers DEF Never
<1>8. last <= a
  BY <1>4, <1>5, <1>7
<1>9. last < Never
  BY <1>6, <1>7, <1>8, Numbers DEF Never
<1>. QED BY <1>5, <1>7, <1>8, <1>9 DEF k

\* Time moves every age and the last switch by the same, and forgets the oldest.
LEMMA PassKeepsSpaced ==
  ASSUME SpacedInv, TypeOK', Pass
  PROVE  Spaced'
<1>. SUFFICES ASSUME NEW d \in recent'
              PROVE  /\ Cardinality(Younger(d)') <= consecutive'
                     /\ d >= last' + BaseCooldown * (2^Cardinality(Younger(d)') - 1)
  BY DEF Spaced
<1>1. PICK a \in recent : d = a + 1 /\ a + 1 < FlapWindow
  BY DEF Pass
<1>2. /\ a \in Nat /\ last \in Nat /\ last <= a /\ last < Never
      /\ FlapWindow <= MaxCooldown
  BY LastIsYoungest, SteeringAssumption
<1>3. last' = last + 1
  BY <1>1, <1>2, Numbers DEF Pass, Smaller
<1>4. IsFiniteSet(Younger(a)) /\ Cardinality(Younger(a)) \in Nat
  BY FewRecent DEF SpacedInv
<1>5. \A b \in recent : b \in Int
  BY Numbers DEF SpacedInv, TypeOK
<1>6. Younger(d)' = {b + 1 : b \in Younger(a)}
  <2>1. \A b \in recent : b + 1 < d => b < a
    BY <1>1, <1>2, <1>5
  <2>2. \A b \in Younger(a) : b + 1 < d /\ b + 1 < FlapWindow /\ b \in recent
    BY <1>1, <1>2, <1>5, Numbers DEF Younger
  <2>3. recent' = {b + 1 : b \in {c \in recent : c + 1 < FlapWindow}}
    BY DEF Pass
  <2>. QED BY <2>1, <2>2, <2>3 DEF Younger
<1>7. ExistsBijection(Younger(a), Younger(d)')
  <2>. DEFINE S == Younger(a)
              T == Younger(d)'
              f == [b \in S |-> b + 1]
  <2>1. f \in [S -> T] /\ \A y \in T : \E b \in S : f[b] = y
    BY <1>6
  <2>2. \A b, c \in S : f[b] = f[c] => b = c
    BY <1>5 DEF Younger
  <2>. HIDE DEF f, S, T
  <2>3. f \in Bijection(S, T)
    BY <2>1, <2>2, Fun_IsBij
  <2>. QED BY <2>3 DEF ExistsBijection, S, T
<1>8. Cardinality(Younger(d)') = Cardinality(Younger(a))
  BY <1>4, <1>7, FS_Bijection
<1>9. /\ Cardinality(Younger(a)) <= consecutive
      /\ a >= last + BaseCooldown * (2^Cardinality(Younger(a)) - 1)
      /\ BaseCooldown * (2^Cardinality(Younger(a)) - 1) \in Nat
  BY LastIsYoungest DEF SpacedInv, Spaced
<1>10. consecutive' = consecutive
  BY DEF Pass
<1>. QED BY <1>1, <1>2, <1>3, <1>8, <1>9, <1>10

\* A switch that is counted within the window of a recent one doubles the cooldown,
\* up to its maximum.
LEMMA RecordCounts ==
  ASSUME SpacedInv, Record
  PROVE  \A a \in recent : consecutive' = Smaller(consecutive + 1, Doublings) /\ last' = 0
<1>. SUFFICES ASSUME NEW a \in recent
              PROVE  consecutive' = Smaller(consecutive + 1, Doublings) /\ last' = 0
  OBVIOUS
<1>1. last \in Nat /\ a \in Nat /\ last <= a /\ a < FlapWindow
  BY LastIsYoungest
<1>2. last < FlapWindow
  BY <1>1, Numbers
<1>. QED BY <1>2 DEF Record

\* One to a better path waited for the cooldown, so it is at least as much later
\* than all before it as these had to wait together.
LEMMA SwitchKeepsSpaced ==
  ASSUME SpacedInv, TypeOK', Switched
  PROVE  Spaced'
<1>0. Record /\ last' = 0 /\ consecutive \in 0 .. Doublings /\ consecutive' \in 0 .. Doublings
  BY DEF Switched, Record, SpacedInv, TypeOK
<1>1. CASE busy # "better"
  <2>. SUFFICES ASSUME NEW a \in recent
                PROVE  /\ Cardinality(Younger(a)) <= consecutive'
                       /\ a >= last' + BaseCooldown * (2^Cardinality(Younger(a)) - 1)
    BY <1>1 DEF Switched, Spaced, Younger
  <2>1. /\ Cardinality(Younger(a)) <= consecutive /\ Cardinality(Younger(a)) \in Nat
        /\ a >= last + BaseCooldown * (2^Cardinality(Younger(a)) - 1)
    BY FewRecent DEF SpacedInv, Spaced
  <2>2. a \in Nat /\ last \in Nat /\ BaseCooldown * (2^Cardinality(Younger(a)) - 1) \in Nat
    BY LastIsYoungest
  <2>3. consecutive' = Smaller(consecutive + 1, Doublings)
    BY <1>0, RecordCounts
  <2>4. Cardinality(Younger(a)) <= consecutive'
    BY <1>0, <2>1, <2>3, Numbers DEF Smaller
  <2>. QED BY <1>0, <2>1, <2>2, <2>4
<1>2. CASE busy = "better"
  <2>0. recent' = recent \cup {0} /\ Allows("better")
    BY <1>2 DEF Switched, SpacedInv
  <2>1. ASSUME NEW a \in recent
        PROVE  /\ a > 0 /\ Cardinality(Younger(a)') <= consecutive'
               /\ a >= last' + BaseCooldown * (2^Cardinality(Younger(a)') - 1)
    <3>. DEFINE k == Cardinality(Younger(a))
    <3>1. /\ a \in Nat /\ last \in Nat /\ last <= a /\ a < FlapWindow /\ last < Never
          /\ FlapWindow <= MaxCooldown /\ FlapWindow \in Nat /\ MaxCooldown \in Nat
      BY LastIsYoungest, Numbers, SteeringAssumption
    <3>2. k \in Nat /\ k <= consecutive /\ a >= last + BaseCooldown * (2^k - 1)
      BY FewRecent DEF SpacedInv, Spaced
    <3>. HIDE DEF k
    <3>3. consecutive \in Nat /\ k \in 0 .. consecutive
      BY <1>0, <3>2, Numbers
    <3>4. /\ 2^k \in Nat /\ 2^consecutive \in Nat /\ 2^Doublings \in Nat
          /\ 2^k >= 1 /\ 2^k <= 2^consecutive /\ 2^(k + 1) = 2^k + 2^k
      BY <3>2, <3>3, PowerOfTwo, Numbers
    <3>5. BaseCooldown \in Nat /\ BaseCooldown > 0 /\ MaxCooldown <= BaseCooldown * 2^Doublings
      BY SteeringAssumption
    <3>6. last >= BaseCooldown * 2^consecutive
      <4>1. last >= Cooldown
        BY <2>0, <3>1, Numbers DEF Allows, Never
      <4>2. BaseCooldown * 2^consecutive \in Nat
        BY <3>4, <3>5
      <4>. QED BY <3>1, <4>1, <4>2 DEF Cooldown, Smaller
    <3>7. consecutive' = consecutive + 1
      <4>1. consecutive # Doublings
        <5>. SUFFICES ASSUME consecutive = Doublings PROVE FALSE
          OBVIOUS
        <5>1. BaseCooldown * 2^Doublings \in Nat /\ last >= BaseCooldown * 2^Doublings
          BY <3>4, <3>5, <3>6
        <5>. QED BY <3>1, <3>5, <5>1
      <4>2. consecutive' = Smaller(consecutive + 1, Doublings)
        BY <1>0, RecordCounts
      <4>. QED BY <1>0, <4>1, <4>2, Numbers DEF Smaller
    <3>8. /\ BaseCooldown * 2^k \in Nat /\ BaseCooldown * 2^k >= 1
          /\ BaseCooldown * 2^k <= BaseCooldown * 2^consecutive
          /\ BaseCooldown * 2^consecutive \in Nat
          /\ BaseCooldown * (2^k - 1) = BaseCooldown * 2^k - BaseCooldown
          /\ BaseCooldown * (2^(k + 1) - 1) = BaseCooldown * 2^k + BaseCooldown * 2^k - BaseCooldown
      BY <3>4, <3>5
    <3>9. a > 0
      BY <3>1, <3>6, <3>8
    <3>10. Cardinality(Younger(a)') = k + 1
      <4>1. Younger(a)' = Younger(a) \cup {0}
        BY <2>0, <3>9 DEF Younger
      <4>2. 0 \notin recent
        <5>. SUFFICES ASSUME 0 \in recent PROVE FALSE
          OBVIOUS
        <5>1. last <= 0
          BY LastIsYoungest
        <5>. QED BY <3>1, <3>6, <3>8, <5>1
      <4>3. 0 \notin Younger(a) /\ IsFiniteSet(Younger(a))
        BY <4>2, FewRecent DEF Younger, SpacedInv
      <4>. QED BY <4>1, <4>3, FS_AddElement DEF k
    <3>11. a >= BaseCooldown * (2^(k + 1) - 1)
      BY <3>1, <3>2, <3>5, <3>6, <3>8
    <3>12. BaseCooldown * (2^(k + 1) - 1) \in Int
      BY <3>4, <3>5
    <3>. QED BY <1>0, <3>1, <3>2, <3>3, <3>7, <3>9, <3>10, <3>11, <3>12
  <2>2. /\ Cardinality(Younger(0)') <= consecutive'
        /\ 0 >= last' + BaseCooldown * (2^Cardinality(Younger(0)') - 1)
    <3>1. Younger(0)' = {}
      <4>1. \A b \in recent' : b \in Int /\ ~(b < 0)
        BY Numbers DEF TypeOK
      <4>. QED BY <4>1 DEF Younger
    <3>2. Cardinality(Younger(0)') = 0 /\ 2^0 = 1
      BY <3>1, FS_EmptySet
    <3>3. BaseCooldown \in Nat /\ consecutive' \in Nat
      BY <1>0, SteeringAssumption, Numbers
    <3>4. BaseCooldown * (2^0 - 1) = 0
      BY <3>2, <3>3
    <3>5. BaseCooldown * (2^Cardinality(Younger(0)') - 1) = 0
      BY <3>2, <3>4
    <3>. QED BY <1>0, <3>2, <3>3, <3>5
  <2>3. \A d \in recent' : d \in recent \/ d = 0
    BY <2>0
  <2>. QED BY <2>1, <2>2, <2>3 DEF Spaced
<1>. QED BY <1>1, <1>2

\* Waiting longer does not make the cooldown disallow what it allowed.
LEMMA StillAllowed ==
  ASSUME TypeOK, Allows("better"), UNCHANGED consecutive,
         last' = last \/ last' = Smaller(last + 1, MaxCooldown)
  PROVE  Allows("better")'
<1>. DEFINE B == BaseCooldown * 2^consecutive
<1>1. /\ last \in Nat /\ MaxCooldown \in Nat /\ consecutive \in Nat
  BY Numbers DEF TypeOK, Never
<1>2. B \in Nat
  BY <1>1, PowerOfTwo, SteeringAssumption
<1>3. Cooldown = Smaller(B, MaxCooldown) /\ Cooldown' = Smaller(B, MaxCooldown)
  BY DEF Cooldown
<1>4. last = Never \/ last >= Cooldown
  BY DEF Allows
<1>. HIDE DEF B
<1>5. last' = Never \/ last' >= Cooldown'
  BY <1>1, <1>2, <1>3, <1>4 DEF Smaller, Never
<1>. QED BY <1>5 DEF Allows

\* Every step keeps the distances.
LEMMA NextSpaced == SpacedInv /\ [Next]_vars => SpacedInv'
<1>. SUFFICES ASSUME SpacedInv, [Next]_vars PROVE SpacedInv'
  OBVIOUS
<1>0. TypeOK'
  BY NextTypes DEF SpacedInv
<1>1. CASE Pass
  <2>1. Spaced'
    BY <1>0, <1>1, PassKeepsSpaced
  <2>2. busy' = "better" => Allows("better")'
    BY <1>1, StillAllowed DEF Pass, SpacedInv
  <2>. QED BY <1>0, <2>1, <2>2 DEF SpacedInv
<1>2. CASE Switched
  BY <1>0, <1>2, SwitchKeepsSpaced DEF Switched, SpacedInv
<1>3. CASE UNCHANGED policyVars /\ (busy' = "better" => busy = "better" \/ Allows("better"))
  BY <1>0, <1>3 DEF policyVars, SpacedInv, Spaced, Younger, Allows, Cooldown
<1>4. CASE PostureTick \/ LinkFails \/ Send \/ SendReturns \/ BetterPath \/ NoStandby
  BY <1>3, <1>4 DEF PostureTick, LinkFails, Send, SendReturns, BetterPath, NoStandby
<1>5. CASE \E target \in Postures : ForcePosture(target)
  BY <1>3, <1>5 DEF ForcePosture
<1>6. CASE UNCHANGED vars
  BY <1>3, <1>6 DEF vars
<1>. QED BY <1>1, <1>2, <1>4, <1>5, <1>6 DEF Next

\* Of the switches to a better path of one flap window, each has its own number of
\* younger ones, and a number for which the doubled cooldowns fit into the window.
LEMMA SpacedIsLimited == SpacedInv => VoluntaryIsRateLimited
<1>. SUFFICES ASSUME SpacedInv PROVE VoluntaryIsRateLimited
  OBVIOUS
<1>. DEFINE K == {k \in 0 .. FlapWindow : BaseCooldown * (2^k - 1) < FlapWindow}
            f == [a \in recent |-> Cardinality(Younger(a))]
<1>1. ASSUME NEW a \in recent PROVE f[a] \in K
  <2>1. Cardinality(Younger(a)) \in 0 .. FlapWindow
    BY FewRecent, Numbers DEF SpacedInv
  <2>2. /\ a \in Nat /\ last \in Nat /\ a < FlapWindow
        /\ BaseCooldown * (2^Cardinality(Younger(a)) - 1) \in Nat
        /\ a >= last + BaseCooldown * (2^Cardinality(Younger(a)) - 1)
    BY LastIsYoungest DEF SpacedInv, Spaced
  <2>3. BaseCooldown * (2^Cardinality(Younger(a)) - 1) < FlapWindow
    BY <2>2, Numbers
  <2>. QED BY <2>1, <2>3
<1>2. ASSUME NEW a \in recent, NEW b \in recent, a < b PROVE f[a] # f[b]
  <2>1. Younger(a) \subseteq Younger(b) /\ a \in Younger(b) /\ a \notin Younger(a)
    <3>1. \A c \in recent : c \in Int
      BY Numbers DEF SpacedInv, TypeOK
    <3>. QED BY <1>2, <3>1 DEF Younger
  <2>2. IsFiniteSet(Younger(b))
    BY FewRecent DEF SpacedInv
  <2>. QED BY <2>1, <2>2, FS_Subset
<1>3. \A a, b \in recent : a # b => a < b \/ b < a
  BY Numbers DEF SpacedInv, TypeOK
<1>4. IsFiniteSet(K)
  <2>1. IsFiniteSet(0 .. FlapWindow) /\ K \subseteq 0 .. FlapWindow
    BY Numbers, FS_Interval
  <2>. HIDE DEF K
  <2>. QED BY <2>1, FS_Subset
<1>5. f \in [recent -> K]
  BY <1>1
<1>. HIDE DEF f, K
<1>6. f \in Injection(recent, K)
  BY <1>2, <1>3, <1>5, Fun_IsInj
<1>7. Cardinality(recent) <= Cardinality(K)
  BY <1>4, <1>6, FS_Injection
<1>. QED BY <1>7 DEF VoluntaryIsRateLimited, K

\* switch.rs, SwitchPolicy: no flap window holds more switches to a better path than
\* doubling the cooldown leaves room for, whatever failures force in between and for
\* every choice of the cooldowns and the window.
THEOREM VoluntaryIsRateLimitedAlways == Spec => []VoluntaryIsRateLimited
<1>1. Init => SpacedInv
  <2>. SUFFICES ASSUME Init PROVE SpacedInv
    OBVIOUS
  <2>1. TypeOK
    BY InitTypes
  <2>. QED BY <2>1 DEF Init, SpacedInv, Spaced
<1>. QED BY <1>1, NextSpaced, SpacedIsLimited, PTL DEF Spec

-----------------------------------------------------------------------------
(* Multipath: the scheduler.                                               *)

\* The counters of a path say what is in flight, less what was in flight when it was
\* added; those of a path that is not in use rest at zero.
CountersAgree ==
  \A p \in Paths :
    /\ flight[p] - out[p] \in 0 .. MaxFlight
    /\ IF InUse(p) THEN readded[p] \/ out[p] = flight[p] ELSE out[p] = 0

SchedulerInv == SchedulerTypeOK /\ CountersAgree

\* The constants are numbers.
LEMMA SchedulerNumbers ==
  /\ Stale \in Nat /\ MaxFlight \in Nat /\ MaxLosses \in Nat /\ MaxChanges \in Nat
  /\ MaxCapacity \in Nat /\ MaxCapacity > 0 /\ Chunk \in Nat
BY MultipathAssumption

\* RemoveAt closes the gap.
LEMMA RemoveAtProperties ==
  ASSUME NEW S, NEW s \in Seq(S), NEW i \in 1 .. Len(s)
  PROVE  /\ RemoveAt(s, i) \in Seq(S) /\ Len(RemoveAt(s, i)) = Len(s) - 1
         /\ \A k \in 1 .. (Len(s) - 1) : RemoveAt(s, i)[k] = IF k < i THEN s[k] ELSE s[k + 1]
<1>. DEFINE a == SubSeq(s, 1, i - 1)
            b == SubSeq(s, i + 1, Len(s))
<1>1. a \in Seq(S) /\ Len(a) = i - 1 /\ \A k \in 1 .. (i - 1) : a[k] = s[k]
  OBVIOUS
<1>2. b \in Seq(S) /\ Len(b) = Len(s) - i /\ \A k \in 1 .. (Len(s) - i) : b[k] = s[k + i]
  OBVIOUS
<1>3. RemoveAt(s, i) = a \o b
  BY DEF RemoveAt
<1>. HIDE DEF a, b
<1>4. Len(s) \in Nat /\ a \o b \in Seq(S) /\ Len(a \o b) = Len(a) + Len(b)
  <2>1. Len(s) \in Nat
    OBVIOUS
  <2>. QED BY <1>1, <1>2, <2>1, ConcatProperties
<1>5. \A k \in 1 .. (Len(a) + Len(b)) : (a \o b)[k] = IF k <= Len(a) THEN a[k] ELSE b[k - Len(a)]
  BY <1>1, <1>2, ConcatProperties
<1>6. ASSUME NEW k \in 1 .. (Len(s) - 1)
      PROVE  (a \o b)[k] = IF k < i THEN s[k] ELSE s[k + 1]
  <2>1. CASE k < i
    BY <1>1, <1>2, <1>4, <1>5, <2>1
  <2>2. CASE k >= i
    <3>1. k - Len(a) \in 1 .. (Len(s) - i) /\ k - Len(a) + i = k + 1
      BY <1>1, <1>4, <2>2
    <3>2. b[k - Len(a)] = s[k + 1]
      BY <1>2, <3>1
    <3>. QED BY <1>1, <1>2, <1>4, <1>5, <2>2, <3>2
  <2>3. k < i \/ k >= i
    BY <1>4
  <2>. QED BY <2>1, <2>2, <2>3
<1>. QED BY <1>1, <1>2, <1>3, <1>4, <1>6

-----------------------------------------------------------------------------

\* Where the paths in use are.
LEMMA OrderFacts ==
  ASSUME SchedulerTypeOK
  PROVE  /\ Len(order) \in Nat /\ Len(credits) = Len(order)
         /\ DOMAIN order = 1 .. Len(order) /\ DOMAIN credits = 1 .. Len(order)
         /\ \A i \in 1 .. Len(order) : order[i] \in Paths /\ credits[i] \in Int
         /\ \A p : InUse(p) <=> \E i \in 1 .. Len(order) : order[i] = p
<1>1. order \in Seq(Paths) /\ IsInjective(order) /\ credits \in Seq(Int) /\ Len(credits) = Len(order)
  BY DEF SchedulerTypeOK
<1>2. Len(order) \in Nat
  BY <1>1
<1>3. DOMAIN order = 1 .. Len(order) /\ DOMAIN credits = 1 .. Len(order)
  BY <1>1
<1>4. \A i \in 1 .. Len(order) : order[i] \in Paths /\ credits[i] \in Int
  BY <1>1
<1>. QED BY <1>1, <1>2, <1>3, <1>4 DEF InUse, ToSet

\* At the start there are no paths.
LEMMA SchedulerStart == SchedulerInit => SchedulerInv
<1>. SUFFICES ASSUME SchedulerInit PROVE SchedulerInv
  OBVIOUS
<1>. USE SchedulerNumbers DEF SchedulerInit
<1>1. order \in Seq(Paths) /\ credits \in Seq(Int) /\ DOMAIN order = {} /\ DOMAIN credits = {}
      /\ Len(credits) = 0 /\ Len(order) = 0
  OBVIOUS
<1>2. SchedulerTypeOK
  BY <1>1 DEF SchedulerTypeOK, IsInjective, Capacities
<1>3. CountersAgree
  BY DEF CountersAgree, InUse, ToSet
<1>. QED BY <1>2, <1>3 DEF SchedulerInv

\* Steps that leave the paths and their credits alone: what must be shown is about
\* the counters of one path.
LEMMA ReportsKeep ==
  ASSUME SchedulerInv, NEW p \in Paths, RecordDelivered(p) \/ RecordLost(p)
  PROVE  SchedulerInv'
<1>. USE SchedulerNumbers DEF SchedulerInv
<1>1. /\ order' = order /\ credits' = credits /\ disabled' = disabled /\ readded' = readded
      /\ losses' \in 0 .. MaxLosses /\ changes' \in 0 .. MaxChanges
  BY DEF RecordDelivered, RecordLost, SchedulerTypeOK, Measures, Changes
<1>2. /\ flight[p] > 0 /\ flight' = [flight EXCEPT ![p] = flight[p] - 1]
      /\ out' = IF InUse(p) THEN [out EXCEPT ![p] = out[p] - 1] ELSE out
  BY DEF RecordDelivered, RecordLost, Arrives
<1>3. flight' \in [Paths -> 0 .. MaxFlight]
  BY <1>2 DEF SchedulerTypeOK
<1>4. \A q : InUse(q)' <=> InUse(q)
  BY <1>1 DEF InUse
<1>5. ASSUME NEW q \in Paths
      PROVE  /\ flight'[q] - out'[q] \in 0 .. MaxFlight /\ out'[q] \in -MaxFlight .. MaxFlight
             /\ IF InUse(q) THEN readded[q] \/ out'[q] = flight'[q] ELSE out'[q] = 0
  <2>1. /\ flight[q] \in 0 .. MaxFlight /\ out[q] \in -MaxFlight .. MaxFlight
        /\ flight[q] - out[q] \in 0 .. MaxFlight /\ flight'[q] \in 0 .. MaxFlight
        /\ IF InUse(q) THEN readded[q] \/ out[q] = flight[q] ELSE out[q] = 0
    BY <1>3 DEF SchedulerTypeOK, CountersAgree
  <2>2. CASE q # p
    <3>1. flight'[q] = flight[q] /\ out'[q] = out[q]
      BY <1>2, <2>2 DEF SchedulerTypeOK
    <3>. QED BY <2>1, <3>1
  <2>3. CASE q = p
    <3>1. flight'[q] = flight[q] - 1 /\ out'[q] = IF InUse(q) THEN out[q] - 1 ELSE out[q]
      BY <1>2, <2>3 DEF SchedulerTypeOK
    <3>. QED BY <1>2, <2>1, <2>3, <3>1
  <2>. QED BY <2>2, <2>3
<1>6. out' \in [Paths -> -MaxFlight .. MaxFlight]
  <2>1. out' \in [Paths -> Int]
    BY <1>2 DEF SchedulerTypeOK
  <2>. QED BY <1>5, <2>1
<1>7. idle' \in [Paths -> 0 .. Stale + 1]
  BY SMTT(30) DEF SchedulerTypeOK, RecordDelivered, RecordLost
<1>8. loss' \in [Paths -> 0 .. 64]
  <2>1. \A x \in 0 .. 64 : Ewma(x, 0) \in 0 .. 64 /\ Ewma(x, 64) \in 0 .. 64
    BY DEF Ewma
  <2>2. \/ loss' = loss \/ loss' = [loss EXCEPT ![p] = Ewma(loss[p], 0)]
        \/ loss' = [loss EXCEPT ![p] = Ewma(loss[p], 64)]
    BY DEF RecordDelivered, RecordLost
  <2>3. loss \in [Paths -> 0 .. 64] /\ loss[p] \in 0 .. 64
    BY DEF SchedulerTypeOK
  <2>. QED BY <2>1, <2>2, <2>3
<1>9. cap' \in [Paths -> Capacities]
  <2>1. cap \in [Paths -> Capacities] /\ cap[p] \in Capacities
    BY DEF SchedulerTypeOK
  <2>2. cap' = cap \/ \E c \in Capacities : cap' = [cap EXCEPT ![p] = c]
    BY <2>1 DEF RecordDelivered, RecordLost, Measures, Capacities
  <2>. QED BY <2>1, <2>2
<1>10. SchedulerTypeOK'
  BY <1>1, <1>3, <1>6, <1>7, <1>8, <1>9 DEF SchedulerTypeOK
<1>11. CountersAgree'
  BY <1>1, <1>4, <1>5 DEF CountersAgree
<1>. QED BY <1>10, <1>11

\* What is disabled, enabled or grows old keeps its counters.
LEMMA TimeKeeps ==
  ASSUME SchedulerInv, Tick \/ \E p \in Paths : Disable(p) \/ Enable(p)
  PROVE  SchedulerInv'
<1>. USE SchedulerNumbers DEF SchedulerInv
<1>1. UNCHANGED <<order, credits, cap, out, loss, flight, losses, changes, readded>>
  BY DEF Tick, Disable, Enable
<1>2. disabled' \in [Paths -> BOOLEAN]
  BY DEF SchedulerTypeOK, Tick, Disable, Enable
<1>3. idle' \in [Paths -> 0 .. Stale + 1]
  <2>1. idle \in [Paths -> 0 .. Stale + 1]
    BY DEF SchedulerTypeOK
  <2>2. CASE Tick
    <3>1. idle' = [p \in Paths |-> IF InUse(p) /\ idle[p] <= Stale THEN idle[p] + 1 ELSE idle[p]]
      BY <2>2 DEF Tick
    <3>2. \A p \in Paths : idle[p] \in 0 .. Stale + 1
      BY <2>1
    <3>3. \A p \in Paths : (IF InUse(p) /\ idle[p] <= Stale THEN idle[p] + 1 ELSE idle[p]) \in 0 .. Stale + 1
      BY <3>2
    <3>. QED BY <3>1, <3>3
  <2>3. CASE \E p \in Paths : Disable(p) \/ Enable(p)
    BY <2>1, <2>3 DEF Disable, Enable
  <2>. QED BY <2>2, <2>3
<1>4. SchedulerTypeOK'
  BY <1>1, <1>2, <1>3 DEF SchedulerTypeOK
<1>. QED BY <1>1, <1>4 DEF CountersAgree, InUse

\* A path that is added or removed starts from nothing.
LEMMA NewTypes ==
  ASSUME SchedulerTypeOK, NEW p \in Paths, New(p)
  PROVE  /\ cap' \in [Paths -> Capacities] /\ out' \in [Paths -> -MaxFlight .. MaxFlight]
         /\ loss' \in [Paths -> 0 .. 64] /\ idle' \in [Paths -> 0 .. Stale + 1]
         /\ disabled' \in [Paths -> BOOLEAN]
         /\ out'[p] = 0 /\ \A q \in Paths \ {p} : out'[q] = out[q]
BY SchedulerNumbers DEF SchedulerTypeOK, New, Capacities

\* A new path has no credit, and whatever is still in flight over it is remembered.
LEMMA AddKeeps ==
  ASSUME SchedulerInv, NEW p \in Paths, AddPath(p)
  PROVE  SchedulerInv'
<1>. USE SchedulerNumbers DEF SchedulerInv
<1>1. /\ ~InUse(p) /\ New(p) /\ order' = Append(order, p) /\ credits' = Append(credits, 0)
      /\ flight' = flight /\ losses' = losses /\ changes' = changes
      /\ readded' = [readded EXCEPT ![p] = flight[p] > 0]
  BY DEF AddPath
<1>2. /\ order \in Seq(Paths) /\ IsInjective(order) /\ credits \in Seq(Int)
      /\ Len(credits) = Len(order) /\ Len(order) \in Nat
  BY DEF SchedulerTypeOK
<1>3. /\ order' \in Seq(Paths) /\ Len(order') = Len(order) + 1 /\ order'[Len(order) + 1] = p
      /\ DOMAIN order' = 1 .. Len(order) + 1
      /\ \A i \in 1 .. Len(order) : order'[i] = order[i]
  BY <1>1, <1>2, AppendProperties
<1>4. /\ credits' \in Seq(Int) /\ Len(credits') = Len(order) + 1 /\ credits'[Len(order) + 1] = 0
      /\ DOMAIN credits' = 1 .. Len(order) + 1
      /\ \A i \in 1 .. Len(order) : credits'[i] = credits[i]
  BY <1>1, <1>2, AppendProperties
<1>5. \A i \in 1 .. Len(order) : order[i] # p
  BY <1>1, OrderFacts
<1>6. IsInjective(order')
  <2>. SUFFICES ASSUME NEW i \in 1 .. Len(order) + 1, NEW j \in 1 .. Len(order) + 1,
                       order'[i] = order'[j]
                PROVE  i = j
    BY <1>3 DEF IsInjective
  <2>1. CASE i \in 1 .. Len(order) /\ j \in 1 .. Len(order)
    BY SMTT(30), <1>2, <1>3, <2>1 DEF IsInjective
  <2>2. CASE i = Len(order) + 1
    BY <1>2, <1>3, <1>5, <2>2
  <2>3. CASE j = Len(order) + 1
    BY <1>2, <1>3, <1>5, <2>3
  <2>. QED BY <1>2, <2>1, <2>2, <2>3
<1>7. SchedulerTypeOK'
  <2>1. flight' \in [Paths -> 0 .. MaxFlight] /\ losses' \in 0 .. MaxLosses
        /\ changes' \in 0 .. MaxChanges /\ readded' \in [Paths -> BOOLEAN]
    BY <1>1 DEF SchedulerTypeOK
  <2>. QED BY <1>1, <1>3, <1>4, <1>6, <2>1, NewTypes DEF SchedulerTypeOK
<1>8. CountersAgree'
  <2>. SUFFICES ASSUME NEW q \in Paths
                PROVE  /\ flight'[q] - out'[q] \in 0 .. MaxFlight
                       /\ IF InUse(q)' THEN readded'[q] \/ out'[q] = flight'[q] ELSE out'[q] = 0
    BY DEF CountersAgree
  <2>1. flight[q] \in 0 .. MaxFlight
    BY DEF SchedulerTypeOK
  <2>2. CASE q = p
    <3>1. out'[p] = 0 /\ flight'[p] = flight[p] /\ readded'[p] = (flight[p] > 0)
      BY <1>1, NewTypes DEF SchedulerTypeOK
    <3>2. CASE flight[p] > 0
      <4>1. readded'[p]
        BY <3>1, <3>2
      <4>. QED BY <2>1, <2>2, <3>1, <4>1
    <3>3. CASE ~(flight[p] > 0)
      <4>1. flight[p] = 0
        BY <2>1, <2>2, <3>3
      <4>. QED BY <2>1, <2>2, <3>1, <4>1
    <3>. QED BY <3>2, <3>3
  <2>3. CASE q # p
    <3>1. out'[q] = out[q] /\ flight'[q] = flight[q] /\ readded'[q] = readded[q]
      BY <1>1, <2>3, NewTypes DEF SchedulerTypeOK
    <3>2. InUse(q)' <=> InUse(q)
      <4>1. InUse(q)' <=> \E i \in 1 .. Len(order) + 1 : order'[i] = q
        BY <1>3 DEF InUse, ToSet
      <4>2. InUse(q) <=> \E i \in 1 .. Len(order) : order[i] = q
        BY OrderFacts
      <4>. QED BY <1>2, <1>3, <2>3, <4>1, <4>2
    <3>. QED BY <3>1, <3>2 DEF CountersAgree
  <2>. QED BY <2>2, <2>3
<1>. QED BY <1>7, <1>8

\* A path that goes takes its credit with it.
LEMMA RemoveKeeps ==
  ASSUME SchedulerInv, NEW p \in Paths, RemovePath(p)
  PROVE  SchedulerInv'
<1>. USE SchedulerNumbers DEF SchedulerInv
<1>. DEFINE i == CHOOSE j \in DOMAIN order : order[j] = p
<1>1. /\ InUse(p) /\ New(p) /\ order' = RemoveAt(order, i) /\ credits' = RemoveAt(credits, i)
      /\ flight' = flight /\ losses' = losses /\ readded' = readded /\ changes' \in 0 .. MaxChanges
  BY DEF RemovePath, Changes, SchedulerTypeOK
<1>2. /\ order \in Seq(Paths) /\ IsInjective(order) /\ credits \in Seq(Int)
      /\ Len(credits) = Len(order) /\ Len(order) \in Nat /\ DOMAIN order = 1 .. Len(order)
  BY DEF SchedulerTypeOK
<1>3. i \in 1 .. Len(order) /\ order[i] = p
  BY <1>1, <1>2, OrderFacts
<1>. HIDE DEF i
<1>4. /\ order' \in Seq(Paths) /\ Len(order') = Len(order) - 1 /\ DOMAIN order' = 1 .. (Len(order) - 1)
      /\ \A k \in 1 .. (Len(order) - 1) : order'[k] = IF k < i THEN order[k] ELSE order[k + 1]
  <2>1. i \in 1 .. Len(order)
    BY <1>2, <1>3
  <2>2. /\ order' \in Seq(Paths) /\ Len(order') = Len(order) - 1
        /\ \A k \in 1 .. (Len(order) - 1) : order'[k] = IF k < i THEN order[k] ELSE order[k + 1]
    BY <1>1, <1>2, <2>1, RemoveAtProperties
  <2>. QED BY SMTT(30), <1>2, <2>2
<1>5. /\ credits' \in Seq(Int) /\ Len(credits') = Len(order) - 1 /\ DOMAIN credits' = 1 .. (Len(order) - 1)
      /\ \A k \in 1 .. (Len(order) - 1) : credits'[k] = IF k < i THEN credits[k] ELSE credits[k + 1]
  <2>1. i \in 1 .. Len(credits)
    BY <1>2, <1>3
  <2>2. /\ credits' \in Seq(Int) /\ Len(credits') = Len(credits) - 1
        /\ \A k \in 1 .. (Len(credits) - 1) : credits'[k] = IF k < i THEN credits[k] ELSE credits[k + 1]
    BY <1>1, <1>2, <2>1, RemoveAtProperties
  <2>3. DOMAIN credits' = 1 .. Len(credits')
    BY <2>2
  <2>. QED BY <1>2, <2>2, <2>3
<1>6. IsInjective(order')
  <2>. SUFFICES ASSUME NEW j \in 1 .. (Len(order) - 1), NEW k \in 1 .. (Len(order) - 1),
                       order'[j] = order'[k]
                PROVE  j = k
    BY <1>4 DEF IsInjective
  <2>. DEFINE old(n) == IF n < i THEN n ELSE n + 1
  <2>1. old(j) \in DOMAIN order /\ old(k) \in DOMAIN order /\ order[old(j)] = order[old(k)]
    <3>1. \A l \in Nat : \A n \in 1 .. (l - 1) : i \in Int => old(n) \in 1 .. l
      OBVIOUS
    <3>2. \A n \in 1 .. (Len(order) - 1) : old(n) \in 1 .. Len(order)
      BY <1>2, <1>3, <3>1
    <3>3. \A n \in 1 .. (Len(order) - 1) : order'[n] = order[old(n)]
      BY <1>4
    <3>. QED BY <1>2, <3>2, <3>3
  <2>2. old(j) = old(k)
    BY <1>2, <2>1 DEF IsInjective
  <2>. QED BY <1>3, <2>2
<1>7. SchedulerTypeOK'
  <2>1. flight' \in [Paths -> 0 .. MaxFlight] /\ losses' \in 0 .. MaxLosses
        /\ changes' \in 0 .. MaxChanges /\ readded' \in [Paths -> BOOLEAN]
    BY <1>1 DEF SchedulerTypeOK
  <2>. QED BY <1>1, <1>2, <1>4, <1>5, <1>6, <2>1, NewTypes DEF SchedulerTypeOK
<1>8. /\ i \in Nat /\ Len(order) \in Nat
      /\ \A k \in 1 .. (Len(order) - 1) : k \in 1 .. Len(order) /\ k + 1 \in 1 .. Len(order)
      /\ \A k \in 1 .. Len(order) : /\ k < i => k \in 1 .. (Len(order) - 1)
                                   /\ k > i => k - 1 \in 1 .. (Len(order) - 1)
  <2>1. \A l \in Nat, n \in Nat : n \in 1 .. l =>
          /\ \A k \in 1 .. (l - 1) : k \in 1 .. l /\ k + 1 \in 1 .. l
          /\ \A k \in 1 .. l : (k < n => k \in 1 .. (l - 1)) /\ (k > n => k - 1 \in 1 .. (l - 1))
    OBVIOUS
  <2>2. i \in Nat /\ Len(order) \in Nat
    BY <1>2, <1>3
  <2>. QED BY <1>3, <2>1, <2>2
<1>9. CountersAgree'
  <2>. SUFFICES ASSUME NEW q \in Paths
                PROVE  /\ flight'[q] - out'[q] \in 0 .. MaxFlight
                       /\ IF InUse(q)' THEN readded'[q] \/ out'[q] = flight'[q] ELSE out'[q] = 0
    BY DEF CountersAgree
  <2>1. InUse(q)' <=> \E k \in 1 .. (Len(order) - 1) : order'[k] = q
    BY <1>4 DEF InUse, ToSet
  <2>2. flight[q] \in 0 .. MaxFlight
    BY DEF SchedulerTypeOK
  <2>3. CASE q = p
    <3>1. ASSUME NEW k \in 1 .. (Len(order) - 1) PROVE order'[k] # p
      <4>. DEFINE old == IF k < i THEN k ELSE k + 1
      <4>1. old \in DOMAIN order /\ i \in DOMAIN order /\ old # i /\ order'[k] = order[old]
        BY <1>2, <1>3, <1>4
      <4>2. order[old] # order[i]
        BY <1>2, <4>1 DEF IsInjective
      <4>. QED BY <1>3, <4>1, <4>2
    <3>2. out'[p] = 0
      BY <1>1, NewTypes
    <3>. QED BY <1>1, <2>1, <2>2, <2>3, <3>1, <3>2
  <2>4. CASE q # p
    <3>1. out'[q] = out[q]
      BY <1>1, <2>4, NewTypes
    <3>2. InUse(q) <=> \E k \in 1 .. Len(order) : order[k] = q
      BY OrderFacts
    <3>3. InUse(q)' => InUse(q)
      BY <1>3, <1>4, <1>8, <2>1, <3>2
    <3>4. InUse(q) => InUse(q)'
      <4>. SUFFICES ASSUME NEW k \in 1 .. Len(order), order[k] = q
                    PROVE  \E n \in 1 .. (Len(order) - 1) : order'[n] = q
        BY <2>1, <3>2
      <4>1. CASE k < i
        <5>1. k \in 1 .. (Len(order) - 1) /\ order'[k] = q
          BY <1>3, <1>4, <1>8, <4>1
        <5>. QED BY <5>1
      <4>2. CASE k > i
        <5>1. k - 1 \in 1 .. (Len(order) - 1) /\ order'[k - 1] = q
          BY <1>3, <1>4, <1>8, <4>2
        <5>. QED BY <5>1
      <4>. QED BY <1>3, <1>8, <2>4, <4>1, <4>2
    <3>. QED BY <1>1, <3>1, <3>3, <3>4 DEF CountersAgree
  <2>. QED BY <2>3, <2>4
<1>. QED BY <1>7, <1>9

-----------------------------------------------------------------------------
(* assign.                                                                 *)

\* The healthy paths have some capacity between them.
LEMMA TotalIsPositive ==
  ASSUME SchedulerTypeOK, Healthy # {}
  PROVE  Total \in Nat \ {0}
<1>. USE SchedulerNumbers
<1>1. Healthy \subseteq 1 .. Len(order) /\ Len(order) \in Nat
  BY OrderFacts DEF Healthy
<1>2. \A i \in Healthy : cap[order[i]] \in 1 .. MaxCapacity
  BY <1>1, OrderFacts DEF SchedulerTypeOK, Capacities
<1>3. IsFiniteSet(Capacity)
  <2>1. Capacity \subseteq (1 .. Len(order)) \X (1 .. MaxCapacity)
    <3>. SUFFICES ASSUME NEW i \in Healthy, NEW u \in {i} \X (1 .. cap[order[i]])
                  PROVE  u \in (1 .. Len(order)) \X (1 .. MaxCapacity)
      BY DEF Capacity
    <3>1. \A c \in 1 .. MaxCapacity : \A x \in 1 .. c : x \in 1 .. MaxCapacity
      OBVIOUS
    <3>. QED BY <1>1, <1>2, <3>1
  <2>2. IsFiniteSet(1 .. Len(order)) /\ IsFiniteSet(1 .. MaxCapacity)
    BY <1>1, FS_Interval
  <2>3. IsFiniteSet((1 .. Len(order)) \X (1 .. MaxCapacity))
    BY <2>2, FS_Product
  <2>. QED BY <2>1, <2>3, FS_Subset
<1>4. Capacity # {}
  <2>1. PICK i \in Healthy : TRUE
    OBVIOUS
  <2>2. \A c \in 1 .. MaxCapacity : 1 \in 1 .. c
    OBVIOUS
  <2>3. <<i, 1>> \in {i} \X (1 .. cap[order[i]])
    BY <1>2, <2>2
  <2>. QED BY <2>3 DEF Capacity
<1>. QED BY <1>3, <1>4, FS_CardinalityType, FS_EmptySet DEF Total

\* One of the healthy paths is chosen; credit stays a number, one for each path.
LEMMA SpendKeeps ==
  ASSUME SchedulerTypeOK, NEW i \in Richest
  PROVE  /\ i \in 1 .. Len(order) /\ i \in Healthy
         /\ Spend(i) \in Seq(Int) /\ Len(Spend(i)) = Len(credits)
<1>. USE SchedulerNumbers
<1>1. i \in Healthy /\ Healthy \subseteq 1 .. Len(order) /\ Len(credits) = Len(order)
      /\ DOMAIN credits = 1 .. Len(order) /\ Len(order) \in Nat
  BY OrderFacts DEF Richest, Healthy
<1>2. Total \in Nat \ {0}
  BY <1>1, TotalIsPositive
<1>. HIDE DEF Total
<1>3. \A k \in 1 .. Len(order) : cap[order[k]] \in Nat /\ credits[k] \in Int
  BY OrderFacts DEF SchedulerTypeOK, Capacities
<1>4. \A a \in Nat, t \in Nat \ {0} : (Chunk * a) \div t \in Int
  <2>1. \A a \in Nat : Chunk * a \in Int
    OBVIOUS
  <2>. QED BY <2>1
<1>5. Shared \in [1 .. Len(order) -> Int]
  <2>. DEFINE share(k) == (Chunk * cap[order[k]]) \div Total
  <2>1. \A k \in 1 .. Len(order) : share(k) \in Int
    BY <1>2, <1>3, <1>4
  <2>2. Shared = [k \in 1 .. Len(order) |-> IF k \in Healthy THEN credits[k] + share(k) ELSE credits[k]]
    BY <1>1 DEF Shared
  <2>. HIDE DEF share
  <2>3. \A k \in 1 .. Len(order) : credits[k] + share(k) \in Int
    BY <1>3, <2>1
  <2>. QED BY <1>3, <2>2, <2>3
<1>6. Spend(i) \in [1 .. Len(order) -> Int]
  <2>1. Spend(i) = [Shared EXCEPT ![i] = Shared[i] - Chunk]
    BY DEF Spend
  <2>2. Shared[i] - Chunk \in Int
    BY <1>1, <1>5
  <2>. QED BY <1>1, <1>5, <2>1, <2>2
<1>7. Spend(i) \in Seq(Int) /\ Len(Spend(i)) = Len(order)
  BY <1>1, <1>6
<1>. QED BY <1>1, <1>7

\* A chunk sent counts on every path it is sent over.
LEMMA AssignKeeps ==
  ASSUME SchedulerInv, NEW hedged \in BOOLEAN, Assign(hedged)
  PROVE  SchedulerInv'
<1>. USE SchedulerNumbers DEF SchedulerInv
<1>0. PICK i \in Richest :
        /\ credits' = Spend(i)
        /\ LET others == {order[j] : j \in Healthy \ {i}}
           IN  IF hedged /\ others # {}
                 THEN \E q \in others : RecordSent(order[i], {q})
                 ELSE RecordSent(order[i], {})
  BY DEF Assign
<1>1. UNCHANGED <<order, cap, loss, idle, disabled, losses, changes, readded>>
  BY DEF Assign
<1>2. /\ i \in 1 .. Len(order) /\ i \in Healthy
      /\ credits' \in Seq(Int) /\ Len(credits') = Len(credits)
  BY <1>0, SpendKeeps
<1>. DEFINE used == {order[k] : k \in 1 .. Len(order)}
<1>3. PICK hs \in SUBSET used : RecordSent(order[i], hs)
  <2>1. Healthy \subseteq 1 .. Len(order)
    BY OrderFacts DEF Healthy
  <2>2. CASE RecordSent(order[i], {})
    BY <2>2
  <2>3. ASSUME NEW k \in Healthy \ {i}, RecordSent(order[i], {order[k]})
        PROVE  \E hs \in SUBSET used : RecordSent(order[i], hs)
    BY <2>1, <2>3
  <2>. QED BY <1>0, <2>2, <2>3
<1>. DEFINE ps == {order[i]} \cup hs
<1>a. ps \subseteq used
  BY <1>2
<1>4. \A p \in ps : p \in Paths /\ InUse(p)
  BY <1>a, OrderFacts
<1>5. /\ \A p \in ps : flight[p] < MaxFlight
      /\ flight' = [p \in Paths |-> IF p \in ps THEN flight[p] + 1 ELSE flight[p]]
      /\ out' = [p \in Paths |-> IF p \in ps THEN out[p] + 1 ELSE out[p]]
  BY <1>3 DEF RecordSent
<1>. HIDE DEF ps, used
<1>6. ASSUME NEW p \in Paths
      PROVE  /\ flight'[p] \in 0 .. MaxFlight /\ out'[p] \in -MaxFlight .. MaxFlight
             /\ flight'[p] - out'[p] \in 0 .. MaxFlight
             /\ IF InUse(p) THEN readded[p] \/ out'[p] = flight'[p] ELSE out'[p] = 0
  <2>1. /\ flight[p] \in 0 .. MaxFlight /\ out[p] \in -MaxFlight .. MaxFlight
        /\ flight[p] - out[p] \in 0 .. MaxFlight
        /\ IF InUse(p) THEN readded[p] \/ out[p] = flight[p] ELSE out[p] = 0
    BY DEF SchedulerTypeOK, CountersAgree
  <2>2. CASE p \in ps
    <3>1. flight'[p] = flight[p] + 1 /\ out'[p] = out[p] + 1 /\ flight[p] < MaxFlight /\ InUse(p)
      BY <1>4, <1>5, <2>2
    <3>. QED BY SMTT(30), <2>1, <3>1
  <2>3. CASE p \notin ps
    <3>1. flight'[p] = flight[p] /\ out'[p] = out[p]
      BY <1>5, <2>3
    <3>. QED BY <2>1, <3>1
  <2>. QED BY <2>2, <2>3
<1>7. flight' \in [Paths -> 0 .. MaxFlight] /\ out' \in [Paths -> -MaxFlight .. MaxFlight]
  BY <1>5, <1>6
<1>8. SchedulerTypeOK'
  BY <1>1, <1>2, <1>7 DEF SchedulerTypeOK
<1>9. CountersAgree'
  BY <1>1, <1>6 DEF CountersAgree, InUse
<1>. QED BY <1>8, <1>9

\* Whatever the paths report and the scheduler does, the accounts stay in order.
LEMMA SchedulerSteps == SchedulerInv /\ [SchedulerNext]_schedulerVars => SchedulerInv'
<1>. SUFFICES ASSUME SchedulerInv, [SchedulerNext]_schedulerVars PROVE SchedulerInv'
  OBVIOUS
<1>1. CASE UNCHANGED schedulerVars
  BY <1>1 DEF schedulerVars, health, SchedulerInv, SchedulerTypeOK, CountersAgree, InUse
<1>2. CASE SchedulerNext
  BY <1>2, ReportsKeep, TimeKeeps, AddKeeps, RemoveKeeps, AssignKeeps DEF SchedulerNext
<1>. QED BY <1>1, <1>2

\* What is owed.
LEMMA CountersTellSilence == SchedulerInv => SilenceMeansOwing
<1>. SUFFICES ASSUME SchedulerInv, NEW p \in Paths, InUse(p), ~readded[p], ~disabled[p],
                     loss[p] <= Unhealthy
              PROVE  IsHealthy(p) <=> ~(flight[p] > 0 /\ idle[p] > Stale)
  BY DEF SilenceMeansOwing
<1>1. out[p] = flight[p]
  BY DEF SchedulerInv, CountersAgree
<1>. QED BY <1>1 DEF IsHealthy

\* multipath.rs: add_path, remove_path, assign and the reports of a path, in any
\* order and any number, and for any number of paths, keep a credit for each path
\* and counters that say what is in flight.
THEOREM SchedulerInvariant == SchedulerSpec => []SchedulerInv
<1>. QED BY SchedulerStart, SchedulerSteps, PTL DEF SchedulerSpec

\* multipath.rs: the order holds every path once, with one credit each; the counters,
\* the losses and the ages stay in their ranges.
THEOREM SchedulerTypeCorrect == SchedulerSpec => []SchedulerTypeOK
<1>1. SchedulerInv => SchedulerTypeOK
  BY DEF SchedulerInv
<1>. QED BY <1>1, SchedulerInvariant, PTL

\* is_healthy: silence counts against a path that was never taken out and put back
\* exactly while chunks are in flight on it, for any number of paths.
THEOREM SilenceMeansOwingAlways == SchedulerSpec => []SilenceMeansOwing
<1>. QED BY CountersTellSilence, SchedulerInvariant, PTL
=============================================================================
