------------------------------ MODULE ClockProofs ------------------------------
(***************************************************************************)
(* Theorems about the clock discipline for any offsets, step threshold,    *)
(* slew limit and ticker jitter.                                           *)
(***************************************************************************)
EXTENDS ClockAudit, TLAPS

(* What the slew allowance amounts to. *)
LEMMA MaxDeltaBound ==
    ASSUME NEW e \in Nat
    PROVE  /\ MaxDelta(e) \in Nat /\ MaxDelta(e) >= 1
           /\ SlewDen * MaxDelta(e) <= SlewNum * e + SlewDen
<1> DEFINE p == SlewNum * e
           d == p \div SlewDen
<1>1. p \in Nat /\ SlewDen \in Nat \ {0}
  BY ClockAssumption
<1> HIDE DEF p
<1>2. d \in Nat /\ SlewDen * d <= p
  BY <1>1
<1> HIDE DEF d
<1>3. CASE d < 1
  <2>1. MaxDelta(e) = 1
    BY <1>3 DEF MaxDelta, d, p
  <2>2. QED
    BY <2>1, <1>1 DEF p
<1>4. CASE ~(d < 1)
  <2>1. MaxDelta(e) = d
    BY <1>4 DEF MaxDelta, d, p
  <2>2. QED
    BY <2>1, <1>1, <1>2, <1>4 DEF p
<1>5. QED
  BY <1>3, <1>4

(* A slew stays within its allowance, on the side of its target. *)
LEMMA SlewedBetween ==
    ASSUME NEW t \in Int, shift \in Int, elapsed \in Nat
    PROVE  /\ Slewed(t) \in Int
           /\ Abs(Slewed(t) - shift) <= MaxDelta(elapsed)
           /\ shift <= t => shift <= Slewed(t) /\ Slewed(t) <= t
           /\ t <= shift => t <= Slewed(t) /\ Slewed(t) <= shift
           /\ Slewed(t) = shift => t = shift
<1>1. MaxDelta(elapsed) \in Nat /\ MaxDelta(elapsed) >= 1
  BY MaxDeltaBound
<1>2. QED
  BY <1>1 DEF Slewed, Clamp, Abs

(* The elapsed time a tick works with never exceeds the ticker's own jitter,
   whether or not there was a grandmaster to measure in the meantime. *)
THEOREM ClockTypeCorrect == Spec => []TypeOK
<1>1. Init => TypeOK
  BY ClockAssumption DEF Init, TypeOK
<1>2. TypeOK /\ [Next]_vars => TypeOK'
  <2> SUFFICES ASSUME TypeOK, [Next]_vars
               PROVE  TypeOK'
    OBVIOUS
  <2> USE ClockAssumption DEF TypeOK
  <2>1. CASE Measure
    BY <2>1 DEF Measure
  <2>2. CASE Pass
    BY <2>2 DEF Pass
  <2>3. CASE TickBlind
    BY <2>3 DEF TickBlind
  <2>4. CASE TickStep
    BY <2>4 DEF TickStep
  <2>5. CASE TickSlew
    <3>1. estimate \in Int
      BY <2>5 DEF TickSlew
    <3>2. Slewed(estimate) \in Int
      BY <3>1, SlewedBetween
    <3>3. QED
      BY <2>5, <3>2 DEF TickSlew
  <2>6. CASE UNCHANGED vars
    BY <2>6 DEF vars
  <2>7. QED
    BY <2>1, <2>2, <2>3, <2>4, <2>5, <2>6 DEF Next, Tick
<1>3. QED
  BY <1>1, <1>2, PTL DEF Spec

(* A slew never passes its target and never moves away from it. *)
THEOREM SlewNeverOvershoots == Spec => NoOvershoot
<1> DEFINE Towards ==
      (acquired /\ shift' # shift /\ shift' # estimate) =>
          \/ shift < shift' /\ shift' < estimate
          \/ estimate < shift' /\ shift' < shift
<1>1. TypeOK /\ [Next]_vars => [Towards]_vars
  <2> SUFFICES ASSUME TypeOK, Next
               PROVE  Towards
    OBVIOUS
  <2>1. CASE TickSlew
    <3>1. estimate \in Int
      BY <2>1, ClockAssumption DEF TickSlew, TypeOK
    <3>2. shift' = Slewed(estimate) /\ shift \in Int /\ elapsed \in Nat
      BY <2>1, ClockAssumption DEF TickSlew, TypeOK
    <3>3. /\ Slewed(estimate) \in Int
          /\ shift <= estimate =>
               shift <= Slewed(estimate) /\ Slewed(estimate) <= estimate
          /\ estimate <= shift =>
               estimate <= Slewed(estimate) /\ Slewed(estimate) <= shift
      BY <3>1, <3>2, SlewedBetween
    <3>4. QED
      BY <3>1, <3>2, <3>3
  <2>2. CASE ~TickSlew
    BY <2>2 DEF Next, Tick, Measure, Pass, TickBlind, TickStep
  <2>3. QED
    BY <2>1, <2>2
<1>2. QED
  BY <1>1, ClockTypeCorrect, PTL DEF Spec, NoOvershoot

-----------------------------------------------------------------------------
(* The observer only watches. *)
LEMMA AuditRefines == AuditSpec => Spec
<1>1. AuditInit => Init
  BY DEF AuditInit
<1>2. [AuditNext]_auditVars => [Next]_vars
  BY DEF AuditNext, auditVars, Watch, AuditPass, AuditTick, AuditSlew, AuditRestart, Next, Tick
<1>3. QED
  BY <1>1, <1>2, PTL DEF AuditSpec, Spec

(* How far two shifts can be from a third. *)
LEMMA ShiftTriangle ==
    ASSUME NEW a \in Int, NEW b \in Int, NEW c \in Int
    PROVE  /\ Abs(a - c) \in Nat /\ Abs(b - c) \in Nat
           /\ Abs(b - c) <= Abs(a - c) + Abs(b - a)
  BY DEF Abs

(* How far a shift is from itself. *)
LEMMA ShiftUnmoved == ASSUME NEW a \in Int PROVE Abs(a - a) = 0
  BY DEF Abs

AuditInv ==
    /\ ref \in Int /\ span \in Nat /\ ticks \in Nat
    /\ gap <= span
    /\ SlewRateBounded

(* Between steps the served clock keeps within the slew limit of the local
   clock over any span, whatever the grandmaster does. *)
THEOREM SlewRateIsBounded == AuditSpec => []SlewRateBounded
<1> USE ClockAssumption
<1>1. AuditInit /\ TypeOK => AuditInv
  BY DEF AuditInit, Init, TypeOK, AuditInv, SlewRateBounded, Abs
<1>2. TypeOK /\ AuditInv /\ [AuditNext]_auditVars /\ TypeOK' => AuditInv'
  <2> SUFFICES ASSUME TypeOK, AuditInv, [AuditNext]_auditVars, TypeOK'
               PROVE  AuditInv'
    OBVIOUS
  <2> USE DEF TypeOK, AuditInv, SlewRateBounded
  <2>1. CASE Watch
    BY <2>1 DEF Watch, vars, Abs
  <2>2. CASE AuditPass
    BY <2>2 DEF AuditPass, Pass
  <2>3. CASE AuditSlew
    <3>1. /\ ticks' = ticks + 1 /\ ref' = ref /\ span' = span
          /\ gap' = 0
      BY <2>3 DEF AuditSlew, TickSlew, TickBlind
    <3>2. Abs(shift' - shift) <= MaxDelta(gap) /\ shift' \in Int
      <4>1. CASE TickSlew
        <5>1. estimate \in Int
          BY <4>1 DEF TickSlew
        <5>2. shift \in Int /\ elapsed \in Nat /\ gap = elapsed
          OBVIOUS
        <5>3. /\ Slewed(estimate) \in Int
              /\ Abs(Slewed(estimate) - shift) <= MaxDelta(gap)
          BY <5>1, <5>2, SlewedBetween
        <5>4. shift' = Slewed(estimate)
          BY <4>1 DEF TickSlew
        <5>5. QED
          BY <5>3, <5>4
      <4>2. CASE TickBlind
        <5>1. shift' = shift /\ shift \in Int
          BY <4>2 DEF TickBlind
        <5>2. Abs(shift - shift) = 0
          BY <5>1, ShiftUnmoved
        <5>3. MaxDelta(gap) >= 1 /\ MaxDelta(gap) \in Nat
          BY MaxDeltaBound
        <5>4. Abs(shift - shift) <= MaxDelta(gap)
          BY <5>2, <5>3
        <5>5. QED
          BY <5>1, <5>4
      <4>3. QED
        BY <2>3, <4>1, <4>2 DEF AuditSlew
    <3> DEFINE d == MaxDelta(gap)
               before == Abs(shift - ref)
               after == Abs(shift' - ref)
    <3>3. /\ d \in Nat
          /\ SlewDen * d <= SlewNum * gap + SlewDen
      BY MaxDeltaBound
    <3>4. after \in Nat /\ before \in Nat /\ after <= before + d
      BY <3>2, <3>3, ShiftTriangle
    <3> HIDE DEF d, before, after
    <3>5. SlewDen * after <= SlewDen * before + SlewDen * d
      BY <3>3, <3>4
    <3>6. SlewNum * span = SlewNum * (span - gap) + SlewNum * gap
      OBVIOUS
    <3>7. SlewDen * (ticks + 1) = SlewDen * ticks + SlewDen
      OBVIOUS
    <3>8. SlewDen * before <= SlewNum * (span - gap) + SlewDen * ticks
      BY DEF before
    <3>9. SlewDen * after <= SlewNum * span + SlewDen * (ticks + 1)
      BY <3>3, <3>4, <3>5, <3>6, <3>7, <3>8
    <3>10. QED
      BY <3>1, <3>9 DEF after
  <2>4. CASE AuditRestart
    <3>1. /\ ref' = shift' /\ span' = 0 /\ ticks' = 0 /\ gap' = 0
      BY <2>4 DEF AuditRestart, TickStep, TickSlew, TickBlind
    <3>2. shift' \in Int /\ Abs(shift' - shift') = 0
      BY ShiftUnmoved
    <3>3. QED
      BY <3>1, <3>2
  <2>5. CASE Measure /\ UNCHANGED <<ref, span, ticks>>
    BY <2>5 DEF Measure
  <2>6. CASE UNCHANGED auditVars
    BY <2>6 DEF auditVars, vars
  <2>7. QED
    BY <2>1, <2>2, <2>3, <2>4, <2>5, <2>6 DEF AuditNext, AuditTick
<1>3. AuditInv => SlewRateBounded
  BY DEF AuditInv
<1>4. QED
  BY <1>1, <1>2, <1>3, AuditRefines, ClockTypeCorrect, PTL DEF AuditSpec

LEMMA AcquiredBoolean == Spec => [](acquired \in BOOLEAN)
<1>1. Init => acquired \in BOOLEAN
  BY DEF Init
<1>2. acquired \in BOOLEAN /\ [Next]_vars => (acquired \in BOOLEAN)'
  BY Zenon DEF Next, vars, Measure, Pass, Tick, TickBlind, TickStep, TickSlew
<1>3. QED
  BY <1>1, <1>2, PTL DEF Spec

(* The discipline implements MediaClock: whatever the monitor estimates, the
   static shift is served until the first measurement, the step to it and the
   end of WaitForLock are one, and the lock is never taken back. *)
THEOREM DisciplineImplementsMediaClock == Spec => ServesMediaClock
<1>1. Init => Media!ClockInit
  BY DEF Init, Media!ClockInit
<1>2. TypeOK /\ acquired \in BOOLEAN /\ [Next]_vars => [Media!ClockNext]_(Media!clock)
  <2> SUFFICES ASSUME TypeOK, acquired \in BOOLEAN, [Next]_vars
               PROVE  [Media!ClockNext]_(Media!clock)
    OBVIOUS
  <2>1. CASE Measure \/ Pass \/ TickBlind \/ UNCHANGED vars
    BY <2>1 DEF Measure, Pass, TickBlind, vars, Media!clock
  <2>2. CASE TickStep
    <3>1. /\ shift' \in Int
          /\ acquired' = TRUE
      BY <2>2, ClockAssumption DEF TickStep, TypeOK
    <3>2. CASE ~acquired
      BY <3>1, <3>2 DEF Media!ClockNext, Media!Acquire
    <3>3. CASE acquired
      <4>1. acquired' = acquired
        BY Zenon, <3>1, <3>3
      <4>2. QED
        BY <3>1, <3>3, <4>1 DEF Media!ClockNext, Media!Adjust
    <3>4. QED
      BY <3>2, <3>3
  <2>3. CASE TickSlew
    <3>1. estimate \in Int /\ shift \in Int /\ elapsed \in Nat
      BY <2>3, ClockAssumption DEF TickSlew, TypeOK
    <3>2. Slewed(estimate) \in Int
      BY <3>1, SlewedBetween
    <3>3. acquired /\ shift' \in Int /\ UNCHANGED acquired
      BY <2>3, <3>2 DEF TickSlew
    <3>4. QED
      BY <3>3 DEF Media!ClockNext, Media!Adjust
  <2>4. QED
    BY <2>1, <2>2, <2>3 DEF Next, Tick
<1>3. QED
  BY <1>1, <1>2, ClockTypeCorrect, AcquiredBoolean, PTL
     DEF Spec, ServesMediaClock, Media!ClockSpec

-----------------------------------------------------------------------------
(* A shift with the mark of whether it follows a measurement.  A measurement may
   happen to give the static shift: what tells the two apart is the mark. *)
Marked == INSTANCE MediaClock
    WITH Shifts <- Int \X {TRUE}, Static <- <<Static, FALSE>>, shift <- <<shift, acquired>>

(* Every shift served before the lock is the static one and every shift served
   after it follows a measurement, even when the two are equal numbers.  This is
   MediaClock with a static shift that is not among the measured ones, which is
   what the clock server assumes of the clock it serves. *)
THEOREM DisciplineImplementsMarkedClock == Spec => Marked!ClockSpec
<1>1. Init => Marked!ClockInit
  BY DEF Init, Marked!ClockInit
<1>2. TypeOK /\ acquired \in BOOLEAN /\ [Next]_vars => [Marked!ClockNext]_(Marked!clock)
  <2> SUFFICES ASSUME TypeOK, acquired \in BOOLEAN, [Next]_vars
               PROVE  [Marked!ClockNext]_(Marked!clock)
    OBVIOUS
  <2>1. CASE Measure \/ Pass \/ TickBlind \/ UNCHANGED vars
    BY <2>1 DEF Measure, Pass, TickBlind, vars, Marked!clock
  <2>2. CASE TickStep
    <3>1. shift' \in Int /\ acquired' = TRUE
      BY <2>2, ClockAssumption DEF TickStep, TypeOK
    <3>2. <<shift', acquired'>> \in Int \X {TRUE}
      BY <3>1
    <3>3. CASE ~acquired
      BY <3>1, <3>2, <3>3 DEF Marked!ClockNext, Marked!Acquire
    <3>4. CASE acquired
      <4>1. acquired' = acquired
        BY Zenon, <3>1, <3>4
      <4>2. QED
        BY <3>2, <3>4, <4>1 DEF Marked!ClockNext, Marked!Adjust
    <3>5. QED
      BY <3>3, <3>4
  <2>3. CASE TickSlew
    <3>1. estimate \in Int /\ shift \in Int /\ elapsed \in Nat
      BY <2>3, ClockAssumption DEF TickSlew, TypeOK
    <3>2. Slewed(estimate) \in Int
      BY <3>1, SlewedBetween
    <3>3. acquired /\ shift' \in Int /\ UNCHANGED acquired
      BY <2>3, <3>2 DEF TickSlew
    <3>4. acquired = TRUE
      BY Zenon, <3>3
    <3>5. <<shift', acquired'>> \in Int \X {TRUE}
      BY <3>3, <3>4
    <3>6. QED
      BY <3>3, <3>5 DEF Marked!ClockNext, Marked!Adjust
  <2>4. QED
    BY <2>1, <2>2, <2>3 DEF Next, Tick
<1>3. QED
  BY <1>1, <1>2, ClockTypeCorrect, AcquiredBoolean, PTL DEF Spec, Marked!ClockSpec

-----------------------------------------------------------------------------
(* A tick with a measurement arrives at it, or uses its whole allowance, which is
   never nothing. *)
FullAllowance ==
    [][Tick /\ estimate # NoEstimate =>
          \/ shift' = estimate
          \/ /\ Abs(estimate - shift') = Abs(estimate - shift) - MaxDelta(elapsed)
             /\ MaxDelta(elapsed) >= 1]_vars

(* While a measurement stands, the distance to it falls by at least 1 ns a tick,
   whatever the rounding, and is never overshot: it is reached after no more ticks
   than it is nanoseconds away, which is the argument behind Converges. *)
THEOREM TicksApproach == Spec => FullAllowance
<1> DEFINE Approach ==
      Tick /\ estimate # NoEstimate =>
          \/ shift' = estimate
          \/ /\ Abs(estimate - shift') = Abs(estimate - shift) - MaxDelta(elapsed)
             /\ MaxDelta(elapsed) >= 1
<1>1. TypeOK /\ [Next]_vars => [Approach]_vars
  <2> SUFFICES ASSUME TypeOK, Tick, estimate # NoEstimate
               PROVE  Approach
    OBVIOUS
  <2>1. CASE TickSlew
    <3>1. estimate \in Int /\ shift \in Int /\ elapsed \in Nat
      BY <2>1, ClockAssumption DEF TickSlew, TypeOK
    <3>2. MaxDelta(elapsed) \in Nat /\ MaxDelta(elapsed) >= 1
      BY <3>1, MaxDeltaBound
    <3>3. shift' = Slewed(estimate)
      BY <2>1 DEF TickSlew
    <3>4. \/ Slewed(estimate) = estimate
          \/ Abs(estimate - Slewed(estimate)) = Abs(estimate - shift) - MaxDelta(elapsed)
      BY <3>1, <3>2 DEF Slewed, Clamp, Abs
    <3>5. QED
      BY <3>2, <3>3, <3>4
  <2>2. CASE TickStep
    BY <2>2 DEF TickStep
  <2>3. CASE TickBlind
    BY <2>3 DEF TickBlind
  <2>4. QED
    BY <2>1, <2>2, <2>3 DEF Tick
<1>2. QED
  BY <1>1, ClockTypeCorrect, PTL DEF Spec, FullAllowance
=============================================================================
