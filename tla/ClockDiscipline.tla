--------------------------- MODULE ClockDiscipline ---------------------------
(***************************************************************************)
(* The discipline of the media clock (engine/ptpv1.go, ClockDiscipline):   *)
(* a ticker turns the PTP measurement into the phase shift served to the   *)
(* audio device, by a step at first and by a bounded slew afterwards.      *)
(*                                                                         *)
(* Time advances in units; the slew limit maxSlewPPM * 1e-6 * elapsed is   *)
(* SlewNum * elapsed / SlewDen, truncated as the conversion to int64 does. *)
(* The frequency ratio is passed through unchanged and is left out.        *)
(***************************************************************************)
EXTENDS Integers

CONSTANTS
    Targets,     \* offsets the PTP monitor may estimate
    NoEstimate,  \* Estimate returns ok = false
    Static,      \* DANTE_PTP_OFFSET_MS, served until the first estimate
    Step,        \* DANTE_PTP_STEP_MS
    SlewNum, SlewDen,
    MaxGap       \* bound: the ticker runs at least this often

ASSUME ClockAssumption ==
    /\ Targets \subseteq Int /\ NoEstimate \notin Int
    /\ Static \in Int /\ Step \in Nat
    /\ SlewNum \in Nat /\ SlewDen \in Nat \ {0}
    /\ MaxGap \in Nat

VARIABLES
    shift,     \* d.shiftNs
    acquired,  \* d.acquired, and acquiredCh is closed
    elapsed,   \* time since d.lastTick
    gap,       \* time since the ticker last fired
    estimate   \* what PTPMonitor.Estimate would return now

vars == <<shift, acquired, elapsed, gap, estimate>>

Abs(x) == IF x < 0 THEN -x ELSE x

Clamp(x, d) == IF x > d THEN d ELSE IF x < -d THEN -d ELSE x

\* Mutant: an allowance under 1 ns is truncated to nothing.
MaxDeltaTruncated(e) == (SlewNum * e) \div SlewDen

\* The most a tick may slew after e units of time, at least 1 ns.
MaxDelta(e) ==
    LET d == (SlewNum * e) \div SlewDen IN IF d < 1 THEN 1 ELSE d

Init ==
    /\ shift = Static
    /\ acquired = FALSE
    /\ elapsed = 0 /\ gap = 0
    /\ estimate = NoEstimate

\* A new measurement, a lost grandmaster or the end of the holdover.
Measure ==
    /\ estimate' \in Targets \cup {NoEstimate}
    /\ UNCHANGED <<shift, acquired, elapsed, gap>>

Pass ==
    /\ gap < MaxGap
    /\ elapsed' = elapsed + 1 /\ gap' = gap + 1
    /\ UNCHANGED <<shift, acquired, estimate>>

\* Mutant: a tick without an estimate does not record that it ran.
TickBlindForgets ==
    /\ estimate = NoEstimate
    /\ gap' = 0
    /\ UNCHANGED <<shift, acquired, elapsed, estimate>>

\* tick() without an estimate keeps what is served, but records its time.
TickBlind ==
    /\ estimate = NoEstimate
    /\ elapsed' = 0 /\ gap' = 0
    /\ UNCHANGED <<shift, acquired, estimate>>

\* Mutant: the first step is not recorded.
TickStepUnrecorded ==
    /\ estimate # NoEstimate
    /\ ~acquired \/ Abs(estimate - shift) > Step
    /\ shift' = estimate
    /\ elapsed' = 0 /\ gap' = 0
    /\ UNCHANGED <<acquired, estimate>>

\* applyEstimate: the first estimate, or an error beyond the threshold.
TickStep ==
    /\ estimate # NoEstimate
    /\ ~acquired \/ Abs(estimate - shift) > Step
    /\ shift' = estimate
    /\ acquired' = TRUE
    /\ elapsed' = 0 /\ gap' = 0
    /\ UNCHANGED estimate

\* The shift after a slew towards t.
Slewed(t) == shift + Clamp(t - shift, MaxDelta(elapsed))

\* applyEstimate: everything else is slewed.
TickSlew ==
    /\ estimate # NoEstimate
    /\ acquired /\ Abs(estimate - shift) <= Step
    /\ shift' = Slewed(estimate)
    /\ elapsed' = 0 /\ gap' = 0
    /\ UNCHANGED <<acquired, estimate>>

Tick == TickBlind \/ TickStep \/ TickSlew

Next == Measure \/ Pass \/ Tick

Spec == Init /\ [][Next]_vars

-----------------------------------------------------------------------------
(* The type invariant also says that the elapsed time a tick works with is the
   time since the ticker last fired, with or without an estimate. *)
TypeOK ==
    /\ shift \in Int
    /\ elapsed \in 0..MaxGap /\ gap = elapsed
    /\ estimate \in Targets \cup {NoEstimate}

\* A slew never passes its target and never moves away from it, however long
\* the ticker was late or the grandmaster was lost before it.
NoOvershoot ==
    [][(acquired /\ shift' # shift /\ shift' # estimate) =>
          \/ shift < shift' /\ shift' < estimate
          \/ estimate < shift' /\ shift' < shift]_vars

\* What the server, the device and WaitForLock may rely on: the static shift is
\* served until the first measurement, whose step and whose announcement are
\* one; the lock is never taken back.
Media == INSTANCE MediaClock WITH Shifts <- Int
ServesMediaClock == Media!ClockSpec

\* With a steady measurement the served clock arrives at it and stays there.
Converges ==
    \A t \in Targets : <>[](estimate = t) => <>[](shift = t)
=============================================================================
