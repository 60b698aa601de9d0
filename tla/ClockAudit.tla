------------------------------ MODULE ClockAudit ------------------------------
(***************************************************************************)
(* ClockDiscipline with an observer that picks any tick as a reference and *)
(* from then on keeps the time that passed and the ticks that ran, until   *)
(* the clock is stepped.                                                   *)
(***************************************************************************)
EXTENDS ClockDiscipline

CONSTANT MaxSpan  \* bound: how long the observer watches

ASSUME AuditAssumption == MaxSpan \in Nat

VARIABLES
    ref,    \* the shift at the reference tick
    span,   \* time since the reference tick
    ticks   \* ticks since then

auditVars == <<vars, ref, span, ticks>>

AuditInit == Init /\ ref = Static /\ span = 0 /\ ticks = 0

\* Start to watch at a tick that has just run.
Watch ==
    /\ gap = 0
    /\ ref' = shift /\ span' = 0 /\ ticks' = 0
    /\ UNCHANGED vars

AuditPass == Pass /\ span < MaxSpan /\ span' = span + 1 /\ UNCHANGED <<ref, ticks>>

AuditSlew ==
    /\ TickSlew \/ TickBlind
    /\ ticks < MaxSpan
    /\ ticks' = ticks + 1
    /\ UNCHANGED <<ref, span>>

\* A step, or the observer has seen enough: it watches from this tick on.
AuditRestart ==
    /\ TickStep \/ (ticks = MaxSpan /\ (TickSlew \/ TickBlind))
    /\ ref' = shift' /\ span' = 0 /\ ticks' = 0

AuditTick == AuditSlew \/ AuditRestart

AuditNext ==
    \/ Watch
    \/ AuditPass \/ AuditTick
    \/ Measure /\ UNCHANGED <<ref, span, ticks>>

AuditSpec == AuditInit /\ [][AuditNext]_auditVars

\* The ticker fires for ever; time and measurements come as they will.
FairAuditSpec == AuditSpec /\ WF_auditVars(AuditTick)

\* Between steps the served clock runs within the slew limit of the local
\* clock: over any span that starts at a tick it gains or loses no more than
\* the limit allows for that span, and 1 ns a tick.  A grandmaster lost for
\* an hour does not entitle the next tick to an hour of slew.
SlewRateBounded ==
    SlewDen * Abs(shift - ref) <= SlewNum * (span - gap) + SlewDen * ticks
=============================================================================
