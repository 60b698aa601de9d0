------------------------------ MODULE MediaClock ------------------------------
(***************************************************************************)
(* What the clock discipline promises to those who read its overlay: the   *)
(* static shift until the grandmaster is measured, and from then on        *)
(* nothing but shifts that follow a measurement.  The first measurement    *)
(* and the announcement that it was made are one step.                     *)
(***************************************************************************)
CONSTANTS
    Shifts,  \* phase shifts a measurement may lead to
    Static   \* the shift served before the first

VARIABLES
    shift,    \* the shift Overlay returns
    acquired  \* WaitForLock does not wait any more

clock == <<shift, acquired>>

ClockInit == shift = Static /\ acquired = FALSE

Acquire == ~acquired /\ acquired' = TRUE /\ shift' \in Shifts

Adjust == acquired /\ shift' \in Shifts /\ UNCHANGED acquired

ClockNext == Acquire \/ Adjust

ClockSpec == ClockInit /\ [][ClockNext]_clock
=============================================================================
