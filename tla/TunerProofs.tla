----------------------------- MODULE TunerProofs -----------------------------
(***************************************************************************)
(* Theorems about the tuner for any number of handlers, stations and       *)
(* processes.                                                              *)
(***************************************************************************)
EXTENDS Tuner, TLAPS

Early == {"idle", "lock", "stop", "kill", "clear", "sink"}
Bringing == {"ff", "rx", "ensemble", "undo", "adopt"}

(* What a handler holds, by where it is. *)
HandlerOK(c) ==
    /\ pc[c] # "idle" => req[c] \in Stations \cup {Off}
    /\ pc[c] \in {"sink", "show"} \cup Bringing => req[c] \in Stations
    /\ pc[c] \in Early <=> unit[c] = None
    /\ pc[c] # "kill" => old[c] = None
    /\ pc[c] \in {"kill", "clear", "sink"} \cup Bringing => cur = None
    /\ pc[c] \in Bringing => reaper[unit[c]] = "off" /\ of[unit[c]] = req[c]
    /\ pc[c] = "show" => \/ cur = unit[c] /\ of[cur] = req[c]
                         \/ cur = None /\ rx[unit[c]] # "up"
    /\ unit[c] \notin left

(* Every running receiver is installed, in someone's hands, or left behind. *)
Accounted ==
    \A u \in Units : rx[u] = "up" =>
        \/ u \in left \/ u = cur
        \/ \E c \in Callers : old[c] = u \/ unit[c] = u

ShownOK ==
    (cur # None /\ \A c \in Callers : pc[c] # "show")
        => shown = of[cur] /\ lastErr = "none"

TunerInv ==
    /\ TypeOK
    /\ \A c \in Callers : HandlerOK(c)
    /\ Accounted
    /\ ShownOK
    /\ \A u \in Units : reaper[u] \in {"filter", "settle"} => rx[u] = "none"

LEMMA InitTuner == Init => TunerInv
  BY TunerAssumption DEF Init, TunerInv, TypeOK, HandlerOK, Accounted, ShownOK, Early,
     Bringing, ProcState

(* A handler past tuneMu is the only one. *)
LEMMA Alone ==
    ASSUME TypeOK, NEW c \in Callers, NEW k \in Callers, k # c,
           pc[c] \notin {"idle", "lock"}
    PROVE  pc[k] \in {"idle", "lock"}
  BY DEF TypeOK

(* The fields of the step's own handler, and everyone else's. *)
LEMMA TypeStep ==
    ASSUME TunerInv, [Next]_vars PROVE TypeOK'
<1> USE TunerAssumption DEF TunerInv, TypeOK, handlers, state, processes, Goto, At, ProcState
<1>1. CASE \E c \in Callers, s \in Stations \cup {Off} : Request(c, s)
  BY <1>1 DEF Request
<1>2. CASE \E c \in Callers : Lock(c)
  BY <1>2 DEF Lock
<1>3. CASE \E c \in Callers : StopTake(c)
  BY <1>3 DEF StopTake
<1>4. CASE \E c \in Callers : StopKill(c)
  BY <1>4 DEF StopKill, Killed
<1>5. CASE \E c \in Callers : OffClear(c)
  BY <1>5 DEF OffClear, Return
<1>6. CASE \E c \in Callers : SinkOpens(c)
  BY <1>6 DEF SinkOpens, HandlerOK, Bringing
<1>7. CASE \E c \in Callers : SinkFails(c)
  BY <1>7 DEF SinkFails, Fail, Return
<1>8. CASE \E c \in Callers : FilterStarts(c)
  <2>1. PICK c \in Callers : FilterStarts(c)
    BY <1>8
  <2>2. unit[c] \in Units
    BY <2>1 DEF FilterStarts, HandlerOK, Early
  <2>3. rx' \in [Units -> ProcState] /\ ff' \in [Units -> ProcState]
    BY <2>1, <2>2 DEF FilterStarts
  <2>4. QED
    BY <2>1, <2>3 DEF FilterStarts
<1>9. CASE \E c \in Callers : FilterFails(c)
  BY <1>9 DEF FilterFails, Fail, Return, HandlerOK, Early
<1>10. CASE \E c \in Callers : ReceiverStarts(c)
  <2>1. PICK c \in Callers : ReceiverStarts(c)
    BY <1>10
  <2>2. unit[c] \in Units
    BY <2>1 DEF ReceiverStarts, HandlerOK, Early
  <2>3. rx' \in [Units -> ProcState] /\ ff' \in [Units -> ProcState]
    BY <2>1, <2>2 DEF ReceiverStarts
  <2>4. QED
    BY <2>1, <2>3 DEF ReceiverStarts
<1>11. CASE \E c \in Callers : ReceiverFails(c)
  <2>1. PICK c \in Callers : ReceiverFails(c)
    BY <1>11
  <2>2. unit[c] \in Units
    BY <2>1 DEF ReceiverFails, HandlerOK, Early
  <2>3. rx' \in [Units -> ProcState] /\ ff' \in [Units -> ProcState]
    BY <2>1, <2>2 DEF ReceiverFails, Killed
  <2>4. QED
    BY <2>1, <2>3 DEF ReceiverFails, Killed
<1>12. CASE \E c \in Callers : EnsembleFound(c)
  BY <1>12 DEF EnsembleFound
<1>13. CASE \E c \in Callers : EnsembleMissing(c)
  <2>1. PICK c \in Callers : EnsembleMissing(c)
    BY <1>13
  <2>2. unit[c] \in Units
    BY <2>1 DEF EnsembleMissing, HandlerOK, Early
  <2>3. rx' \in [Units -> ProcState] /\ ff' \in [Units -> ProcState]
    BY <2>1, <2>2 DEF EnsembleMissing, Killed
  <2>4. QED
    BY <2>1, <2>3 DEF EnsembleMissing, Killed
<1>14. CASE \E c \in Callers : Undo(c)
  <2>1. PICK c \in Callers : Undo(c)
    BY <1>14
  <2>2. unit[c] \in Units
    BY <2>1 DEF Undo, HandlerOK, Early
  <2>3. rx' \in [Units -> ProcState] /\ ff' \in [Units -> ProcState]
    BY <2>1, <2>2 DEF Undo, Fail, Return
  <2>4. QED
    BY <2>1, <2>3 DEF Undo, Fail, Return
<1>15. CASE \E c \in Callers : Adopt(c)
  BY <1>15 DEF Adopt, HandlerOK, Early
<1>16. CASE \E c \in Callers : Show(c)
  BY <1>16 DEF Show, Return, HandlerOK, Bringing
<1>17. CASE \E u \in Units : ReapReceiver(u)
  BY <1>17 DEF ReapReceiver, RGoto, Killed
<1>18. CASE \E u \in Units : ReapFilter(u)
  BY <1>18 DEF ReapFilter, RGoto
<1>19. CASE \E u \in Units : Settle(u)
  BY <1>19 DEF Settle, RGoto
<1>20. CASE \E u \in Units : ReceiverExits(u) \/ FilterExits(u)
  BY <1>20 DEF ReceiverExits, FilterExits
<1>21. CASE UNCHANGED vars
  BY <1>21 DEF vars
<1>22. QED
  BY <1>1, <1>2, <1>3, <1>4, <1>5, <1>6, <1>7, <1>8, <1>9, <1>10, <1>11, <1>12, <1>13,
     <1>14, <1>15, <1>16, <1>17, <1>18, <1>19, <1>20, <1>21 DEF Next, Tune, Reaper

(* What a handler holds, after a step of its own. *)
LEMMA OwnStep ==
    ASSUME TunerInv, NEW c \in Callers,
           \/ \E s \in Stations \cup {Off} : Request(c, s)
           \/ Lock(c) \/ Tune(c)
    PROVE  HandlerOK(c)'
<1> USE TunerAssumption DEF TunerInv, TypeOK, HandlerOK, Early, Bringing, handlers, state, processes, Goto, At
<1>1. CASE \E s \in Stations \cup {Off} : Request(c, s)
  BY <1>1 DEF Request
<1>2. CASE Lock(c)
  BY <1>2 DEF Lock
<1>3. CASE StopTake(c)
  BY <1>3 DEF StopTake
<1>4. CASE StopKill(c)
  BY <1>4 DEF StopKill
<1>5. CASE OffClear(c)
  BY <1>5 DEF OffClear, Return
<1>6. CASE SinkOpens(c)
  BY <1>6 DEF SinkOpens, Free
<1>7. CASE SinkFails(c)
  BY <1>7 DEF SinkFails, Fail, Return
<1>8. CASE FilterStarts(c)
  BY <1>8 DEF FilterStarts
<1>9. CASE FilterFails(c)
  BY <1>9 DEF FilterFails, Fail, Return
<1>10. CASE ReceiverStarts(c)
  BY <1>10 DEF ReceiverStarts
<1>11. CASE ReceiverFails(c)
  BY <1>11 DEF ReceiverFails
<1>12. CASE EnsembleFound(c)
  BY <1>12 DEF EnsembleFound
<1>13. CASE EnsembleMissing(c)
  BY <1>13 DEF EnsembleMissing
<1>14. CASE Undo(c)
  BY <1>14 DEF Undo, Fail, Return
<1>15. CASE Adopt(c)
  BY <1>15 DEF Adopt
<1>16. CASE Show(c)
  BY <1>16 DEF Show, Return
<1>17. QED
  BY <1>1, <1>2, <1>3, <1>4, <1>5, <1>6, <1>7, <1>8, <1>9, <1>10, <1>11, <1>12, <1>13,
     <1>14, <1>15, <1>16 DEF Tune

(* ... and after a step of another handler. *)
LEMMA OtherStep ==
    ASSUME TunerInv, TypeOK', NEW c \in Callers, NEW k \in Callers, k # c,
           \/ \E s \in Stations \cup {Off} : Request(c, s)
           \/ Lock(c) \/ Tune(c)
    PROVE  HandlerOK(k)'
<1> USE TunerAssumption DEF TunerInv, handlers, state, processes, Goto, At
<1>1. /\ UNCHANGED <<pc[k], req[k], old[k], unit[k]>>
  BY DEF Request, Lock, Tune, StopTake, StopKill, OffClear, SinkOpens, SinkFails, FilterStarts,
     FilterFails, ReceiverStarts, ReceiverFails, EnsembleFound, EnsembleMissing, Undo,
     Adopt, Show, Fail, Return, TypeOK
<1>2. CASE (\E s \in Stations \cup {Off} : Request(c, s)) \/ Lock(c)
  BY <1>1, <1>2 DEF Request, Lock, HandlerOK, TypeOK
<1>3. CASE Tune(c)
  <2>1. pc[c] \notin {"idle", "lock"}
    BY <1>3 DEF Tune, StopTake, StopKill, OffClear, SinkOpens, SinkFails, FilterStarts,
       FilterFails, ReceiverStarts, ReceiverFails, EnsembleFound, EnsembleMissing, Undo,
       Adopt, Show
  <2>2. pc[k] \in {"idle", "lock"}
    BY <2>1, Alone
  <2>3. None \notin left'
    BY DEF TypeOK
  <2>4. QED
    BY <1>1, <2>2, <2>3 DEF HandlerOK, Early, Bringing
<1>4. QED
  BY <1>2, <1>3

(* ... and after a step of a process or its reaper. *)
LEMMA ProcessStep ==
    ASSUME TunerInv, NEW k \in Callers, NEW u \in Units,
           Reaper(u) \/ ReceiverExits(u) \/ FilterExits(u)
    PROVE  HandlerOK(k)'
<1> USE TunerAssumption DEF TunerInv, TypeOK, HandlerOK, Early, Bringing, handlers, state, processes, RGoto
<1>1. CASE ReapReceiver(u)
  BY <1>1 DEF ReapReceiver
<1>2. CASE ReapFilter(u)
  BY <1>2 DEF ReapFilter
<1>3. CASE Settle(u)
  BY <1>3 DEF Settle
<1>4. CASE ReceiverExits(u) \/ FilterExits(u)
  BY <1>4 DEF ReceiverExits, FilterExits
<1>5. QED
  BY <1>1, <1>2, <1>3, <1>4 DEF Reaper

LEMMA HandlerStep ==
    ASSUME TunerInv, [Next]_vars, NEW k \in Callers PROVE HandlerOK(k)'
<1>1. CASE \E c \in Callers : \/ Lock(c) \/ Tune(c)
                              \/ \E s \in Stations \cup {Off} : Request(c, s)
  BY <1>1, TypeStep, OwnStep, OtherStep
<1>2. CASE \E u \in Units : Reaper(u) \/ ReceiverExits(u) \/ FilterExits(u)
  BY <1>2, ProcessStep
<1>3. CASE UNCHANGED vars
  BY <1>3 DEF vars, handlers, state, processes, TunerInv, HandlerOK
<1>4. QED
  BY <1>1, <1>2, <1>3 DEF Next

(* No step loses sight of a running receiver. *)
LEMMA AccountedStep ==
    ASSUME TunerInv, [Next]_vars PROVE Accounted'
<1> USE TunerAssumption DEF TunerInv, TypeOK, Accounted, handlers, state, processes, Goto, At
<1>1. CASE \E c \in Callers, s \in Stations \cup {Off} : Request(c, s)
  BY <1>1 DEF Request
<1>2. CASE \E c \in Callers : Lock(c)
  BY <1>2 DEF Lock
<1>3. CASE \E c \in Callers : StopTake(c)
  BY <1>3 DEF StopTake, HandlerOK
<1>4. CASE \E c \in Callers : StopKill(c)
  BY <1>4 DEF StopKill, Killed, HandlerOK
<1>5. CASE \E c \in Callers : OffClear(c)
  BY <1>5 DEF OffClear, Return, HandlerOK, Early
<1>6. CASE \E c \in Callers : SinkOpens(c)
  BY <1>6 DEF SinkOpens, HandlerOK, Early
<1>7. CASE \E c \in Callers : SinkFails(c)
  BY <1>7 DEF SinkFails, Fail, Return, HandlerOK, Early
<1>8. CASE \E c \in Callers : FilterStarts(c)
  BY <1>8 DEF FilterStarts
<1>9. CASE \E c \in Callers : FilterFails(c)
  BY <1>9 DEF FilterFails, Fail, Return
<1>10. CASE \E c \in Callers : ReceiverStarts(c)
  BY <1>10 DEF ReceiverStarts
<1>11. CASE \E c \in Callers : ReceiverFails(c)
  BY <1>11 DEF ReceiverFails
<1>12. CASE \E c \in Callers : EnsembleFound(c)
  BY <1>12 DEF EnsembleFound
<1>13. CASE \E c \in Callers : EnsembleMissing(c)
  BY <1>13 DEF EnsembleMissing, Killed
<1>14. CASE \E c \in Callers : Undo(c)
  BY <1>14 DEF Undo, Fail, Return
<1>15. CASE \E c \in Callers : Adopt(c)
  BY <1>15 DEF Adopt, HandlerOK, Bringing
<1>16. CASE \E c \in Callers : Show(c)
  BY <1>16 DEF Show, Return, HandlerOK
<1>17. CASE \E u \in Units : ReapReceiver(u)
  BY <1>17 DEF ReapReceiver
<1>18. CASE \E u \in Units : ReapFilter(u)
  BY <1>18 DEF ReapFilter
<1>19. CASE \E u \in Units : Settle(u)
  BY <1>19 DEF Settle, RGoto
<1>20. CASE \E u \in Units : ReceiverExits(u) \/ FilterExits(u)
  BY <1>20 DEF ReceiverExits, FilterExits
<1>21. CASE UNCHANGED vars
  BY <1>21 DEF vars
<1>22. QED
  BY <1>1, <1>2, <1>3, <1>4, <1>5, <1>6, <1>7, <1>8, <1>9, <1>10, <1>11, <1>12, <1>13,
     <1>14, <1>15, <1>16, <1>17, <1>18, <1>19, <1>20, <1>21 DEF Next, Tune, Reaper

(* What is shown changes together with what is installed. *)
LEMMA ShownStep ==
    ASSUME TunerInv, [Next]_vars PROVE ShownOK'
<1> USE TunerAssumption DEF TunerInv, TypeOK, ShownOK, handlers, state, processes, Goto, At
<1>1. CASE \E c \in Callers : \/ Lock(c)
                              \/ \E s \in Stations \cup {Off} : Request(c, s)
  BY <1>1 DEF Request, Lock
<1>2. CASE \E c \in Callers : \/ StopTake(c) \/ StopKill(c) \/ OffClear(c)
                              \/ SinkOpens(c) \/ SinkFails(c)
  BY <1>2 DEF StopTake, StopKill, OffClear, SinkOpens, SinkFails, Fail, Return, HandlerOK
<1>3. CASE \E c \in Callers : \/ FilterStarts(c) \/ FilterFails(c) \/ ReceiverStarts(c)
                              \/ ReceiverFails(c) \/ EnsembleFound(c)
                              \/ EnsembleMissing(c) \/ Undo(c)
  BY <1>3 DEF FilterStarts, FilterFails, ReceiverStarts, ReceiverFails, EnsembleFound,
     EnsembleMissing, Undo, Fail, Return, HandlerOK, Bringing
<1>4. CASE \E c \in Callers : Adopt(c)
  BY <1>4 DEF Adopt
<1>5. CASE \E c \in Callers : Show(c)
  BY <1>5 DEF Show, Return, HandlerOK
<1>6. CASE \E u \in Units : Settle(u)
  BY <1>6 DEF Settle
<1>7. CASE \E u \in Units : ReapReceiver(u) \/ ReapFilter(u) \/ ReceiverExits(u) \/ FilterExits(u)
  BY <1>7 DEF ReapReceiver, ReapFilter, ReceiverExits, FilterExits
<1>8. CASE UNCHANGED vars
  BY <1>8 DEF vars
<1>9. QED
  BY <1>1, <1>2, <1>3, <1>4, <1>5, <1>6, <1>7, <1>8 DEF Next, Tune, Reaper

(* A receiver that its reaper has waited for is not started again. *)
LEMMA ReapedStep ==
    ASSUME TunerInv, [Next]_vars, NEW u \in Units, reaper'[u] \in {"filter", "settle"}
    PROVE  rx'[u] = "none"
<1> USE TunerAssumption DEF TunerInv, TypeOK, handlers, state, processes, Goto, At
<1>1. CASE \E c \in Callers : Adopt(c)
  BY <1>1 DEF Adopt
<1>2. CASE \E c \in Callers : ReceiverStarts(c) \/ EnsembleMissing(c) \/ Undo(c)
  BY <1>2 DEF ReceiverStarts, EnsembleMissing, Undo, HandlerOK, Bringing
<1>3. CASE \E c \in Callers : StopKill(c)
  BY <1>3 DEF StopKill, Killed
<1>4. CASE \E v \in Units : Reaper(v) \/ ReceiverExits(v) \/ FilterExits(v)
  BY <1>4 DEF Reaper, ReapReceiver, ReapFilter, Settle, RGoto, ReceiverExits, FilterExits
<1>5. CASE UNCHANGED <<rx, reaper>>
  BY <1>5
<1>6. QED
  BY <1>1, <1>2, <1>3, <1>4, <1>5 DEF Next, Request, Lock, Tune, StopTake, OffClear,
     SinkOpens, SinkFails, FilterStarts, FilterFails, ReceiverFails, EnsembleFound, Show, vars

(* What the tuner keeps while processes exit and starts fail. *)
THEOREM TunerInvariant == Spec => []TunerInv
<1>1. TunerInv /\ [Next]_vars => TunerInv'
  BY TypeStep, HandlerStep, AccountedStep, ShownStep, ReapedStep DEF TunerInv
<1>2. QED
  BY <1>1, InitTuner, PTL DEF Spec

(* Types, one handler at a time past tuneMu, and a reaper for whatever is
   installed, for any number of handlers and processes. *)
THEOREM TunerTypeCorrect == Spec => []TypeOK
  BY TunerInvariant, PTL DEF TunerInv

(* Between requests the only running receiver that has not been told to stop,
   and was not left behind by a failed launch, is the installed one. *)
THEOREM OneReceiverPlays == Spec => []OneReceiver
<1>1. TunerInv => OneReceiver
  BY TunerAssumption DEF TunerInv, TypeOK, HandlerOK, Early, Accounted, OneReceiver
<1>2. QED
  BY <1>1, TunerInvariant, PTL

(* "Both modes share the one dongle, so only one plays": not only between
   requests but at every step of every request, no two receivers run that
   have not been told to stop, the ones left behind by a failed launch aside. *)
OneReceiverAtATime ==
    \A u, v \in Units \ left : rx[u] = "up" /\ rx[v] = "up" => u = v

(* One dongle, one receiver, those left behind by a failed launch aside: it
   holds at every moment, not only between requests, because stop kills the old
   one before the new one is started. *)
THEOREM OneReceiverRuns == Spec => []OneReceiverAtATime
<1>1. TunerInv => OneReceiverAtATime
  <2> SUFFICES ASSUME TunerInv, NEW u \in Units \ left, NEW v \in Units \ left,
                      rx[u] = "up", rx[v] = "up"
               PROVE  u = v
    BY DEF OneReceiverAtATime
  <2> USE TunerAssumption DEF TunerInv, TypeOK, HandlerOK, Early, Bringing
  <2>1. \A w \in {u, v} : w = cur \/ \E c \in Callers : old[c] = w \/ unit[c] = w
    BY DEF Accounted
  <2>2. \A c \in Callers : pc[c] \in {"idle", "lock"} => old[c] = None /\ unit[c] = None
    OBVIOUS
  <2>3. CASE tuning = None
    <3>1. \A c \in Callers : pc[c] \in {"idle", "lock"}
      BY <2>3
    <3>2. QED
      BY <2>1, <2>2, <3>1
  <2>4. CASE tuning \in Callers
    <3>1. \A c \in Callers : c # tuning => old[c] = None /\ unit[c] = None
      BY <2>2, <2>4
    <3>2. \A w \in {u, v} : w \in {cur, old[tuning], unit[tuning]} /\ w # None
      BY <2>1, <3>1
    <3>3. CASE pc[tuning] = "kill"
      BY <2>4, <3>2, <3>3
    <3>4. CASE pc[tuning] \in Bringing
      BY <2>4, <3>2, <3>4
    <3>5. CASE pc[tuning] = "show"
      BY <2>4, <3>2, <3>5
    <3>6. CASE pc[tuning] \in {"stop", "clear", "sink"}
      BY <2>4, <3>2, <3>6
    <3>7. QED
      BY <2>4, <3>3, <3>4, <3>5, <3>6
  <2>5. QED
    BY <2>3, <2>4
<1>2. QED
  BY <1>1, TunerInvariant, PTL

(* Between requests the tuner shows the station that plays. *)
THEOREM DisplayIsTuned == Spec => []ShownIsTuned
<1>1. TunerInv => ShownIsTuned
  BY TunerAssumption DEF TunerInv, TypeOK, ShownOK, ShownIsTuned
<1>2. QED
  BY <1>1, TunerInvariant, PTL

-----------------------------------------------------------------------------
(* What is waited for.  Undo and the reaper wait without a timeout, under
   tuneMu and for ever; a request would not return, nor an exit be noticed, if
   what they wait for were still running. *)
WaitsForTheKilled ==
    /\ \A c \in Callers : pc[c] = "undo" => rx[unit[c]] # "up" /\ ff[unit[c]] # "up"
    /\ \A u \in Units : reaper[u] = "filter" => ff[u] \in {"dying", "zombie"}

(* A process that runs, or has not been waited for, has somebody who will: the
   reaper of its unit or the handler that is bringing it up.  The exception
   are the receivers that a failed launch leaves behind. *)
NoProcessForgotten ==
    \A u \in Units \ left :
        rx[u] # "none" \/ ff[u] # "none" =>
            \/ reaper[u] # "off"
            \/ \E c \in Callers : unit[c] = u /\ pc[c] \in Bringing

(* What a handler has started so far. *)
StartedOK(c) ==
    /\ pc[c] \in {"ff", "ensemble"} => ff[unit[c]] = "none"
    /\ pc[c] = "ff" /\ req[c] \in FM => rx[unit[c]] = "none"
    /\ pc[c] = "ensemble" => req[c] \notin FM
    /\ pc[c] = "rx" => rx[unit[c]] = "none" /\ (req[c] \notin FM => ff[unit[c]] = "none")
    /\ pc[c] = "undo" => rx[unit[c]] # "up" /\ ff[unit[c]] # "up"

WaitInv ==
    /\ \A c \in Callers : StartedOK(c)
    /\ \A u \in Units : reaper[u] = "filter" => ff[u] \in {"dying", "zombie"}
    /\ \A u \in Units : reaper[u] = "settle" => ff[u] = "none"
    /\ NoProcessForgotten

LEMMA InitWait == Init => WaitInv
  BY DEF Init, WaitInv, StartedOK, NoProcessForgotten

LEMMA StartedStep ==
    ASSUME TunerInv, WaitInv, [Next]_vars, NEW k \in Callers
    PROVE  StartedOK(k)'
<1> USE TunerAssumption DEF TunerInv, TypeOK, WaitInv, StartedOK, HandlerOK, Early,
        Bringing, handlers, state, processes, Goto, At, ProcState
<1>1. CASE \E c \in Callers : \/ Lock(c)
                              \/ \E s \in Stations \cup {Off} : Request(c, s)
  BY <1>1 DEF Request, Lock
<1>2. CASE \E c \in Callers : StopTake(c) \/ StopKill(c) \/ OffClear(c) \/ SinkFails(c)
  BY <1>2, Alone DEF StopTake, StopKill, OffClear, SinkFails, Fail, Return
<1>3. CASE \E c \in Callers : SinkOpens(c)
  BY <1>3, Alone DEF SinkOpens, Free
<1>4. CASE \E c \in Callers : FilterStarts(c)
  BY <1>4, Alone DEF FilterStarts
<1>5. CASE \E c \in Callers : FilterFails(c)
  BY <1>5, Alone DEF FilterFails, Fail, Return
<1>6. CASE \E c \in Callers : ReceiverStarts(c)
  BY <1>6, Alone DEF ReceiverStarts
<1>7. CASE \E c \in Callers : ReceiverFails(c)
  BY <1>7, Alone DEF ReceiverFails, Killed
<1>8. CASE \E c \in Callers : EnsembleFound(c)
  BY <1>8, Alone DEF EnsembleFound
<1>9. CASE \E c \in Callers : EnsembleMissing(c)
  BY <1>9, Alone DEF EnsembleMissing, Killed
<1>10. CASE \E c \in Callers : Undo(c)
  BY <1>10, Alone DEF Undo, Fail, Return
<1>11. CASE \E c \in Callers : Adopt(c) \/ Show(c)
  BY <1>11, Alone DEF Adopt, Show, Return
<1>12. CASE \E u \in Units : Reaper(u)
  BY <1>12 DEF Reaper, ReapReceiver, ReapFilter, Settle, RGoto, Killed
<1>13. CASE \E u \in Units : ReceiverExits(u) \/ FilterExits(u)
  BY <1>13 DEF ReceiverExits, FilterExits
<1>14. CASE UNCHANGED vars
  BY <1>14 DEF vars
<1>15. QED
  BY <1>1, <1>2, <1>3, <1>4, <1>5, <1>6, <1>7, <1>8, <1>9, <1>10, <1>11, <1>12,
     <1>13, <1>14 DEF Next, Tune

(* A step touches the processes of one unit, and knows their state. *)
LEMMA UnitStep ==
    ASSUME TunerInv, WaitInv, [Next]_vars, NEW u \in Units
    PROVE  /\ reaper'[u] = "filter" => ff'[u] \in {"dying", "zombie"}
           /\ reaper'[u] = "settle" => ff'[u] = "none"
<1> USE TunerAssumption DEF TunerInv, TypeOK, WaitInv, HandlerOK, Early, Bringing,
        handlers, state, processes, Goto, At, ProcState
<1>1. CASE \E c \in Callers : StopKill(c)
  BY <1>1 DEF StopKill, Killed
<1>2. CASE \E c \in Callers : FilterStarts(c)
  BY <1>2 DEF FilterStarts
<1>3. CASE \E c \in Callers : ReceiverFails(c)
  BY <1>3 DEF ReceiverFails, Killed
<1>4. CASE \E c \in Callers : Undo(c)
  BY <1>4 DEF Undo, Fail, Return
<1>5. CASE \E c \in Callers : Adopt(c)
  BY <1>5 DEF Adopt
<1>6. CASE \E v \in Units : ReapReceiver(v)
  BY <1>6 DEF ReapReceiver, RGoto, Killed
<1>7. CASE \E v \in Units : ReapFilter(v)
  BY <1>7 DEF ReapFilter, RGoto
<1>8. CASE \E v \in Units : Settle(v)
  BY <1>8 DEF Settle, RGoto
<1>9. CASE \E v \in Units : ReceiverExits(v) \/ FilterExits(v)
  BY <1>9 DEF ReceiverExits, FilterExits
<1>10. CASE UNCHANGED <<ff, reaper>>
  BY <1>10
<1>11. QED
  BY <1>1, <1>2, <1>3, <1>4, <1>5, <1>6, <1>7, <1>8, <1>9, <1>10
     DEF Next, Tune, Reaper, Request, Lock, StopTake, OffClear, SinkOpens, SinkFails,
         FilterFails, ReceiverStarts, EnsembleFound, EnsembleMissing, Show, vars

(* No step lets go of a process. *)
LEMMA ForgottenStep ==
    ASSUME TunerInv, WaitInv, [Next]_vars
    PROVE  NoProcessForgotten'
<1> USE TunerAssumption DEF TunerInv, TypeOK, WaitInv, NoProcessForgotten, StartedOK,
        HandlerOK, Early, Bringing, handlers, state, processes, Goto, At, ProcState
<1>1. CASE \E c \in Callers : \/ Lock(c)
                              \/ \E s \in Stations \cup {Off} : Request(c, s)
  BY <1>1 DEF Request, Lock
<1>2. CASE \E c \in Callers : StopTake(c) \/ OffClear(c) \/ SinkFails(c)
  BY <1>2, Alone DEF StopTake, OffClear, SinkFails, Fail, Return
<1>3. CASE \E c \in Callers : StopKill(c)
  BY <1>3, Alone DEF StopKill, Killed
<1>4. CASE \E c \in Callers : SinkOpens(c)
  BY <1>4, Alone DEF SinkOpens, Free
<1>5. CASE \E c \in Callers : FilterStarts(c)
  BY <1>5, Alone DEF FilterStarts
<1>6. CASE \E c \in Callers : FilterFails(c)
  BY <1>6, Alone DEF FilterFails, Fail, Return
<1>7. CASE \E c \in Callers : ReceiverStarts(c)
  BY <1>7, Alone DEF ReceiverStarts
<1>8. CASE \E c \in Callers : ReceiverFails(c)
  BY <1>8, Alone DEF ReceiverFails, Killed
<1>9. CASE \E c \in Callers : EnsembleFound(c) \/ EnsembleMissing(c)
  BY <1>9, Alone DEF EnsembleFound, EnsembleMissing, Killed
<1>10. CASE \E c \in Callers : Undo(c)
  BY <1>10, Alone DEF Undo, Fail, Return
<1>11. CASE \E c \in Callers : Adopt(c)
  BY <1>11, Alone DEF Adopt
<1>12. CASE \E c \in Callers : Show(c)
  BY <1>12, Alone DEF Show, Return
<1>13. CASE \E u \in Units : ReapReceiver(u) \/ ReapFilter(u)
  BY <1>13 DEF ReapReceiver, ReapFilter, RGoto, Killed
<1>14. CASE \E u \in Units : Settle(u)
  BY <1>14 DEF Settle, RGoto
<1>15. CASE \E u \in Units : ReceiverExits(u) \/ FilterExits(u)
  BY <1>15 DEF ReceiverExits, FilterExits
<1>16. CASE UNCHANGED vars
  BY <1>16 DEF vars
<1>17. QED
  BY <1>1, <1>2, <1>3, <1>4, <1>5, <1>6, <1>7, <1>8, <1>9, <1>10, <1>11, <1>12,
     <1>13, <1>14, <1>15, <1>16 DEF Next, Tune, Reaper

LEMMA WaitInvariant == Spec => []WaitInv
<1>1. TunerInv /\ WaitInv /\ [Next]_vars => WaitInv'
  BY StartedStep, UnitStep, ForgottenStep DEF WaitInv
<1>2. QED
  BY <1>1, InitWait, TunerInvariant, PTL DEF Spec

(* Neither a request nor a reaper ever waits for a process that nobody has
   killed: what makes the waits of RequestsReturn and ExitIsNoticed end. *)
THEOREM WaitsEnd == Spec => []WaitsForTheKilled
<1>1. WaitInv => WaitsForTheKilled
  BY DEF WaitInv, StartedOK, WaitsForTheKilled
<1>2. QED
  BY <1>1, WaitInvariant, PTL

(* No process is left without someone to wait for it, other than the
   receivers a failed launch leaves behind. *)
THEOREM EveryProcessIsReaped == Spec => []NoProcessForgotten
<1>1. WaitInv => NoProcessForgotten
  BY DEF WaitInv
<1>2. QED
  BY <1>1, WaitInvariant, PTL
=============================================================================
