-------------------------------- MODULE Tuner --------------------------------
(***************************************************************************)
(* The radio tuner (engine/tuner.go): one SDR dongle, driven by a receiver *)
(* process (rtl_fm or welle-cli) and an FFmpeg that decodes it into the    *)
(* FIFO of a source zone.                                                  *)
(*                                                                         *)
(* Requests take turns under tuneMu and keep it while processes start.     *)
(* t.mu guards what the API shows.  A goroutine started by adopt reaps the *)
(* receiver and its FFmpeg.  A step is a section under t.mu, or one call   *)
(* on a process.                                                           *)
(*                                                                         *)
(* A unit is a receiver with the FFmpeg that was started for it; t.cmd and *)
(* t.filter are always those of one unit.  A unit whose processes are      *)
(* reaped may be used again.                                               *)
(***************************************************************************)
EXTENDS Naturals, FiniteSets

CONSTANTS
    Callers,    \* HTTP handlers
    Units,
    FM, DAB,    \* stations, and services of an ensemble
    Ensembles,  \* tuned without a service, to list what there is
    Off,        \* the request to switch off
    None

ASSUME TunerAssumption ==
    /\ None \notin Callers \cup Units \cup FM \cup DAB \cup Ensembles
    /\ Off \notin FM \cup DAB \cup Ensembles \cup {None}
    /\ FM \cap DAB = {} /\ FM \cap Ensembles = {} /\ DAB \cap Ensembles = {}

Stations == FM \cup DAB \cup Ensembles

VARIABLES
    tuning,   \* who holds tuneMu
    pc, req,  \* each handler: where it is, and what it was asked for
    old,      \* what stop took out of t.cmd and t.filter
    unit,     \* the unit a handler is bringing up
    cur,      \* t.cmd and t.filter
    shown,    \* t.mode, t.preset, t.freqHz, t.channel, t.service
    lastErr,  \* t.lastErr
    rx, ff,   \* receiver and FFmpeg processes
    reaper,   \* where the goroutine of adopt is
    of,       \* history: the station a unit in use was started for
    left      \* history: units whose launch returned without them

handlers == <<tuning, pc, req, old, unit>>
state == <<cur, shown, lastErr>>
processes == <<rx, ff, reaper>>
vars == <<handlers, state, processes, of, left>>

\* No process, running, killed but not gone, gone but not waited for.
ProcState == {"none", "up", "dying", "zombie"}

Init ==
    /\ tuning = None
    /\ pc = [c \in Callers |-> "idle"] /\ req = [c \in Callers |-> None]
    /\ old = [c \in Callers |-> None] /\ unit = [c \in Callers |-> None]
    /\ cur = None /\ shown = None /\ lastErr = "none"
    /\ rx = [u \in Units |-> "none"] /\ ff = [u \in Units |-> "none"]
    /\ reaper = [u \in Units |-> "off"]
    /\ of = [u \in Units |-> None] /\ left = {}

Goto(c, p) == pc' = [pc EXCEPT ![c] = p]
At(c, from, to) == pc[c] = from /\ Goto(c, to)

Killed(s) == IF s = "up" THEN "dying" ELSE s

\* A unit nothing refers to.
Free(u) ==
    /\ rx[u] = "none" /\ ff[u] = "none" /\ reaper[u] = "off"
    /\ cur # u /\ \A c \in Callers : unit[c] # u /\ old[c] # u

-----------------------------------------------------------------------------
(* Requests. *)

Request(c, s) ==
    /\ At(c, "idle", "lock")
    /\ req' = [req EXCEPT ![c] = s]
    /\ UNCHANGED <<tuning, old, unit, state, processes, of, left>>

\* Mutant: Off does not wait for a tune in progress.
LockUnlessOff(c) ==
    /\ tuning = None \/ req[c] = Off
    /\ tuning' = c
    /\ At(c, "lock", "stop")
    /\ UNCHANGED <<req, old, unit, state, processes, of, left>>

Lock(c) ==
    /\ tuning = None
    /\ tuning' = c
    /\ At(c, "lock", "stop")
    /\ UNCHANGED <<req, old, unit, state, processes, of, left>>

\* The end of a request, with tuneMu released.
Return(c) ==
    /\ tuning' = None
    /\ Goto(c, "idle")
    /\ req' = [req EXCEPT ![c] = None]
    /\ unit' = [unit EXCEPT ![c] = None]
    /\ UNCHANGED old

\* stop: take the running pair ...
StopTake(c) ==
    /\ At(c, "stop", "kill")
    /\ old' = [old EXCEPT ![c] = cur]
    /\ cur' = None
    /\ UNCHANGED <<tuning, req, unit, shown, lastErr, processes, of, left>>

\* ... and kill it.  Nobody waits for it here.
StopKill(c) ==
    /\ At(c, "kill", IF req[c] = Off THEN "clear" ELSE "sink")
    /\ rx' = [u \in Units |-> IF u = old[c] THEN Killed(rx[u]) ELSE rx[u]]
    /\ ff' = [u \in Units |-> IF u = old[c] THEN Killed(ff[u]) ELSE ff[u]]
    /\ old' = [old EXCEPT ![c] = None]
    /\ UNCHANGED <<tuning, req, unit, state, reaper, of, left>>

OffClear(c) ==
    /\ pc[c] = "clear"
    /\ shown' = None
    /\ Return(c)
    /\ UNCHANGED <<cur, lastErr, processes, of, left>>

\* setError, and return.
Fail(c) ==
    /\ lastErr' = "failed"
    /\ Return(c)
    /\ UNCHANGED <<cur, shown>>

\* openSink found the zone's end of the FIFO open.
SinkOpens(c) ==
    /\ At(c, "sink", IF req[c] \in FM THEN "ff" ELSE "rx")
    /\ \E u \in Units :
        /\ Free(u) /\ u \notin left
        /\ unit' = [unit EXCEPT ![c] = u]
        /\ of' = [of EXCEPT ![u] = req[c]]
    /\ UNCHANGED <<tuning, req, old, state, processes, left>>

\* Nobody reads the FIFO within fifoOpenTimeout, or it cannot be opened.
SinkFails(c) ==
    /\ pc[c] = "sink"
    /\ Fail(c)
    /\ UNCHANGED <<processes, of, left>>

\* launch, for FM: FFmpeg first, then rtl_fm.
FilterStarts(c) ==
    /\ At(c, "ff", IF req[c] \in FM THEN "rx" ELSE "adopt")
    /\ ff' = [ff EXCEPT ![unit[c]] = "up"]
    /\ UNCHANGED <<tuning, req, old, unit, state, rx, reaper, of, left>>

\* FFmpeg does not start.  launch returns, and with it tuneDAB: the welle-cli
\* that tuneDAB has started is nobody's any more.
FilterFails(c) ==
    /\ pc[c] = "ff"
    /\ Fail(c)
    /\ left' = IF rx[unit[c]] = "none" THEN left ELSE left \cup {unit[c]}
    /\ of' = [of EXCEPT ![unit[c]] = None]
    /\ UNCHANGED processes

\* cmd.Start, in launch for FM, in tuneDAB before launch otherwise.
ReceiverStarts(c) ==
    /\ At(c, "rx", IF req[c] \in FM THEN "adopt" ELSE "ensemble")
    /\ rx' = [rx EXCEPT ![unit[c]] = "up"]
    /\ UNCHANGED <<tuning, req, old, unit, state, ff, reaper, of, left>>

\* Mutant: the FFmpeg is waited for without being killed.
ReceiverFailsPolitely(c) ==
    /\ At(c, "rx", "undo")
    /\ UNCHANGED <<tuning, req, old, unit, state, processes, of, left>>

\* cmd.Start fails: an FFmpeg waiting for it is killed and waited for.
ReceiverFails(c) ==
    /\ At(c, "rx", "undo")
    /\ ff' = [ff EXCEPT ![unit[c]] = Killed(@)]
    /\ UNCHANGED <<tuning, req, old, unit, state, rx, reaper, of, left>>

\* waitForEnsemble reports a service.
EnsembleFound(c) ==
    /\ At(c, "ensemble", IF req[c] \in Ensembles THEN "adopt" ELSE "ff")
    /\ UNCHANGED <<tuning, req, old, unit, state, processes, of, left>>

\* No coverage: welle-cli is killed and waited for.
EnsembleMissing(c) ==
    /\ At(c, "ensemble", "undo")
    /\ rx' = [rx EXCEPT ![unit[c]] = Killed(@)]
    /\ UNCHANGED <<tuning, req, old, unit, state, ff, reaper, of, left>>

\* The wait of a tune that failed, for the one process it had started.
Undo(c) ==
    /\ pc[c] = "undo"
    /\ rx[unit[c]] \in {"none", "zombie"} /\ ff[unit[c]] \in {"none", "zombie"}
    /\ rx' = [rx EXCEPT ![unit[c]] = "none"]
    /\ ff' = [ff EXCEPT ![unit[c]] = "none"]
    /\ of' = [of EXCEPT ![unit[c]] = None]
    /\ Fail(c)
    /\ UNCHANGED <<reaper, left>>

Adopt(c) ==
    /\ At(c, "adopt", "show")
    /\ cur' = unit[c]
    /\ reaper' = [reaper EXCEPT ![unit[c]] = "receiver"]
    /\ UNCHANGED <<tuning, req, old, unit, shown, lastErr, rx, ff, of, left>>

\* The fields of the new station.
Show(c) ==
    /\ pc[c] = "show"
    /\ shown' = req[c] /\ lastErr' = "none"
    /\ Return(c)
    /\ UNCHANGED <<cur, processes, of, left>>

Tune(c) ==
    \/ StopTake(c) \/ StopKill(c) \/ OffClear(c) \/ SinkOpens(c) \/ SinkFails(c)
    \/ FilterStarts(c) \/ FilterFails(c) \/ ReceiverStarts(c) \/ ReceiverFails(c)
    \/ EnsembleFound(c) \/ EnsembleMissing(c) \/ Undo(c) \/ Adopt(c) \/ Show(c)

-----------------------------------------------------------------------------
(* The goroutine of adopt. *)

RGoto(u, p) == reaper' = [reaper EXCEPT ![u] = p]

\* Mutant: the FFmpeg of a receiver that is gone is waited for, not killed.
ReapReceiverOnly(u) ==
    /\ reaper[u] = "receiver" /\ rx[u] = "zombie"
    /\ rx' = [rx EXCEPT ![u] = "none"]
    /\ RGoto(u, IF ff[u] = "none" THEN "settle" ELSE "filter")
    /\ UNCHANGED <<handlers, state, ff, of, left>>

\* cmd.Wait() returns; the filter, if there is one, is killed.
ReapReceiver(u) ==
    /\ reaper[u] = "receiver" /\ rx[u] = "zombie"
    /\ rx' = [rx EXCEPT ![u] = "none"]
    /\ ff' = [ff EXCEPT ![u] = Killed(@)]
    /\ RGoto(u, IF ff[u] = "none" THEN "settle" ELSE "filter")
    /\ UNCHANGED <<handlers, state, of, left>>

ReapFilter(u) ==
    /\ reaper[u] = "filter" /\ ff[u] = "zombie"
    /\ ff' = [ff EXCEPT ![u] = "none"]
    /\ RGoto(u, "settle")
    /\ UNCHANGED <<handlers, state, rx, of, left>>

\* Mutant: the error is recorded whoever is tuned by now.
SettleBlames(u) ==
    /\ reaper[u] = "settle"
    /\ cur' = IF cur = u THEN None ELSE cur
    /\ lastErr' = "exited"
    /\ RGoto(u, "off") /\ of' = [of EXCEPT ![u] = None]
    /\ UNCHANGED <<handlers, shown, rx, ff, left>>

\* Mutant: whatever is tuned by now is forgotten.
SettleAnyway(u) ==
    /\ reaper[u] = "settle"
    /\ cur' = None /\ lastErr' = "exited"
    /\ RGoto(u, "off") /\ of' = [of EXCEPT ![u] = None]
    /\ UNCHANGED <<handlers, shown, rx, ff, left>>

\* Only a receiver that is still the installed one exited unasked.
Settle(u) ==
    /\ reaper[u] = "settle"
    /\ IF cur = u THEN cur' = None /\ lastErr' = "exited"
       ELSE UNCHANGED <<cur, lastErr>>
    /\ RGoto(u, "off") /\ of' = [of EXCEPT ![u] = None]
    /\ UNCHANGED <<handlers, shown, rx, ff, left>>

Reaper(u) == ReapReceiver(u) \/ ReapFilter(u) \/ Settle(u)

(* Processes: any may exit, one that was killed must. *)

ReceiverExits(u) ==
    /\ rx[u] \in {"up", "dying"}
    /\ rx' = [rx EXCEPT ![u] = "zombie"]
    /\ UNCHANGED <<handlers, state, ff, reaper, of, left>>

FilterExits(u) ==
    /\ ff[u] \in {"up", "dying"}
    /\ ff' = [ff EXCEPT ![u] = "zombie"]
    /\ UNCHANGED <<handlers, state, rx, reaper, of, left>>

Next ==
    \/ \E c \in Callers : \/ Lock(c) \/ Tune(c)
                          \/ \E s \in Stations \cup {Off} : Request(c, s)
    \/ \E u \in Units : Reaper(u) \/ ReceiverExits(u) \/ FilterExits(u)

Spec == Init /\ [][Next]_vars

\* Handlers and reapers run, each request gets tuneMu in turn, and the kernel
\* ends a process that was killed.
FairSpec ==
    /\ Spec
    /\ \A c \in Callers : WF_vars(Tune(c)) /\ SF_vars(Lock(c))
    /\ \A u \in Units :
        /\ WF_vars(Reaper(u))
        /\ WF_vars(rx[u] = "dying" /\ ReceiverExits(u))
        /\ WF_vars(ff[u] = "dying" /\ FilterExits(u))

-----------------------------------------------------------------------------
\* One handler at a time is past tuneMu, and what is installed has a reaper.
TypeOK ==
    /\ tuning \in Callers \cup {None}
    /\ pc \in [Callers -> {"idle", "lock", "stop", "kill", "clear", "sink", "ff", "rx",
                           "ensemble", "undo", "adopt", "show"}]
    /\ req \in [Callers -> Stations \cup {Off, None}]
    /\ old \in [Callers -> Units \cup {None}]
    /\ unit \in [Callers -> Units \cup {None}]
    /\ cur \in Units \cup {None} /\ shown \in Stations \cup {None}
    /\ lastErr \in {"none", "failed", "exited"}
    /\ rx \in [Units -> ProcState] /\ ff \in [Units -> ProcState]
    /\ reaper \in [Units -> {"off", "receiver", "filter", "settle"}]
    /\ of \in [Units -> Stations \cup {None}] /\ left \subseteq Units
    /\ \A c \in Callers : pc[c] \notin {"idle", "lock"} <=> tuning = c
    /\ cur # None => reaper[cur] # "off"

\* "Both modes share the one dongle, so only one plays": between requests the
\* only receiver that is not being stopped is the installed one, however the
\* reapers of earlier receivers interleave with new tunes.  (Left aside are
\* the receivers that a failed launch has left behind.)
OneReceiver ==
    tuning = None => \A u \in Units \ left : rx[u] = "up" => u = cur

\* Between requests, a station that plays is the one that is shown, and no
\* error of an earlier one is shown with it.
ShownIsTuned ==
    (tuning = None /\ cur # None) => shown = of[cur] /\ lastErr = "none"

\* Every request returns, although it waits for others and for processes.
RequestsReturn == \A c \in Callers : []<>(pc[c] = "idle")

Ending(u) ==
    \/ rx[u] \in {"dying", "zombie"}
    \/ rx[u] = "none" /\ (ff[u] # "none" \/ cur = u) /\ reaper[u] # "off"

\* Whether it was killed or exited by itself, the end of a receiver ends its
\* FFmpeg too, both are reaped, and the unit is no longer installed.
ExitIsNoticed == \A u \in Units : []<>(u \in left \/ ~Ending(u))
=============================================================================
