------------------------------ MODULE Control ------------------------------
(***************************************************************************)
(* The configuration and a Companion module that polls its list while      *)
(* requests change it and the player restarts.                             *)
(***************************************************************************)
EXTENDS AppConfig

CONSTANTS
    Polls, Timers, Garbled,
    Watchable   \* lists the player may end with

ASSUME ControlAssumption == None \notin Polls /\ None \notin Timers

VARIABLES life, awaited, pollTimer, timers, polls, shown, connected, calm

Client == INSTANCE Companion WITH listed <- stations

client == <<life, awaited, pollTimer, timers, polls, shown, connected, calm>>
cvars == <<vars, client>>

CInit == Init /\ Client!ClientInit

\* A change of the list is seen by the requests that are reading it.
Change(h) ==
    /\ \E id \in Ids : Post(h, id) \/ Delete(h, id)
    /\ Client!Race
    /\ UNCHANGED <<life, awaited, pollTimer, timers, shown, connected, calm>>

Save(h) ==
    /\ SaveOpen(h) \/ SaveFails(h) \/ SaveWrite(h) \/ SaveTears(h)
    /\ UNCHANGED client

CRestart ==
    /\ ~calm /\ Restart
    /\ Client!Cut
    /\ UNCHANGED <<life, awaited, pollTimer, timers, shown, connected, calm>>

Companion ==
    /\ Client!ClientNext
    /\ UNCHANGED <<presets, source, disk, pc, data, reading, fate, damaged>>

CNext == (\E h \in Handlers : Change(h) \/ Save(h)) \/ CRestart \/ Companion

CSpec == CInit /\ [][CNext]_cvars
CFairSpec == CSpec /\ Client!ClientFairness

-----------------------------------------------------------------------------
\* The types of both, and which poll initConnection may be waiting for.
CTypeOK == TypeOK /\ Client!ClientTypeOK(Lists)

\* However often the module is configured and its polls fail, the interval
\* that destroy will clear is the only one that fires, and none is left when
\* it is destroyed.
OneTimer == timers = IF pollTimer = None THEN {} ELSE {pollTimer}

\* Once the list stays as it is and requests succeed, a module that is not
\* destroyed ends with that list on its buttons, although answers overtake
\* each other and some were put together from two lists.
ButtonsEndWithList ==
    \A list \in Watchable :
        <>[](stations = list /\ calm /\ life \notin {"new", "gone"})
            => <>[](shown = list /\ connected)
=============================================================================
