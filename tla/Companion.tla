----------------------------- MODULE Companion -----------------------------
(***************************************************************************)
(* The Companion module (bitfocus/main.js): a client in another process    *)
(* that polls the player on a timer and after every button, and shows what *)
(* the last poll to be applied brought.  No poll waits for an earlier one. *)
(*                                                                         *)
(* A poll makes two requests; of their answers the model keeps the list of *)
(* stations and whether the status came.  Companion runs init,             *)
(* configUpdated and destroy one after another.                            *)
(***************************************************************************)
EXTENDS Sequences, FiniteSets

CONSTANTS
    Polls,      \* bound: polls in flight
    Timers,     \* what setInterval returns
    Garbled,    \* an answer put together from several lists
    None

VARIABLES
    listed,     \* the list of the player, which others change
    life,       \* what Companion last called, and whether it has returned
    awaited,    \* the poll that initConnection waits for
    pollTimer,  \* this.pollTimer
    timers,     \* intervals that fire
    polls,      \* requests and answers of each poll
    shown,      \* this.stations
    connected,  \* updateStatus: Ok, or Connecting and ConnectionFailure
    calm        \* requests no longer fail

lifecycle == <<life, awaited, pollTimer, timers>>
client == <<lifecycle, polls, shown, connected, calm>>
vars == <<listed, client>>

\* A poll that is not in flight.
Free == [pc |-> "free", saw |-> <<>>, raced |-> FALSE]

ClientInit ==
    /\ life = "new" /\ awaited = None /\ pollTimer = None /\ timers = {}
    /\ polls = [p \in Polls |-> Free]
    /\ shown = <<>> /\ connected = FALSE /\ calm = FALSE

-----------------------------------------------------------------------------
(* pollStatus *)

Ask(p) ==
    /\ polls[p].pc = "free"
    /\ polls' = [polls EXCEPT ![p].pc = "asked"]

\* The handler of GET /api/presets takes the list without its lock, and
\* encodes it later: a change in between may show in a part of the answer.  A
\* change during the copy of the slice's header gives no more than that: the
\* answer is garbled, as by a read just before the change, or the request
\* fails, or the program ends.
ListRead(p) ==
    /\ polls[p].pc = "asked"
    /\ polls' = [polls EXCEPT ![p] = [pc |-> "reading", saw |-> listed, raced |-> FALSE]]
    /\ UNCHANGED <<listed, lifecycle, shown, connected, calm>>

ListAnswer(p) ==
    /\ polls[p].pc = "reading"
    /\ \E answer \in {polls[p].saw} \cup (IF polls[p].raced THEN {Garbled} ELSE {}) :
         polls' = [polls EXCEPT ![p] = [pc |-> "got", saw |-> answer, raced |-> FALSE]]
    /\ UNCHANGED <<listed, lifecycle, shown, connected, calm>>

\* A failed request for the list counts as an empty list.
ListFails(p) ==
    /\ ~calm /\ polls[p].pc \in {"asked", "reading"}
    /\ polls' = [polls EXCEPT ![p] = [Free EXCEPT !.pc = "got"]]
    /\ UNCHANGED <<listed, lifecycle, shown, connected, calm>>

Settle(p) ==
    /\ polls' = [polls EXCEPT ![p] = Free]
    /\ awaited' = IF awaited = p THEN None ELSE awaited

\* Both requests are answered: the poll is applied, whatever was applied
\* since it began.
PollApply(p) ==
    /\ polls[p].pc = "got"
    /\ Settle(p)
    /\ shown' = polls[p].saw /\ connected' = TRUE
    /\ UNCHANGED <<listed, life, pollTimer, timers, calm>>

\* The request for the status fails.
PollFails(p) ==
    /\ polls[p].pc = "lost" \/ (~calm /\ polls[p].pc # "free")
    /\ Settle(p)
    /\ connected' = FALSE
    /\ UNCHANGED <<listed, life, pollTimer, timers, shown, calm>>

Poll(p) == ListRead(p) \/ ListAnswer(p) \/ PollApply(p)

-----------------------------------------------------------------------------
(* The calls of Companion, the timer and the buttons. *)

\* Mutant: the old interval is forgotten and not cleared.
InitConnectionKeepsTimer ==
    /\ life \in {"new", "up"}
    /\ life' = "connecting" /\ pollTimer' = None /\ UNCHANGED timers
    /\ \E p \in Polls : Ask(p) /\ awaited' = p
    /\ UNCHANGED <<listed, shown, connected, calm>>

\* init and configUpdated, as far as the first await.
InitConnection ==
    /\ life \in {"new", "up"}
    /\ life' = "connecting"
    /\ pollTimer' = None /\ timers' = timers \ {pollTimer}
    /\ \E p \in Polls : Ask(p) /\ awaited' = p
    /\ UNCHANGED <<listed, shown, connected, calm>>

\* Mutant: the interval is set only after a poll that succeeded.
StartTimerIfConnected ==
    /\ life = "connecting" /\ awaited = None
    /\ life' = "up"
    /\ IF connected
       THEN \E t \in Timers \ timers : pollTimer' = t /\ timers' = timers \cup {t}
       ELSE UNCHANGED <<pollTimer, timers>>
    /\ UNCHANGED <<listed, awaited, polls, shown, connected, calm>>

\* The rest of initConnection, once its poll is over.
StartTimer ==
    /\ life = "connecting" /\ awaited = None
    /\ life' = "up"
    /\ \E t \in Timers \ timers : pollTimer' = t /\ timers' = timers \cup {t}
    /\ UNCHANGED <<listed, awaited, polls, shown, connected, calm>>

Destroy ==
    /\ life = "up"
    /\ life' = "gone"
    /\ pollTimer' = None /\ timers' = timers \ {pollTimer}
    /\ UNCHANGED <<listed, awaited, polls, shown, connected, calm>>

Tick ==
    /\ timers # {}
    /\ \E p \in Polls : Ask(p)
    /\ UNCHANGED <<listed, lifecycle, shown, connected, calm>>

\* The callback of an action polls once its own request is answered.
Press ==
    /\ life \in {"connecting", "up"}
    /\ \E p \in Polls : Ask(p)
    /\ UNCHANGED <<listed, lifecycle, shown, connected, calm>>

Calm ==
    /\ ~calm /\ calm' = TRUE
    /\ UNCHANGED <<listed, lifecycle, polls, shown, connected>>

ClientNext ==
    \/ \E p \in Polls : Poll(p) \/ ListFails(p) \/ PollFails(p)
    \/ InitConnection \/ StartTimer \/ Destroy \/ Tick \/ Press \/ Calm

\* The list changes under the requests that are reading it.
Race == polls' = [p \in Polls |-> [polls[p] EXCEPT !.raced = (polls[p].pc = "reading")]]

\* The player ends: requests without an answer fail.
Cut == polls' = [p \in Polls |->
    IF polls[p].pc \in {"asked", "reading"} THEN [Free EXCEPT !.pc = "lost"] ELSE polls[p]]

\* Requests are answered or fail, a poll that is answered is applied, an
\* interval fires, and initConnection goes on after its poll.
ClientFairness ==
    /\ \A p \in Polls : WF_vars(Poll(p)) /\ WF_vars(PollFails(p))
    /\ WF_vars(StartTimer) /\ WF_vars(Tick)

-----------------------------------------------------------------------------
\* The types, for players with such lists; and the poll that initConnection
\* waits for is in flight.
ClientTypeOK(lists) ==
    /\ life \in {"new", "connecting", "up", "gone"}
    /\ awaited \in Polls \cup {None}
    /\ pollTimer \in Timers \cup {None} /\ timers \subseteq Timers
    /\ polls \in [Polls -> [pc : {"free", "asked", "reading", "got", "lost"},
                            saw : {Garbled} \cup lists, raced : BOOLEAN]]
    /\ awaited # None => life = "connecting" /\ polls[awaited].pc # "free"
    /\ shown \in {Garbled} \cup lists
    /\ connected \in BOOLEAN /\ calm \in BOOLEAN
=============================================================================
