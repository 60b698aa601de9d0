-------------------------------- MODULE Events --------------------------------
(***************************************************************************)
(* The live status: from a change in a zone, the tuner or the soundboard   *)
(* to the pages that show it (engine/manager.go, the SSE handler of        *)
(* api/server.go, initSSE of web/app.js).                                  *)
(*                                                                         *)
(* One broadcaster takes a snapshot, part by part, whenever it is notified *)
(* or its ticker fires, and offers it to the channel of every listener     *)
(* under listenerMu.  One handler per connection copies its channel to the *)
(* socket.  A page that loses its connection opens a new one a little      *)
(* later.                                                                  *)
(*                                                                         *)
(* The state of a part is represented by how often it has changed.         *)
(***************************************************************************)
EXTENDS Naturals, Sequences, FiniteSets

CONSTANTS
    Parts,      \* what a status is put together from, each under its own lock
    Pages,
    Readers,    \* pages that keep reading; another may stop at any moment
    Conns,      \* connections, with their handlers and channels
    None,
    NotifyCap,  \* of m.stateChan
    ChanCap,    \* of the channel of a listener
    MaxVersion  \* model: bound on the changes of a part

ASSUME EventsAssumption ==
    /\ None \notin Conns /\ Readers \subseteq Pages
    /\ NotifyCap \in Nat \ {0} /\ ChanCap \in Nat \ {0}
    /\ MaxVersion \in Nat

VARIABLES
    world,      \* the state of each part
    notes,      \* number of signals in m.stateChan
    bpc,        \* where the broadcaster is; it holds listenerMu at "send"
    unread,     \* parts its snapshot still lacks
    st,         \* the snapshot
    todo,       \* listeners it has still to offer it to
    listeners,  \* m.listeners
    chan,       \* the channel of each listener
    hpc, held,  \* each handler: where it is, and the status on its way to the page
    cut,        \* connections that carry nothing any more
    ppc,        \* each page: off, open, or waiting to reconnect
    conn,       \* the EventSource of a page
    view,       \* systemState of a page
    up,         \* the program runs
    settled     \* model: nothing changes or fails any more

broadcaster == <<notes, bpc, unread, st, todo>>
handlers == <<listeners, chan, hpc, held>>
pages == <<ppc, conn, view>>
vars == <<world, broadcaster, handlers, cut, pages, up, settled>>

Blank == [q \in Parts |-> 0]

Init ==
    /\ world = Blank
    /\ notes = 0 /\ bpc = "select"
    /\ unread = {} /\ st = Blank /\ todo = {}
    /\ listeners = {} /\ chan = [c \in Conns |-> <<>>]
    /\ hpc = [c \in Conns |-> "none"] /\ held = [c \in Conns |-> Blank]
    /\ cut = Conns
    /\ ppc = [p \in Pages |-> "off"] /\ conn = [p \in Pages |-> None]
    /\ view = [p \in Pages |-> Blank]
    /\ up = TRUE /\ settled = FALSE

-----------------------------------------------------------------------------
(* A part changes under its own lock, and notifies without waiting; when    *)
(* m.stateChan is full the broadcaster has yet to look, so nothing is lost. *)

Change(q) ==
    /\ up /\ ~settled /\ world[q] < MaxVersion
    /\ world' = [world EXCEPT ![q] = @ + 1]
    /\ notes' = IF notes < NotifyCap THEN notes + 1 ELSE notes
    /\ UNCHANGED <<bpc, unread, st, todo, handlers, cut, pages, up, settled>>

-----------------------------------------------------------------------------
(* The broadcaster. *)

\* The select of eventBroadcaster: a notification, or the ticker, which fires
\* again and again.
Wake ==
    /\ up /\ bpc = "select" /\ bpc' = "read" /\ unread' = Parts
    /\ notes' \in {notes} \cup {n \in {notes - 1} : notes > 0}
    /\ UNCHANGED <<world, st, todo, handlers, cut, pages, up, settled>>

\* Mutant: a part whose lock is taken is left blank.
ReadPartIfFree ==
    /\ bpc = "read"
    /\ \E q \in unread :
        /\ \E free \in BOOLEAN :
            st' = [st EXCEPT ![q] = IF free THEN world[q] ELSE 0]
        /\ unread' = unread \ {q}
    /\ bpc' = IF unread' = {} THEN "lock" ELSE "read"
    /\ UNCHANGED <<world, notes, todo, handlers, cut, pages, up, settled>>

\* GetStatus.
ReadPart ==
    /\ bpc = "read"
    /\ \E q \in unread :
        /\ st' = [st EXCEPT ![q] = world[q]]
        /\ unread' = unread \ {q}
    /\ bpc' = IF unread' = {} THEN "lock" ELSE "read"
    /\ UNCHANGED <<world, notes, todo, handlers, cut, pages, up,
                   settled>>

LockListeners ==
    /\ bpc = "lock" /\ bpc' = IF listeners = {} THEN "select" ELSE "send"
    /\ todo' = listeners
    /\ UNCHANGED <<world, notes, unread, st, handlers, cut,
                   pages, up, settled>>

\* Mutant: the send to a listener waits for room.
OfferWaits ==
    /\ bpc = "send"
    /\ \E c \in todo :
        /\ Len(chan[c]) < ChanCap
        /\ chan' = [chan EXCEPT ![c] = Append(@, st)]
        /\ todo' = todo \ {c}
    /\ bpc' = IF todo' = {} THEN "select" ELSE "send"
    /\ UNCHANGED <<world, notes, unread, st, listeners,
                   hpc, held, cut, pages, up, settled>>

\* Mutant: the channel has no bound.
OfferAlways ==
    /\ bpc = "send"
    /\ \E c \in todo :
        /\ chan' = [chan EXCEPT ![c] = Append(@, st)]
        /\ todo' = todo \ {c}
    /\ bpc' = IF todo' = {} THEN "select" ELSE "send"
    /\ UNCHANGED <<world, notes, unread, st, listeners,
                   hpc, held, cut, pages, up, settled>>

\* A listener whose channel is full does not get this status.
Offer ==
    /\ bpc = "send"
    /\ \E c \in todo :
        /\ chan' = IF Len(chan[c]) < ChanCap
                   THEN [chan EXCEPT ![c] = Append(@, st)] ELSE chan
        /\ todo' = todo \ {c}
    /\ bpc' = IF todo' = {} THEN "select" ELSE "send"
    /\ UNCHANGED <<world, notes, unread, st, listeners,
                   hpc, held, cut, pages, up, settled>>

Broadcaster == Wake \/ ReadPart \/ LockListeners \/ Offer

-----------------------------------------------------------------------------
(* handleSSE, one per connection. *)

At(c, from, to) == hpc[c] = from /\ hpc' = [hpc EXCEPT ![c] = to]

ListenersFree == bpc # "send"

Subscribe(c) ==
    /\ ListenersFree /\ At(c, "subscribe", "wait")
    /\ listeners' = listeners \cup {c}
    /\ chan' = [chan EXCEPT ![c] = <<>>]
    /\ UNCHANGED <<world, broadcaster, held, cut, pages, up, settled>>

\* The ctx.Done() arm.
ContextDone(c) ==
    /\ At(c, "wait", "unsubscribe")
    /\ c \in cut
    /\ UNCHANGED <<world, broadcaster, listeners, chan, held,
                   cut, pages, up, settled>>

\* The other arm: a status ...
Receive(c) ==
    /\ At(c, "wait", "write")
    /\ chan[c] # <<>>
    /\ held' = [held EXCEPT ![c] = Head(chan[c])]
    /\ chan' = [chan EXCEPT ![c] = Tail(@)]
    /\ UNCHANGED <<world, broadcaster, listeners, cut, pages,
                   up, settled>>

\* Mutant: a write to a connection that is gone is tried again.
WriteStubborn(c) ==
    /\ At(c, "write", "write")
    /\ c \in cut
    /\ UNCHANGED <<world, broadcaster, listeners, chan, held, cut, pages, up, settled>>

\* ... and its write, which lasts until the page has read it (OnMessage) or the
\* connection is gone.  What a socket takes in between is as if it were still
\* in the channel.  The error is ignored.
WriteFails(c) ==
    /\ At(c, "write", "wait")
    /\ c \in cut
    /\ held' = [held EXCEPT ![c] = Blank]
    /\ UNCHANGED <<world, broadcaster, listeners, chan, cut, pages, up, settled>>

\* Mutant: listenerMu is not taken.
UnsubscribeUnlocked(c) ==
    /\ At(c, "unsubscribe", "none")
    /\ listeners' = listeners \ {c}
    /\ chan' = [chan EXCEPT ![c] = <<>>]
    /\ UNCHANGED <<world, broadcaster, held, cut, pages, up, settled>>

\* The deferred UnsubscribeState; what is left in the channel is garbage.
Unsubscribe(c) ==
    /\ ListenersFree /\ At(c, "unsubscribe", "none")
    /\ listeners' = listeners \ {c}
    /\ chan' = [chan EXCEPT ![c] = <<>>]
    /\ UNCHANGED <<world, broadcaster, held, cut, pages, up, settled>>

Handler(c) ==
    Subscribe(c) \/ ContextDone(c) \/ Receive(c) \/ WriteFails(c) \/ Unsubscribe(c)

-----------------------------------------------------------------------------
(* The page. *)

Unused(c) == hpc[c] = "none" /\ \A p \in Pages : conn[p] # c

\* initSSE: a new EventSource.  Nobody answers while the program is down.
Connect(p) ==
    /\ \E c \in Conns :
        /\ Unused(c)
        /\ conn' = [conn EXCEPT ![p] = c]
        /\ hpc' = IF up THEN [hpc EXCEPT ![c] = "subscribe"] ELSE hpc
        /\ cut' = IF up THEN cut \ {c} ELSE cut
    /\ ppc' = [ppc EXCEPT ![p] = "open"]
    /\ UNCHANGED <<world, broadcaster, listeners, chan, held, up, settled>>

Load(p) ==
    /\ ~settled /\ ppc[p] = "off"
    /\ Connect(p)
    /\ view' = [view EXCEPT ![p] = Blank]

\* The timer of onerror.
Reconnect(p) ==
    /\ ppc[p] = "retry"
    /\ Connect(p)
    /\ UNCHANGED view

OnMessage(p) ==
    /\ ppc[p] = "open"
    /\ At(conn[p], "write", "wait")
    /\ view' = [view EXCEPT ![p] = held[conn[p]]]
    /\ held' = [held EXCEPT ![conn[p]] = Blank]
    /\ UNCHANGED <<world, broadcaster, listeners, chan, cut, ppc, conn, up, settled>>

Drop(p, to) ==
    /\ ppc[p] \in {"open", "retry"}
    /\ ppc' = [ppc EXCEPT ![p] = to]
    /\ conn' = [conn EXCEPT ![p] = None]

\* onerror: close, and initSSE in 2.5 seconds.
OnError(p) ==
    /\ conn[p] \in cut
    /\ Drop(p, "retry")
    /\ UNCHANGED <<world, broadcaster, handlers, cut, view, up,
                   settled>>

Unload(p) ==
    /\ ~settled
    /\ Drop(p, "off")
    /\ cut' = cut \cup ({conn[p]} \ {None})
    /\ UNCHANGED <<world, broadcaster, handlers, view, up, settled>>

Page(p) == Reconnect(p) \/ OnMessage(p) \/ OnError(p)

-----------------------------------------------------------------------------
(* The environment. *)

Break(c) ==
    /\ ~settled
    /\ cut' = cut \cup {c}
    /\ UNCHANGED <<world, broadcaster, handlers, pages, up, settled>>

\* The program ends, and with it every connection ...
Crash ==
    /\ up /\ ~settled
    /\ up' = FALSE
    /\ notes' = 0 /\ bpc' = "select" /\ unread' = {} /\ todo' = {}
    /\ listeners' = {} /\ chan' = [c \in Conns |-> <<>>]
    /\ hpc' = [c \in Conns |-> "none"] /\ held' = [c \in Conns |-> Blank]
    /\ cut' = Conns
    /\ UNCHANGED <<world, st, pages, settled>>

\* ... and starts again, with its parts in another state.
Start ==
    /\ ~up /\ up' = TRUE
    /\ world' \in {[q \in Parts |-> IF world[q] < MaxVersion THEN world[q] + 1
                                    ELSE world[q]], world}
    /\ UNCHANGED <<broadcaster, handlers, cut, pages, settled>>

Settle ==
    /\ ~settled /\ settled' = TRUE
    /\ UNCHANGED <<world, broadcaster, handlers, cut, pages, up>>

Next ==
    \/ \E q \in Parts : Change(q)
    \/ Broadcaster
    \/ \E c \in Conns : Handler(c) \/ Break(c)
    \/ \E p \in Pages : Page(p) \/ Load(p) \/ Unload(p)
    \/ Crash \/ Start \/ Settle

Spec == Init /\ [][Next]_vars

\* Goroutines and tickers run, listenerMu and the arms of a select are given
\* in turn, and a reader handles its events and timers.
FairSpec ==
    /\ Spec
    /\ WF_vars(Broadcaster) /\ WF_vars(Start)
    /\ \A c \in Conns :
        /\ WF_vars(Receive(c) \/ WriteFails(c))
        /\ SF_vars(Subscribe(c) \/ ContextDone(c) \/ Unsubscribe(c))
    /\ \A p \in Readers : WF_vars(OnMessage(p)) /\ SF_vars(OnError(p) \/ Reconnect(p))

-----------------------------------------------------------------------------
Status == [Parts -> 0..MaxVersion]

TypeOK ==
    /\ world \in Status /\ st \in Status
    /\ notes \in 0..NotifyCap
    /\ bpc \in {"select", "read", "lock", "send"} /\ unread \subseteq Parts
    /\ todo \subseteq Conns /\ listeners \subseteq Conns
    /\ chan \in [Conns -> Seq(Status)]
    /\ \A c \in Conns : Len(chan[c]) <= ChanCap
    /\ hpc \in [Conns -> {"none", "subscribe", "wait", "write", "unsubscribe"}]
    /\ held \in [Conns -> Status]
    /\ cut \subseteq Conns
    /\ ppc \in [Pages -> {"off", "open", "retry"}]
    /\ conn \in [Pages -> Conns \cup {None}]
    /\ view \in [Pages -> Status]
    /\ up \in BOOLEAN /\ settled \in BOOLEAN

\* The broadcaster never sends on a closed channel, which would end the
\* program: whoever it has still to serve is subscribed.
SendsAreOpen == todo \subseteq {c \in listeners : hpc[c] \in {"wait", "write", "unsubscribe"}}

\* Whatever is dropped, delayed, cut or restarted, each page shows states that
\* every part really had, and, for as long as it stays open, never an older
\* one than it showed before.
Open == {p \in Pages : ppc[p] # "off"}
Feed == INSTANCE StateFeed WITH open <- Open
FeedIsMonotone == Feed!Spec

\* Once nothing changes any more, every page that is open and reads shows the
\* present state, although notifications and statuses were dropped on the way,
\* and although other pages do not read.
LatestIsShown ==
    <>[](settled => \A p \in Readers : ppc[p] = "off" \/ view[p] = world)

\* The handler of a connection that is gone ends and leaves m.listeners, also
\* when it was writing to a page that did not read.
HandlersEnd == \A c \in Conns : []<>(c \notin listeners \/ c \notin cut)
=============================================================================
