----------------------------- MODULE EventsProofs -----------------------------
(***************************************************************************)
(* The live status shows every page a monotone feed, for any number of     *)
(* pages, connections and parts.  Every status on its way to a page is     *)
(* older than the snapshot and newer than the page: the order of the path  *)
(* snapshot, channel, write, page is the order of age.                     *)
(***************************************************************************)
EXTENDS Events, TLAPS

GE(v, w) == \A q \in Parts : v[q] >= w[q]

LEMMA Reflexive == ASSUME NEW v \in Status PROVE GE(v, v)
  BY EventsAssumption DEF GE, Status

LEMMA Transitive ==
    ASSUME NEW u \in Status, NEW v \in Status, NEW w \in Status, GE(u, v), GE(v, w)
    PROVE  GE(u, w)
  BY EventsAssumption DEF GE, Status

LEMMA BlankIsOldest == Blank \in Status /\ \A v \in Status : GE(v, Blank)
  BY EventsAssumption DEF GE, Status, Blank

-----------------------------------------------------------------------------
Serving == {"wait", "write", "unsubscribe"}

(* Who refers to which connection. *)
Wired ==
    /\ todo \subseteq listeners /\ (bpc # "send" => todo = {})
    /\ \A c \in listeners : hpc[c] \in Serving
    /\ \A c \in Conns : hpc[c] \notin Serving => chan[c] = <<>>
    /\ \A p \in Pages : ppc[p] = "open" => conn[p] \in Conns
    /\ \A p, o \in Pages : conn[p] = conn[o] /\ conn[p] # None => p = o

LEMMA InitWired == Init => TypeOK /\ Wired
<1>1. Blank \in Status /\ <<>> \in Seq(Status) /\ Len(<<>>) = 0
  BY BlankIsOldest
<1>2. ASSUME Init
      PROVE  chan \in [Conns -> Seq(Status)] /\ \A c \in Conns : Len(chan[c]) <= ChanCap
  BY <1>1, <1>2, EventsAssumption DEF Init
<1>3. ASSUME Init PROVE Wired
  BY <1>3 DEF Init, Wired, Serving
<1>4. ASSUME Init PROVE up \in BOOLEAN /\ settled \in BOOLEAN
  BY <1>4 DEF Init
<1>5. ASSUME Init
      PROVE  /\ world \in Status /\ st \in Status
             /\ held \in [Conns -> Status] /\ view \in [Pages -> Status]
  BY <1>1, <1>5 DEF Init
<1>6. ASSUME Init
      PROVE  /\ notes \in 0..NotifyCap /\ bpc = "select" /\ unread = {}
             /\ todo = {} /\ listeners = {} /\ cut = Conns
             /\ hpc = [c \in Conns |-> "none"] /\ ppc = [p \in Pages |-> "off"]
             /\ conn = [p \in Pages |-> None]
  BY <1>6, EventsAssumption DEF Init
<1>7. QED
  BY <1>2, <1>3, <1>4, <1>5, <1>6 DEF TypeOK

LEMMA TypeStep == ASSUME TypeOK, Wired, [Next]_vars PROVE TypeOK'
<1> USE EventsAssumption, BlankIsOldest DEF TypeOK, broadcaster, handlers, pages
<1>1. CASE \E q \in Parts : Change(q)
  BY <1>1 DEF Change, Status
<1>2. CASE Wake
  BY <1>2 DEF Wake
<1>3. CASE ReadPart
  BY <1>3 DEF ReadPart, Status
<1>4. CASE LockListeners
  BY <1>4 DEF LockListeners
<1>5. CASE Offer
  BY <1>5 DEF Offer
<1>6. CASE \E c \in Conns : Subscribe(c)
  BY <1>6 DEF Subscribe, At
<1>7. CASE \E c \in Conns : ContextDone(c)
  BY <1>7 DEF ContextDone, At
<1>8. CASE \E c \in Conns : Receive(c)
  BY <1>8 DEF Receive, At
<1>9. CASE \E c \in Conns : WriteFails(c)
  BY <1>9 DEF WriteFails, At
<1>10. CASE \E c \in Conns : Unsubscribe(c)
  BY <1>10 DEF Unsubscribe, At
<1>11. CASE \E c \in Conns : Break(c)
  BY <1>11 DEF Break
<1>12. CASE \E p \in Pages : Reconnect(p)
  BY <1>12 DEF Reconnect, Connect
<1>13. CASE \E p \in Pages : OnMessage(p)
  BY <1>13 DEF OnMessage, At, Wired
<1>14. CASE \E p \in Pages : OnError(p)
  BY <1>14 DEF OnError, Drop
<1>15. CASE \E p \in Pages : Load(p)
  BY <1>15 DEF Load, Connect
<1>16. CASE \E p \in Pages : Unload(p)
  BY <1>16 DEF Unload, Drop
<1>17. CASE Crash
  <2>1. <<>> \in Seq(Status) /\ Len(<<>>) = 0
    OBVIOUS
  <2>2. chan' \in [Conns -> Seq(Status)] /\ \A c \in Conns : Len(chan'[c]) <= ChanCap
    BY <1>17, <2>1 DEF Crash
  <2>3. up' \in BOOLEAN /\ settled' \in BOOLEAN
    BY <1>17 DEF Crash
  <2>4. QED
    BY <1>17, <2>2, <2>3 DEF Crash
<1>18. CASE Start
  BY <1>18 DEF Start, Status
<1>19. CASE Settle
  BY <1>19 DEF Settle
<1>20. CASE UNCHANGED vars
  BY <1>20 DEF vars
<1>21. QED
  BY <1>1, <1>2, <1>3, <1>4, <1>5, <1>6, <1>7, <1>8, <1>9, <1>10, <1>11, <1>12,
     <1>13, <1>14, <1>15, <1>16, <1>17, <1>18, <1>19, <1>20
     DEF Next, Broadcaster, Handler, Page

LEMMA WiredStep == ASSUME TypeOK, Wired, [Next]_vars PROVE Wired'
<1> USE EventsAssumption DEF TypeOK, Wired, Serving, broadcaster, handlers, pages
<1>1. CASE \E q \in Parts : Change(q)
  BY <1>1 DEF Change
<1>2. CASE Wake
  BY <1>2 DEF Wake
<1>3. CASE ReadPart
  BY <1>3 DEF ReadPart
<1>4. CASE LockListeners
  BY <1>4 DEF LockListeners
<1>5. CASE Offer
  BY <1>5 DEF Offer
<1>6. CASE \E c \in Conns : Subscribe(c)
  BY <1>6 DEF Subscribe, At
<1>7. CASE \E c \in Conns : ContextDone(c)
  BY <1>7 DEF ContextDone, At
<1>8. CASE \E c \in Conns : Receive(c)
  BY <1>8 DEF Receive, At
<1>9. CASE \E c \in Conns : WriteFails(c)
  BY <1>9 DEF WriteFails, At
<1>10. CASE \E c \in Conns : Unsubscribe(c)
  BY <1>10 DEF Unsubscribe, At, ListenersFree
<1>11. CASE \E c \in Conns : Break(c)
  BY <1>11 DEF Break
<1>12. CASE \E p \in Pages : Reconnect(p)
  BY <1>12 DEF Reconnect, Connect, Unused
<1>13. CASE \E p \in Pages : OnMessage(p)
  BY <1>13 DEF OnMessage, At
<1>14. CASE \E p \in Pages : OnError(p)
  BY <1>14 DEF OnError, Drop
<1>15. CASE \E p \in Pages : Load(p)
  BY <1>15 DEF Load, Connect, Unused
<1>16. CASE \E p \in Pages : Unload(p)
  BY <1>16 DEF Unload, Drop
<1>17. CASE Crash
  BY <1>17 DEF Crash
<1>18. CASE Start
  BY <1>18 DEF Start
<1>19. CASE Settle
  BY <1>19 DEF Settle
<1>20. CASE UNCHANGED vars
  BY <1>20 DEF vars
<1>21. QED
  BY <1>1, <1>2, <1>3, <1>4, <1>5, <1>6, <1>7, <1>8, <1>9, <1>10, <1>11, <1>12,
     <1>13, <1>14, <1>15, <1>16, <1>17, <1>18, <1>19, <1>20
     DEF Next, Broadcaster, Handler, Page

-----------------------------------------------------------------------------
(* Nothing on its way is newer than the snapshot. *)
Bounded ==
    /\ GE(world, st)
    /\ \A p \in Pages : GE(st, view[p])
    /\ \A c \in Conns : GE(st, held[c])
    /\ \A c \in Conns : \A i \in 1..Len(chan[c]) : GE(st, chan[c][i])

(* What comes later is at least as new. *)
Ordered ==
    /\ \A c \in Conns : \A i, j \in 1..Len(chan[c]) :
            i < j => GE(chan[c][j], chan[c][i])
    /\ \A c \in Conns : hpc[c] = "write" =>
            \A i \in 1..Len(chan[c]) : GE(chan[c][i], held[c])
    /\ \A p \in Pages : conn[p] \in Conns =>
            /\ hpc[conn[p]] = "write" => GE(held[conn[p]], view[p])
            /\ \A i \in 1..Len(chan[conn[p]]) : GE(chan[conn[p]][i], view[p])

FeedInv == TypeOK /\ Wired /\ Bounded /\ Ordered

LEMMA InitFeed == Init => FeedInv
<1> SUFFICES ASSUME Init PROVE FeedInv
  OBVIOUS
<1>1. TypeOK /\ Wired
  BY InitWired
<1>2. Bounded
  BY BlankIsOldest DEF Init, Bounded
<1>3. Ordered
  BY EventsAssumption DEF Init, Ordered
<1>4. QED
  BY <1>1, <1>2, <1>3 DEF FeedInv

(* The snapshot only gets newer. *)
LEMMA ReadIsNewer ==
    ASSUME TypeOK, GE(world, st), ReadPart
    PROVE  st' \in Status /\ GE(st', st) /\ GE(world, st')
  BY EventsAssumption DEF TypeOK, GE, ReadPart, Status

LEMMA WorldIsNewer ==
    ASSUME TypeOK, (\E q \in Parts : Change(q)) \/ Start
    PROVE  world' \in Status /\ GE(world', world)
<1>1. CASE \E q \in Parts : Change(q)
  BY <1>1, EventsAssumption DEF TypeOK, GE, Change, Status
<1>2. CASE Start
  <2>1. CASE world' = world
    BY <2>1, Reflexive DEF TypeOK
  <2>2. CASE world' = [q \in Parts |-> IF world[q] < MaxVersion THEN world[q] + 1
                                       ELSE world[q]]
    BY <2>2, EventsAssumption DEF TypeOK, GE, Status
  <2>3. QED
    BY <1>2, <2>1, <2>2 DEF Start
<1>3. QED
  BY <1>1, <1>2

(* A channel without its first element, and with a new last one. *)
LEMMA TailAt ==
    ASSUME NEW s \in Seq(Status), s # <<>>
    PROVE  /\ Tail(s) \in Seq(Status) /\ Len(Tail(s)) = Len(s) - 1
           /\ Head(s) = s[1] /\ Head(s) \in Status
           /\ \A i \in 1..Len(Tail(s)) : i + 1 \in 2..Len(s) /\ Tail(s)[i] = s[i + 1]
  OBVIOUS

LEMMA AppendAt ==
    ASSUME NEW s \in Seq(Status), NEW e \in Status
    PROVE  /\ Len(Append(s, e)) = Len(s) + 1
           /\ \A i \in 1..Len(s) : Append(s, e)[i] = s[i]
           /\ Append(s, e)[Len(s) + 1] = e
  OBVIOUS

LEMMA BoundedStep == ASSUME FeedInv, [Next]_vars PROVE Bounded'
<1>0. TypeOK /\ TypeOK' /\ Wired
  BY TypeStep DEF FeedInv
<1> USE <1>0 DEF FeedInv, Bounded
<1>1. CASE (\E q \in Parts : Change(q)) \/ Start
  <2>1. GE(world', world) /\ GE(world, st) /\ world' \in Status
    BY <1>1, WorldIsNewer
  <2>2. GE(world', st)
    BY <2>1, Transitive DEF TypeOK
  <2>3. QED
    BY <1>1, <2>2 DEF Change, Start, handlers, pages, broadcaster
<1>2. CASE ReadPart
  <2>1. st' \in Status /\ GE(st', st) /\ GE(world, st')
    BY <1>2, ReadIsNewer
  <2>2. ASSUME NEW v \in Status, GE(st, v) PROVE GE(st', v)
    BY <2>1, <2>2, Transitive DEF TypeOK
  <2>3. \A p \in Pages : GE(st', view[p])
    BY <2>2 DEF TypeOK
  <2>4. \A c \in Conns : GE(st', held[c])
    BY <2>2 DEF TypeOK
  <2>5. \A c \in Conns : \A i \in 1..Len(chan[c]) : GE(st', chan[c][i])
    BY <2>2 DEF TypeOK
  <2>6. QED
    BY <1>2, <2>1, <2>3, <2>4, <2>5 DEF ReadPart, handlers, pages
<1>3. CASE Offer
  <2>1. GE(st, st)
    BY Reflexive DEF TypeOK
  <2>2. PICK k \in todo :
            chan' = IF Len(chan[k]) < ChanCap
                    THEN [chan EXCEPT ![k] = Append(@, st)] ELSE chan
    BY <1>3 DEF Offer
  <2>3. \A c \in Conns : \A i \in 1..Len(chan'[c]) : GE(st, chan'[c][i])
    BY <2>1, <2>2, AppendAt DEF TypeOK
  <2>4. QED
    BY <1>3, <2>3 DEF Offer, pages
<1>4. CASE \E c \in Conns : Receive(c)
  <2>1. PICK k \in Conns : Receive(k)
    BY <1>4
  <2>2. \A i \in 1..Len(Tail(chan[k])) : GE(st, Tail(chan[k])[i])
    BY <2>1, TailAt DEF Receive, TypeOK
  <2>3. GE(st, Head(chan[k]))
    BY <2>1, TailAt DEF Receive, TypeOK
  <2>4. QED
    BY <2>1, <2>2, <2>3 DEF Receive, broadcaster, pages, TypeOK
<1>5. CASE \E c \in Conns : Subscribe(c) \/ Unsubscribe(c)
  <2>1. PICK k \in Conns : chan' = [chan EXCEPT ![k] = <<>>]
    BY <1>5 DEF Subscribe, Unsubscribe
  <2>2. \A c \in Conns : \A i \in 1..Len(chan'[c]) : GE(st, chan'[c][i])
    <3>1. 1..Len(<<>>) = {}
      OBVIOUS
    <3>2. QED
      BY <2>1, <3>1 DEF TypeOK
  <2>3. QED
    BY <1>5, <2>2 DEF Subscribe, Unsubscribe, broadcaster, pages
<1>6. CASE \E c \in Conns : WriteFails(c)
  BY <1>6, BlankIsOldest DEF WriteFails, At, broadcaster, pages, TypeOK
<1>7. CASE \E p \in Pages : OnMessage(p)
  <2>1. PICK p \in Pages : OnMessage(p) /\ conn[p] \in Conns
    BY <1>7 DEF OnMessage, Wired
  <2>2. QED
    BY <2>1, BlankIsOldest DEF OnMessage, broadcaster, TypeOK
<1>8. CASE \E p \in Pages : Load(p)
  BY <1>8, BlankIsOldest DEF Load, Connect, broadcaster, TypeOK
<1>9. CASE \E p \in Pages : Reconnect(p) \/ OnError(p) \/ Unload(p)
  BY <1>9 DEF Reconnect, Connect, OnError, Unload, Drop, broadcaster, handlers
<1>10. CASE Crash
  BY <1>10, BlankIsOldest DEF Crash, pages, TypeOK
<1>11. CASE Wake \/ LockListeners \/ Settle
  BY <1>11 DEF Wake, LockListeners, Settle, broadcaster, handlers, pages
<1>12. CASE \E c \in Conns : ContextDone(c) \/ Break(c)
  BY <1>12 DEF ContextDone, Break, broadcaster, handlers, pages
<1>13. CASE UNCHANGED vars
  BY <1>13 DEF vars, broadcaster, handlers, pages
<1>14. QED
  BY <1>1, <1>2, <1>3, <1>4, <1>5, <1>6, <1>7, <1>8, <1>9, <1>10, <1>11, <1>12, <1>13
     DEF Next, Broadcaster, Handler, Page

LEMMA OrderedStep == ASSUME FeedInv, [Next]_vars PROVE Ordered'
<1>0. TypeOK /\ TypeOK' /\ Wired /\ Wired'
  BY TypeStep, WiredStep DEF FeedInv
<1>e. 1..Len(<<>>) = {}
  OBVIOUS
<1> USE <1>0 DEF FeedInv, Ordered
<1>1. CASE (\E q \in Parts : Change(q)) \/ Start \/ ReadPart \/ Wake \/ LockListeners \/ Settle
  BY <1>1 DEF Change, Start, ReadPart, Wake, LockListeners, Settle, handlers, pages
<1>2. CASE Offer
  <2>1. PICK k \in todo :
            chan' = IF Len(chan[k]) < ChanCap
                    THEN [chan EXCEPT ![k] = Append(@, st)] ELSE chan
    BY <1>2 DEF Offer
  <2>2. CASE chan' = chan
    BY <1>2, <2>2 DEF Offer, pages
  <2>3. CASE chan' = [chan EXCEPT ![k] = Append(@, st)]
    <3>1. k \in Conns /\ st \in Status
      BY <2>1 DEF TypeOK, Wired
    <3>2. \A c \in Conns \ {k} : chan'[c] = chan[c]
      BY <2>3 DEF TypeOK
    <3>3. /\ Len(chan'[k]) = Len(chan[k]) + 1
          /\ \A i \in 1..Len(chan[k]) : chan'[k][i] = chan[k][i]
          /\ chan'[k][Len(chan[k]) + 1] = st
      BY <2>3, <3>1, AppendAt DEF TypeOK
    <3>4. Len(chan[k]) \in Nat
      BY <3>1 DEF TypeOK
    <3>5. \A i, j \in 1..Len(chan'[k]) : i < j => GE(chan'[k][j], chan'[k][i])
      BY <3>1, <3>3, <3>4 DEF Bounded
    <3>6. hpc[k] = "write" => \A i \in 1..Len(chan'[k]) : GE(chan'[k][i], held[k])
      BY <3>1, <3>3, <3>4 DEF Bounded
    <3>7. \A p \in Pages : conn[p] = k => \A i \in 1..Len(chan'[k]) : GE(chan'[k][i], view[p])
      BY <3>1, <3>3, <3>4 DEF Bounded
    <3>8. QED
      BY <1>2, <3>2, <3>5, <3>6, <3>7 DEF Offer, pages
  <2>4. QED
    BY <2>1, <2>2, <2>3
<1>3. CASE \E c \in Conns : Receive(c)
  <2>1. PICK k \in Conns : Receive(k)
    BY <1>3
  <2>2. /\ chan[k] \in Seq(Status) /\ chan[k] # <<>>
        /\ chan' = [chan EXCEPT ![k] = Tail(chan[k])]
        /\ held' = [held EXCEPT ![k] = chan[k][1]]
        /\ hpc' = [hpc EXCEPT ![k] = "write"]
        /\ conn' = conn /\ view' = view
    BY <2>1, TailAt DEF Receive, At, pages, TypeOK
  <2>3. Len(chan[k]) \in Nat /\ 1 \in 1..Len(chan[k])
    BY <2>2
  <2>4. /\ Len(Tail(chan[k])) = Len(chan[k]) - 1
        /\ \A i \in 1..Len(Tail(chan[k])) :
                i + 1 \in 2..Len(chan[k]) /\ Tail(chan[k])[i] = chan[k][i + 1]
    BY <2>2, TailAt
  <2>5. /\ \A i \in 1..Len(Tail(chan[k])) : GE(Tail(chan[k])[i], chan[k][1])
        /\ \A i, j \in 1..Len(Tail(chan[k])) :
               i < j => GE(Tail(chan[k])[j], Tail(chan[k])[i])
        /\ \A p \in Pages : conn[p] = k => 
               /\ GE(chan[k][1], view[p])
               /\ \A i \in 1..Len(Tail(chan[k])) : GE(Tail(chan[k])[i], view[p])
    BY <2>3, <2>4
  <2>6. QED
    BY <2>2, <2>5 DEF TypeOK
<1>4. CASE \E c \in Conns : Subscribe(c) \/ Unsubscribe(c)
  <2>1. PICK k \in Conns : Subscribe(k) \/ Unsubscribe(k)
    BY <1>4
  <2>2. /\ chan' = [chan EXCEPT ![k] = <<>>] /\ held' = held
        /\ hpc' \in {[hpc EXCEPT ![k] = "wait"], [hpc EXCEPT ![k] = "none"]}
        /\ conn' = conn /\ view' = view
    BY <2>1 DEF Subscribe, Unsubscribe, At, pages
  <2>3. QED
    BY <2>2, <1>e DEF TypeOK
<1>5. CASE \E c \in Conns : ContextDone(c) \/ Break(c)
  <2>1. PICK k \in Conns : hpc' \in {[hpc EXCEPT ![k] = "unsubscribe"], hpc}
    BY <1>5 DEF ContextDone, At, Break, handlers
  <2>2. \A c \in Conns : hpc'[c] = "write" => hpc[c] = "write"
    BY <2>1 DEF TypeOK
  <2>3. chan' = chan /\ held' = held /\ conn' = conn /\ view' = view
    BY <1>5 DEF ContextDone, Break, handlers, pages
  <2>4. QED
    BY <2>2, <2>3
<1>6. CASE \E c \in Conns : WriteFails(c)
  BY <1>6 DEF WriteFails, At, pages, TypeOK
<1>7. CASE \E p \in Pages : OnMessage(p)
  <2>1. PICK p \in Pages : OnMessage(p) /\ conn[p] \in Conns
    BY <1>7 DEF OnMessage, Wired
  <2>2. /\ hpc[conn[p]] = "write" /\ hpc' = [hpc EXCEPT ![conn[p]] = "wait"]
        /\ view' = [view EXCEPT ![p] = held[conn[p]]]
        /\ held' = [held EXCEPT ![conn[p]] = Blank]
        /\ chan' = chan /\ conn' = conn
    BY <2>1 DEF OnMessage, At
  <2>3. \A o \in Pages \ {p} : conn[o] # conn[p] /\ view'[o] = view[o]
    BY <2>1, <2>2, EventsAssumption DEF Wired, TypeOK
  <2>4. \A i \in 1..Len(chan[conn[p]]) : GE(chan[conn[p]][i], view'[p])
    BY <2>1, <2>2 DEF TypeOK
  <2>5. QED
    BY <2>1, <2>2, <2>3, <2>4 DEF TypeOK
<1>8. CASE \E p \in Pages : Load(p) \/ Reconnect(p)
  <2>1. PICK p \in Pages, c \in Conns :
            /\ Unused(c) /\ conn' = [conn EXCEPT ![p] = c]
            /\ hpc' \in {[hpc EXCEPT ![c] = "subscribe"], hpc}
            /\ view' \in {[view EXCEPT ![p] = Blank], view}
            /\ chan' = chan /\ held' = held
    BY <1>8 DEF Load, Reconnect, Connect
  <2>2. chan[c] = <<>> /\ hpc'[c] \in {"none", "subscribe"}
    BY <2>1 DEF Unused, Wired, Serving, TypeOK
  <2>3. \A o \in Pages \ {p} : conn[o] # c /\ conn'[o] = conn[o] /\ view'[o] = view[o]
    BY <2>1 DEF Unused, TypeOK
  <2>4. \A k \in Conns \ {c} : hpc'[k] = hpc[k]
    BY <2>1 DEF TypeOK
  <2>5. conn'[p] = c
    BY <2>1 DEF TypeOK
  <2>6. QED
    BY <2>1, <2>2, <2>3, <2>4, <2>5, <1>e DEF TypeOK
<1>9. CASE \E p \in Pages : OnError(p) \/ Unload(p)
  <2>1. PICK p \in Pages : conn' = [conn EXCEPT ![p] = None]
    BY <1>9 DEF OnError, Unload, Drop
  <2>2. hpc' = hpc /\ chan' = chan /\ held' = held /\ view' = view
    BY <1>9 DEF OnError, Unload, handlers
  <2>3. \A o \in Pages : conn'[o] \in Conns => conn'[o] = conn[o]
    BY <2>1, EventsAssumption DEF TypeOK
  <2>4. QED
    BY <2>2, <2>3
<1>10. CASE Crash
  BY <1>10, <1>e DEF Crash, pages, TypeOK
<1>11. CASE UNCHANGED vars
  BY <1>11 DEF vars, handlers, pages
<1>12. QED
  BY <1>1, <1>2, <1>3, <1>4, <1>5, <1>6, <1>7, <1>8, <1>9, <1>10, <1>11
     DEF Next, Broadcaster, Handler, Page

(* The order of the path is kept by every step of the program, the network  *)
(* and the pages.                                                           *)
THEOREM FeedInvariant == Spec => []FeedInv
<1>1. ASSUME FeedInv, [Next]_vars PROVE FeedInv'
  BY <1>1, TypeStep, WiredStep, BoundedStep, OrderedStep DEF FeedInv
<1>2. QED
  BY <1>1, InitFeed, PTL DEF Spec

-----------------------------------------------------------------------------
(* The live status keeps its types and its bounds: stateChan, the channels  *)
(* of the listeners, and one message at a time on a connection.             *)
THEOREM EventsTypeCorrect == Spec => []TypeOK
  BY FeedInvariant, PTL DEF FeedInv

(* The broadcaster never sends on the channel of a handler that has closed  *)
(* it, however subscriptions, connections and restarts interleave.          *)
THEOREM NoSendOnClosedChannel == Spec => []SendsAreOpen
<1>1. FeedInv => SendsAreOpen
  BY DEF FeedInv, Wired, SendsAreOpen, Serving
<1>2. QED
  BY <1>1, FeedInvariant, PTL

(* A step of the live status changes what the pages show only as the feed   *)
(* allows: from a state to one at least as new, or to none on a reload.     *)
LEMMA StepIsMonotone ==
    ASSUME FeedInv, FeedInv', [Next]_vars
    PROVE  [Feed!Next]_<<world, Open, view>>
<1> USE DEF FeedInv
<1>1. CASE (\E q \in Parts : Change(q)) \/ Start
  <2>1. world' \in Status /\ GE(world', world)
    BY <1>1, WorldIsNewer
  <2>2. Feed!Change
    BY <1>1, <2>1, EventsAssumption DEF Feed!Change, Feed!AtLeast, GE, Status, Change, Start, pages,
       Open
  <2>3. QED
    BY <2>2 DEF Feed!Next
<1>2. CASE \E p \in Pages : OnMessage(p)
  <2>1. PICK p \in Pages : OnMessage(p) /\ conn[p] \in Conns
    BY <1>2 DEF OnMessage, Wired
  <2>2. view' = [view EXCEPT ![p] = held[conn[p]]] /\ world' = world /\ st' = st
    BY <2>1 DEF OnMessage, broadcaster
  <2>3. GE(held[conn[p]], view[p])
    BY <2>1 DEF OnMessage, At, Ordered
  <2>4. GE(world, held[conn[p]])
    BY <2>1, Transitive DEF Bounded, TypeOK
  <2>5. p \in Open /\ Open' = Open
    BY <2>1 DEF OnMessage, Open
  <2>6. Feed!Refresh(p)
    BY <2>1, <2>2, <2>3, <2>4, <2>5 DEF Feed!Refresh, Feed!AtLeast, GE, TypeOK
  <2>7. QED
    BY <2>1, <2>6 DEF Feed!Next
<1>3. CASE \E p \in Pages : Load(p)
  <2>1. PICK p \in Pages : Load(p)
    BY <1>3
  <2>2. p \notin Open /\ Open' = Open \cup {p}
    BY <2>1 DEF Load, Connect, Open, TypeOK
  <2>3. Feed!Load(p)
    BY <2>1, <2>2 DEF Load, Connect, Feed!Load, Feed!Blank, Blank
  <2>4. QED
    BY <2>3 DEF Feed!Next
<1>4. CASE \E p \in Pages : Unload(p)
  <2>1. PICK p \in Pages : Unload(p)
    BY <1>4
  <2>2. Open' = Open \ {p}
    BY <2>1 DEF Unload, Drop, Open, TypeOK
  <2>3. Feed!Unload(p)
    BY <2>1, <2>2 DEF Unload, Drop, Feed!Unload
  <2>4. QED
    BY <2>3 DEF Feed!Next
<1>5. CASE \E p \in Pages : Reconnect(p) \/ OnError(p)
  <2>1. UNCHANGED <<world, view>>
    BY <1>5 DEF Reconnect, Connect, OnError, Drop
  <2>2. Open' = Open
    BY <1>5 DEF Reconnect, Connect, OnError, Drop, Open, TypeOK
  <2>3. QED
    BY <2>1, <2>2
<1>6. CASE \/ Broadcaster \/ Crash \/ Settle \/ UNCHANGED vars
           \/ \E c \in Conns : Handler(c) \/ Break(c)
  BY <1>6 DEF Broadcaster, Wake, ReadPart, LockListeners, Offer, Crash, Settle, vars,
     Handler, Subscribe, ContextDone, Receive, WriteFails, Unsubscribe, Break,
     pages, Open
<1>7. QED
  BY <1>1, <1>2, <1>3, <1>4, <1>5, <1>6 DEF Next, Page

(* The detailed live status implements StateFeed: whatever is dropped, cut  *)
(* or restarted, no page ever goes back to an older state of any part.      *)
THEOREM EventsImplementFeed == Spec => FeedIsMonotone
<1>1. Init => Feed!Init
  BY DEF Init, Feed!Init, Feed!Blank, Blank, Open
<1>2. QED
  BY <1>1, FeedInvariant, StepIsMonotone, PTL DEF Spec, FeedIsMonotone, Feed!Spec
=============================================================================
