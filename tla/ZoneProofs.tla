----------------------------- MODULE ZoneProofs -----------------------------
(***************************************************************************)
(* Theorems about Zone for any number of handlers and streams, any queue   *)
(* geometry and any backoff.                                               *)
(***************************************************************************)
EXTENDS Zone, TLAPS

(* Every variable keeps its type, whatever the interleaving: the queue stays
   within its capacity and the reconnect backoff within its two bounds. *)
LEMMA PrimedBoolean == Spec => [](primed \in BOOLEAN)
<1>1. Init => primed \in BOOLEAN
  BY DEF Init
<1>2. primed \in BOOLEAN /\ [Next]_vars => (primed \in BOOLEAN)'
  BY Zenon DEF Next, vars, shared, StopLocked, Caller, DrainCheck, DrainTake,
     PlayLaunch, PlayReject, LoopRuns, LoopTop,
     LoopArm, LoopStart, EnqueueSend, EnqueueCancelled, EnqueueFull,
     EnqueueEvict, EnqueueForce, LoopEnded, BackoffEnds,
     BackoffCancelled, Decoder, DecodeRead, DecodeEnd, Mixer, PullSnapshot, PullCheck, PullShort,
     PullPrime, PullAnnounce, PullChunk, PullStarved, PullStalled, PullLapse
<1>3. QED
  BY <1>1, <1>2, PTL DEF Spec

(* Every variable keeps its type, whatever the interleaving: the queue stays
   within its capacity and the reconnect backoff within its two bounds. *)
THEOREM TypeCorrect == Spec => []TypeOK
<1> USE ZoneAssumption
<1>1. Init => StateOK
  BY DEF Init, NewZone, StartSource, StartSourceFails, StateOK, Status,
     LoopPC, MixerPC, CallerPC
<1>2. StateOK /\ [Next]_vars => StateOK'
  <2> SUFFICES ASSUME StateOK, [Next]_vars
               PROVE  StateOK'
    OBVIOUS
  <2> USE DEF StateOK, Status, LoopPC, MixerPC, CallerPC, shared, loopVars,
              callerVars
  <2>1. ASSUME NEW c \in Callers, StopLocked(c)
        PROVE  StateOK'
    BY <2>1 DEF StopLocked, At, CancelInstalled
  <2>2. ASSUME NEW c \in Callers, Caller(c)
        PROVE  StateOK'
    <3>1. CASE DrainCheck(c)
      BY <3>1 DEF DrainCheck, At
    <3>2. CASE DrainTake(c)
      BY <3>2 DEF DrainTake, At
    <3>3. CASE PlayLaunch(c)
      BY <3>3 DEF PlayLaunch, At
    <3>4. CASE PlayReject(c)
      BY <3>4 DEF PlayReject, At
    <3>5. QED
      BY <2>2, <3>1, <3>2, <3>3, <3>4 DEF Caller
  <2>3. ASSUME NEW l \in Loops, LoopRuns(l)
        PROVE  StateOK'
    <3>1. CASE LoopTop(l)
      BY <3>1 DEF LoopTop, Goto
    <3>2. CASE LoopArm(l)
      BY <3>2 DEF LoopArm, Goto
    <3>3. CASE LoopStart(l)
      BY <3>3 DEF LoopStart, Goto
    <3>4. CASE EnqueueSend(l)
      BY <3>4 DEF EnqueueSend, Goto
    <3>5. CASE EnqueueCancelled(l)
      BY <3>5 DEF EnqueueCancelled, Goto
    <3>6. CASE EnqueueFull(l)
      BY <3>6 DEF EnqueueFull, Goto
    <3>7. CASE EnqueueEvict(l)
      BY <3>7 DEF EnqueueEvict, Goto
    <3>8. CASE EnqueueForce(l)
      BY <3>8 DEF EnqueueForce, Goto
    <3>9. CASE LoopEnded(l)
      BY <3>9 DEF LoopEnded, Goto
    <3>10. CASE BackoffEnds(l)
      BY <3>10 DEF BackoffEnds, Goto, NextRetry
    <3>11. CASE BackoffCancelled(l)
      BY <3>11 DEF BackoffCancelled, Goto
    <3>12. QED
      BY <2>3, <3>1, <3>2, <3>3, <3>4, <3>5, <3>6, <3>7, <3>8, <3>9, <3>10,
         <3>11
         DEF LoopRuns
  <2>4. ASSUME NEW l \in Loops, Decoder(l)
        PROVE  StateOK'
    BY <2>4 DEF Decoder, DecodeRead, DecodeEnd, Goto
  <2>5. CASE Mixer
    <3>1. CASE PullSnapshot
      BY <3>1 DEF PullSnapshot, MGoto
    <3>2. CASE PullCheck
      BY <3>2 DEF PullCheck, MGoto
    <3>3. CASE PullShort
      BY <3>3 DEF PullShort, MGoto
    <3>4. CASE PullPrime
      BY <3>4 DEF PullPrime, MGoto
    <3>5. CASE PullAnnounce
      BY <3>5 DEF PullAnnounce, MGoto
    <3>6. CASE PullChunk
      BY <3>6 DEF PullChunk, MGoto
    <3>7. CASE PullStarved
      BY <3>7 DEF PullStarved, MGoto
    <3>8. CASE PullStalled
      BY <3>8 DEF PullStalled, MGoto
    <3>9. CASE PullLapse
      BY <3>9 DEF PullLapse, MGoto
    <3>10. QED
      BY <2>5, <3>1, <3>2, <3>3, <3>4, <3>5, <3>6, <3>7, <3>8, <3>9
         DEF Mixer
  <2>6. CASE UNCHANGED vars
    BY <2>6 DEF vars
  <2>7. QED
    BY <2>1, <2>2, <2>3, <2>4, <2>5, <2>6 DEF Next
<1>3. QED
  BY <1>1, <1>2, PrimedBoolean, PTL DEF Spec, TypeOK

-----------------------------------------------------------------------------
(* What the two kinds of background goroutine leave alone. *)

LEMMA LoopStep ==
    ASSUME StateOK, NEW l \in Loops, LoopRuns(l) \/ Decoder(l)
    PROVE  /\ UNCHANGED <<installed, station, cancelled, cpc, playing, mpc>>
           /\ lpc[l] \notin {"unborn", "done"}
           /\ lpc' = [lpc EXCEPT ![l] = lpc'[l]]
           /\ lpc'[l] \in LoopPC \ {"unborn"}
           /\ lpc'[l] = "done" => l \in cancelled
<1> USE DEF StateOK, LoopPC, Goto, shared, callerVars
<1>1. CASE LoopTop(l) \/ LoopArm(l) \/ LoopStart(l)
  BY <1>1 DEF LoopTop, LoopArm, LoopStart
<1>2. CASE EnqueueSend(l) \/ EnqueueCancelled(l)
  BY <1>2 DEF EnqueueSend, EnqueueCancelled
<1>3. CASE EnqueueFull(l) \/ EnqueueEvict(l) \/ EnqueueForce(l)
  BY <1>3 DEF EnqueueFull, EnqueueEvict, EnqueueForce
<1>4. CASE \/ LoopEnded(l) \/ BackoffCancelled(l)
           \/ BackoffEnds(l)
  BY <1>4 DEF LoopEnded, BackoffEnds, BackoffCancelled
<1>5. CASE Decoder(l)
  BY <1>5 DEF Decoder, DecodeRead, DecodeEnd
<1>6. QED
  BY <1>1, <1>2, <1>3, <1>4, <1>5 DEF LoopRuns

LEMMA MixerStep ==
    ASSUME Mixer
    PROVE  UNCHANGED <<installed, station, lpc, cancelled, cpc, playing>>
BY DEF Mixer, PullSnapshot, PullCheck, PullShort, PullPrime, PullAnnounce,
   PullChunk, PullStarved, PullStalled, PullLapse, shared, loopVars, callerVars

-----------------------------------------------------------------------------
(* The life of a loop: it is born uncancelled, and returns only cancelled. *)

Lives ==
    /\ OnlyCancelledLoopsEnd
    /\ DisplayedStreamIsInstalled
    /\ \A l \in Loops : lpc[l] = "unborn" => l \notin cancelled
    /\ IsSource => \A c \in Callers : cpc[c] = "idle"

LEMMA LivesInductive ==
    ASSUME TypeOK, Lives, [Next]_vars
    PROVE  Lives'
<1> USE DEF TypeOK, StateOK, LoopPC, CallerPC, Lives, OnlyCancelledLoopsEnd,
            DisplayedStreamIsInstalled, Live, At
<1>1. ASSUME NEW c \in Callers, StopLocked(c)
      PROVE  Lives'
  BY <1>1, ZoneAssumption DEF StopLocked, CancelInstalled
<1>2. ASSUME NEW c \in Callers, PlayLaunch(c)
      PROVE  Lives'
  BY <1>2, ZoneAssumption DEF PlayLaunch
<1>3. ASSUME NEW c \in Callers, DrainCheck(c) \/ DrainTake(c) \/ PlayReject(c)
      PROVE  Lives'
  BY <1>3 DEF DrainCheck, DrainTake, PlayReject, shared, loopVars
<1>4. ASSUME NEW l \in Loops, LoopRuns(l) \/ Decoder(l)
      PROVE  Lives'
  BY <1>4, LoopStep
<1>5. CASE Mixer
  BY <1>5, MixerStep
<1>6. CASE UNCHANGED vars
  BY <1>6 DEF vars
<1>7. QED
  BY <1>1, <1>2, <1>3, <1>4, <1>5, <1>6 DEF Next, Caller

LEMMA LivesInvariant == Spec => []Lives
<1>1. Init => Lives
  <2> SUFFICES ASSUME Init PROVE Lives
    OBVIOUS
  <2> USE ZoneAssumption DEF Init, Lives, OnlyCancelledLoopsEnd,
          DisplayedStreamIsInstalled
  <2>1. CASE StartSource
    <3>1. PICK l \in Loops :
             /\ installed = l /\ station = l
             /\ lpc = [k \in Loops |-> IF k = l THEN "top" ELSE "unborn"]
      BY <2>1 DEF StartSource
    <3>2. \A k \in Loops : lpc[k] \in {"top", "unborn"}
      BY <3>1
    <3>3. lpc[l] = "top"
      BY <3>1
    <3>4. QED
      BY <3>1, <3>2, <3>3 DEF Live
  <2>2. CASE NewZone \/ StartSourceFails
    BY <2>2 DEF NewZone, StartSourceFails
  <2>3. QED
    BY <2>1, <2>2
<1>2. TypeOK /\ Lives /\ [Next]_vars => Lives'
  BY LivesInductive
<1>3. QED
  BY <1>1, <1>2, TypeCorrect, PTL DEF Spec

(* streamLoop treats every way a stream can end as temporary: a loop returns
   only when its context was cancelled. *)
THEOREM NeverGivesUp == Spec => []OnlyCancelledLoopsEnd
<1>1. Lives => OnlyCancelledLoopsEnd
  BY DEF Lives
<1>2. QED
  BY <1>1, LivesInvariant, PTL

(* However many handlers interleave, the stream the API names is running and
   is the one the next Stop cancels. *)
THEOREM DisplayIsTrue == Spec => []DisplayedStreamIsInstalled
<1>1. Lives => DisplayedStreamIsInstalled
  BY DEF Lives
<1>2. QED
  BY <1>1, LivesInvariant, PTL

-----------------------------------------------------------------------------
(* Requests one at a time. *)

OneHandler == \E c \in Callers : Callers = {c}

\* A source zone refuses every request.
Undisputed == IsSource \/ OneHandler

Sequential ==
    /\ OneStream
    /\ \A c \in Callers : cpc[c] # "idle" => installed = NoLoop

LEMMA SequentialInductive ==
    ASSUME Undisputed, TypeOK, Lives, Sequential, [Next]_vars
    PROVE  Sequential'
<1> USE DEF TypeOK, StateOK, LoopPC, CallerPC, Lives, OnlyCancelledLoopsEnd,
            DisplayedStreamIsInstalled, Live, OneStream, Sequential, At
<1>1. ASSUME NEW c \in Callers, StopLocked(c)
      PROVE  Sequential'
  BY <1>1, ZoneAssumption DEF StopLocked, CancelInstalled
<1>2. ASSUME NEW c \in Callers, PlayLaunch(c)
      PROVE  Sequential'
  BY <1>2, ZoneAssumption DEF PlayLaunch, Undisputed, OneHandler
<1>3. ASSUME NEW c \in Callers, DrainCheck(c)
      PROVE  Sequential'
  BY <1>3 DEF DrainCheck, shared, loopVars
<1>4. ASSUME NEW c \in Callers, DrainTake(c) \/ PlayReject(c)
      PROVE  Sequential'
  BY <1>4 DEF DrainTake, PlayReject, shared, loopVars
<1>5. ASSUME NEW l \in Loops, LoopRuns(l) \/ Decoder(l)
      PROVE  Sequential'
  BY <1>5, LoopStep
<1>6. CASE Mixer
  BY <1>6, MixerStep
<1>7. CASE UNCHANGED vars
  BY <1>7 DEF vars
<1>8. QED
  BY <1>1, <1>2, <1>3, <1>4, <1>5, <1>6, <1>7 DEF Next, Caller

LEMMA SequentialInvariant ==
    ASSUME Undisputed
    PROVE  Spec => []Sequential
<1>1. Init => Sequential
  BY DEF Init, NewZone, StartSource, StartSourceFails, Sequential, OneStream, Live
<1>2. TypeOK /\ Lives /\ Sequential /\ [Next]_vars => Sequential'
  BY SequentialInductive
<1>3. QED
  BY <1>1, <1>2, TypeCorrect, LivesInvariant, PTL DEF Spec

(* With one request at a time no stream ever runs beside the installed one.
   Two handlers at once break this: see the run zone_orphan. *)
THEOREM SequentialRequestsKeepOneStream ==
    ASSUME Undisputed
    PROVE  Spec => []OneStream
<1>1. Sequential => OneStream
  BY DEF Sequential
<1>2. QED
  BY <1>1, SequentialInvariant, PTL

(* With one request at a time a Stop that has returned leaves no stream
   behind.  It is what two handlers at once break in the run zone_orphan, and
   what a second mutex around Stop and Play as a whole would establish. *)
THEOREM SequentialStopsLeaveNothing ==
    ASSUME Undisputed
    PROVE  Spec => []StoppedMeansNoStream
<1>1. TypeOK /\ OneStream => StoppedMeansNoStream
  BY ZoneAssumption DEF TypeOK, StateOK, OneStream, StoppedMeansNoStream
<1>2. QED
  BY <1>1, TypeCorrect, SequentialRequestsKeepOneStream, PTL

(* The channel a zone is to its listeners. *)

\* A handler is alone past its first lock, and nothing is installed.
ChannelInv == TypeOK /\ Lives /\ Sequential

LEMMA HandlerChannel ==
    ASSUME Undisputed, ChannelInv, NEW c \in Callers, StopLocked(c) \/ Caller(c)
    PROVE  Channel!Next \/ UNCHANGED Channel!channel
<1> USE ZoneAssumption DEF ChannelInv, TypeOK, StateOK, CallerPC, LoopPC, At
<1>1. Callers = {c}
  BY DEF Undisputed, OneHandler, Lives, StopLocked, Caller, DrainCheck, DrainTake,
     PlayLaunch, PlayReject
<1>2. station = installed
  BY DEF Lives, DisplayedStreamIsInstalled
<1>3. CASE StopLocked(c)
  <2>1. /\ cpc[c] = "idle" /\ cpc' = [cpc EXCEPT ![c] = "drain"]
        /\ cancelled' = cancelled \cup ({station} \ {NoLoop})
        /\ station' = NoLoop /\ UNCHANGED <<queue, lpc>>
    BY <1>2, <1>3 DEF StopLocked, CancelInstalled
  <2>2. ~Draining /\ Draining' = TRUE
    BY <1>1, <2>1 DEF Draining
  <2>3. Used' = Used
    BY <2>1 DEF Used
  <2>4. Owed' \in {Owed, Owed \cup ({station} \ {NoLoop})}
    BY <2>1 DEF Owed
  <2>5. Channel!Stop
    BY <2>1, <2>2, <2>3, <2>4 DEF Channel!Stop
  <2>6. QED
    BY <2>5 DEF Channel!Next
<1>4. CASE DrainCheck(c) /\ Len(queue) > 0
  <2>1. cpc[c] = "drain" /\ cpc' = [cpc EXCEPT ![c] = "take"]
    BY <1>4 DEF DrainCheck
  <2>2. UNCHANGED <<station, queue, lpc, cancelled>>
    BY <1>4 DEF DrainCheck, shared, loopVars
  <2>3. Draining /\ Draining'
    BY <1>1, <2>1 DEF Draining
  <2>4. QED
    BY <2>2, <2>3 DEF Channel!channel, Used, Owed, Draining
<1>5. CASE DrainCheck(c) /\ ~(Len(queue) > 0)
  <2>1. cpc[c] = "drain" /\ cpc'[c] \in {"launch", "idle"}
    BY <1>5 DEF DrainCheck
  <2>2. UNCHANGED <<station, queue, lpc, cancelled>> /\ queue = <<>>
    BY <1>5 DEF DrainCheck, shared, loopVars
  <2>3. Draining /\ Draining' = FALSE
    BY <1>1, <2>1 DEF Draining
  <2>4. Channel!Stopped
    BY <2>2, <2>3 DEF Channel!Stopped, Used, Owed
  <2>5. QED
    BY <2>4 DEF Channel!Next
<1>6. CASE DrainTake(c)
  <2>1. /\ cpc[c] = "take" /\ cpc' = [cpc EXCEPT ![c] = "drain"]
        /\ queue # <<>> /\ queue' = Tail(queue)
        /\ UNCHANGED <<station, lpc, cancelled>>
    BY <1>6 DEF DrainTake, shared, loopVars
  <2>2. Draining /\ Draining'
    BY <1>1, <2>1 DEF Draining
  <2>3. Channel!Take
    BY <2>1, <2>2 DEF Channel!Take, Used, Owed, Draining
  <2>4. QED
    BY <2>3 DEF Channel!Next
<1>7. CASE PlayLaunch(c)
  <2>1. PICK l \in Loops :
           /\ lpc[l] = "unborn" /\ lpc' = [lpc EXCEPT ![l] = "top"] /\ station' = l
    BY <1>7 DEF PlayLaunch
  <2>2. /\ cpc[c] = "launch" /\ cpc' = [cpc EXCEPT ![c] = "idle"]
        /\ UNCHANGED <<queue, cancelled>>
    BY <1>7 DEF PlayLaunch
  <2>3. ~Draining /\ ~Draining' /\ station = NoLoop
    BY <1>1, <1>2, <2>2 DEF Draining, Sequential
  <2>4. l \notin Used /\ Used' = Used \cup {l}
    BY <2>1 DEF Used
  <2>5. Owed' = Owed
    BY <2>1, <2>2 DEF Owed, Lives
  <2>6. Channel!Play(l)
    BY <2>1, <2>2, <2>3, <2>4, <2>5 DEF Channel!Play, Draining
  <2>7. QED
    BY <2>6 DEF Channel!Next
<1>8. CASE PlayReject(c)
  <2>1. /\ cpc[c] = "launch" /\ cpc' = [cpc EXCEPT ![c] = "idle"]
        /\ UNCHANGED <<station, queue, lpc, cancelled>>
    BY <1>8 DEF PlayReject, shared, loopVars
  <2>2. ~Draining /\ ~Draining'
    BY <1>1, <2>1 DEF Draining
  <2>3. QED
    BY <2>1, <2>2 DEF Channel!channel, Used, Owed, Draining
<1>9. QED
  BY <1>3, <1>4, <1>5, <1>6, <1>7, <1>8 DEF Caller

LEMMA LoopChannel ==
    ASSUME ChannelInv, NEW l \in Loops, LoopRuns(l) \/ Decoder(l)
    PROVE  Channel!Next \/ UNCHANGED Channel!channel
<1> USE DEF ChannelInv, TypeOK, StateOK, LoopPC, Goto
<1>1. /\ UNCHANGED <<station, cancelled, cpc>>
      /\ lpc[l] # "unborn" /\ lpc' = [lpc EXCEPT ![l] = lpc'[l]] /\ lpc'[l] # "unborn"
  BY LoopStep
<1>2. Used' = Used /\ Draining' = Draining
  BY <1>1 DEF Used, Draining
<1>3. CASE EnqueueSend(l) \/ EnqueueForce(l)
  <2>1. /\ Len(queue) < Queue /\ queue' = Append(queue, l)
        /\ lpc[l] \in {"enqueue", "force"} /\ lpc'[l] = "decode"
    BY <1>3 DEF EnqueueSend, EnqueueForce
  <2>2. Owed' = Owed \ {l}
    BY <1>1, <2>1 DEF Owed
  <2>3. l = station \/ l \in Owed
    BY <1>1, <2>1 DEF Owed, Sequential, OneStream, Live, Lives,
       DisplayedStreamIsInstalled
  <2>4. Channel!Send(l)
    BY <1>1, <1>2, <2>1, <2>2, <2>3 DEF Channel!Send
  <2>5. QED
    BY <2>4 DEF Channel!Next
<1>4. CASE EnqueueCancelled(l)
  <2>1. /\ lpc[l] = "enqueue" /\ lpc'[l] = "ended" /\ l \in cancelled
        /\ queue' = queue
    BY <1>4 DEF EnqueueCancelled
  <2>2. l \in Owed /\ Owed' = Owed \ {l}
    BY <1>1, <2>1 DEF Owed
  <2>3. Channel!Forgo(l)
    BY <1>1, <1>2, <2>1, <2>2 DEF Channel!Forgo
  <2>4. QED
    BY <2>3 DEF Channel!Next
<1>5. CASE EnqueueFull(l) \/ EnqueueEvict(l)
  <2>1. /\ {lpc[l], lpc'[l]} \subseteq {"enqueue", "evict", "force"}
        /\ queue' = queue \/ (queue # <<>> /\ queue' = Tail(queue))
    BY <1>5 DEF EnqueueFull, EnqueueEvict
  <2>2. Owed' = Owed
    BY <1>1, <2>1 DEF Owed
  <2>3. CASE queue' = queue
    BY <1>1, <1>2, <2>2, <2>3 DEF Channel!channel
  <2>4. CASE queue # <<>> /\ queue' = Tail(queue)
    BY <1>1, <1>2, <2>2, <2>4 DEF Channel!Take, Channel!Next
  <2>5. QED
    BY <2>1, <2>3, <2>4
<1>6. CASE DecodeRead(l)
  <2>1. l \notin cancelled /\ queue' = queue
    BY <1>6 DEF DecodeRead
  <2>2. Owed' = Owed
    BY <1>1, <2>1 DEF Owed
  <2>3. QED
    BY <1>1, <1>2, <2>1, <2>2 DEF Channel!channel
<1>7. CASE \/ LoopTop(l) \/ LoopArm(l) \/ LoopStart(l) \/ LoopEnded(l)
           \/ BackoffEnds(l) \/ BackoffCancelled(l) \/ DecodeEnd(l)
  <2>1. /\ {lpc[l], lpc'[l]} \cap {"enqueue", "evict", "force"} = {}
        /\ queue' = queue
    BY <1>7 DEF LoopTop, LoopArm, LoopStart, LoopEnded, BackoffEnds,
       BackoffCancelled, DecodeEnd
  <2>2. Owed' = Owed
    BY <1>1, <2>1 DEF Owed
  <2>3. QED
    BY <1>1, <1>2, <2>1, <2>2 DEF Channel!channel
<1>8. QED
  BY <1>3, <1>4, <1>5, <1>6, <1>7 DEF LoopRuns, Decoder

LEMMA MixerChannel ==
    ASSUME Mixer
    PROVE  Channel!Next \/ UNCHANGED Channel!channel
<1>1. UNCHANGED <<station, Used, Owed, Draining>>
  BY MixerStep DEF Used, Owed, Draining
<1>2. queue' = queue \/ (queue # <<>> /\ queue' = Tail(queue))
  BY DEF Mixer, PullSnapshot, PullCheck, PullShort, PullPrime, PullAnnounce,
     PullChunk, PullStarved, PullStalled, PullLapse
<1>3. CASE queue' = queue
  BY <1>1, <1>3 DEF Channel!channel
<1>4. CASE queue # <<>> /\ queue' = Tail(queue)
  BY <1>1, <1>4 DEF Channel!Take, Channel!Next
<1>5. QED
  BY <1>2, <1>3, <1>4

LEMMA InitChannel == Init => Channel!Init
<1> SUFFICES ASSUME Init PROVE Channel!Init
  OBVIOUS
<1>1. Owed = {} /\ queue = <<>> /\ Draining = FALSE
  BY DEF Init, Owed, Draining
<1>2. CASE StartSource
  <2>1. PICK l \in Loops :
           station = l /\ lpc = [k \in Loops |-> IF k = l THEN "top" ELSE "unborn"]
    BY <1>2 DEF StartSource
  <2>2. Used = {l} /\ l # NoLoop
    BY <2>1, ZoneAssumption DEF Used
  <2>3. QED
    BY <1>1, <2>1, <2>2 DEF Channel!Init
<1>3. CASE NewZone \/ StartSourceFails
  <2>1. station = NoLoop /\ Used = {}
    BY <1>3 DEF NewZone, StartSourceFails, Used
  <2>2. QED
    BY <1>1, <2>1 DEF Channel!Init
<1>4. QED
  BY <1>2, <1>3 DEF Init

(* With one request at a time, and a source zone whatever is requested, a zone is
   a ZoneChannel: no stream is started beside the one it shows, a stopped one
   sends at most the chunk it had already read, and when Stop returns nothing is
   left of what was sent before. *)
THEOREM ZoneImplementsChannel ==
    ASSUME Undisputed
    PROVE  Spec => KeepsChannel
<1>1. ChannelInv /\ [Next]_vars => [Channel!Next]_(Channel!channel)
  <2> SUFFICES ASSUME ChannelInv, [Next]_vars
               PROVE  [Channel!Next]_(Channel!channel)
    OBVIOUS
  <2>1. ASSUME NEW c \in Callers, StopLocked(c) \/ Caller(c)
        PROVE  [Channel!Next]_(Channel!channel)
    BY <2>1, HandlerChannel
  <2>2. ASSUME NEW l \in Loops, LoopRuns(l) \/ Decoder(l)
        PROVE  [Channel!Next]_(Channel!channel)
    BY <2>2, LoopChannel
  <2>3. CASE Mixer
    BY <2>3, MixerChannel
  <2>4. CASE UNCHANGED vars
    BY <2>4 DEF vars, Channel!channel, Used, Owed, Draining
  <2>5. QED
    BY <2>1, <2>2, <2>3, <2>4 DEF Next
<1>2. TypeOK /\ Lives /\ Sequential => ChannelInv
  BY DEF ChannelInv
<1>3. QED
  BY <1>1, <1>2, InitChannel, TypeCorrect, LivesInvariant, SequentialInvariant, PTL
     DEF Spec, KeepsChannel, Channel!Spec

-----------------------------------------------------------------------------
(* The receive in Stop's drain has no other arm and nobody need send again:
   what keeps it from waiting is that the chunk whose presence was checked is
   still there. *)
DrainFinds == \A c \in Callers : cpc[c] = "take" => queue # <<>>

\* No one else receives between the check and the receive of a drain.
DrainUndisturbed ==
    (\E c \in Callers : cpc[c] = "take") =>
        ~PullChunk /\ \A l \in Loops : ~EnqueueEvict(l)

LEMMA DrainStep ==
    ASSUME OneHandler, TypeOK, DrainFinds, [Next]_vars, [DrainUndisturbed]_vars
    PROVE  DrainFinds'
<1> USE DEF DrainFinds, At
<1>1. PICK c \in Callers : Callers = {c}
  BY DEF OneHandler
<1>2. CASE StopLocked(c) \/ PlayLaunch(c) \/ PlayReject(c)
  BY <1>1, <1>2 DEF StopLocked, PlayLaunch, PlayReject, TypeOK, StateOK
<1>3. CASE DrainCheck(c)
  <2>1. queue' = queue /\ (cpc'[c] = "take" => Len(queue) > 0)
    BY <1>3 DEF DrainCheck, TypeOK, StateOK
  <2>2. Len(queue) > 0 => queue # <<>>
    OBVIOUS
  <2>3. QED
    BY <1>1, <2>1, <2>2
<1>4. CASE DrainTake(c)
  BY <1>1, <1>4 DEF DrainTake, TypeOK, StateOK
<1>5. ASSUME NEW l \in Loops, EnqueueSend(l) \/ EnqueueForce(l)
      PROVE  DrainFinds'
  <2>1. queue' = Append(queue, l) /\ queue \in Seq(Loops)
    BY <1>5 DEF EnqueueSend, EnqueueForce, TypeOK, StateOK
  <2>2. queue' # <<>>
    BY <2>1
  <2>3. QED
    BY <2>2
<1>6. ASSUME NEW l \in Loops, EnqueueEvict(l)
      PROVE  DrainFinds'
  <2>1. lpc'[l] # lpc[l] /\ cpc' = cpc
    BY <1>6 DEF EnqueueEvict, Goto, TypeOK, StateOK, callerVars
  <2>2. DrainUndisturbed
    BY <2>1 DEF vars
  <2>3. QED
    BY <1>6, <2>1, <2>2 DEF DrainUndisturbed
<1>7. ASSUME NEW l \in Loops,
             \/ LoopTop(l) \/ LoopArm(l) \/ LoopStart(l) \/ EnqueueCancelled(l)
             \/ EnqueueFull(l) \/ LoopEnded(l) \/ BackoffEnds(l)
             \/ BackoffCancelled(l) \/ Decoder(l)
      PROVE  DrainFinds'
  <2>1. UNCHANGED <<queue, cpc>>
    BY <1>7 DEF LoopTop, LoopArm, LoopStart, EnqueueCancelled, EnqueueFull,
       LoopEnded, BackoffEnds, BackoffCancelled, Decoder, DecodeRead, DecodeEnd,
       callerVars
  <2>2. QED
    BY <2>1
<1>8. CASE PullChunk
  <2>1. mpc' # mpc /\ cpc' = cpc
    BY <1>8 DEF PullChunk, MGoto, callerVars
  <2>2. DrainUndisturbed
    BY <2>1 DEF vars
  <2>3. QED
    BY <1>8, <2>1, <2>2 DEF DrainUndisturbed
<1>9. CASE Mixer /\ ~PullChunk
  <2>1. UNCHANGED <<queue, cpc>>
    BY <1>9 DEF Mixer, PullSnapshot, PullCheck, PullShort, PullPrime,
       PullAnnounce, PullStarved, PullStalled, PullLapse, callerVars
  <2>2. QED
    BY <2>1
<1>10. CASE UNCHANGED vars
  BY <1>10 DEF vars
<1>11. QED
  BY <1>1, <1>2, <1>3, <1>4, <1>5, <1>6, <1>7, <1>8, <1>9, <1>10
     DEF Next, Caller, LoopRuns

(* A Stop whose drain is the only receiver never waits in it.  The mixer that
   pulls a chunk in between, and the loop that evicts one, are all that the run
   zone_stop_hangs needs to leave it waiting. *)
THEOREM UndisturbedDrainEnds ==
    ASSUME OneHandler
    PROVE  Spec /\ [][DrainUndisturbed]_vars => []DrainFinds
<1>1. Init => DrainFinds
  BY DEF Init, DrainFinds
<1>2. TypeOK /\ DrainFinds /\ [Next]_vars /\ [DrainUndisturbed]_vars => DrainFinds'
  BY DrainStep
<1>3. QED
  BY <1>1, <1>2, TypeCorrect, PTL DEF Spec

-----------------------------------------------------------------------------
(* Stale audio. *)

\* A cancelled loop that already has a chunk in the queue is past enqueue.
Stale ==
    ~Draining =>
        \A l \in cancelled :
            /\ AtMostOneChunk(l)
            /\ (\E i \in 1..Len(queue) : queue[i] = l)
                  => lpc[l] \notin {"enqueue", "evict", "force"}

\* Sends and receives keep the order of the chunks.
LEMMA TailKeeps ==
    ASSUME queue \in Seq(Loops), queue # <<>>, queue' = Tail(queue),
           NEW l \in Loops
    PROVE  /\ AtMostOneChunk(l) => AtMostOneChunk(l)'
           /\ (\E i \in 1..Len(queue') : queue'[i] = l)
                 => \E i \in 1..Len(queue) : queue[i] = l
<1>1. /\ Len(queue') = Len(queue) - 1
      /\ Len(queue) \in Nat
      /\ \A i \in 1..Len(queue') : queue'[i] = queue[i + 1]
  OBVIOUS
<1>2. \A i \in 1..Len(queue') : i + 1 \in 1..Len(queue)
  BY <1>1
<1>3. QED
  BY <1>1, <1>2 DEF AtMostOneChunk

LEMMA SendKeeps ==
    ASSUME queue \in Seq(Loops), NEW k \in Loops, queue' = Append(queue, k),
           NEW l \in Loops
    PROVE  /\ (AtMostOneChunk(l) /\ k # l) => AtMostOneChunk(l)'
           /\ (~\E i \in 1..Len(queue) : queue[i] = l) => AtMostOneChunk(l)'
           /\ (k # l /\ \E i \in 1..Len(queue') : queue'[i] = l)
                 => \E i \in 1..Len(queue) : queue[i] = l
<1>1. /\ Len(queue') = Len(queue) + 1
      /\ Len(queue) \in Nat
      /\ \A i \in 1..Len(queue) : queue'[i] = queue[i]
      /\ queue'[Len(queue) + 1] = k
  OBVIOUS
<1>2. \A i \in 1..Len(queue') : i \in 1..Len(queue) \/ i = Len(queue) + 1
  BY <1>1
<1>3. QED
  BY <1>1, <1>2 DEF AtMostOneChunk

LEMMA StaleInductive ==
    ASSUME TypeOK, Lives, Stale, [Next]_vars
    PROVE  Stale'
<1> USE DEF TypeOK, StateOK, LoopPC, CallerPC
<1> DEFINE Seen(l) == \E i \in 1..Len(queue) : queue[i] = l
<1>1. ASSUME UNCHANGED <<queue, cancelled, lpc>>, Draining => Draining'
      PROVE  Stale'
  BY <1>1 DEF Stale, AtMostOneChunk
<1>2. ASSUME NEW c \in Callers, StopLocked(c)
      PROVE  Stale'
  BY <1>2 DEF StopLocked, At, Stale, Draining
<1>3. ASSUME NEW c \in Callers, DrainCheck(c)
      PROVE  Stale'
  <2>1. CASE Len(queue) > 0
    BY <1>3, <2>1 DEF DrainCheck, At, Stale, Draining
  <2>2. CASE ~(Len(queue) > 0)
    <3>1. queue' = queue /\ 1..Len(queue) = {}
      BY <1>3, <2>2 DEF DrainCheck
    <3>2. QED
      BY <3>1 DEF Stale, AtMostOneChunk
  <2>3. QED
    BY <2>1, <2>2
<1>4. ASSUME NEW c \in Callers, DrainTake(c)
      PROVE  Stale'
  BY <1>4 DEF DrainTake, At, Stale, Draining
<1>5. ASSUME NEW c \in Callers, PlayLaunch(c)
      PROVE  Stale'
  <2>1. /\ UNCHANGED <<queue, cancelled>>
        /\ \A l \in cancelled : lpc'[l] = lpc[l]
        /\ Draining => Draining'
    BY <1>5 DEF PlayLaunch, At, Draining, Lives
  <2>2. QED
    BY <2>1 DEF Stale, AtMostOneChunk
<1>6. ASSUME NEW c \in Callers, PlayReject(c)
      PROVE  Stale'
  <2>1. Draining => Draining'
    BY <1>6 DEF PlayReject, At, Draining
  <2>2. QED
    BY <1>1, <1>6, <2>1 DEF PlayReject, loopVars
<1>7. ASSUME NEW l \in Loops, LoopRuns(l) \/ Decoder(l)
      PROVE  Stale'
  <2>1. /\ cancelled' = cancelled
        /\ Draining' = Draining
        /\ \A k \in Loops : k # l => lpc'[k] = lpc[k]
    BY <1>7, LoopStep DEF Draining
  <2>2. CASE EnqueueSend(l) \/ EnqueueForce(l)
    <3>1. /\ queue' = Append(queue, l)
          /\ lpc[l] \in {"enqueue", "force"}
          /\ lpc'[l] = "decode"
      BY <2>2 DEF EnqueueSend, EnqueueForce, Goto
    <3>2. ~Draining' /\ l \in cancelled => ~Seen(l)
      BY <2>1, <3>1 DEF Stale
    <3>3. SUFFICES ASSUME ~Draining', NEW k \in cancelled
                   PROVE  /\ AtMostOneChunk(k)'
                          /\ Seen(k)' => lpc'[k] \notin
                                           {"enqueue", "evict", "force"}
      BY <2>1 DEF Stale
    <3>4. CASE k = l
      BY <3>1, <3>2, <3>3, <3>4, SendKeeps
    <3>5. CASE k # l
      BY <2>1, <3>1, <3>3, <3>5, SendKeeps DEF Stale
    <3>6. QED
      BY <3>4, <3>5
  <2>3. CASE EnqueueEvict(l)
    <3>1. /\ lpc[l] = "evict" /\ lpc'[l] = "force"
          /\ queue' = queue \/ (queue # <<>> /\ queue' = Tail(queue))
      BY <2>3 DEF EnqueueEvict, Goto
    <3>2. CASE queue' = queue
      <4>1. ~Draining' /\ l \in cancelled => ~Seen(l)
        BY <2>1, <3>1 DEF Stale
      <4>2. QED
        BY <2>1, <3>1, <3>2, <4>1 DEF Stale, AtMostOneChunk
    <3>3. CASE queue # <<>> /\ queue' = Tail(queue)
      BY <2>1, <3>1, <3>3, TailKeeps DEF Stale
    <3>4. QED
      BY <3>1, <3>2, <3>3
  <2>4. CASE \/ LoopTop(l) \/ LoopArm(l) \/ LoopStart(l)
             \/ EnqueueCancelled(l) \/ EnqueueFull(l) \/ LoopEnded(l)
             \/ BackoffEnds(l)
             \/ BackoffCancelled(l) \/ Decoder(l)
    <3>1. /\ queue' = queue
          /\ l \in cancelled =>
               lpc'[l] \notin {"enqueue", "evict", "force"}
      BY <2>4 DEF LoopTop, LoopArm, LoopStart, EnqueueCancelled, EnqueueFull,
         LoopEnded, BackoffEnds, BackoffCancelled, Decoder,
         DecodeRead, DecodeEnd, Goto
    <3>2. QED
      BY <2>1, <3>1 DEF Stale, AtMostOneChunk
  <2>5. QED
    BY <1>7, <2>2, <2>3, <2>4 DEF LoopRuns
<1>8. CASE Mixer
  <2>1. UNCHANGED <<cancelled, lpc>> /\ Draining' = Draining
    BY <1>8, MixerStep DEF Draining
  <2>2. CASE PullChunk
    <3>1. queue # <<>> /\ queue' = Tail(queue)
      BY <2>2 DEF PullChunk
    <3>2. QED
      BY <2>1, <3>1, TailKeeps DEF Stale
  <2>3. CASE ~PullChunk
    <3>1. queue' = queue
      BY <1>8, <2>3 DEF Mixer, PullSnapshot, PullCheck, PullShort, PullPrime,
         PullAnnounce, PullStarved, PullStalled, PullLapse
    <3>2. QED
      BY <1>1, <2>1, <3>1
  <2>4. QED
    BY <2>2, <2>3
<1>9. CASE UNCHANGED vars
  BY <1>1, <1>9 DEF vars, Draining
<1>10. QED
  BY <1>2, <1>3, <1>4, <1>5, <1>6, <1>7, <1>8, <1>9
     DEF Next, Caller

(* Once no handler is draining, at most one chunk of a stopped stream is
   still to be heard, for any number of handlers and any queue. *)
THEOREM StaleAudioBounded == Spec => []AtMostOneStaleChunk
<1>1. Init => Stale
  BY DEF Init, NewZone, StartSource, StartSourceFails, Stale
<1>2. TypeOK /\ Lives /\ Stale /\ [Next]_vars => Stale'
  BY StaleInductive
<1>3. TypeOK /\ Stale => AtMostOneStaleChunk
  BY DEF Stale, AtMostOneStaleChunk, Draining
<1>4. QED
  BY <1>1, <1>2, <1>3, TypeCorrect, LivesInvariant, PTL DEF Spec

-----------------------------------------------------------------------------
(* The two-lock transition of primed and status. *)

Announced ==
    /\ primed => \/ status = "playing" \/ mpc = "announce"
                 \/ /\ ~IsSource
                    /\ installed = NoLoop \/ lpc[installed] \in {"top", "arm"}
    /\ mpc \in {"check", "short", "prime", "lapse"} => ~primed

LEMMA AnnouncedInductive ==
    ASSUME TypeOK, Lives, Announced, [Next]_vars
    PROVE  Announced'
<1> USE ZoneAssumption DEF TypeOK, StateOK, LoopPC, MixerPC, Announced
<1>1. ASSUME NEW c \in Callers, StopLocked(c)
      PROVE  Announced'
  BY <1>1 DEF StopLocked, CancelInstalled
<1>2. ASSUME NEW c \in Callers, PlayLaunch(c)
      PROVE  Announced'
  <2>1. ~IsSource
    BY <1>2 DEF PlayLaunch, At, Lives
  <2>2. /\ primed' = primed /\ mpc' = mpc
        /\ lpc'[installed'] = "top"
    BY <1>2 DEF PlayLaunch
  <2>3. QED
    BY <2>1, <2>2
<1>3. ASSUME NEW c \in Callers, DrainCheck(c) \/ DrainTake(c) \/ PlayReject(c)
      PROVE  Announced'
  BY <1>3 DEF DrainCheck, DrainTake, PlayReject, shared, loopVars
<1>4. ASSUME NEW l \in Loops, LoopRuns(l) \/ Decoder(l)
      PROVE  Announced'
  <2>1. CASE LoopArm(l)
    BY <2>1 DEF LoopArm
  <2>2. CASE LoopTop(l)
    <3>1. l = installed => lpc'[l] \in {"arm", "decode"}
      BY <2>2 DEF LoopTop, Goto, Lives, DisplayedStreamIsInstalled, Live
    <3>2. l = installed /\ ~IsSource => lpc'[l] = "arm"
      BY <2>2 DEF LoopTop, Goto, Lives, DisplayedStreamIsInstalled, Live
    <3>3. /\ UNCHANGED <<status, primed, installed, mpc>>
          /\ \A k \in Loops : k # l => lpc'[k] = lpc[k]
      BY <2>2 DEF LoopTop, Goto, shared
    <3>4. QED
      BY <3>1, <3>2, <3>3
  <2>3. CASE ~LoopArm(l) /\ ~LoopTop(l)
    <3>1. /\ UNCHANGED <<status, primed, installed, mpc>>
          /\ lpc[l] \notin {"top", "arm"}
          /\ \A k \in Loops : k # l => lpc'[k] = lpc[k]
      BY <1>4, <2>3 DEF LoopRuns, LoopStart, EnqueueSend, EnqueueCancelled,
         EnqueueFull, EnqueueEvict, EnqueueForce, LoopEnded, BackoffEnds, BackoffCancelled, Decoder, DecodeRead, DecodeEnd, Goto, shared
    <3>2. QED
      BY <3>1
  <2>4. QED
    BY <2>1, <2>2, <2>3
<1>5. CASE Mixer
  <2>1. UNCHANGED <<installed, lpc>>
    BY <1>5, MixerStep
  <2>2. QED
    BY <1>5, <2>1 DEF Mixer, PullSnapshot, PullCheck, PullShort, PullPrime,
       PullAnnounce, PullChunk, PullStarved, PullStalled, PullLapse, MGoto,
       shared
<1>6. CASE UNCHANGED vars
  BY <1>6 DEF vars
<1>7. QED
  BY <1>1, <1>2, <1>3, <1>4, <1>5, <1>6 DEF Next, Caller

(* Whenever the mixer is between pulls, a primed zone reports that it plays,
   although primed and status change under different locks. *)
THEOREM PrimedZoneReportsPlaying == Spec => []PrimedMeansPlaying
<1>1. Init => Announced
  BY DEF Init, NewZone, StartSource, StartSourceFails, Announced
<1>2. TypeOK /\ Lives /\ Announced /\ [Next]_vars => Announced'
  BY AnnouncedInductive
<1>3. Announced => PrimedMeansPlaying
  BY DEF Announced, PrimedMeansPlaying
<1>4. QED
  BY <1>1, <1>2, <1>3, TypeCorrect, LivesInvariant, PTL DEF Spec
=============================================================================
