-------------------------------- MODULE Zone --------------------------------
(***************************************************************************)
(* One audio zone (engine/zone.go): the queue between a decoder and the    *)
(* mixer, and the playback status the two of them and the API handlers     *)
(* share.                                                                  *)
(*                                                                         *)
(* Three kinds of goroutine run here.  Callers are HTTP handlers inside    *)
(* ZonePlayer.Stop or ZonePlayer.Play.  A loop is one streamLoop (or the   *)
(* sourceLoop of a source zone) with its own context and FFmpeg process.   *)
(* The mixer is the one goroutine that calls PullSamples.  A step is a     *)
(* section under z.mu, one channel operation or one atomic access; what    *)
(* touches only goroutine-local state is folded into a neighbouring step.  *)
(*                                                                         *)
(* A chunk of audio is represented by the loop that decoded it.            *)
(***************************************************************************)
EXTENDS Naturals, Sequences, FiniteSets

CONSTANTS
    Loops,         \* identities for decode loops; bounds the number of Plays
    NoLoop,        \* z.cancelFunc = nil
    Callers,       \* HTTP handler goroutines
    IsSource,      \* z.cfg.Source # nil
    Backpressure,  \* a pausable source: !src.Realtime
    Queue,         \* capacity of z.audioChan, in chunks
    Prebuffer,     \* z.prebufferChunks
    Stall,         \* zoneStallChunks
    RetryMin,      \* streamRetryMin, in seconds
    RetryMax       \* streamRetryMax

ASSUME ZoneAssumption ==
    /\ NoLoop \notin Loops
    /\ IsSource \in BOOLEAN /\ Backpressure \in BOOLEAN
    /\ Backpressure => IsSource
    /\ Queue \in Nat /\ Prebuffer \in Nat /\ Stall \in Nat
    /\ 1 <= Prebuffer /\ Prebuffer < Queue /\ 1 <= Stall
    /\ RetryMin \in Nat /\ RetryMax \in Nat /\ RetryMin <= RetryMax

VARIABLES
    status,      \* z.status
    primed,      \* z.primed
    installed,   \* the loop whose context z.cancelFunc cancels
    station,     \* the loop whose stream stationID and streamURL name
    queue,       \* z.audioChan
    emptyPulls,  \* z.emptyPulls
    cancelled,   \* the loops whose contexts are done
    retry,       \* streamLoop's local backoff
    lpc,         \* where each decode loop is
    mpc,         \* where the mixer is in PullSamples
    cpc,         \* where each handler is
    playing      \* the handlers running Play rather than Stop

vars == <<status, primed, installed, station, queue, emptyPulls, cancelled,
          retry, lpc, mpc, cpc, playing>>
shared == <<status, primed, installed, station>>
loopVars == <<lpc, cancelled, retry>>
callerVars == <<cpc, playing>>

Status == {"idle", "buffering", "playing", "error"}
LoopPC == {"unborn", "top", "arm", "start", "decode", "enqueue", "evict",
           "force", "ended", "backoff", "done"}
MixerPC == {"idle", "check", "short", "prime", "announce", "pull", "lapse"}
CallerPC == {"idle", "drain", "take", "launch"}

StateOK ==
    /\ status \in Status
    /\ installed \in Loops \cup {NoLoop}
    /\ station \in Loops \cup {NoLoop}
    /\ queue \in Seq(Loops) /\ Len(queue) <= Queue
    /\ emptyPulls \in 0..Stall
    /\ cancelled \subseteq Loops
    /\ retry \in [Loops -> RetryMin..RetryMax]
    /\ lpc \in [Loops -> LoopPC]
    /\ mpc \in MixerPC
    /\ cpc \in [Callers -> CallerPC]
    /\ playing \subseteq Callers

TypeOK == StateOK /\ primed \in BOOLEAN

\* NewZonePlayer leaves the zone idle.
NewZone ==
    /\ status = "idle" /\ installed = NoLoop /\ station = NoLoop
    /\ lpc = [l \in Loops |-> "unborn"]

\* StartSource, which is over before the mixer and the handlers run ...
StartSource ==
    \E l \in Loops :
        /\ status = "idle" /\ installed = l /\ station = l
        /\ lpc = [k \in Loops |-> IF k = l THEN "top" ELSE "unborn"]

\* ... or fails in ensureFIFO.
StartSourceFails ==
    /\ status = "error" /\ installed = NoLoop /\ station = NoLoop
    /\ lpc = [l \in Loops |-> "unborn"]

Init ==
    /\ IF IsSource THEN StartSource \/ StartSourceFails ELSE NewZone
    /\ primed = FALSE
    /\ queue = <<>> /\ emptyPulls = 0
    /\ cancelled = {}
    /\ retry = [l \in Loops |-> RetryMin]
    /\ mpc = "idle"
    /\ cpc = [c \in Callers |-> "idle"]
    /\ playing = {}

-----------------------------------------------------------------------------
(* Handlers: Stop, and Play, which begins with a Stop of its own. *)

At(c, from, to) == cpc[c] = from /\ cpc' = [cpc EXCEPT ![c] = to]

\* Mutant: Stop clears z.cancelFunc without calling it.
CancelNothing == UNCHANGED cancelled /\ installed' = NoLoop

\* Mutant: Stop calls z.cancelFunc and leaves it in place.
CancelKeepsFunc ==
    /\ cancelled' = cancelled \cup ({installed} \ {NoLoop})
    /\ UNCHANGED installed

\* if z.cancelFunc != nil { z.cancelFunc(); z.cancelFunc = nil }
CancelInstalled ==
    /\ cancelled' = cancelled \cup ({installed} \ {NoLoop})
    /\ installed' = NoLoop

\* The locked part of Stop: cancel the installed context, clear the display.
StopLocked(c) ==
    /\ ~IsSource
    /\ At(c, "idle", "drain")
    /\ playing' \in {playing \cup {c}, playing \ {c}}
    /\ CancelInstalled
    /\ station' = NoLoop
    /\ status' = "idle" /\ primed' = FALSE
    /\ UNCHANGED <<queue, emptyPulls, retry, lpc, mpc>>

\* for len(z.audioChan) > 0: the length is read in one step ...
DrainCheck(c) ==
    /\ IF Len(queue) > 0 THEN At(c, "drain", "take")
       ELSE At(c, "drain", IF c \in playing THEN "launch" ELSE "idle")
    /\ UNCHANGED <<shared, queue, emptyPulls, loopVars, mpc, playing>>

\* ... and the receive is another, which waits when the queue is empty again.
DrainTake(c) ==
    /\ At(c, "take", "drain")
    /\ Len(queue) > 0
    /\ queue' = Tail(queue)
    /\ UNCHANGED <<shared, emptyPulls, loopVars, mpc, playing>>

\* The locked part of Play, and go streamLoop.
PlayLaunch(c) ==
    /\ At(c, "launch", "idle")
    /\ \E l \in Loops :
          /\ lpc[l] = "unborn"
          /\ lpc' = [lpc EXCEPT ![l] = "top"]
          /\ installed' = l /\ station' = l
    /\ status' = "buffering"
    /\ UNCHANGED <<primed, queue, emptyPulls, cancelled, retry, mpc, playing>>

\* Play with an empty URL fails after its Stop.
PlayReject(c) ==
    /\ At(c, "launch", "idle")
    /\ UNCHANGED <<shared, queue, emptyPulls, loopVars, mpc, playing>>

-----------------------------------------------------------------------------
(* Decode loops. *)

Goto(l, from, to) == lpc[l] = from /\ lpc' = [lpc EXCEPT ![l] = to]

\* The context check at the head of streamLoop and of sourceLoop; only
\* streamLoop goes on to show that it is buffering.
LoopTop(l) ==
    /\ Goto(l, "top", IF l \in cancelled THEN "done"
                      ELSE IF IsSource THEN "decode" ELSE "arm")
    /\ UNCHANGED <<shared, queue, emptyPulls, cancelled, retry, mpc, callerVars>>

\* Mutant: a reconnect keeps the primed flag of the run before it.
LoopArmKeepsPrimed(l) ==
    /\ Goto(l, "arm", "start")
    /\ status' = "buffering"
    /\ UNCHANGED <<primed, installed, station, queue, emptyPulls, cancelled,
                   retry, mpc, callerVars>>

\* The locked section at the head of each run of streamLoop.
LoopArm(l) ==
    /\ Goto(l, "arm", "start")
    /\ status' = "buffering" /\ primed' = FALSE
    /\ UNCHANGED <<installed, station, queue, emptyPulls, cancelled, retry, mpc,
                   callerVars>>

\* emptyPulls.Store(0), then FFmpeg is started.
LoopStart(l) ==
    /\ Goto(l, "start", "decode")
    /\ emptyPulls' = 0
    /\ UNCHANGED <<shared, queue, cancelled, retry, mpc, callerVars>>

\* Mutant: decodeInto reads without looking at its context.
DecodeReadUnchecked(l) ==
    /\ Goto(l, "decode", "enqueue")
    /\ UNCHANGED <<shared, queue, emptyPulls, cancelled, retry, mpc, callerVars>>

\* The context check in decodeInto and one full read of 20 ms.
DecodeRead(l) ==
    /\ Goto(l, "decode", "enqueue")
    /\ l \notin cancelled
    /\ UNCHANGED <<shared, queue, emptyPulls, cancelled, retry, mpc, callerVars>>

\* decodeInto returns: FFmpeg could not start, its output ended, the context
\* is done (which kills FFmpeg), or watchDecoder killed a silent FFmpeg.
DecodeEnd(l) ==
    /\ Goto(l, "decode", "ended")
    /\ UNCHANGED <<shared, queue, emptyPulls, cancelled, retry, mpc, callerVars>>

\* enqueue: send when there is room.
EnqueueSend(l) ==
    /\ Goto(l, "enqueue", "decode")
    /\ Len(queue) < Queue
    /\ queue' = Append(queue, l)
    /\ UNCHANGED <<shared, emptyPulls, cancelled, retry, mpc, callerVars>>

\* enqueue: the ctx.Done() arm, which a select may take even when there is room.
EnqueueCancelled(l) ==
    /\ Goto(l, "enqueue", "ended")
    /\ l \in cancelled
    /\ UNCHANGED <<shared, queue, emptyPulls, cancelled, retry, mpc, callerVars>>

\* enqueue: the default arm, absent under backpressure.
EnqueueFull(l) ==
    /\ Goto(l, "enqueue", "evict")
    /\ ~Backpressure
    /\ Len(queue) = Queue /\ l \notin cancelled
    /\ UNCHANGED <<shared, queue, emptyPulls, cancelled, retry, mpc, callerVars>>

\* Drop the oldest chunk, if the mixer or a drain has not emptied the queue.
EnqueueEvict(l) ==
    /\ Goto(l, "evict", "force")
    /\ queue' = IF queue = <<>> THEN queue ELSE Tail(queue)
    /\ UNCHANGED <<shared, emptyPulls, cancelled, retry, mpc, callerVars>>

\* The final send has no ctx.Done() arm: it waits for room, whatever happens.
EnqueueForce(l) ==
    /\ Goto(l, "force", "decode")
    /\ Len(queue) < Queue
    /\ queue' = Append(queue, l)
    /\ UNCHANGED <<shared, emptyPulls, cancelled, retry, mpc, callerVars>>

\* Mutant: the end of a stream ends its loop.
LoopEndedGivesUp(l) ==
    /\ Goto(l, "ended", "done")
    /\ UNCHANGED <<shared, queue, emptyPulls, cancelled, retry, mpc, callerVars>>

\* streamLoop after decodeInto; a run of streamHealthyRun resets the backoff.
LoopEnded(l) ==
    /\ Goto(l, "ended", IF l \in cancelled THEN "done" ELSE "backoff")
    /\ \/ UNCHANGED retry
       \/ /\ ~IsSource /\ l \notin cancelled
          /\ retry' = [retry EXCEPT ![l] = RetryMin]
    /\ UNCHANGED <<shared, queue, emptyPulls, cancelled, mpc, callerVars>>

\* Mutant: the cap is tested before the doubling.
NextRetryLate(r) == IF r > RetryMax THEN RetryMax ELSE 2 * r

\* if retry *= 2; retry > streamRetryMax { retry = streamRetryMax }
NextRetry(r) == IF 2 * r > RetryMax THEN RetryMax ELSE 2 * r

\* The wait before reconnecting ends by its timer; only streamLoop backs off,
\* sourceLoop attaches a new decoder after a second, every time.
BackoffEnds(l) ==
    /\ Goto(l, "backoff", "top")
    /\ retry' = IF IsSource THEN retry
                ELSE [retry EXCEPT ![l] = NextRetry(retry[l])]
    /\ UNCHANGED <<shared, queue, emptyPulls, cancelled, mpc, callerVars>>

\* ... or the wait ends by the context.
BackoffCancelled(l) ==
    /\ Goto(l, "backoff", "done")
    /\ l \in cancelled
    /\ UNCHANGED <<shared, queue, emptyPulls, cancelled, retry, mpc, callerVars>>

-----------------------------------------------------------------------------
(* The mixer, in PullSamples. *)

MGoto(from, to) == mpc = from /\ mpc' = to

\* Mutant: only a zone that is already playing is pulled.
PullSnapshotPlayingOnly ==
    /\ status = "playing"
    /\ MGoto("idle", IF primed THEN "pull" ELSE "check")
    /\ UNCHANGED <<shared, queue, emptyPulls, loopVars, callerVars>>

\* The snapshot under RLock.  A zone that is neither playing nor buffering is
\* not pulled, except a source zone, which always is.
PullSnapshot ==
    /\ IsSource \/ status \in {"playing", "buffering"}
    /\ MGoto("idle", IF primed THEN "pull" ELSE "check")
    /\ UNCHANGED <<shared, queue, emptyPulls, loopVars, callerVars>>

PullCheck ==
    /\ MGoto("check", IF Len(queue) >= Prebuffer THEN "prime"
                      ELSE IF Len(queue) > 0 THEN "short" ELSE "idle")
    /\ UNCHANGED <<shared, queue, emptyPulls, loopVars, callerVars>>

\* setStatus(StatusBuffering): short of the prebuffer, but arriving.
PullShort ==
    /\ MGoto("short", "idle")
    /\ status' = "buffering"
    /\ UNCHANGED <<primed, installed, station, queue, emptyPulls, loopVars,
                   callerVars>>

\* setPrimed(true): primed under one lock ...
PullPrime ==
    /\ MGoto("prime", IF primed THEN "pull" ELSE "announce")
    /\ primed' = TRUE
    /\ emptyPulls' = 0
    /\ UNCHANGED <<status, installed, station, queue, loopVars, callerVars>>

\* ... and the status under the next.
PullAnnounce ==
    /\ MGoto("announce", "pull")
    /\ status' = "playing"
    /\ UNCHANGED <<primed, installed, station, queue, emptyPulls, loopVars,
                   callerVars>>

PullChunk ==
    /\ MGoto("pull", "idle")
    /\ queue # <<>>
    /\ queue' = Tail(queue)
    /\ emptyPulls' = 0
    /\ UNCHANGED <<shared, loopVars, callerVars>>

\* Mutant: a hole resets the count of holes.
PullStarvedForgets ==
    /\ queue = <<>>
    /\ emptyPulls + 1 < Stall
    /\ MGoto("pull", "idle")
    /\ emptyPulls' = 0
    /\ UNCHANGED <<shared, queue, loopVars, callerVars>>

\* A hole in the audio.
PullStarved ==
    /\ queue = <<>>
    /\ emptyPulls + 1 < Stall
    /\ MGoto("pull", "idle")
    /\ emptyPulls' = emptyPulls + 1
    /\ UNCHANGED <<shared, queue, loopVars, callerVars>>

\* One hole too many: setPrimed(false).
PullStalled ==
    /\ queue = <<>>
    /\ emptyPulls + 1 >= Stall
    /\ MGoto("pull", IF primed THEN "lapse" ELSE "idle")
    /\ emptyPulls' = 0
    /\ primed' = FALSE
    /\ UNCHANGED <<status, installed, station, queue, loopVars, callerVars>>

\* ... whose status follows under the next lock.
PullLapse ==
    /\ MGoto("lapse", "idle")
    /\ status' = IF IsSource THEN "idle" ELSE "buffering"
    /\ UNCHANGED <<primed, installed, station, queue, emptyPulls, loopVars,
                   callerVars>>

-----------------------------------------------------------------------------
Caller(c) ==
    \/ DrainCheck(c) \/ DrainTake(c) \/ PlayLaunch(c) \/ PlayReject(c)

\* What a loop does without waiting for its stream.
LoopRuns(l) ==
    \/ LoopTop(l) \/ LoopArm(l) \/ LoopStart(l)
    \/ EnqueueSend(l) \/ EnqueueCancelled(l)
    \/ EnqueueFull(l) \/ EnqueueEvict(l) \/ EnqueueForce(l)
    \/ LoopEnded(l) \/ BackoffEnds(l) \/ BackoffCancelled(l)

Decoder(l) == DecodeRead(l) \/ DecodeEnd(l)

Mixer ==
    \/ PullSnapshot \/ PullCheck \/ PullShort \/ PullPrime \/ PullAnnounce
    \/ PullChunk \/ PullStarved \/ PullStalled \/ PullLapse

Next ==
    \/ \E c \in Callers : StopLocked(c) \/ Caller(c)
    \/ \E l \in Loops : LoopRuns(l) \/ Decoder(l)
    \/ Mixer

Spec == Init /\ [][Next]_vars

(***************************************************************************)
(* Handlers and loops are goroutines the Go scheduler keeps running, and   *)
(* the mix loop pulls every zone every 20 ms.  A new request is never      *)
(* promised.  A network decoder either delivers or is killed after         *)
(* streamReadTimeout; a source decoder may be silent for ever, and only    *)
(* the death of its context is sure to end it.  A goroutine parked on a    *)
(* channel is served in turn (the runtime hands the slot or the value to   *)
(* the longest waiter), hence strong fairness for the two operations that  *)
(* wait on z.audioChan.                                                    *)
(***************************************************************************)
Fairness ==
    /\ \A c \in Callers : WF_vars(Caller(c)) /\ SF_vars(DrainTake(c))
    /\ \A l \in Loops :
          /\ WF_vars(LoopRuns(l)) /\ SF_vars(EnqueueForce(l))
          /\ WF_vars((~IsSource \/ l \in cancelled) /\ Decoder(l))
    /\ WF_vars(Mixer)

FairSpec == Spec /\ Fairness
-----------------------------------------------------------------------------
(* Safety. *)

\* A loop whose goroutine has begun and whose context is not done.
Live(l) == lpc[l] # "unborn" /\ l \notin cancelled

\* "streamLoop treats every way a stream can end as temporary": whatever the
\* decoder does, a loop returns only because its context was cancelled, so
\* a station nobody stopped is never given up.
OnlyCancelledLoopsEnd ==
    \A l \in Loops : lpc[l] = "done" => l \in cancelled

\* The stream the API reports is the one the next Stop will cancel, and it is
\* running: two handlers that interleave never leave the display naming a
\* stream whose context is already dead.
DisplayedStreamIsInstalled ==
    /\ station = installed
    /\ installed # NoLoop => Live(installed)

\* When no handler is running and no stream is installed, no stream runs: a
\* Stop leaves nothing behind that no later Stop could reach.
StoppedMeansNoStream ==
    (installed = NoLoop /\ \A c \in Callers : cpc[c] = "idle")
        => \A l \in Loops : ~Live(l)

\* At most one stream feeds a zone, so two stations never share its queue.
OneStream == \A l \in Loops : Live(l) => l = installed

AtMostOneChunk(l) ==
    \A i, j \in 1..Len(queue) : queue[i] = l /\ queue[j] = l => i = j

\* Once the drain of Stop is over, at most one chunk of a stream that was
\* stopped can still be heard: the one its loop was about to enqueue.
AtMostOneStaleChunk ==
    (\A c \in Callers : cpc[c] \notin {"drain", "take"})
        => \A l \in Loops : l \in cancelled => AtMostOneChunk(l)

\* PullSamples sets primed and status under two locks, and a Play or a
\* reconnect may come between.  Between pulls they agree again: once the
\* installed loop has armed itself, a primed zone reports that it is playing.
PrimedMeansPlaying ==
    (mpc = "idle" /\ primed) =>
        \/ status = "playing"
        \/ installed # NoLoop /\ lpc[installed] \in {"top", "arm"}
        \/ installed = NoLoop

(* Liveness. *)

\* A loop whose context is cancelled returns, and its FFmpeg with it, even
\* from the send in enqueue that does not watch the context.
CancelledLoopEnds == \A l \in Loops : l \in cancelled ~> lpc[l] = "done"

\* A stream that keeps delivering, with no more requests, is heard again and
\* again: the prebuffer fills however the loop and the mixer interleave.
DeliveringStreamPlays ==
    \A l \in Loops :
        (/\ <>[](installed = l /\ \A c \in Callers : cpc[c] = "idle")
         /\ []<>(lpc[l] = "enqueue"))
            => []<>(status = "playing" /\ mpc = "pull" /\ queue # <<>>)

\* A producer that falls silent is not reported as playing for ever.
SilentProducerStopsPlaying ==
    \A l \in Loops :
        <>[](installed = l /\ lpc[l] = "decode") => <>[](status # "playing")

(* What a zone promises. *)

Used == {l \in Loops : lpc[l] # "unborn"}

\* The cancelled loops that have a chunk in their hands.
Owed == {l \in cancelled : lpc[l] \in {"enqueue", "evict", "force"}}

Draining == \E c \in Callers : cpc[c] \in {"drain", "take"}

Channel == INSTANCE ZoneChannel
    WITH Streams <- Loops, None <- NoLoop, Capacity <- Queue, current <- station,
         used <- Used, owed <- Owed, coming <- queue, stopping <- Draining

\* With requests one at a time only the stream that is shown is heard.  One that
\* was stopped sends no more than the chunk it had read, however its loop, the
\* mixer and the drain of Stop interleave, and nothing from before is left.
KeepsChannel == Channel!Spec

(* What the code does not keep. *)

\* A handler in Stop's drain comes back.
StopReturns == \A c \in Callers : cpc[c] # "idle" ~> cpc[c] = "idle"
=============================================================================
