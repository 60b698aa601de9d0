# Verification of the multi-zone Dante player

TLA+ models of the player in `src/`, checked with TLC on small instances, and
theorems about them for every instance, checked with TLAPS.

The program plays network radio, sound pads, an RTL-SDR tuner and pipe sources
(Spotify) on a Dante network. A *zone* is a stereo pair of transmit channels.
One goroutine mixes every zone each 20 ms into one stream for `aplay`, whose
ALSA plugin (Inferno) is the Dante transmitter. A passive PTPv1 listener
measures the Dante grandmaster so that the plugin can follow its clock. A web
UI, a Companion module and an HTTP API control all of it.

## 1. Inventory

Paths are relative to `src/`. "Hard" names what tests hardly reach.

| Component | State | Operations | Hard |
| --- | --- | --- | --- |
| **Zone** `engine/zone.go` | `status`, `primed`, `cancelFunc`, station, `audioChan`, `emptyPulls`, backoff | `Stop`, `Play`, `StartSource`, `streamLoop`, `sourceLoop`, `decodeInto`, `enqueue`, `PullSamples` | three kinds of goroutine on one queue; two locks for what belongs together; reconnects; check-then-act |
| **Transmitter** `engine/manager.go` | the running `aplay` | `masterDanteAudioLoop`, `emulateMasterLoop` | aplay dies, is restarted, does not start |
| **PTP monitor** `engine/ptpv1.go` | sample window, lock, `masterID`, `twoStep`, pending Syncs | `handlePacket` on two ports, `expirePending`, `Estimate` | two read loops; loss, delay, reordering; 16-bit ids that wrap; a change of grandmaster |
| **Clock discipline** `engine/ptpv1.go` | served shift, `acquired`, `lastTick` | `tick`, `applyEstimate`, `WaitForLock`, `Overlay` | integer truncation; long gaps without an estimate; step or slew |
| **Clock server** `engine/usrvclock.go` | registered clients | `readLoop`, `broadcastLoop` | frames made before they are sent; clients that die |
| **Soundboard** `engine/soundboard.go` | decode cache, files being warmed, voices, cached list | `List`, `warmNew`, `load`, `Play`, `StopVoice`, `StopAll`, `MixInto` | decodes of seconds outside the lock, over files that change |
| **Tuner** `engine/tuner.go` | receiver, FFmpeg, what is shown, last error | `tune`, `tuneDAB`, `Off`, `adopt` with its goroutine | processes that exit at any time; late reapers; every step may fail |
| **Live status** `engine/manager.go`, `api/server.go`, `web/app.js` | `stateChan`, `listeners`, channels, pages | `eventBroadcaster`, `GetStatus`, `Subscribe`, `broadcast`, `handleSSE`, `initSSE` | bounded channels that drop; connections that break; restarts; closing a channel |
| **Configuration and station list** `config/config.go`, `api/server.go` | `Stations`, `Presets`, buffer sizes of source zones, the file | `LoadConfig`, `AddCustomPreset`, `DeletePreset`, `Save` | Saves that overlap; a file torn by a crash; what a Save resolves and a later start reads back; unlocked readers |
| **Companion module** `bitfocus/main.js` | stations on the buttons, connection status, interval | `initConnection`, `pollStatus`, `destroy`, actions | polls that overlap each other and the lifecycle; a player that restarts |
| other API handlers, flags of `main.go`, volume and meters, FIFOs, kernel timestamps, Inferno info patch, scripts | none that another part acts on | | |

How they interact:

* HTTP handlers call `Play`/`Stop` of a zone, `Play` of the soundboard and
  `tune`/`Off` of the tuner, each on its own goroutine.
* A zone, the tuner and the soundboard call `notify` after a change: one
  non-blocking send on `stateChan`. The broadcaster wakes, reads every part under
  that part's lock and offers the status to every listener.
* The transmitter loop is the only caller of `PullSamples` and `MixInto`.
* The tuner writes into the FIFO that a source zone reads.
* The preset handlers change the list under `c.mu` and save it; the Companion
  module polls it over HTTP, and GET reads it without the lock. A start builds
  the zones from what the last Save left.
* Monitor -> discipline (`Estimate`, every 100 ms) -> server (`Overlay`) ->
  ALSA plugin (datagrams). The discipline releases the transmitter's
  `WaitForLock` with its first step.

What makes each part correct:

* Zone: a station nobody stopped is never given up; what is shown is what the
  next Stop stops; a stopped stream is over, and so is its audio; a stream that
  delivers is heard, one that does not is not reported as playing.
* Transmitter: no end of `aplay` leaves a producer blocked for good.
* Monitor: the fit is made of matching, recent packets of one clock; it exists
  exactly while there is enough of them.
* Discipline: the served clock slews within the limit, reaches a steady
  measurement, and does not move without one.
* Server: the device follows the served shift and starts on a measured one.
* Soundboard: a pad never sounds older than its file was at the press; a file
  is decoded in the background once at a time, and eventually.
* Tuner: one receiver plays, it is the one shown, its end is noticed, requests
  return.
* Live status: no send on a closed channel; no page goes back in time; every
  page that reads ends with the present; handlers of dead connections end.
* Configuration: a program that restarts finds the list it had, unless its last
  Save failed; what the operator's file states is never lost to a client, an
  environment or a Save; every zone gets a queue it can play from.
* Companion module: one interval at a time; the buttons end with the list.

`PROJECT.json` lists the hazards behind these, each at its line, with the
properties that cover it or the reason why none does.

## 2. Modules

| Module | Models | Uses |
| --- | --- | --- |
| `ZoneChannel` | abstract: what a zone promises listeners and those who press its buttons | |
| `Zone` | one zone: handlers in Stop and Play, decode loops, the mixer | `ZoneChannel` (refinement) |
| `MCZone` | symmetry sets for TLC | `Zone` |
| `MediaClock` | abstract: what the discipline promises | |
| `ClockDiscipline` | ticker, step, slew | `MediaClock` (refinement) |
| `ClockAudit` | an observer over `ClockDiscipline`, no behaviour of its own | `ClockDiscipline` |
| `ClockServer` | usrvclock server and the devices it serves | `MediaClock` |
| `Transmitter` | composition: a source zone, the transmitter loop, aplay, the clock server over an abstract clock | `Zone`, `ClockServer` |
| `PTPMonitor` | the listener, and grandmasters, network and time around it | |
| `PadBoard` | abstract: what the soundboard promises whoever presses a pad | |
| `Soundboard` | requests, background decodes, the directory | `PadBoard` (refinement) |
| `Tuner` | requests, processes, reapers | |
| `StateFeed` | abstract: what the live status promises a page | |
| `Events` | broadcaster, SSE handlers, connections, pages | `StateFeed` (refinement) |
| `AppConfig` | start, environment, preset handlers, Save, crash and restart, the size of a zone's queue | |
| `Companion` | the Companion module over a list that others change | |
| `Control` | composition: the configuration and a Companion module that polls it | `AppConfig`, `Companion` |
| `MCControl` | two instances of `Control` for TLC | `Control` |
| `*Proofs` | theorems | the module they are named for |

Common conventions. A step is one critical section, one channel operation, one
atomic access or one call on a process; what touches only goroutine-local state
is folded into a neighbour. `pc`-like variables say where a goroutine is. Each
action is named for the function or the part of it that it translates; `map` in
`PROJECT.json` gives the lines. Operators under a comment that begins with
"Mutant:" are plausible bugs; no specification uses them.

**Zone.** `status`, `primed`, `installed` (`cancelFunc`), `station` are under
`z.mu`, `queue` is `audioChan`, `emptyPulls` an atomic. A chunk of audio is
represented by the loop that decoded it. `StopLocked`, `DrainCheck`, `DrainTake`
are `Stop`; a handler in `playing` goes on to `PlayLaunch` or `PlayReject`.
`LoopTop` .. `BackoffCancelled` are `streamLoop`, or `sourceLoop` when
`IsSource`, with `decodeInto` and `enqueue`; `PullSnapshot` .. `PullLapse` are
`PullSamples` with `setPrimed`. `StartSource` is over before anything else runs
and is part of `Init`. Volume, mute, meters and counters are left out.
`KeepsChannel` maps a zone to `ZoneChannel`: what it shows is `station`, what is
coming is `queue`, a stopped stream owes a chunk while its cancelled loop is
inside `enqueue`, and a Stop is under way while a handler drains. Decode loops,
pulls, priming, backoff and status are not seen there.

**ClockDiscipline.** Time passes in units between ticks; offsets are integers
and the slew allowance is a quotient truncated as the conversion to `int64`
truncates it, then raised to 1. The frequency ratio is passed through and left
out. `ClockAudit` picks a tick as reference and from there keeps the time passed
and the ticks run, so that "the slew limit holds over every span" is a state
predicate.

**ClockServer, Transmitter.** A frame is its shift. `readLoop` is
`ReadRequest`, `Answer`, `Register`; `broadcastLoop` is `MakeFrame`,
`Broadcast`. The device is the running `aplay`: `Transmitter` starts and ends
it, and it asks for the clock until it is answered (external). The discipline is
its abstraction `MediaClock`, which `ClockDiscipline` is proved to implement.
`onLock` records what `WaitForLock` returned. `carried` says whether the zone has
its two channels in the frame (`manager.go:202`): one that has not is skipped
while `aplay` runs (`SkipPull`) and pulled by the emulation.

**PTPMonitor.** A measurement is where it came from and its age. `SyncNote`,
`SyncDecide`, `SyncPend`/`SyncSample` are the Sync branch of `handlePacket`,
`FollowUpLatch`, `FollowUpPair`, `FollowUpSample` the other; each port has one
loop. The numbers of the two least-squares passes (float64) are left out: with
at least two samples a line is always found. Grandmasters are elected, send and
fall silent; packets are lost, delayed and reordered until the network is calm.

**Soundboard.** The content of a file is its version; some versions cannot be
decoded (still being copied). `load` is `LoadStat`, `LoadLookup`, `LoadDecode`,
`LoadStore`, run by handlers and by warming goroutines. A scan is `ListScan` and
`ListStore`, or `ListFails` when the directory cannot be read. `asked` remembers the
version at the press. `PadsKeepTheirPromise` maps the board to `PadBoard`: a press
is the job of its handler with zone and `asked`, what a zone sounds is its voice;
cache, scans and background decodes are not seen there.

**Tuner.** A *unit* is a receiver with its FFmpeg and the goroutine of `adopt`.
A process that was killed is not gone, and one that is gone is not reaped, until
steps of their own. Every start may fail, at the point where the code returns
and with what it leaves behind (`left`).

**Events.** The state of a part is how often it changed. `ReadPart` reads one
part under its lock, so a status may combine states of different moments.
Connections break, pages are loaded, closed or stop reading, the program crashes
and restarts with its parts in another state.

**AppConfig.** `own` is the `config.yaml` in the working directory, the file
`Save` always writes; `other` is any other file of the candidates, or the one
`-config` names. `Started` is what `LoadConfig` makes of a file: the two names of
the list, then the environment for sizes that are not stated, then the defaults.
A handler is `Post` or `Delete`, one critical section, then `SaveOpen` (read
lock, marshal, truncate) and `SaveWrite`; `SaveFails` and `SaveTears` are its
errors, which the handlers ignore. `Torn` is what a start can read from the
first part of a file, as YAML's order of fields allows: a zone without its sizes
or with a number cut short, the first stations, the last of them without
`is_custom`. `Restart` may happen between any two steps, with another
environment. `ClampChunks`, `Prebuffer`, `Queue` are `NewZonePlayer`.
`fate` and `damaged` are only observed: what became of the last Save, and
whether a start has read a torn file.

**Companion, Control.** A poll is two requests and an application; several may
be in flight, each with the answer it will apply. `InitConnection` is
`initConnection` up to its `await`, `StartTimer` the rest. `ListRead` and
`ListAnswer` are the handler of GET, which takes the list without its lock and
encodes it later; a change in between may make the answer one put together from
two lists (`Garbled`). The copy of the slice's header is one step: what a torn
header yields, an answer of mixed content, a failed request or a crash, the model
has anyway. Requests fail until the network is calm. `Control` runs
both over one list: a change races with the requests that are reading it, and a
restart cuts those that are not answered.

## 3. Runs

| Run | Question | Bounds |
| --- | --- | --- |
| `zone_handlers` | what survives when handlers race | 2 handlers, 2 streams, queue 3, prebuffer 2, stall 2, backoff 1 to 2 |
| `zone_stream` | one request at a time: refinement of `ZoneChannel`, cancelled loops end, delivering streams are heard | 1 handler, 2 streams, queue 3, prebuffer 2, stall 2 |
| `zone_orphan` (violation) | two Plays at once | as `zone_handlers` |
| `zone_stop_hangs` (violation) | Stop's drain | as `zone_stream` |
| `transmitter` | a source zone through restarts of aplay; the device and the clock | 1 stream, with and without channels in the frame, 2 devices, 1 measured shift, queue 3, prebuffer 2 |
| `clock` | slew limit, convergence, refinement of `MediaClock` | 4 targets, step 6, slew 2/3 a unit, gaps to 3, spans to 9 |
| `ptp` | what enters the window of lossy masters, lock and holdover | a one-step and a two-step clock, ids wrap at 2, two laps, window 2, age 1, holdover 1, 2 packets in flight |
| `ptp_timeline` (violation) | a change of grandmaster | two masters |
| `soundboard` | a file that changes under its decodes; refinement of `PadBoard` | 1 file, 3 versions of which 1 is broken, 1 handler, 2 warmers |
| `tuner` | two handlers over failing processes | 2 units, an FM and a DAB station, Off |
| `events` | broken connections, restarts, slow pages | 2 pages, one of which may stop reading, 2 connections, capacities 1 |
| `control` | the file and the list through requests, failed Saves, crashes; queue sizes; polls that overlap | two instances (`MCControl`): 2 handlers, 2 ids, 2 stations, 3 stated sizes, 2 environments; and 1 handler, 2 polls, 2 timers |

Why the bounds are enough. Each lets the case the property is about happen, and
a mutant shows it: for every property there is a changed definition under which
the same run fails. Two handlers and two streams are the smallest zone in which
a stream can be replaced while another handler acts. In every zone run the
prebuffer is 2 and the queue 3, so that the zone is full, primed, short of its
prebuffer and empty; a backoff from 1 to 2 s doubles, meets its cap and is reset. The clock's targets
lie on both sides of the static shift, nearer and farther than the step, and 2/3
of a unit is an allowance that truncates to 0. Ids that wrap within the age
limits are what 65536 ids are over hours; 0 + 0 + 2 <= 2 is the smallest case of
`IdsOutliveEntries`, and with a delay of 1 TLC finds `PairedSamples` violated, so
that the hypothesis of `MatchedPairs` is tight. In `transmitter` one measured shift is
enough because the server never looks into a frame: what a device can miss is a
change, and from the static shift to the measured one is a change. In `ptp` packets are lost
and reordered among those in flight, but not delayed over a unit of time: that
case is in the theorems only. The instances of `control` are told apart by what
is configured; two handlers are needed for Saves that overlap, one that adds and
removes a station suffices for every order in which two polls may be answered
and applied. Two stations let a client use the id of a configured one. The
capacity
1 of the event channels makes every second signal and status a dropped one.
What is larger than these instances is covered by the theorems. `events` has one
part, so statuses torn between parts appear only in the theorem, as do tuner
requests that lock an ensemble without decoding a service.

Deadlock is checked except in the zone runs, where no more Plays fit the bound,
in `events`, where the settled system stops, and in `control`, where a module
that was destroyed never starts again and a full list takes no more stations.

### Fairness

* Goroutines that can run do: weak fairness of handlers, loops, mixer, reapers,
  broadcaster, server loops. The Go scheduler gives that.
* A goroutine parked on a channel or mutex is served in turn: strong fairness of
  `EnqueueForce` and `DrainTake`, of `Subscribe`/`Unsubscribe`/`ContextDone`, of
  `Lock` in the tuner. Go's runtime queues waiters, and its mutex passes to
  starving ones.
* A network decoder delivers or is killed by `streamReadTimeout`; a source
  decoder may be silent for ever, only a cancelled one is sure to end. Nobody is
  promised to press anything. No measurement is promised to the transmitter.
* The directory of sounds is not unreadable every time it is scanned: strong
  fairness of `ListScan`.
* The kernel ends a process that was killed.
* ALSA drains a block or `aplay` dies. The code has no timeout for it.
* A page in `Readers` handles its events and timers; other pages need not.
* In a calm network, from some time on, the active master sends and every packet
  arrives in order. Until then nothing is promised.
* A request of the Companion module is answered or fails (`fetch` times out), its
  interval fires, and `initConnection` goes on after its poll. Nobody is promised
  to press a button, to configure the module or to leave the list alone:
  `ButtonsEndWithList` supposes a list that stays and requests that succeed.
  Companion calls `init`, `configUpdated` and `destroy` one after another
  (external).

## 4. Theorems

All are of the form "for every value of the constants", from the assumptions
named in the modules. Six theorems have a hypothesis of their own, one of the
four discussed below.

| Module | Theorems | Along what |
| --- | --- | --- |
| `ClockProofs` | types; a slew never overshoots; slew rate over every span; the discipline implements `MediaClock`, also with shifts marked by whether they follow a measurement; a tick uses its whole allowance | `MaxDeltaBound` (the truncated allowance is within one unit of the real one, and at least one) and the triangle inequality; `AuditInv` ties the observer's span to `elapsed` |
| `TransmitterProofs` | types; a device started on a lock begins on a measured shift; no device that was answered is forgotten, none is answered twice; every step of the composition is a step of `Zone` or leaves it alone, so that the zone's theorems hold in it (`ZoneStaysSafe`) | `TransmitterOK`: who reads a request holds a real device, and a zone without channels is not in a pull while the loop mixes. `StartInv`: a device that has received nothing is not registered, and an answer on its way to it was made after the lock. `AnsweredInv`: where the one request of a device is |
| `ZoneProofs` | types; a loop ends only when cancelled; the station shown is installed and live; at most one stale chunk; a primed zone reports playing; under sequential requests: one stream, a Stop leaves none, a drain the mixer does not disturb ends, the zone implements `ZoneChannel` | see below |
| `PTPProofs` | types and window size; the window is recent; locked exactly when fitted; measurements pair a Sync with its own Follow_Up; an estimate is never older than the holdover; a check of the source would keep one timeline | see below |
| `SoundboardProofs` | types; a press hears the newest; the cache is not older than its tags; no double warming; the board implements `PadBoard` | `CacheNotOlder` must be strengthened by what decodes in flight hold: a decode that began after the stat is no older than it. The refinement adds that a handler which is not answering a press holds no job |
| `TunerProofs` | types; one receiver between requests and at every moment of them, those left behind by a failed start aside; the station shown is tuned; only killed processes are waited for; every process has somebody who waits for it | mutual exclusion of `tuneMu`, and that a reaper acts on its own unit only; `WaitInv`: what a handler has started so far, by where it is |
| `ControlProofs` | types; the next start finds the list; what the operator states is kept; the queue holds the prebuffer; a Companion module changes nothing, so that all this holds in the composition (`CompanionKeepsConfig`); one interval fires | `WrittenOK`: what a Save writes is still the configuration, because it keeps the read lock; `JoinedOK`: both names of the list are empty together; `FileOK`, `StatedOK`: what a file may hold while `damaged` is false; `TimerOK`: the lifecycle call that owns the interval |
| `EventsProofs` | types; no send on a closed channel; the live status implements `StateFeed` | `FeedInv`: pages and connections match (`Wired`), nothing in flight is newer than the world (`Bounded`), and along each path to a page (view, held, channel, snapshot) states do not decrease (`Ordered`) |

In `ZoneProofs` the properties are not inductive. `Lives` adds that the
installed loop has begun and is not cancelled; `Sequential` says that a handler
past its first lock finds nothing installed, without which two Plays may both
install; `Stale` follows a cancelled loop from the read in flight to its single
chunk in the queue; `Announced` ties every pair (`primed`, `status`) that
disagrees to the mixer or the loop that is about to repair it. The refinement of
`ZoneChannel` needs `Lives` and `Sequential` only: the debt of a stopped stream
is a function of where its loop is, and no step after the cancel incurs one.

In `PTPProofs` `WindowStaysRecent` bounds the window by the age of its entries
relative to the newest, with the time an entry may be pending. `MatchedPairs`
follows each id from the Sync to the window (`PairInv`): at every place where an
id waits (due, in the air, in either loop, pending) it was sent so many units ago
that a Sync of the same clock with the same id would have to be a whole lap
younger. `EstimatesAreRecent` needs that the last measurement added is the last
of the window and survives every trim (`RetainedEndsNew`).

The hypotheses:

* `Undisputed` (`ZoneProofs`): requests for the zone come one at a time, or it is
  a source zone, which refuses them. The code does not enforce the first. The run
  `zone_orphan` shows what happens without it; the theorems say that this is the
  only way, and so what a lock around Stop and Play as a whole would give.
* `DrainUndisturbed` with `OneHandler` (`UndisturbedDrainEnds`): nobody else
  receives between the length check and the receive of a drain. The mixer does,
  see `zone_stop_hangs`.
* `SourceChecked` (`SourceCheckSuffices`): a Follow_Up is compared with the
  current master before its measurement is added. The code does not compare it,
  see `ptp_timeline`; the theorem says that this one comparison is all that is
  missing.
* `IdsOutliveEntries` (`MatchedPairs`): an entry is expired before its id comes
  round, `MaxDelay + PendingMaxAge + 2 <= SeqMod`. Here the code keeps it: 3 s and
  a ticker of 1 s against 65536 ids, which last 18 hours at one Sync a second.

The first three are conditional on what the code lacks: they bound a deviation,
and are no claim about the program as it is.

`DisciplineImplementsMarkedClock` joins `ClockServer` to the discipline. The
server's proof assumes that the static shift is not a measured one
(`Static \notin Shifts`), while a measurement may well equal it. With each shift
marked by whether it follows a measurement the two are always different, and the
discipline implements this `MediaClock` as well.

Only model-checked: all liveness (`CancelledLoopEnds`, `DeliveringStreamPlays`,
`SilentProducerStopsPlaying`, `DeliveringSourcePlays`, `DeviceFollows`,
`Converges`, `LoneMasterLocks`, `SilenceEndsEstimate`, `DroppedFileIsWarmed`,
`RequestsReturn`, `ExitIsNoticed`, `LatestIsShown`, `HandlersEnd`,
`ButtonsEndWithList`), because the prover does not reason about fairness and
ENABLED. For some the safety half is a theorem: `TicksApproach` for `Converges`
(while a measurement stands the distance to it falls with every tick),
`NoDeviceForgotten` for `DeviceFollows`, `WaitsEnd` and `EveryProcessIsReaped`
for `RequestsReturn` and `ExitIsNoticed`, `EstimatesAreRecent` for
`SilenceEndsEstimate`. Every other property of a passing run is a theorem.

Theorems about properties that no run states: `NoOvershoot`, `FullAllowance`,
`LockedWhenFitted`, `EstimateIsRecent`, `TTypeOK`, `AnsweredIsServed`,
`OneStream` and `NeverServesStale` (which the two refinements that are checked
imply), `CacheNotOlder`, `OneReceiverAtATime`, `WaitsForTheKilled`,
`NoProcessForgotten`.

## 5. Deviations

What the code does against its documents or its evident intent.

Shown by a run that fails:

* **Two Plays orphan a stream** (`zone_orphan`). `Play` calls `Stop` and takes
  the lock again to install its context. Two concurrent Plays both stop first;
  the second install overwrites the first `cancelFunc`, and that stream decodes
  into the zone until the program ends. `README.md:142` promises that stop stops
  playback on a zone.
* **Stop may hang** (`zone_stop_hangs`). The drain tests `len(z.audioChan)` and
  receives in a second step; the mixer may take the last chunk in between. The
  handler, or `StopAll` at shutdown (`main.go:67`), never returns.
* **A late Follow_Up mixes grandmasters** (`ptp_timeline`). The Follow_Up branch
  does not compare its source with `masterID`, so a measurement of the old clock
  enters the new one's window, against `ptpv1.go:268`.

Met while modelling, and the reason why a property is stated as it is:

* A Stop between the context check (`zone.go:381`) and the lock that follows it
  is overwritten: the zone shows "buffering" with no stream.
* A source whose producer ends short of the prebuffer leaves its zone
  "buffering": no pull finds the queue empty often enough. Hence
  `SilentProducerStopsPlaying` says "not playing", not "idle".
* A step of more than `DANTE_PTP_STEP_MS` is made after the lock too
  (`ptpv1.go:625`), where `README.md:294` speaks of slews. `SlewRateBounded`
  speaks of the time between steps.
* Once any Follow_Up was seen, a one-step master is never measured
  (`ptpv1.go:234`, `262`). `LoneMasterLocks` is about two-step masters.
* A broadcast frame made before the lock may reach the device after its first
  answer: for up to 250 ms it falls back to the static shift, the step that
  `ptpv1.go:567` says is landed before transmission. `FirstFrameIsMeasured`
  speaks of the first frame.
* A press that waits for FFmpeg replaces the pad of a later press
  (`soundboard.go:240`, `README.md:240`).
* When FFmpeg fails to start after `welle-cli` has (`tuner.go:330`), the
  receiver is left running and no Off reaches it (`left` in `Tuner`).
* A receiver that exits between `adopt` and the update of the fields
  (`tuner.go:268`) is reported, and the report is cleared.
* `stop` kills a receiver and does not wait for its end (`tuner.go:511`): the
  next one may be started while the old one still holds the dongle. `OneReceiver`
  therefore speaks of receivers that were not killed, and a start that fails for
  this reason is a `ReceiverFails`.
* One failure to start `aplay` means emulation until the program ends
  (`manager.go:179`): `emulateMasterLoop` never returns.

* Buffer sizes taken from the environment are written into the file by the next
  Save, and from then on are what the zone "states": a later change of the
  environment is ignored, where `README.md:253` says that it overrides and
  `config.go:293` that it is a default only. `StatedIsKept` speaks of the
  operator's file.
* `Save` always writes `config.yaml` in the working directory, and its errors are
  ignored. With `-config` naming another file, or with the file mounted read-only
  (`docker/compose.yml:37`), a station whose POST was answered 201 is gone after
  a restart. Hence `Flag # "other"` and `fate = "whole"` in
  `RestartKeepsStations`.
* `Save` writes in place. A crash in between leaves a file of which a part is
  read, without a word: stations are missing, and the last one may have lost
  `is_custom`, the last field, so that it can never be deleted. Hence `damaged`.
* GET `/api/presets` encodes the list without the lock (`server.go:91`): with a
  DELETE under way the answer may hold a station twice and miss another.
  `ButtonsEndWithList` says "ends".
* One failed request for the stations empties the buttons of the Companion module
  until the next poll (`main.js:116`).
* Its play button decides between play and stop by the last applied poll
  (`main.js:326`): pressed twice within a poll it does what was not meant.
* `-port 8080` cannot be told from the default, and the program listens on 8085
  (`main.go:43`), while `-pipe-dir` and `-dante-name` always win, by their
  defaults, over the file and the environment (`main.go:46`).
* `warmNew` passes over a file that has a cache entry, of whatever version
  (`soundboard.go:118`). A file that FFmpeg could decode before it was complete,
  or that was replaced later, keeps the old entry, and the first press of the
  whole file waits for FFmpeg, which `soundboard.go:111` says never happens. TLC
  refutes `<>[]Current(f)` without presses; `DroppedFileIsWarmed` therefore asks
  for an entry, and for the current one only of a file that goes on being pressed.
* A zone beyond `DANTE_TX_CHANNELS` is shown and accepts requests, but the loop
  leaves it out while `aplay` runs (`manager.go:202`): a stream in it stays
  "buffering", a pausable source stays blocked. `DeliveringSourcePlays` speaks of
  zones that are pulled, and the runs of `Zone` of a mixer that calls.
* A file that can never be decoded is decoded again by every scan
  (`soundboard.go:142`).
* A device that is alive but does not read blocks the clock server's write under
  its lock (`usrvclock.go:126`).

## 6. Not modelled

Floating-point work (the fit, mixing, volume, meters), packet and frame layouts,
argument lists of processes, rendering in the browser, logging, system calls for
sockets and FIFOs, deployment. `Stop` of monitor, discipline and server is never
called. `components` in `PROJECT.json` gives the reason for each part.

## 7. Plan

The order was: the zone first, because every sound goes through it; then the
clock, whose arithmetic tests do not cover; then the parts with processes and
files, the live status, and the compositions.

| Step | State |
| --- | --- |
| `Zone`, `ZoneProofs` | done |
| `ClockDiscipline`, `ClockAudit`, `PTPMonitor`, proofs | done |
| `Soundboard`, `Tuner`, proofs | done |
| `StateFeed`, `Events`, refinement proved | done |
| `MediaClock`, `ClockServer`, composition in `Transmitter`, first theorem | done |
| `AppConfig`: start, environment, preset handlers, Save, crash; `Companion`; composition in `Control`, proofs | done |
| `TTypeOK` and the zone inside its transmitter as theorems | done |
| `PairedSamples` as a theorem; what a source check, a lock around requests and an undisturbed drain would give | done |
| `PadBoard`, `ZoneChannel`: the promises of soundboard and zone, refinements checked and proved | done |
| `ClockServer` over the discipline, by marked shifts; safety halves of liveness properties | done |
| Monitor composed with the discipline | dropped: `Measure` lets the estimate be anything at any time, so that every theorem about the discipline holds over every monitor |
| An abstract tuner, and what a page, a zone and a pad see of it | open |
| The list of stations as one atomic object that `AppConfig` implements | open |
