----------------------------- MODULE Transmitter -----------------------------
(***************************************************************************)
(* The transmitter loop (engine/manager.go, masterDanteAudioLoop) over a   *)
(* source zone: it waits for the clock, feeds aplay a block at a time,     *)
(* restarts aplay when a write fails, and pulls the zone only while it     *)
(* mixes or emulates.  aplay is the audio device of ClockServer, which     *)
(* serves it the media clock meanwhile.                                    *)
(*                                                                         *)
(* Every zone is started before this loop is, and a source zone that has   *)
(* its two channels in the frame is pulled at every block, so a block is   *)
(* one pull of the zone and one write.  A zone beyond the channels of the  *)
(* device is left out of the frame; emulation pulls every zone.            *)
(***************************************************************************)
EXTENDS Zone, ClockServer

ASSUME TransmitterAssumption == IsSource

VARIABLES
    tpc,     \* where the loop is
    onLock,  \* WaitForLock returned true
    carried  \* zoneIdx*2+1 < numChannels: the frame has channels for the zone

loop == <<tpc, onLock, carried>>
tvars == <<vars, loop, clock, audio, server>>

TransmitterPC == {"lock", "start", "prime", "mix", "write", "close", "emulate"}

TGoto(from, to) == tpc = from /\ tpc' = to
Quiet == UNCHANGED <<vars, onLock, carried, clock, server>>

TInit ==
    /\ Init /\ ClockInit /\ ServerInit
    /\ tpc = "lock" /\ onLock = FALSE /\ carried \in BOOLEAN

\* WaitForLock returns true: the first measurement has been applied.
Locked ==
    /\ TGoto("lock", "start") /\ onLock' = TRUE
    /\ acquired
    /\ UNCHANGED <<vars, carried, clock, audio, server>>

\* The wait has timed out, which a select may notice first even when the
\* clock has just been acquired.
LockTimesOut == TGoto("lock", "start") /\ Quiet /\ UNCHANGED audio

StartAplay == TGoto("start", "prime") /\ DeviceStarts /\ Quiet

\* No pipe or no aplay: emulateMasterLoop, which never returns.
StartAplayFails == TGoto("start", "emulate") /\ Quiet /\ UNCHANGED audio

\* Blocks of silence up front, whose errors are ignored.
WriteSilence == TGoto("prime", "mix") /\ Quiet /\ UNCHANGED audio

\* The zone is pulled; the write follows when the pull is over.
PullStep ==
    /\ (tpc = "mix" /\ carried) \/ tpc = "emulate"
    /\ Mixer
    /\ tpc' = IF tpc = "mix" /\ mpc' = "idle" THEN "write" ELSE tpc
    /\ UNCHANGED <<onLock, carried, clock, audio, server>>

\* The zones of a block end at the channels of the device.
SkipPull == ~carried /\ TGoto("mix", "write") /\ Quiet /\ UNCHANGED audio

\* The write returns when ALSA has drained a block ...
WriteBlock == device # None /\ TGoto("write", "mix") /\ Quiet /\ UNCHANGED audio

\* ... or fails, when aplay is gone.
WriteBlockFails == device = None /\ TGoto("write", "close") /\ Quiet /\ UNCHANGED audio

\* Mutant: the loop ends with aplay.
GiveUpAplay == TGoto("close", "close") /\ Quiet /\ UNCHANGED audio

\* aplay is killed and waited for, and started again two seconds later.
RestartAplay == TGoto("close", "start") /\ Quiet /\ DeviceEnds

Transmit ==
    \/ Locked \/ LockTimesOut \/ StartAplay \/ StartAplayFails \/ WriteSilence
    \/ PullStep \/ SkipPull \/ WriteBlock \/ WriteBlockFails \/ RestartAplay

AplayDies == device # None /\ DeviceEnds /\ Quiet /\ UNCHANGED tpc

\* The steps of sourceLoop and of its decoder.
Feed(l) == (LoopRuns(l) \/ Decoder(l)) /\ UNCHANGED <<loop, clock, audio, server>>

Discipline == ClockNext /\ UNCHANGED <<vars, loop, audio, server>>

Clients == (Ask \/ Serve \/ Tell) /\ UNCHANGED <<vars, loop, clock>>

TNext == Transmit \/ AplayDies \/ Discipline \/ Clients \/ \E l \in Loops : Feed(l)

TSpec == TInit /\ [][TNext]_tvars

(***************************************************************************)
(* As for the zone; ALSA drains a block or aplay fails, and may fail for   *)
(* ever.  Both loops of the server run, and a device asks until it has the *)
(* clock.  No measurement is promised.                                     *)
(***************************************************************************)
TFairSpec ==
    /\ TSpec
    /\ \A l \in Loops : WF_tvars(LoopRuns(l) /\ UNCHANGED <<loop, clock, audio, server>>)
    /\ WF_tvars(Transmit)
    /\ WF_tvars(Ask /\ UNCHANGED <<vars, loop, clock>>)
    /\ WF_tvars(Serve /\ UNCHANGED <<vars, loop, clock>>)
    /\ WF_tvars(Tell /\ UNCHANGED <<vars, loop, clock>>)

-----------------------------------------------------------------------------
\* The types; the zone is between pulls while the loop does anything else, and
\* aplay runs only while the loop feeds it.
TTypeOK ==
    /\ TypeOK /\ ServerTypeOK
    /\ tpc \in TransmitterPC /\ onLock \in BOOLEAN /\ carried \in BOOLEAN
    /\ tpc \notin {"mix", "emulate"} => mpc = "idle"
    /\ device # None => tpc \in {"prime", "mix", "write"}

\* Whatever becomes of aplay, a source that keeps delivering is heard again
\* and again: neither restarts nor emulation leave its producer blocked.  A
\* zone beyond the channels of the device is drained by emulation alone.
DeliveringSourcePlays ==
    \A l \in Loops :
        []<>(lpc[l] = "enqueue" /\ (carried \/ tpc = "emulate"))
            => []<>(status = "playing" /\ mpc = "pull" /\ queue # <<>>)

\* A device that was started on a lock never begins on the static shift, for
\* Inferno tears its flows down when the clock steps: the frame the broadcast
\* made before the lock cannot overtake the answer to the device's request.
FirstFrameIsMeasured ==
    [][onLock /\ device' # None /\ got = None /\ got' # None => got' # Static]_tvars
=============================================================================
