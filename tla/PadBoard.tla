------------------------------- MODULE PadBoard -------------------------------
(***************************************************************************)
(* What the soundboard promises whoever presses a pad, whatever it caches  *)
(* and decodes to keep it: the press is refused, or from some moment after *)
(* it the zone sounds the pad, from a version its file has had since the   *)
(* press and that can be played.  Nothing else starts a sound or replaces  *)
(* one.  Presses are answered in any order.                                *)
(***************************************************************************)
EXTENDS Naturals

CONSTANTS
    Files, Zones, Clients, None,
    Playable    \* the versions of files that can be played

VARIABLES
    version,    \* how often each file has changed
    pressed,    \* for each client, the press that is not yet answered
    sounding    \* what each zone sounds

Init ==
    /\ version = [f \in Files |-> 0]
    /\ pressed = [c \in Clients |-> {}]
    /\ sounding = [z \in Zones |-> None]

Change(f) ==
    /\ version' = [version EXCEPT ![f] = @ + 1]
    /\ UNCHANGED <<pressed, sounding>>

Press(c, f, z) ==
    /\ pressed[c] = {}
    /\ pressed' = [pressed EXCEPT ![c] = {[sound |-> f, zone |-> z, since |-> version[f]]}]
    /\ UNCHANGED <<version, sounding>>

Answer(c) ==
    /\ pressed[c] # {}
    /\ pressed' = [pressed EXCEPT ![c] = {}]
    /\ UNCHANGED version

Refuse(c) == Answer(c) /\ UNCHANGED sounding

Play(c) ==
    /\ Answer(c)
    /\ \E p \in pressed[c] : \E v \in p.since..version[p.sound] :
        /\ v \in Playable
        /\ sounding' = [sounding EXCEPT ![p.zone] = [sound |-> p.sound, content |-> v]]

\* Sounds end, or are stopped.
Silence(zones) ==
    /\ sounding' = [z \in Zones |-> IF z \in zones THEN None ELSE sounding[z]]
    /\ UNCHANGED <<version, pressed>>

Next ==
    \/ \E f \in Files : Change(f)
    \/ \E c \in Clients : \/ Refuse(c) \/ Play(c)
                          \/ \E f \in Files, z \in Zones : Press(c, f, z)
    \/ \E zones \in SUBSET Zones : Silence(zones)

Spec == Init /\ [][Next]_<<version, pressed, sounding>>
=============================================================================
