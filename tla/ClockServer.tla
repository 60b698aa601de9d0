----------------------------- MODULE ClockServer -----------------------------
(***************************************************************************)
(* The usrvclock server (engine/usrvclock.go), which hands the overlay of  *)
(* the clock discipline to the audio device, a process of its own.  A      *)
(* device asks once; readLoop answers it and then registers it, and        *)
(* broadcastLoop sends every registered device a frame every 250 ms.  Both *)
(* make their frame before they take s.mu, so the two loops, the           *)
(* discipline and the device interleave between frame and write.           *)
(*                                                                         *)
(* A frame is represented by its shift.  Each device that is started has   *)
(* an address of its own, and a write to one that is gone fails.           *)
(***************************************************************************)
EXTENDS MediaClock, FiniteSets

CONSTANTS
    Devices,  \* addresses of audio devices
    None      \* no device, no frame

ASSUME ServerAssumption ==
    /\ None \notin Devices /\ None \notin Shifts \cup {Static}
    /\ Static \notin Shifts

VARIABLES
    device,   \* the audio device that is running
    got,      \* the shift it received last
    asked,    \* requests in the server's socket
    clients,  \* s.clients
    reader,   \* readLoop: where it is, with the request and the frame it holds
    sender    \* broadcastLoop: the frame it has made and not yet sent

audio == <<device, got>>
server == <<asked, clients, reader, sender>>

Reading == [pc |-> "read", dev |-> None, frame |-> None]

ServerInit ==
    /\ device = None /\ got = None
    /\ asked = {} /\ clients = {} /\ reader = Reading /\ sender = None

\* A device comes up under an address the server has not seen.
DeviceStarts ==
    \E d \in Devices \ (asked \cup clients \cup {reader.dev}) :
        device' = d /\ got' = None

DeviceEnds == device' = None /\ got' = None

\* It asks for the clock before it plays.
Ask ==
    /\ device # None /\ got = None /\ reader.dev # device
    /\ asked' = asked \cup {device}
    /\ UNCHANGED <<audio, clients, reader, sender>>

\* Mutant: the client is registered before it is answered.
ReadRequestRegisters(d) ==
    /\ reader.pc = "read" /\ d \in asked
    /\ asked' = asked \ {d} /\ clients' = clients \cup {d}
    /\ reader' = [pc |-> "write", dev |-> d, frame |-> shift]
    /\ UNCHANGED <<audio, sender>>

\* readLoop receives a request and makes the frame that answers it, ...
ReadRequest(d) ==
    /\ reader.pc = "read" /\ d \in asked
    /\ asked' = asked \ {d}
    /\ reader' = [pc |-> "write", dev |-> d, frame |-> shift]
    /\ UNCHANGED <<audio, clients, sender>>

\* ... sends it, whatever comes of that, ...
Answer ==
    /\ reader.pc = "write"
    /\ got' = IF reader.dev = device THEN reader.frame ELSE got
    /\ reader' = [pc |-> "register", dev |-> reader.dev, frame |-> None]
    /\ UNCHANGED <<device, asked, clients, sender>>

\* Mutant: only the request is answered.
RegisterNothing ==
    /\ reader.pc = "register"
    /\ reader' = Reading
    /\ UNCHANGED <<audio, asked, clients, sender>>

\* ... and registers the client.
Register ==
    /\ reader.pc = "register"
    /\ clients' = clients \cup {reader.dev}
    /\ reader' = Reading
    /\ UNCHANGED <<audio, asked, sender>>

\* The ticker of broadcastLoop: the frame is made before the lock is taken.
MakeFrame ==
    /\ sender = None
    /\ sender' = shift
    /\ UNCHANGED <<audio, asked, clients, reader>>

\* Under the lock every client is written to; one that is gone is dropped.
Broadcast ==
    /\ sender # None
    /\ got' = IF device \in clients THEN sender ELSE got
    /\ clients' = clients \cap {device}
    /\ sender' = None
    /\ UNCHANGED <<device, asked, reader>>

Serve ==
    \/ \E d \in Devices : ReadRequest(d)
    \/ Answer \/ Register

Tell == MakeFrame \/ Broadcast

ServerTypeOK ==
    /\ shift \in Shifts \cup {Static} /\ acquired \in BOOLEAN
    /\ device \in Devices \cup {None}
    /\ got \in Shifts \cup {Static, None}
    /\ asked \subseteq Devices /\ clients \subseteq Devices
    /\ reader \in [pc : {"read", "write", "register"}, dev : Devices \cup {None},
                   frame : Shifts \cup {Static, None}]
    /\ sender \in Shifts \cup {Static, None}

-----------------------------------------------------------------------------
\* A device that stays up ends with the shift that is served, although either
\* loop may send it a frame made before the shift last changed.
DeviceFollows ==
    \A d \in Devices, s \in Shifts :
        <>[](device = d /\ shift = s) => <>[](got = s)
=============================================================================
