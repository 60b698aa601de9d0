-------------------------- MODULE TransmitterProofs --------------------------
(***************************************************************************)
(* Theorems about the transmitter, for any number of devices and shifts    *)
(* and whatever the zone does.                                             *)
(***************************************************************************)
EXTENDS Transmitter, ZoneProofs, TLAPS

(* The request loop holds a frame from the receipt of a request to its answer. *)
ReaderOK ==
    /\ reader.pc = "write" => reader.frame # None
    /\ reader \in [pc : {"read", "write", "register"}, dev : Devices \cup {None},
                   frame : Shifts \cup {Static, None}]

(* Where a device that has received nothing yet may be known. *)
Unanswered ==
    device # None /\ got = None =>
        /\ device \notin clients
        /\ reader.dev = device => reader.pc = "write"

(* The answer on its way to a device that was started on a lock. *)
AnswerMeasured ==
    onLock /\ device # None /\ reader.dev = device /\ reader.pc = "write"
        => reader.frame # Static

(* What a lock means once the transmitter has seen it. *)
LockMeans ==
    /\ shift \in Shifts \cup {Static}
    /\ acquired => shift \in Shifts
    /\ onLock => acquired
    /\ tpc = "lock" => device = None

StartInv == ReaderOK /\ Unanswered /\ AnswerMeasured /\ LockMeans

(* The steps of the zone and of its producer leave the clock alone. *)
LEMMA StartInvInductive ==
    ASSUME StartInv, [TNext]_tvars
    PROVE  StartInv'
<1> USE ServerAssumption DEF StartInv, ReaderOK, Unanswered, AnswerMeasured, LockMeans,
        clock, audio, server, loop
<1>1. CASE Transmit
  <2> USE DEF TGoto, Quiet
  <2>1. CASE Locked
    BY <2>1 DEF Locked
  <2>2. CASE LockTimesOut \/ StartAplayFails \/ WriteSilence \/ SkipPull \/ WriteBlock
             \/ WriteBlockFails
    BY <2>2 DEF LockTimesOut, StartAplayFails, WriteSilence, SkipPull, WriteBlock,
       WriteBlockFails
  <2>3. CASE StartAplay
    <3>1. PICK d \in Devices \ (asked \cup clients \cup {reader.dev}) :
              device' = d /\ got' = None
      BY <2>3 DEF StartAplay, DeviceStarts
    <3>2. d # None /\ d \notin clients /\ reader.dev # d
      BY <3>1
    <3>3. /\ tpc' = "prime"
          /\ UNCHANGED <<reader, clients, shift, acquired, onLock>>
      BY <2>3 DEF StartAplay
    <3>4. QED
      BY <3>1, <3>2, <3>3
  <2>4. CASE PullStep
    BY <2>4 DEF PullStep
  <2>5. CASE RestartAplay
    BY <2>5 DEF RestartAplay, DeviceEnds
  <2>6. QED
    BY <1>1, <2>1, <2>2, <2>3, <2>4, <2>5 DEF Transmit
<1>2. CASE AplayDies
  BY <1>2 DEF AplayDies, DeviceEnds, Quiet
<1>3. CASE Discipline
  BY <1>3 DEF Discipline, ClockNext, Acquire, Adjust
<1>4. CASE Clients
  <2>1. UNCHANGED <<loop, clock>>
    BY <1>4 DEF Clients
  <2>2. CASE Ask
    BY <2>1, <2>2 DEF Ask
  <2>3. CASE \E d \in Devices : ReadRequest(d)
    <3>1. PICK d \in Devices : ReadRequest(d)
      BY <2>3
    <3>2. /\ reader' = [pc |-> "write", dev |-> d, frame |-> shift]
          /\ UNCHANGED <<device, got, clients>>
      BY <3>1 DEF ReadRequest
    <3>3. reader'.pc = "write" /\ reader'.dev = d /\ reader'.frame = shift
      BY <3>2
    <3>4. UNCHANGED <<tpc, onLock, shift, acquired>>
      BY <2>1
    <3>5. LockMeans'
      BY <3>2, <3>4
    <3>6. onLock => shift # Static
      BY Zenon
    <3>7. AnswerMeasured'
      BY <3>3, <3>4, <3>6
    <3>8. Unanswered'
      BY <3>2, <3>3
    <3>9. QED
      BY <3>2, <3>5, <3>7, <3>8
  <2>4. CASE Answer
    <3>1. /\ reader.pc = "write" /\ reader'.pc = "register" /\ reader'.dev = reader.dev
          /\ UNCHANGED <<device, clients>>
          /\ got' = IF reader.dev = device THEN reader.frame ELSE got
      BY <2>4 DEF Answer
    <3>2. LockMeans'
      BY <2>1, <2>4 DEF Answer
    <3>3. AnswerMeasured'
      BY <3>1
    <3>4. ReaderOK'
      BY <2>4 DEF Answer
    <3>5. reader.dev = device => got' # None
      BY <3>1
    <3>6. QED
      BY <3>1, <3>2, <3>3, <3>4, <3>5
  <2>5. CASE Register
    BY <2>1, <2>5 DEF Register, Reading
  <2>6. CASE MakeFrame
    BY <2>1, <2>6 DEF MakeFrame
  <2>7. CASE Broadcast
    BY <2>1, <2>7 DEF Broadcast
  <2>8. QED
    BY <1>4, <2>2, <2>3, <2>4, <2>5, <2>6, <2>7 DEF Clients, Serve, Tell
<1>5. CASE \E l \in Loops : Feed(l)
  BY <1>5 DEF Feed
<1>6. CASE UNCHANGED tvars
  BY <1>6 DEF tvars
<1>7. QED
  BY <1>1, <1>2, <1>3, <1>4, <1>5, <1>6 DEF TNext

(* A step that gives a device its first frame after a start on a lock gives it
   a measured shift. *)
LEMMA FirstFrameStep ==
    ASSUME StartInv, [TNext]_tvars,
           onLock, device' # None, got = None, got' # None
    PROVE  got' # Static
<1> USE ServerAssumption DEF StartInv, Unanswered, AnswerMeasured,
        clock, audio, server, loop, TGoto, Quiet
<1>1. CASE Answer /\ UNCHANGED <<loop, clock>>
  <2>1. reader.dev = device /\ got' = reader.frame
    BY <1>1 DEF Answer
  <2>2. device # None /\ reader.pc = "write"
    BY <1>1 DEF Answer
  <2>3. QED
    BY <2>1, <2>2
<1>2. CASE Broadcast
  BY <1>2 DEF Broadcast
<1>3. CASE Ask \/ MakeFrame \/ Register \/ \E d \in Devices : ReadRequest(d)
  BY <1>3 DEF Ask, MakeFrame, Register, ReadRequest
<1>4. CASE Transmit
  BY <1>4 DEF Transmit, Locked, LockTimesOut, StartAplay, DeviceStarts, StartAplayFails,
     WriteSilence, PullStep, SkipPull, WriteBlock, WriteBlockFails, RestartAplay,
     DeviceEnds
<1>5. CASE AplayDies \/ Discipline \/ (\E l \in Loops : Feed(l)) \/ UNCHANGED tvars
  BY <1>5 DEF AplayDies, DeviceEnds, Discipline, Feed, tvars
<1>6. QED
  BY <1>1, <1>2, <1>3, <1>4, <1>5 DEF TNext, Clients, Serve, Tell

LEMMA StartInvariant == TSpec => []StartInv
<1>1. TInit => StartInv
  BY ServerAssumption DEF TInit, ClockInit, ServerInit, Reading, StartInv, ReaderOK,
     Unanswered, AnswerMeasured, LockMeans
<1>2. StartInv /\ [TNext]_tvars => StartInv'
  BY StartInvInductive
<1>3. QED
  BY <1>1, <1>2, PTL DEF TSpec

(* However long aplay takes to start and however late a frame is sent, a device
   that was started on a lock never begins on the static shift. *)
THEOREM TransmissionStartsMeasured == TSpec => FirstFrameIsMeasured
<1>1. StartInv /\ [TNext]_tvars =>
          [onLock /\ device' # None /\ got = None /\ got' # None => got' # Static]_tvars
  BY FirstFrameStep
<1>2. QED
  BY <1>1, StartInvariant, PTL DEF TSpec, FirstFrameIsMeasured

-----------------------------------------------------------------------------
(* The loop only pulls the zone, and its audio device only asks the server:
   what holds of every zone holds of a zone in its transmitter. *)
THEOREM TransmitterKeepsZone == TSpec => Spec
<1>1. TInit => Init
  BY DEF TInit
<1>2. [TNext]_tvars => [Next]_vars
  <2> SUFFICES ASSUME [TNext]_tvars
               PROVE  [Next]_vars
    OBVIOUS
  <2>1. CASE Transmit
    BY <2>1 DEF Transmit, Locked, LockTimesOut, StartAplay, StartAplayFails,
       WriteSilence, PullStep, SkipPull, WriteBlock, WriteBlockFails, RestartAplay, Quiet,
       Next
  <2>2. CASE AplayDies \/ Discipline \/ Clients \/ UNCHANGED tvars
    BY <2>2 DEF AplayDies, Discipline, Clients, Quiet, tvars
  <2>3. CASE \E l \in Loops : Feed(l)
    BY <2>3 DEF Feed, Next
  <2>4. QED
    BY <2>1, <2>2, <2>3 DEF TNext
<1>3. QED
  BY <1>1, <1>2, PTL DEF TSpec, Spec

(* Where the loop is when the zone is being pulled and when aplay runs; a zone
   without channels is not being pulled while the loop mixes. *)
TransmitterOK ==
    /\ ServerTypeOK
    /\ reader.pc # "read" => reader.dev \in Devices
    /\ tpc \in TransmitterPC /\ onLock \in BOOLEAN /\ carried \in BOOLEAN
    /\ tpc \notin {"mix", "emulate"} => mpc = "idle"
    /\ tpc = "mix" /\ ~carried => mpc = "idle"
    /\ device # None => tpc \in {"prime", "mix", "write"}

LEMMA TransmitterStep ==
    ASSUME TransmitterOK, [TNext]_tvars
    PROVE  TransmitterOK'
<1> USE ServerAssumption DEF TransmitterOK, ServerTypeOK, TransmitterPC, clock, audio,
        server, loop
<1>1. CASE Transmit
  <2> USE DEF TGoto, Quiet, vars
  <2>1. CASE Locked
    BY <2>1 DEF Locked
  <2>2. CASE LockTimesOut \/ StartAplayFails \/ WriteSilence
    BY <2>2 DEF LockTimesOut, StartAplayFails, WriteSilence
  <2>3. CASE StartAplay
    BY <2>3 DEF StartAplay, DeviceStarts
  <2>4. CASE PullStep
    BY <2>4 DEF PullStep
  <2>5. CASE RestartAplay
    BY <2>5 DEF RestartAplay, DeviceEnds
  <2>6. CASE WriteBlock \/ WriteBlockFails
    BY <2>6 DEF WriteBlock, WriteBlockFails
  <2>7. CASE SkipPull
    <3>1. /\ tpc = "mix" /\ tpc' = "write" /\ ~carried
          /\ UNCHANGED <<onLock, carried, mpc, shift, acquired, device, got, asked,
                         clients, reader, sender>>
      BY <2>7, Zenon DEF SkipPull
    <3>2. QED
      BY <3>1
  <2>8. QED
    BY <1>1, <2>1, <2>2, <2>3, <2>4, <2>5, <2>6, <2>7 DEF Transmit
<1>2. CASE AplayDies
  BY <1>2 DEF AplayDies, DeviceEnds, Quiet, vars
<1>3. CASE Discipline
  <2>1. UNCHANGED <<tpc, onLock, carried, mpc, device, got, asked, clients, reader, sender>>
    BY <1>3 DEF Discipline, vars
  <2>2. shift' \in Shifts /\ acquired' \in BOOLEAN
    BY <1>3 DEF Discipline, ClockNext, Acquire, Adjust
  <2>3. QED
    BY <2>1, <2>2
<1>4. CASE Clients
  <2>1. UNCHANGED <<tpc, onLock, carried, shift, acquired, mpc>>
    BY <1>4 DEF Clients, vars
  <2>2. CASE Ask
    BY <2>1, <2>2 DEF Ask
  <2>3. CASE \E d \in Devices : ReadRequest(d)
    BY <2>1, <2>3 DEF ReadRequest
  <2>4. CASE Answer
    BY <2>1, <2>4 DEF Answer
  <2>5. CASE Register
    <3>1. reader.dev \in Devices
      BY <2>5 DEF Register
    <3>2. /\ clients' = clients \cup {reader.dev} /\ UNCHANGED <<device, got, asked, sender>>
          /\ reader' = [pc |-> "read", dev |-> None, frame |-> None]
      BY <2>5 DEF Register, Reading
    <3>3. clients' \subseteq Devices
      BY <2>5, <3>1, <3>2
    <3>4. QED
      BY <2>1, <3>2, <3>3
  <2>6. CASE MakeFrame
    BY <2>1, <2>6 DEF MakeFrame
  <2>7. CASE Broadcast
    BY <2>1, <2>7 DEF Broadcast
  <2>8. QED
    BY <1>4, <2>2, <2>3, <2>4, <2>5, <2>6, <2>7 DEF Clients, Serve, Tell
<1>5. CASE \E l \in Loops : Feed(l)
  <2>1. PICK l \in Loops : Feed(l)
    BY <1>5
  <2>2. mpc' = mpc
    BY <2>1 DEF Feed, LoopRuns, Decoder, LoopTop, LoopArm, LoopStart, EnqueueSend,
       EnqueueCancelled, EnqueueFull, EnqueueEvict, EnqueueForce, LoopEnded,
       BackoffEnds, BackoffCancelled, DecodeRead, DecodeEnd
  <2>3. QED
    BY <2>1, <2>2 DEF Feed
<1>6. CASE UNCHANGED tvars
  BY <1>6 DEF tvars, vars
<1>7. QED
  BY <1>1, <1>2, <1>3, <1>4, <1>5, <1>6 DEF TNext

(* The composition keeps the types of its parts; the zone is pulled only while
   the loop mixes or emulates, and aplay runs only while the loop feeds it. *)
THEOREM TransmitterTypeCorrect == TSpec => []TTypeOK
<1>1. TInit => TransmitterOK
  <2>1. TInit => /\ ServerTypeOK
                 /\ reader.pc = "read"
    <3>1. Reading \in [pc : {"read", "write", "register"}, dev : Devices \cup {None},
                       frame : Shifts \cup {Static, None}]
      BY DEF Reading
    <3>2. Reading.pc = "read"
      BY DEF Reading
    <3>3. QED
      BY <3>1, <3>2 DEF TInit, ClockInit, ServerInit, ServerTypeOK
  <2>2. TInit => /\ tpc = "lock" /\ onLock = FALSE /\ carried \in BOOLEAN
                 /\ mpc = "idle" /\ device = None
    BY DEF TInit, Init, ServerInit
  <2>3. QED
    BY <2>1, <2>2 DEF TransmitterOK, TransmitterPC
<1>2. TransmitterOK /\ [TNext]_tvars => TransmitterOK'
  BY TransmitterStep
<1>3. TypeOK /\ TransmitterOK => TTypeOK
  BY DEF TransmitterOK, TTypeOK
<1>4. QED
  BY <1>1, <1>2, <1>3, TransmitterKeepsZone, TypeCorrect, PTL DEF TSpec

(* What is proved of a zone holds of a zone in its transmitter, whatever aplay,
   its restarts and the emulation do to the pulls. *)
THEOREM ZoneStaysSafe ==
    TSpec => /\ KeepsChannel
             /\ [](PrimedMeansPlaying /\ OnlyCancelledLoopsEnd)
<1>1. Undisputed
  BY TransmitterAssumption DEF Undisputed
<1>2. Spec => KeepsChannel
  BY <1>1, ZoneImplementsChannel
<1>3. QED
  BY <1>2, TransmitterKeepsZone, PrimedZoneReportsPlaying, NeverGivesUp, PTL

-----------------------------------------------------------------------------
(* A device that has been answered is, or is about to be, among the clients of
   the broadcast, and no second answer is on its way to it. *)
AnsweredIsServed ==
    device # None /\ got # None =>
        /\ device \in clients \/ reader.dev = device
        /\ device \notin asked
        /\ reader.dev = device => reader.pc = "register"

(* A request that the loop is working on is not in the socket any more. *)
AskedOnce == device # None /\ reader.dev = device => device \notin asked

AnsweredInv ==
    /\ reader \in [pc : {"read", "write", "register"}, dev : Devices \cup {None},
                   frame : Shifts \cup {Static, None}]
    /\ reader.pc = "read" => reader.dev = None
    /\ AnsweredIsServed /\ AskedOnce

LEMMA AnsweredStep ==
    ASSUME ServerTypeOK, Unanswered, AnsweredInv, [TNext]_tvars
    PROVE  AnsweredInv'
<1> USE ServerAssumption DEF AnsweredInv, AnsweredIsServed, AskedOnce, clock, audio, server
<1>1. CASE Transmit
  <2> USE DEF TGoto, Quiet
  <2>1. CASE StartAplay
    <3>1. PICK d \in Devices \ (asked \cup clients \cup {reader.dev}) :
              device' = d /\ got' = None
      BY <2>1 DEF StartAplay, DeviceStarts
    <3>2. UNCHANGED <<reader, asked>>
      BY <2>1 DEF StartAplay
    <3>3. QED
      BY <3>1, <3>2
  <2>2. CASE RestartAplay
    BY <2>2 DEF RestartAplay, DeviceEnds
  <2>3. CASE Locked \/ LockTimesOut \/ StartAplayFails \/ WriteSilence \/ PullStep
             \/ SkipPull \/ WriteBlock \/ WriteBlockFails
    BY <2>3 DEF Locked, LockTimesOut, StartAplayFails, WriteSilence, PullStep,
       SkipPull, WriteBlock, WriteBlockFails
  <2>4. QED
    BY <1>1, <2>1, <2>2, <2>3 DEF Transmit
<1>2. CASE AplayDies
  BY <1>2 DEF AplayDies, DeviceEnds, Quiet
<1>3. CASE Discipline \/ (\E l \in Loops : Feed(l)) \/ UNCHANGED tvars
  BY <1>3 DEF Discipline, Feed, tvars
<1>4. CASE Clients
  <2>1. CASE Ask
    BY <2>1 DEF Ask
  <2>2. CASE \E d \in Devices : ReadRequest(d)
    <3>1. PICK d \in Devices : ReadRequest(d)
      BY <2>2
    <3>2. /\ d \in asked /\ asked' = asked \ {d}
          /\ reader' = [pc |-> "write", dev |-> d, frame |-> shift]
          /\ shift \in Shifts \cup {Static} /\ reader.dev = None
          /\ UNCHANGED <<device, got, clients>>
      BY <3>1 DEF ReadRequest, ServerTypeOK
    <3>3. /\ reader' \in [pc : {"read", "write", "register"}, dev : Devices \cup {None},
                          frame : Shifts \cup {Static, None}]
          /\ reader'.pc = "write" /\ reader'.dev = d
      BY <3>2
    <3>4. QED
      BY <3>2, <3>3
  <2>3. CASE Answer
    <3>1. /\ reader.pc = "write"
          /\ got' = IF reader.dev = device THEN reader.frame ELSE got
          /\ reader' = [pc |-> "register", dev |-> reader.dev, frame |-> None]
          /\ UNCHANGED <<device, asked, clients>>
      BY <2>3 DEF Answer
    <3>2. /\ reader' \in [pc : {"read", "write", "register"}, dev : Devices \cup {None},
                          frame : Shifts \cup {Static, None}]
          /\ reader'.pc = "register" /\ reader'.dev = reader.dev
      BY <3>1
    <3>3. QED
      BY <3>1, <3>2
  <2>4. CASE Register
    <3>1. /\ clients' = clients \cup {reader.dev} /\ UNCHANGED <<device, got, asked>>
          /\ reader' = [pc |-> "read", dev |-> None, frame |-> None]
      BY <2>4 DEF Register, Reading
    <3>2. /\ reader' \in [pc : {"read", "write", "register"}, dev : Devices \cup {None},
                          frame : Shifts \cup {Static, None}]
          /\ reader'.pc = "read" /\ reader'.dev = None
      BY <3>1
    <3>3. QED
      BY <3>1, <3>2
  <2>5. CASE MakeFrame
    BY <2>5 DEF MakeFrame
  <2>6. CASE Broadcast
    <3>1. /\ got' = IF device \in clients THEN sender ELSE got
          /\ clients' = clients \cap {device}
          /\ UNCHANGED <<device, asked, reader>>
      BY <2>6 DEF Broadcast
    <3>2. CASE device # None /\ device \in clients
      <4>1. got # None
        BY <3>2 DEF Unanswered
      <4>2. QED
        BY <3>1, <3>2, <4>1
    <3>3. CASE device = None \/ device \notin clients
      BY <3>1, <3>3
    <3>4. QED
      BY <3>2, <3>3
  <2>7. QED
    BY <1>4, <2>1, <2>2, <2>3, <2>4, <2>5, <2>6 DEF Clients, Serve, Tell
<1>5. QED
  BY <1>1, <1>2, <1>3, <1>4 DEF TNext

(* However the two loops of the server, aplay and its restarts interleave, no
   device that was answered is forgotten by the broadcast and none is answered a
   second time: from the answer on only the broadcast speaks to it. *)
THEOREM NoDeviceForgotten == TSpec => []AnsweredIsServed
<1>1. TInit => AnsweredInv
  <2>1. /\ Reading \in [pc : {"read", "write", "register"}, dev : Devices \cup {None},
                        frame : Shifts \cup {Static, None}]
        /\ Reading.dev = None
    BY DEF Reading
  <2>2. QED
    BY <2>1 DEF TInit, ServerInit, AnsweredInv, AnsweredIsServed, AskedOnce
<1>2. TTypeOK /\ StartInv /\ AnsweredInv /\ [TNext]_tvars => AnsweredInv'
  BY AnsweredStep DEF TTypeOK, StartInv
<1>3. AnsweredInv => AnsweredIsServed
  BY DEF AnsweredInv
<1>4. QED
  BY <1>1, <1>2, <1>3, TransmitterTypeCorrect, StartInvariant, PTL DEF TSpec
=============================================================================
