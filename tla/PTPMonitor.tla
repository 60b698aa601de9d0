----------------------------- MODULE PTPMonitor -----------------------------
(***************************************************************************)
(* The passive PTPv1 listener (engine/ptpv1.go, PTPMonitor).  Two read     *)
(* loops share it: one receives Sync on the event port, the other          *)
(* Follow_Up on the general port.  Each takes one packet at a time and     *)
(* handles it in several critical sections, so the two interleave.         *)
(*                                                                         *)
(* A measurement is represented by where it came from and how long ago its *)
(* Sync was received; the fit itself (two least-squares passes over        *)
(* float64) never fails once there are ptpMinSamplesForFit samples.  Time  *)
(* passes in units of the expiry ticker.                                   *)
(*                                                                         *)
(* The network is the environment: packets are lost, delayed and reordered *)
(* until it is calm.                                                       *)
(***************************************************************************)
EXTENDS Integers, Sequences, FiniteSets, FiniteSetsExt

CONSTANTS
    Masters,      \* clocks that may act as grandmaster
    TwoStep,      \* those that send a Follow_Up
    Assist,       \* those that also announce it with the assist flag
    None,
    MinSamples, Window, SampleMaxAge, PendingMaxAge, Holdover,
    SeqMod,       \* sequence ids wrap (65536 in the packets)
    Laps,         \* model: sends are told apart over this many wraps
    Weathers,     \* model: whether the network may become calm
    MaxDelay,     \* bound: units a packet may spend in the network
    MaxAir        \* bound: packets in the network

ASSUME PTPAssumption ==
    /\ Assist \subseteq TwoStep /\ TwoStep \subseteq Masters
    /\ None \notin Masters
    /\ MinSamples \in Nat \ {0} /\ Window \in Nat /\ Window >= MinSamples
    /\ SampleMaxAge \in Nat /\ PendingMaxAge \in Nat /\ Holdover \in Nat
    /\ SeqMod \in Nat \ {0} /\ Laps \in Nat \ {0}
    /\ Weathers \subseteq BOOLEAN
    /\ MaxDelay \in Nat /\ MaxAir \in Nat

VARIABLES
    samples,   \* m.samples
    locked,    \* m.locked
    twoStep,   \* m.twoStep
    masterID,  \* m.masterID
    lastSync,  \* time since m.lastSync
    pending,   \* m.pending, as a set of entries with distinct keys
    ev,        \* the event port's read loop: its packet and where it is
    fu,        \* the general port's read loop, the same
    expireDue, \* the ticker of expirePending has fired
    air,       \* packets in the network or in a socket buffer
    next,      \* the next send of each master
    due,       \* the send of which a master still owes the Follow_Up
    sent,      \* masters that have sent a Sync in this unit
    active,    \* clocks that act as grandmaster now
    calm       \* the network neither loses, delays nor reorders

monitor == <<samples, locked, twoStep, masterID, lastSync, pending>>
loops == <<ev, fu>>
network == <<air, next, due, sent, active, calm>>
vars == <<monitor, loops, expireDue, network>>

Sends == 0..(SeqMod * Laps - 1)
SeqID(id) == id % SeqMod

\* Ages saturate where no comparison can tell them apart any more.
OldAge == SampleMaxAge + 2 * PendingMaxAge + 3
Older(a, cap) == IF a < cap THEN a + 1 ELSE cap

Idle == [pc |-> "recv", src |-> None, id |-> 0, of |-> 0, age |-> 0]

Init ==
    /\ samples = <<>> /\ locked = FALSE /\ twoStep = FALSE
    /\ masterID = None /\ lastSync = Holdover + 1 /\ pending = {}
    /\ ev = Idle /\ fu = Idle /\ expireDue = FALSE
    /\ air = {} /\ next = [m \in Masters |-> 0]
    /\ due = [m \in Masters |-> None]
    /\ sent = {} /\ active = {} /\ calm = FALSE

-----------------------------------------------------------------------------
(* addSample and refit, one critical section. *)

\* Mutant: the window is only limited in length.
RetainedForEver(s, age) ==
    SubSeq(s, IF Len(s) > Window THEN Len(s) - Window + 1 ELSE 1, Len(s))

\* Mutant: the window may hold one sample too many.
RetainedOneMore(s, age) ==
    LET recent == {i \in 1..Len(s) : s[i].age <= age + SampleMaxAge}
        first  == IF recent = {} THEN Len(s) + 1 ELSE Min(recent)
        last   == Len(s) - Window
    IN SubSeq(s, IF first < last THEN last ELSE first, Len(s))

\* The window after a measurement of the given age: the samples before the
\* first that is recent enough go, then those beyond the window's length.
Retained(s, age) ==
    LET recent == {i \in 1..Len(s) : s[i].age <= age + SampleMaxAge}
        first  == IF recent = {} THEN Len(s) + 1 ELSE Min(recent)
        last   == Len(s) - Window + 1
    IN SubSeq(s, IF first < last THEN last ELSE first, Len(s))

\* refit finds a line once there are enough samples: lsqFit wants two of them,
\* and falls back to the phase alone when they share a timestamp.
Fitted(s) == Len(s) >= MinSamples

AddSample(src, age) ==
    /\ lastSync' = 0
    /\ samples' = Retained(Append(samples, [src |-> src, age |-> age]), age)
    /\ locked' = Fitted(samples')

\* Mutant: the clock a Sync came from is not recorded.
NoteMasterForgets(m) ==
    /\ masterID' = masterID
    /\ IF masterID = m
       THEN UNCHANGED <<samples, locked>>
       ELSE samples' = <<>> /\ locked' = FALSE

\* A Sync from another clock drops the fit.
NoteMaster(m) ==
    /\ masterID' = m
    /\ IF masterID = m
       THEN UNCHANGED <<samples, locked>>
       ELSE samples' = <<>> /\ locked' = FALSE

(* The event port's read loop. *)

SyncNote ==
    /\ ev.pc = "recv"
    /\ \E p \in air :
        /\ p.kind = "sync"
        /\ air' = air \ {p}
        /\ NoteMaster(p.src)
        /\ ev' = [pc |-> "decide", src |-> p.src, id |-> p.id, of |-> p.id, age |-> 0]
    /\ UNCHANGED <<twoStep, lastSync, pending, fu, expireDue, next, due, sent,
                   active, calm>>

\* assist || m.isTwoStep()
SyncDecide ==
    /\ ev.pc = "decide"
    /\ ev' = [ev EXCEPT !.pc =
                IF ev.src \in Assist \/ twoStep THEN "pend" ELSE "sample"]
    /\ UNCHANGED <<monitor, fu, expireDue, network>>

SameKey(p, src, id) == p.src = src /\ SeqID(p.id) = SeqID(id)

SyncPend ==
    /\ ev.pc = "pend"
    /\ pending' = {p \in pending : ~SameKey(p, ev.src, ev.id)}
                    \cup {[src |-> ev.src, id |-> ev.id, age |-> 0]}
    /\ ev' = Idle
    /\ UNCHANGED <<samples, locked, twoStep, masterID, lastSync, fu, expireDue,
                   network>>

SyncSample ==
    /\ ev.pc = "sample"
    /\ AddSample(ev.src, ev.age)
    /\ ev' = Idle
    /\ UNCHANGED <<twoStep, masterID, pending, fu, expireDue, network>>

EventLoop == SyncNote \/ SyncDecide \/ SyncPend \/ SyncSample

(* The general port's read loop. *)

FollowUpLatch ==
    /\ fu.pc = "recv"
    /\ \E p \in air :
        /\ p.kind = "followup"
        /\ air' = air \ {p}
        /\ fu' = [pc |-> "pair", src |-> p.src, id |-> p.id, of |-> p.id, age |-> 0]
    /\ twoStep' = TRUE
    /\ UNCHANGED <<samples, locked, masterID, lastSync, pending, ev, expireDue,
                   next, due, sent, active, calm>>

FollowUpPair ==
    /\ fu.pc = "pair"
    /\ LET found == {p \in pending : SameKey(p, fu.src, fu.id)}
       IN /\ pending' = pending \ found
          /\ \/ found = {} /\ fu' = Idle
             \/ \E p \in found :
                  fu' = [fu EXCEPT !.pc = "sample", !.age = p.age, !.of = p.id]
    /\ UNCHANGED <<samples, locked, twoStep, masterID, lastSync, ev, expireDue,
                   network>>

FollowUpSample ==
    /\ fu.pc = "sample"
    /\ AddSample(fu.src, fu.age)
    /\ fu' = Idle
    /\ UNCHANGED <<twoStep, masterID, pending, ev, expireDue, network>>

GeneralLoop == FollowUpLatch \/ FollowUpPair \/ FollowUpSample

\* Mutant: the ticker finds nothing to expire.
ExpireNothing ==
    /\ expireDue /\ expireDue' = FALSE
    /\ UNCHANGED <<monitor, loops, network>>

\* expirePending, on its ticker.
Expire ==
    /\ expireDue /\ expireDue' = FALSE
    /\ pending' = {p \in pending : p.age <= PendingMaxAge}
    /\ UNCHANGED <<samples, locked, twoStep, masterID, lastSync, loops, network>>

\* Mutant: a lock never lapses.
EstimableForEver == locked

\* What Estimate returns ok for, and Stats reports as locked.
Estimable == locked /\ lastSync <= Holdover

-----------------------------------------------------------------------------
(* The environment: grandmasters, the network, and time. *)

\* The ids of a clock that sends no Follow_Up are never looked up.
SendSync(m) ==
    /\ m \in active \ sent /\ due[m] = None /\ Cardinality(air) < MaxAir
    /\ air' = air \cup {[kind |-> "sync", src |-> m, id |-> next[m], age |-> 0]}
    /\ next' = IF m \in TwoStep
               THEN [next EXCEPT ![m] = (@ + 1) % (SeqMod * Laps)] ELSE next
    /\ due' = IF m \in TwoStep THEN [due EXCEPT ![m] = next[m]] ELSE due
    /\ sent' = sent \cup {m}
    /\ UNCHANGED <<monitor, loops, expireDue, active, calm>>

\* A calm network delivers the Follow_Up after its Sync has been handled.
SendFollowUp(m) ==
    /\ due[m] # None /\ Cardinality(air) < MaxAir
    /\ calm => ev.pc = "recv" /\ \A p \in air : p.kind # "sync"
    /\ air' = air \cup {[kind |-> "followup", src |-> m, id |-> due[m], age |-> 0]}
    /\ due' = [due EXCEPT ![m] = None]
    /\ UNCHANGED <<monitor, loops, expireDue, next, sent, active, calm>>

Lose ==
    /\ ~calm
    /\ \E p \in air : air' = air \ {p}
    /\ UNCHANGED <<monitor, loops, expireDue, next, due, sent, active, calm>>

\* An election: clocks start and stop acting as grandmaster.
Elect ==
    /\ active' \in SUBSET Masters /\ active' # active
    /\ due' = [m \in Masters |-> IF m \in active' THEN due[m] ELSE None]
    /\ UNCHANGED <<monitor, loops, expireDue, air, next, sent, calm>>

Weather ==
    /\ calm' \in Weathers /\ calm' # calm
    /\ UNCHANGED <<monitor, loops, expireDue, air, next, due, sent, active>>

\* A unit of time: longer than the handling of a packet, and no longer than
\* the send interval of a master.  In a calm network every active master
\* sends and every packet arrives within it.
Pass ==
    /\ ev.pc = "recv" /\ fu.pc = "recv" /\ ~expireDue
    /\ \A p \in air : p.age < MaxDelay
    /\ calm => /\ air = {} /\ active \subseteq sent
               /\ \A m \in active : due[m] = None
    /\ expireDue' = TRUE /\ sent' = {}
    /\ lastSync' = Older(lastSync, Holdover + 1)
    /\ samples' = [i \in DOMAIN samples |->
                    [samples[i] EXCEPT !.age = Older(@, OldAge)]]
    /\ pending' = {[p EXCEPT !.age = Older(@, OldAge)] : p \in pending}
    /\ air' = {[p EXCEPT !.age = @ + 1] : p \in air}
    /\ UNCHANGED <<locked, twoStep, masterID, loops, next, due, active, calm>>

Environment ==
    \/ \E m \in Masters : SendSync(m) \/ SendFollowUp(m)
    \/ Lose \/ Elect \/ Weather

Next == EventLoop \/ GeneralLoop \/ Expire \/ Pass \/ Environment

Spec == Init /\ [][Next]_vars

\* The read loops and the ticker run; time passes; a grandmaster sends.
FairSpec ==
    /\ Spec
    /\ WF_vars(EventLoop) /\ WF_vars(GeneralLoop) /\ WF_vars(Expire)
    /\ WF_vars(Pass)
    /\ \A m \in Masters : WF_vars(SendSync(m)) /\ WF_vars(SendFollowUp(m))

-----------------------------------------------------------------------------
Sample == [src : Masters, age : 0..OldAge]
Entry == [src : Masters, id : Sends, age : 0..OldAge]
Packet == [kind : {"sync", "followup"}, src : Masters, id : Sends, age : 0..MaxDelay]
Handling == [pc : {"recv", "decide", "pend", "pair", "sample"},
             src : Masters \cup {None}, id : Sends, age : 0..OldAge, of : Sends]

TypeOK ==
    /\ samples \in Seq(Sample) /\ Len(samples) <= Window
    /\ lastSync \in 0..(Holdover + 1)
    /\ masterID \in Masters \cup {None}
    /\ pending \subseteq Entry
    /\ \A p, q \in pending : SameKey(p, q.src, q.id) => p = q
    /\ ev \in Handling /\ fu \in Handling
    /\ air \subseteq Packet

\* The clock is locked exactly when the window holds enough measurements,
\* through master changes, outages and the interleaving of the read loops.
LockedWhenFitted == locked <=> Len(samples) >= MinSamples

\* A measurement pairs a Follow_Up with the Sync it belongs to, although the
\* sequence id that links them wraps and either packet may have been lost.
PairedSamples == fu.pc = "sample" => fu.of = fu.id

\* However the network delays its packets, no measurement in the window is
\* older than the newest by more than the sample age and the time a Sync may
\* wait for its Follow_Up.
WindowIsRecent ==
    locked => \A i \in DOMAIN samples :
        samples[i].age <= samples[Len(samples)].age + SampleMaxAge + PendingMaxAge + 1

\* When one two-step grandmaster remains and the network is calm, its clock
\* is measured from some time on.
LoneMasterLocks ==
    \A m \in TwoStep : <>[](active = {m} /\ calm) => <>[]Estimable

\* Without a grandmaster the estimate ends with the holdover.
SilenceEndsEstimate == <>[](active = {}) => <>[]~Estimable

(* What the code does not keep. *)

\* "two grandmasters share no timeline"
OneTimeline == locked => \A i \in DOMAIN samples : samples[i].src = masterID
=============================================================================
