------------------------------ MODULE PTPProofs ------------------------------
(***************************************************************************)
(* Theorems about the PTP listener for any clocks, window, ages and        *)
(* network.                                                                *)
(***************************************************************************)
EXTENDS PTPMonitor, SequenceTheorems, WellFoundedInduction, TLAPS

(* A non-empty set of naturals has a least element. *)
LEMMA MinIsLeast ==
    ASSUME NEW S, S \subseteq Nat, S # {}
    PROVE  Min(S) \in S
<1>1. PICK x \in S : \A y \in S : ~(<<y, x>> \in OpToRel(<, Nat))
  BY NatLessThanWellFounded, WFMin
<1>2. \A y \in S : ~(y < x)
  BY <1>1 DEF OpToRel
<1>3. x \in S /\ \A y \in S : x <= y
  BY <1>2
<1>4. QED
  BY <1>3 DEF Min

(* What the samples of the window are, and what the order in which they were
   taken says of their ages. *)
Windowed(s) ==
    /\ s \in Seq(Sample)
    /\ Len(s) <= Window
    /\ \A i, j \in 1..Len(s) :
         i < j => s[j].age <= s[i].age + PendingMaxAge + 1
    /\ \A i \in 1..Len(s) :
         s[i].age <= s[Len(s)].age + SampleMaxAge + PendingMaxAge + 1

(* The window with a measurement appended, and how long it is then. *)
Grown(s, m, g) == Append(s, [src |-> m, age |-> g])
GrownLen(s) == Len(s) + 1

(* What is retained, r, of the window t that s has grown to: its end, from
   a sample on that comes after one that is recent enough. *)
Suffix(s, m, g, t, n, r) ==
    /\ Len(t) = n /\ n \in Nat /\ n >= 1
    /\ t[n].src = m /\ t[n].age = g
    /\ \A i \in 1..Len(s) : t[i] = s[i]
    /\ \A i \in 1..n : t[i] \in Sample /\ t[i].age \in Nat
    /\ \E first \in 1..n, start \in 1..n :
         /\ t[first].age <= g + SampleMaxAge
         /\ first <= start /\ n - start + 1 <= Window
         /\ r \in Seq(Sample) /\ Len(r) = n - start + 1
         /\ \A i \in 1..(n - start + 1) : r[i] = t[start + i - 1]

LEMMA RetainedIsSuffix ==
    ASSUME NEW s \in Seq(Sample), NEW m \in Masters, NEW g \in 0..(PendingMaxAge + 1)
    PROVE  Suffix(s, m, g, Grown(s, m, g), GrownLen(s), Retained(Grown(s, m, g), g))
<1> USE PTPAssumption
<1> DEFINE t == Grown(s, m, g)
           n == GrownLen(s)
           new == [src |-> m, age |-> g]
           recent == {i \in 1..n : t[i].age <= g + SampleMaxAge}
           first == Min(recent)
           last == n - Window + 1
           start == IF first < last THEN last ELSE first
<1>1. new \in Sample /\ Len(s) \in Nat /\ t = Append(s, new) /\ n = Len(s) + 1
  <2>1. g \in 0..OldAge
    BY DEF OldAge
  <2>2. QED
    BY <2>1 DEF Sample, Grown, GrownLen
<1>2. new.src = m /\ new.age = g /\ g \in Nat
  OBVIOUS
<1> HIDE DEF new, t, n
<1>3. /\ t \in Seq(Sample) /\ Len(t) = n
      /\ t[n] = new /\ \A i \in 1..Len(s) : t[i] = s[i]
  BY <1>1, AppendProperties
<1>4. \A i \in 1..n : t[i] \in Sample /\ t[i].age \in Nat
  <2>1. OldAge \in Nat
    BY DEF OldAge
  <2>2. \A i \in 1..n : t[i] \in Sample
    BY <1>3, ElementOfSeq
  <2>3. QED
    BY <2>1, <2>2 DEF Sample
<1>5. first \in recent
  <2>1. n \in recent
    BY <1>1, <1>2, <1>3
  <2>2. recent \subseteq Nat
    BY <1>1
  <2> HIDE DEF recent
  <2>3. QED
    BY <2>1, <2>2, MinIsLeast
<1>6. Retained(t, g) = SubSeq(t, start, n)
  BY <1>1, <1>3, <1>5 DEF Retained
<1>7. first \in 1..n /\ t[first].age <= g + SampleMaxAge
  BY <1>5
<1>n. n \in Nat /\ n >= 1 /\ Window \in Nat /\ Window >= 1
  BY <1>1
<1> HIDE DEF first
<1>b. start \in 1..n /\ first <= start /\ n - start + 1 <= Window
  BY <1>7, <1>n
<1> HIDE DEF start
<1>8. /\ SubSeq(t, start, n) \in Seq(Sample)
      /\ Len(SubSeq(t, start, n)) = n - start + 1
      /\ \A i \in 1..(n - start + 1) : SubSeq(t, start, n)[i] = t[start + i - 1]
  BY <1>b, <1>n, <1>3, <1>4, SubSeqProperties
<1>9. /\ t[first].age <= g + SampleMaxAge
      /\ first <= start /\ n - start + 1 <= Window
      /\ Retained(t, g) \in Seq(Sample)
      /\ Len(Retained(t, g)) = n - start + 1
      /\ \A i \in 1..(n - start + 1) : Retained(t, g)[i] = t[start + i - 1]
  BY <1>6, <1>7, <1>b, <1>8
<1>10. t[n].src = m /\ t[n].age = g
  BY <1>2, <1>3
<1>11. Suffix(s, m, g, t, n, Retained(t, g))
  BY <1>3, <1>4, <1>n, <1>7, <1>b, <1>9, <1>10 DEF Suffix
<1>12. QED
  BY <1>11 DEF t, n

(* Adding a measurement keeps the window in this shape. *)
LEMMA RetainedIsWindowed ==
    ASSUME NEW s, Windowed(s), NEW m \in Masters, NEW g \in 0..(PendingMaxAge + 1)
    PROVE  Windowed(Retained(Append(s, [src |-> m, age |-> g]), g))
<1> USE PTPAssumption
<1> DEFINE t == Grown(s, m, g)
           n == GrownLen(s)
           r == Retained(t, g)
<1>1. s \in Seq(Sample) /\ Len(s) \in Nat /\ g \in Nat /\ n = Len(s) + 1
  BY DEF Windowed, GrownLen
<1>2. Suffix(s, m, g, t, n, r)
  BY <1>1, RetainedIsSuffix
<1>t. r = Retained(Append(s, [src |-> m, age |-> g]), g)
  BY DEF Grown
<1> HIDE DEF t, n, r
<1>f. /\ n \in Nat /\ n >= 1 /\ t[n].src = m /\ t[n].age = g
      /\ \A i \in 1..Len(s) : t[i] = s[i]
      /\ \A i \in 1..n : t[i] \in Sample /\ t[i].age \in Nat
  BY <1>2 DEF Suffix
<1>3. PICK first \in 1..n, start \in 1..n :
        /\ t[first].age <= g + SampleMaxAge
        /\ first <= start /\ n - start + 1 <= Window
        /\ r \in Seq(Sample)
        /\ Len(r) = n - start + 1
        /\ \A i \in 1..(n - start + 1) : r[i] = t[start + i - 1]
  BY <1>2 DEF Suffix
<1>4. \A i, j \in 1..n : i < j => t[j].age <= t[i].age + PendingMaxAge + 1
  <2> SUFFICES ASSUME NEW i \in 1..n, NEW j \in 1..n, i < j
               PROVE  t[j].age <= t[i].age + PendingMaxAge + 1
    OBVIOUS
  <2>1. CASE j = n
    BY <2>1, <1>1, <1>f
  <2>2. CASE j # n
    <3>1. i \in 1..Len(s) /\ j \in 1..Len(s)
      BY <2>2, <1>1, <1>f
    <3>2. QED
      BY <3>1, <1>f DEF Windowed
  <2>3. QED
    BY <2>1, <2>2
<1>5. \A i, j \in 1..Len(r) :
         i < j => r[j].age <= r[i].age + PendingMaxAge + 1
  <2> SUFFICES ASSUME NEW i \in 1..Len(r), NEW j \in 1..Len(r), i < j
               PROVE  r[j].age <= r[i].age + PendingMaxAge + 1
    OBVIOUS
  <2>1. r[i] = t[start + i - 1] /\ r[j] = t[start + j - 1]
    BY <1>3
  <2>2. /\ start + i - 1 \in 1..n /\ start + j - 1 \in 1..n
        /\ start + i - 1 < start + j - 1
    BY <1>1, <1>f, <1>3
  <2>3. QED
    BY <2>1, <2>2, <1>4
<1>6. \A k \in first..n : t[k].age <= g + SampleMaxAge + PendingMaxAge + 1
  <2> SUFFICES ASSUME NEW k \in first..n
               PROVE  t[k].age <= g + SampleMaxAge + PendingMaxAge + 1
    OBVIOUS
  <2>1. k \in 1..n /\ first \in 1..n
    BY <1>1, <1>f
  <2>2. t[k].age \in Nat /\ t[first].age \in Nat
    BY <2>1, <1>f
  <2>3. k = first \/ t[k].age <= t[first].age + PendingMaxAge + 1
    BY <2>1, <1>4
  <2>4. t[first].age <= g + SampleMaxAge
    BY <1>3
  <2>5. SampleMaxAge \in Nat /\ PendingMaxAge \in Nat /\ g \in Nat
    BY <1>1
  <2>6. QED
    BY ONLY <2>2, <2>3, <2>4, <2>5
<1>7. r[Len(r)].age = g
  BY <1>1, <1>f, <1>3
<1>8. \A i \in 1..Len(r) :
         r[i].age <= r[Len(r)].age + SampleMaxAge + PendingMaxAge + 1
  <2> SUFFICES ASSUME NEW i \in 1..Len(r)
               PROVE  r[i].age <= g + SampleMaxAge + PendingMaxAge + 1
    BY <1>7
  <2>1. r[i] = t[start + i - 1] /\ start + i - 1 \in first..n
    BY <1>1, <1>f, <1>3
  <2>2. QED
    BY <2>1, <1>6
<1>9. Len(r) <= Window
  BY <1>3
<1>10. QED
  BY <1>t, <1>3, <1>5, <1>8, <1>9 DEF Windowed

(* The newest sample of the window is the measurement that was added, and the
   others were there before. *)
LEMMA RetainedEndsNew ==
    ASSUME NEW s, Windowed(s), NEW m \in Masters, NEW g \in 0..(PendingMaxAge + 1),
           NEW r, r = Retained(Append(s, [src |-> m, age |-> g]), g)
    PROVE  /\ r \in Seq(Sample) /\ Len(r) \in Nat /\ Len(r) >= 1
           /\ r[Len(r)].src = m /\ r[Len(r)].age = g
           /\ \A i \in 1..Len(r) : r[i].src = m \/ \E j \in 1..Len(s) : r[i] = s[j]
<1> DEFINE t == Grown(s, m, g)
           n == GrownLen(s)
<1>1. s \in Seq(Sample) /\ Len(s) \in Nat /\ n = Len(s) + 1
  BY DEF Windowed, GrownLen
<1>2. Suffix(s, m, g, t, n, r)
  BY <1>1, RetainedIsSuffix DEF Grown
<1> HIDE DEF t, n
<1>f. /\ n \in Nat /\ n >= 1 /\ t[n].src = m /\ t[n].age = g
      /\ \A i \in 1..Len(s) : t[i] = s[i]
      /\ \A i \in 1..n : t[i] \in Sample /\ t[i].age \in Nat
  BY <1>2 DEF Suffix
<1>3. PICK start \in 1..n :
        /\ r \in Seq(Sample)
        /\ Len(r) = n - start + 1
        /\ \A i \in 1..(n - start + 1) : r[i] = t[start + i - 1]
  BY <1>2 DEF Suffix
<1>4. Len(r) \in Nat /\ Len(r) >= 1 /\ r[Len(r)] = t[n]
  BY <1>1, <1>f, <1>3
<1>5. \A i \in 1..Len(r) : r[i].src = m \/ \E j \in 1..Len(s) : r[i] = s[j]
  <2> SUFFICES ASSUME NEW i \in 1..Len(r)
               PROVE  r[i].src = m \/ \E j \in 1..Len(s) : r[i] = s[j]
    OBVIOUS
  <2>1. r[i] = t[start + i - 1] /\ start + i - 1 \in 1..n
    BY <1>1, <1>f, <1>3
  <2>2. start + i - 1 = n \/ start + i - 1 \in 1..Len(s)
    BY <1>1, <1>f, <2>1
  <2>3. QED
    BY <2>1, <2>2, <1>f
<1>6. QED
  BY <1>f, <1>3, <1>4, <1>5

-----------------------------------------------------------------------------
(* The listener is locked exactly when it has enough measurements: the lock
   and the window change together, in one critical section. *)
THEOREM LockFollowsWindow == Spec => []LockedWhenFitted
<1>1. Init => LockedWhenFitted
  <2>1. 0 < MinSamples
    BY PTPAssumption
  <2>2. Len(<<>>) = 0 /\ ~(0 >= MinSamples)
    BY <2>1, PTPAssumption
  <2>3. QED
    BY <2>2 DEF Init, LockedWhenFitted
<1>2. LockedWhenFitted /\ [Next]_vars => LockedWhenFitted'
  <2> SUFFICES ASSUME LockedWhenFitted, [Next]_vars
               PROVE  LockedWhenFitted'
    OBVIOUS
  <2>1. CASE SyncNote
    <3>1. PICK m : NoteMaster(m)
      BY <2>1 DEF SyncNote
    <3>2. CASE masterID = m
      BY <3>1, <3>2 DEF NoteMaster, LockedWhenFitted
    <3>3. CASE masterID # m
      <4>1. samples' = <<>> /\ locked' = FALSE
        BY <3>1, <3>3 DEF NoteMaster
      <4>2. ~(Len(<<>>) >= MinSamples)
        BY PTPAssumption
      <4>3. QED
        BY <4>1, <4>2 DEF LockedWhenFitted
    <3>4. QED
      BY <3>2, <3>3
  <2>2. CASE SyncSample \/ FollowUpSample
    <3>1. locked' = (Len(samples') >= MinSamples)
      BY <2>2 DEF SyncSample, FollowUpSample, AddSample, Fitted
    <3>2. QED
      BY <3>1 DEF LockedWhenFitted
  <2>3. CASE Pass
    <3>1. Len(samples') = Len(samples) /\ locked' = locked
      BY <2>3 DEF Pass
    <3>2. QED
      BY <3>1 DEF LockedWhenFitted
  <2>4. CASE \/ SyncDecide \/ SyncPend \/ FollowUpLatch \/ FollowUpPair
             \/ Expire \/ Environment \/ UNCHANGED vars
    <3>1. UNCHANGED <<samples, locked>>
      BY <2>4 DEF SyncDecide, SyncPend, FollowUpLatch, FollowUpPair, Expire,
                  Environment, SendSync, SendFollowUp, Lose, Elect, Weather,
                  vars, monitor
    <3>2. QED
      BY <3>1 DEF LockedWhenFitted
  <2>5. QED
    BY <2>1, <2>2, <2>3, <2>4 DEF Next, EventLoop, GeneralLoop
<1>3. QED
  BY <1>1, <1>2, PTL DEF Spec

-----------------------------------------------------------------------------
(* The parts of the inductive invariant. *)

PendingOK ==
    /\ pending \subseteq Entry
    /\ \A p, q \in pending : SameKey(p, q.src, q.id) => p = q
    /\ \A p \in pending : p.age <= PendingMaxAge + 1
    /\ ~expireDue => \A p \in pending : p.age <= PendingMaxAge

LoopsOK ==
    /\ ev \in Handling /\ fu \in Handling
    /\ ev.pc # "recv" => ev.src \in Masters
    /\ fu.pc # "recv" => fu.src \in Masters
    /\ ev.age = 0 /\ fu.age <= PendingMaxAge + 1

NetworkOK ==
    /\ air \subseteq Packet
    /\ \A m \in Masters : next[m] \in Sends
    /\ next = [m \in Masters |-> next[m]] /\ due = [m \in Masters |-> due[m]]
    /\ \A m \in Masters : due[m] = None \/ due[m] \in Sends

ListenerInv ==
    /\ Windowed(samples)
    /\ masterID \in Masters \cup {None} /\ lastSync \in 0..(Holdover + 1)
    /\ PendingOK /\ LoopsOK /\ NetworkOK

LEMMA InitListener == Init => ListenerInv
<1> SUFFICES ASSUME Init PROVE ListenerInv
  OBVIOUS
<1> USE PTPAssumption
<1>1. SeqMod * Laps \in Nat \ {0} /\ OldAge \in Nat
  BY DEF OldAge
<1>2. 0 \in Sends
  BY <1>1 DEF Sends
<1>3. Windowed(samples)
  BY DEF Init, Windowed
<1>4. PendingOK
  BY DEF Init, PendingOK
<1>5. LoopsOK
  BY <1>1, <1>2 DEF Init, LoopsOK, Handling, Idle
<1>6. NetworkOK
  BY <1>2 DEF Init, NetworkOK
<1>7. QED
  BY <1>3, <1>4, <1>5, <1>6 DEF Init, ListenerInv

(* The window changes by a measurement, by a change of master, or by ageing. *)
LEMMA WindowStep ==
    ASSUME ListenerInv, [Next]_vars
    PROVE  Windowed(samples)'
<1> USE PTPAssumption
<1>1. Windowed(samples) /\ LoopsOK /\ OldAge \in Nat
  BY DEF ListenerInv, OldAge
<1>2. CASE SyncNote
  <2>1. samples' = samples \/ samples' = <<>>
    BY <1>2 DEF SyncNote, NoteMaster
  <2>2. Windowed(<<>>)
    BY DEF Windowed
  <2>3. QED
    BY <1>1, <2>1, <2>2
<1>3. CASE SyncSample
  <2>1. ev.src \in Masters /\ ev.age \in 0..(PendingMaxAge + 1)
    BY <1>1, <1>3 DEF LoopsOK, SyncSample
  <2>2. samples' = Retained(Append(samples, [src |-> ev.src, age |-> ev.age]), ev.age)
    BY <1>3 DEF SyncSample, AddSample, Fitted
  <2>3. QED
    BY <1>1, <2>1, <2>2, RetainedIsWindowed
<1>4. CASE FollowUpSample
  <2>1. fu.src \in Masters /\ fu.age \in 0..(PendingMaxAge + 1)
    BY <1>1, <1>4 DEF LoopsOK, FollowUpSample, Handling
  <2>2. samples' = Retained(Append(samples, [src |-> fu.src, age |-> fu.age]), fu.age)
    BY <1>4 DEF FollowUpSample, AddSample, Fitted
  <2>3. QED
    BY <1>1, <2>1, <2>2, RetainedIsWindowed
<1>5. CASE Pass
  <2> DEFINE old(i) == samples[i].age
             n == Len(samples)
  <2>1. n \in Nat /\ DOMAIN samples = 1..n
    BY <1>1 DEF Windowed
  <2>2. \A i \in 1..n : samples[i] \in Sample /\ old(i) \in 0..OldAge
    <3>1. \A i \in 1..n : samples[i] \in Sample
      BY <1>1, ElementOfSeq DEF Windowed
    <3>2. QED
      BY <3>1 DEF Sample
  <2>3. samples' = [i \in 1..n |-> [samples[i] EXCEPT !.age = Older(@, OldAge)]]
    BY <1>5, <2>1 DEF Pass
  <2>4. \A i \in 1..n : /\ samples'[i] \in Sample
                        /\ samples'[i].age = Older(old(i), OldAge)
    <3> SUFFICES ASSUME NEW i \in 1..n
                 PROVE  /\ samples'[i] \in Sample
                        /\ samples'[i].age = Older(old(i), OldAge)
      OBVIOUS
    <3>1. samples'[i] = [samples[i] EXCEPT !.age = Older(old(i), OldAge)]
      BY <2>3
    <3>2. samples[i] \in Sample /\ Older(old(i), OldAge) \in 0..OldAge
      BY <1>1, <2>2 DEF Older
    <3> HIDE DEF old
    <3>3. QED
      BY <3>1, <3>2 DEF Sample
  <2>5. samples' \in Seq(Sample) /\ Len(samples') = n
    <3>1. samples' \in [1..n -> Sample]
      BY <2>3, <2>4
    <3>2. QED
      BY <3>1, <2>1, SeqDef, LenProperties
  <2>6. \A x, y \in 0..OldAge, d \in Nat :
          x <= y + d => Older(x, OldAge) <= Older(y, OldAge) + d
    BY <1>1 DEF Older
  <2>7. /\ PendingMaxAge + 1 \in Nat
        /\ SampleMaxAge + PendingMaxAge + 1 \in Nat
    OBVIOUS
  <2>8. \A i, j \in 1..n : i < j => old(j) <= old(i) + (PendingMaxAge + 1)
    BY <1>1, <2>2 DEF Windowed, Sample
  <2>9. \A i \in 1..n : old(i) <= old(n) + (SampleMaxAge + PendingMaxAge + 1)
    BY <1>1, <2>1, <2>2 DEF Windowed, Sample
  <2> HIDE DEF old
  <2>10. \A i, j \in 1..n :
           i < j => samples'[j].age <= samples'[i].age + (PendingMaxAge + 1)
    BY <2>2, <2>4, <2>6, <2>7, <2>8
  <2>11. \A i \in 1..n :
           samples'[i].age <= samples'[n].age + (SampleMaxAge + PendingMaxAge + 1)
    <3> SUFFICES ASSUME NEW i \in 1..n
                 PROVE  samples'[i].age <=
                          samples'[n].age + (SampleMaxAge + PendingMaxAge + 1)
      OBVIOUS
    <3>1. n \in 1..n
      BY <2>1
    <3>2. QED
      BY <3>1, <2>2, <2>4, <2>6, <2>7, <2>9
  <2>12. \A i \in 1..n : samples'[i].age \in Int
    BY <2>4 DEF Sample
  <2>13. n <= Window
    BY <1>1 DEF Windowed
  <2>14. /\ \A i, j \in 1..n :
              i < j => samples'[j].age <= samples'[i].age + PendingMaxAge + 1
         /\ \A i \in 1..n :
              samples'[i].age <= samples'[n].age + SampleMaxAge + PendingMaxAge + 1
    <3>1. \A i \in 1..n : n \in 1..n
      BY <2>1
    <3>2. QED
      BY <2>10, <2>11, <2>12, <3>1
  <2>15. QED
    BY <2>5, <2>13, <2>14 DEF Windowed
<1>6. CASE \/ SyncDecide \/ SyncPend \/ FollowUpLatch \/ FollowUpPair
           \/ Expire \/ Environment \/ UNCHANGED vars
  <2>1. samples' = samples
    BY <1>6 DEF SyncDecide, SyncPend, FollowUpLatch, FollowUpPair, Expire,
                Environment, SendSync, SendFollowUp, Lose, Elect, Weather,
                vars, monitor
  <2>2. QED
    BY <1>1, <2>1
<1>7. QED
  BY <1>2, <1>3, <1>4, <1>5, <1>6 DEF Next, EventLoop, GeneralLoop

(* A Sync waits for its Follow_Up no longer than the expiry age and one more
   period of the ticker. *)
LEMMA PendingStep ==
    ASSUME ListenerInv, [Next]_vars
    PROVE  PendingOK'
<1> USE PTPAssumption
<1>1. PendingOK /\ LoopsOK /\ OldAge \in Nat /\ OldAge >= PendingMaxAge + 1
  BY DEF ListenerInv, OldAge
<1>2. \A p \in pending : p \in Entry /\ p.age \in Nat
  BY <1>1 DEF PendingOK, Entry
<1>3. CASE SyncPend
  <2> DEFINE new == [src |-> ev.src, id |-> ev.id, age |-> 0]
             kept == {p \in pending : ~SameKey(p, ev.src, ev.id)}
  <2>1. new \in Entry
    BY <1>1, <1>3 DEF LoopsOK, SyncPend, Handling, Entry
  <2>2. pending' = kept \cup {new} /\ expireDue' = expireDue
    BY <1>3 DEF SyncPend
  <2>3. new.age = 0 /\ new.src = ev.src /\ new.id = ev.id
    OBVIOUS
  <2>4. \A p \in kept : p \in pending /\ ~(p.src = new.src /\ SeqID(p.id) = SeqID(new.id))
    BY <2>3 DEF SameKey
  <2> HIDE DEF new, kept
  <2>5. pending' \subseteq Entry
    BY <1>1, <2>1, <2>2, <2>4 DEF PendingOK
  <2>6. \A p, q \in pending' : SameKey(p, q.src, q.id) => p = q
    <3> SUFFICES ASSUME NEW p \in pending', NEW q \in pending',
                        SameKey(p, q.src, q.id)
                 PROVE  p = q
      OBVIOUS
    <3>1. p.src = q.src /\ SeqID(p.id) = SeqID(q.id)
      BY DEF SameKey
    <3>2. CASE p \in kept /\ q \in kept
      BY <3>2, <2>4, <1>1 DEF PendingOK
    <3>3. CASE p = new \/ q = new
      BY <3>1, <3>3, <2>2, <2>4
    <3>4. QED
      BY <3>2, <3>3, <2>2
  <2>7. \A p \in pending' : p \in pending \/ p.age = 0
    BY <2>2, <2>3, <2>4
  <2>8. \A p \in pending' : p.age <= PendingMaxAge + 1
    BY <2>7, <1>1 DEF PendingOK
  <2>9. ~expireDue' => \A p \in pending' : p.age <= PendingMaxAge
    <3> SUFFICES ASSUME ~expireDue, NEW p \in pending'
                 PROVE  p.age <= PendingMaxAge
      BY <2>2
    <3>1. \A q \in pending : q.age <= PendingMaxAge
      BY <1>1 DEF PendingOK
    <3>2. QED
      BY <3>1, <2>7
  <2>10. QED
    BY <2>5, <2>6, <2>8, <2>9 DEF PendingOK
<1>4. CASE FollowUpPair
  <2>1. pending' \subseteq pending /\ expireDue' = expireDue
    BY <1>4 DEF FollowUpPair
  <2>2. QED
    BY <1>1, <2>1 DEF PendingOK
<1>5. CASE Expire
  <2>1. pending' \subseteq pending
    BY <1>5 DEF Expire
  <2>2. \A p \in pending' : p.age <= PendingMaxAge
    BY <1>5 DEF Expire
  <2>3. /\ pending' \subseteq Entry
        /\ \A p, q \in pending' : SameKey(p, q.src, q.id) => p = q
    BY <1>1, <2>1 DEF PendingOK
  <2>4. \A p \in pending' : p.age <= PendingMaxAge + 1
    BY <1>2, <2>1, <2>2
  <2>5. QED
    BY <2>2, <2>3, <2>4 DEF PendingOK
<1>6. CASE Pass
  <2> DEFINE aged(p) == [p EXCEPT !.age = Older(@, OldAge)]
  <2>1. pending' = {aged(p) : p \in pending}
    BY <1>6 DEF Pass
  <2>2. \A p \in pending : p.age <= PendingMaxAge
    BY <1>1, <1>6 DEF Pass, PendingOK
  <2>3. \A p \in pending : aged(p) \in Entry
    BY <1>1, <1>2 DEF Entry, Older
  <2>4. \A p \in pending : /\ aged(p).src = p.src /\ aged(p).id = p.id
                           /\ aged(p).age = Older(p.age, OldAge)
    BY <1>2 DEF Entry
  <2>5. \A p \in pending : Older(p.age, OldAge) <= PendingMaxAge + 1
    BY <1>1, <1>2, <2>2 DEF Older
  <2> HIDE DEF aged
  <2>6. \A p, q \in pending' : SameKey(p, q.src, q.id) => p = q
    BY <2>1, <2>4, <1>1 DEF PendingOK, SameKey
  <2>7. \A p \in pending' : p.age <= PendingMaxAge + 1
    BY <2>1, <2>4, <2>5
  <2>8. pending' \subseteq Entry
    BY <2>1, <2>3
  <2>9. expireDue'
    BY <1>6 DEF Pass
  <2>10. QED
    BY <2>6, <2>7, <2>8, <2>9 DEF PendingOK
<1>7. CASE \/ SyncNote \/ SyncDecide \/ SyncSample \/ FollowUpLatch
           \/ FollowUpSample \/ Environment \/ UNCHANGED vars
  <2>1. UNCHANGED <<pending, expireDue>>
    BY <1>7 DEF SyncNote, SyncDecide, SyncSample, FollowUpLatch, FollowUpSample,
                Environment, SendSync, SendFollowUp, Lose, Elect, Weather,
                vars, monitor
  <2>2. QED
    BY <1>1, <2>1 DEF PendingOK
<1>8. QED
  BY <1>3, <1>4, <1>5, <1>6, <1>7 DEF Next, EventLoop, GeneralLoop

(* What the read loops hold comes from the network or from the pending map. *)
LEMMA LoopsStep ==
    ASSUME ListenerInv, [Next]_vars
    PROVE  LoopsOK'
<1> USE PTPAssumption
<1>1. PendingOK /\ LoopsOK /\ NetworkOK /\ OldAge \in Nat
  BY DEF ListenerInv, OldAge
<1>2. 0 \in Sends
  <2>1. SeqMod * Laps \in Nat \ {0}
    OBVIOUS
  <2>2. QED
    BY <2>1 DEF Sends
<1>3. Idle \in Handling /\ Idle.pc = "recv" /\ Idle.age = 0
  BY <1>1, <1>2 DEF Idle, Handling
<1>4. CASE SyncNote
  <2>1. PICK p \in air :
          ev' = [pc |-> "decide", src |-> p.src, id |-> p.id, of |-> p.id, age |-> 0]
    BY <1>4 DEF SyncNote
  <2>2. p.src \in Masters /\ p.id \in Sends
    BY <1>1 DEF NetworkOK, Packet
  <2>3. fu' = fu
    BY <1>4 DEF SyncNote
  <2>4. QED
    BY <1>1, <2>1, <2>2, <2>3 DEF LoopsOK, Handling
<1>5. CASE FollowUpLatch
  <2>1. PICK p \in air :
          fu' = [pc |-> "pair", src |-> p.src, id |-> p.id, of |-> p.id, age |-> 0]
    BY <1>5 DEF FollowUpLatch
  <2>2. p.src \in Masters /\ p.id \in Sends
    BY <1>1 DEF NetworkOK, Packet
  <2>3. ev' = ev
    BY <1>5 DEF FollowUpLatch
  <2>4. QED
    BY <1>1, <2>1, <2>2, <2>3 DEF LoopsOK, Handling
<1>6. CASE SyncDecide
  <2>1. fu' = fu /\ ev.src \in Masters
    BY <1>1, <1>6 DEF SyncDecide, LoopsOK
  <2>2. \E pc \in {"pend", "sample"} : ev' = [ev EXCEPT !.pc = pc]
    BY <1>6 DEF SyncDecide
  <2>3. QED
    BY <1>1, <2>1, <2>2 DEF LoopsOK, Handling
<1>7. CASE FollowUpPair
  <2>1. ev' = ev /\ fu.src \in Masters
    BY <1>1, <1>7 DEF FollowUpPair, LoopsOK
  <2>2. CASE fu' = Idle
    BY <1>1, <1>3, <2>1, <2>2 DEF LoopsOK
  <2>3. CASE \E p \in pending :
               fu' = [fu EXCEPT !.pc = "sample", !.age = p.age, !.of = p.id]
    <3>1. PICK p \in pending :
            fu' = [fu EXCEPT !.pc = "sample", !.age = p.age, !.of = p.id]
      BY <2>3
    <3>2. p.age \in 0..OldAge /\ p.id \in Sends /\ p.age <= PendingMaxAge + 1
      BY <1>1 DEF PendingOK, Entry
    <3>3. QED
      BY <1>1, <2>1, <3>1, <3>2 DEF LoopsOK, Handling
  <2>4. QED
    BY <1>7, <2>2, <2>3 DEF FollowUpPair
<1>8. CASE SyncPend \/ SyncSample
  <2>1. ev' = Idle /\ fu' = fu
    BY <1>8 DEF SyncPend, SyncSample
  <2>2. QED
    BY <1>1, <1>3, <2>1 DEF LoopsOK
<1>9. CASE FollowUpSample
  <2>1. ev' = ev /\ fu' = Idle
    BY <1>9 DEF FollowUpSample
  <2>2. QED
    BY <1>1, <1>3, <2>1 DEF LoopsOK
<1>10. CASE Expire \/ Pass \/ Environment \/ UNCHANGED vars
  <2>1. UNCHANGED loops
    BY <1>10 DEF Expire, Pass, Environment, SendSync, SendFollowUp, Lose, Elect,
                 Weather, vars, loops
  <2>2. QED
    BY <1>1, <2>1 DEF LoopsOK, loops
<1>11. QED
  BY <1>4, <1>5, <1>6, <1>7, <1>8, <1>9, <1>10 DEF Next, EventLoop, GeneralLoop

LEMMA NetworkStep ==
    ASSUME ListenerInv, [Next]_vars
    PROVE  NetworkOK'
<1> USE PTPAssumption
<1>1. NetworkOK
  BY DEF ListenerInv
<1>2. \A x \in Sends : (x + 1) % (SeqMod * Laps) \in Sends
  <2>1. SeqMod * Laps \in Nat \ {0}
    OBVIOUS
  <2>2. QED
    BY <2>1 DEF Sends
<1>3. CASE \E m \in Masters : SendSync(m)
  <2>1. PICK m \in Masters : SendSync(m)
    BY <1>3
  <2>2. next[m] \in Sends
    BY <1>1 DEF NetworkOK
  <2>3. [kind |-> "sync", src |-> m, id |-> next[m], age |-> 0] \in Packet
    BY <2>2 DEF Packet
  <2>4. air' \subseteq Packet
    BY <1>1, <2>1, <2>3 DEF SendSync, NetworkOK
  <2>5. \/ next' = next
        \/ next' = [next EXCEPT ![m] = (next[m] + 1) % (SeqMod * Laps)]
    BY <2>1 DEF SendSync
  <2>6. due' = due \/ due' = [due EXCEPT ![m] = next[m]]
    BY <2>1 DEF SendSync
  <2>7. /\ \A k \in Masters : next'[k] \in Sends
        /\ next' = [k \in Masters |-> next'[k]]
    BY <1>1, <1>2, <2>2, <2>5 DEF NetworkOK
  <2>8. /\ \A k \in Masters : due'[k] = None \/ due'[k] \in Sends
        /\ due' = [k \in Masters |-> due'[k]]
    BY <1>1, <2>2, <2>6 DEF NetworkOK
  <2>9. QED
    BY <2>4, <2>7, <2>8 DEF NetworkOK
<1>4. CASE \E m \in Masters : SendFollowUp(m)
  <2>1. PICK m \in Masters : SendFollowUp(m)
    BY <1>4
  <2>2. due[m] \in Sends
    BY <1>1, <2>1 DEF NetworkOK, SendFollowUp
  <2>3. [kind |-> "followup", src |-> m, id |-> due[m], age |-> 0] \in Packet
    BY <2>2 DEF Packet
  <2>4. air' \subseteq Packet
    BY <1>1, <2>1, <2>3 DEF SendFollowUp, NetworkOK
  <2>5. next' = next /\ due' = [due EXCEPT ![m] = None]
    BY <2>1 DEF SendFollowUp
  <2>6. QED
    BY <1>1, <2>4, <2>5 DEF NetworkOK
<1>5. CASE Lose \/ SyncNote \/ FollowUpLatch
  <2>1. air' \subseteq air /\ UNCHANGED <<next, due>>
    BY <1>5 DEF Lose, SyncNote, FollowUpLatch
  <2>2. QED
    BY <1>1, <2>1 DEF NetworkOK
<1>6. CASE Elect
  <2>1. /\ air' = air /\ next' = next
        /\ due' = [m \in Masters |-> IF m \in active' THEN due[m] ELSE None]
    BY <1>6 DEF Elect
  <2>2. QED
    BY <1>1, <2>1 DEF NetworkOK
<1>7. CASE Pass
  <2>1. air' = {[p EXCEPT !.age = @ + 1] : p \in air} /\ UNCHANGED <<next, due>>
    BY <1>7 DEF Pass
  <2>2. \A p \in air : p \in Packet /\ p.age < MaxDelay
    BY <1>1, <1>7 DEF Pass, NetworkOK
  <2>3. \A p \in air : [p EXCEPT !.age = @ + 1] \in Packet
    BY <2>2 DEF Packet
  <2>4. air' \subseteq Packet
    BY <2>1, <2>3
  <2>5. QED
    BY <1>1, <2>1, <2>4 DEF NetworkOK
<1>8. CASE \/ SyncDecide \/ SyncPend \/ SyncSample \/ FollowUpPair
           \/ FollowUpSample \/ Expire \/ Weather \/ UNCHANGED vars
  <2>1. UNCHANGED <<air, next, due>>
    BY <1>8 DEF SyncDecide, SyncPend, SyncSample, FollowUpPair, FollowUpSample,
                Expire, Weather, vars, network
  <2>2. QED
    BY <1>1, <2>1 DEF NetworkOK
<1>9. QED
  BY <1>3, <1>4, <1>5, <1>6, <1>7, <1>8
  DEF Next, EventLoop, GeneralLoop, Environment

LEMMA ScalarStep ==
    ASSUME ListenerInv, [Next]_vars
    PROVE  masterID' \in Masters \cup {None} /\ lastSync' \in 0..(Holdover + 1)
<1> USE PTPAssumption
<1>1. masterID \in Masters \cup {None} /\ lastSync \in 0..(Holdover + 1)
  BY DEF ListenerInv
<1>2. masterID' \in Masters \cup {None}
  <2>1. CASE SyncNote
    BY <2>1 DEF SyncNote, NoteMaster, ListenerInv, NetworkOK, Packet
  <2>2. CASE ~SyncNote
    BY <1>1, <2>2 DEF Next, EventLoop, GeneralLoop, Environment, SyncDecide,
       SyncPend, SyncSample, FollowUpLatch, FollowUpPair, FollowUpSample, Expire,
       Pass, SendSync, SendFollowUp, Lose, Elect, Weather, vars, monitor
  <2>3. QED
    BY <2>1, <2>2
<1>3. lastSync' \in 0..(Holdover + 1)
  <2>1. CASE SyncSample \/ FollowUpSample
    BY <2>1 DEF SyncSample, FollowUpSample, AddSample, Fitted
  <2>2. CASE Pass
    BY <1>1, <2>2 DEF Pass, Older
  <2>3. CASE ~(SyncSample \/ FollowUpSample \/ Pass)
    BY <1>1, <2>3 DEF Next, EventLoop, GeneralLoop, Environment, SyncNote,
       SyncDecide, SyncPend, FollowUpLatch, FollowUpPair, Expire,
       SendSync, SendFollowUp, Lose, Elect, Weather, vars, monitor
  <2>4. QED
    BY <2>1, <2>2, <2>3
<1>4. QED
  BY <1>2, <1>3

-----------------------------------------------------------------------------
(* What the listener keeps, whatever is sent, lost, delayed and reordered. *)
THEOREM ListenerInvariant == Spec => []ListenerInv
<1>1. ListenerInv /\ [Next]_vars => ListenerInv'
  BY WindowStep, PendingStep, LoopsStep, NetworkStep, ScalarStep DEF ListenerInv
<1>2. QED
  BY <1>1, InitListener, PTL DEF Spec

(* The listener's state keeps its types: its window never exceeds
   ptpSampleWindow and a sequence id is pending at most once for a clock. *)
THEOREM ListenerTypeCorrect == Spec => []TypeOK
<1>1. ListenerInv => TypeOK
  BY DEF ListenerInv, Windowed, PendingOK, LoopsOK, NetworkOK, TypeOK
<1>2. QED
  BY <1>1, ListenerInvariant, PTL

(* No measurement in the window is older than the newest by more than the
   sample age and the wait for a Follow_Up. *)
THEOREM WindowStaysRecent == Spec => []WindowIsRecent
<1>1. ListenerInv => WindowIsRecent
  <2> SUFFICES ASSUME ListenerInv, NEW i \in DOMAIN samples
               PROVE  samples[i].age <=
                        samples[Len(samples)].age + SampleMaxAge + PendingMaxAge + 1
    BY DEF WindowIsRecent
  <2>1. samples \in Seq(Sample)
    BY DEF ListenerInv, Windowed
  <2>2. i \in 1..Len(samples)
    BY <2>1
  <2>3. QED
    BY <2>2 DEF ListenerInv, Windowed
<1>2. QED
  BY <1>1, ListenerInvariant, PTL

-----------------------------------------------------------------------------
(* Which Sync a sequence id stands for.  Sends are numbered on a circle of    *)
(* SeqMod * Laps, and a packet carries the number modulo SeqMod only; what    *)
(* makes the id sufficient is that nothing in the network, in a read loop or  *)
(* in the pending map is as old as SeqMod sends of its master.                *)

\* id is the k-th send before the next one, n.
Ago(n, id, k) == id + k = n \/ id + k = n + SeqMod * Laps

\* id is one of the last b sends of m.
Recent(m, id, b) == \E k \in 1..b : Ago(next[m], id, k)

\* The Sync that m has sent in the current unit.
Extra(m) == IF m \in sent THEN 1 ELSE 0

DueRecent ==
    \A m \in Masters :
        due[m] # None => m \in TwoStep /\ Ago(next[m], due[m], 1)

AirRecent ==
    \A p \in air :
        /\ p.kind = "sync" /\ p.src \in TwoStep =>
             Recent(p.src, p.id, p.age + Extra(p.src))
        /\ p.kind = "followup" =>
             p.src \in TwoStep /\ Recent(p.src, p.id, p.age + 1 + Extra(p.src))

EventRecent ==
    ev.pc # "recv" /\ ev.src \in TwoStep =>
        Recent(ev.src, ev.id, MaxDelay + Extra(ev.src))

GeneralRecent ==
    /\ fu.pc # "recv" => fu.src \in TwoStep
    /\ fu.pc = "pair" => Recent(fu.src, fu.id, MaxDelay + 1 + Extra(fu.src))

PendingRecent ==
    \A p \in pending :
        p.src \in TwoStep => Recent(p.src, p.id, MaxDelay + p.age + Extra(p.src))

PairInv ==
    DueRecent /\ AirRecent /\ EventRecent /\ GeneralRecent /\ PendingRecent
    /\ PairedSamples

\* An entry is expired before its id comes round.
IdsOutliveEntries == MaxDelay + PendingMaxAge + 2 <= SeqMod

(* Division with remainder by the number of ids. *)
LEMMA Division ==
    ASSUME NEW M \in Nat \ {0}, NEW x \in Nat
    PROVE  \E q \in Nat : x = M * q + (x % M)
<1>1. x = M * (x \div M) + (x % M) /\ x \div M \in Nat
  OBVIOUS
<1>2. QED
  BY <1>1

LEMMA SeqIDOf ==
    ASSUME NEW x \in Nat
    PROVE  \E q \in Nat : x = SeqMod * q + SeqID(x)
<1>1. SeqMod \in Nat \ {0}
  BY PTPAssumption
<1>2. \E q \in Nat : x = SeqMod * q + (x % SeqMod)
  BY <1>1, Division
<1>3. QED
  BY <1>2 DEF SeqID

(* A multiple of a number that is smaller than the number is zero. *)
LEMMA SmallMultiple ==
    ASSUME NEW M \in Nat \ {0}, NEW z \in Int, M * z < M, -M < M * z
    PROVE  z = 0
OBVIOUS

(* Two sends of one master, neither as old as SeqMod sends, have different
   sequence ids. *)
LEMMA RecentIdsDiffer ==
    ASSUME NEW n \in Sends, NEW s \in Sends, NEW f \in Sends,
           NEW ks \in 1..SeqMod, NEW kf \in 1..SeqMod,
           Ago(n, s, ks), Ago(n, f, kf), SeqID(s) = SeqID(f)
    PROVE  s = f
<1> DEFINE T == SeqMod * Laps
<1>1. SeqMod \in Nat \ {0} /\ Laps \in Nat \ {0} /\ T \in Nat \ {0}
  BY PTPAssumption
<1>2. n \in 0..(T - 1) /\ s \in 0..(T - 1) /\ f \in 0..(T - 1)
  BY DEF Sends
<1>3. PICK a \in {0, 1} : s + ks = n + a * T
  BY <1>1, <1>2 DEF Ago
<1>4. PICK b \in {0, 1} : f + kf = n + b * T
  BY <1>1, <1>2 DEF Ago
<1> HIDE DEF T
<1>n. s \in Nat /\ f \in Nat
  BY <1>1, <1>2
<1>5. PICK x \in Nat : s = SeqMod * x + SeqID(s)
  BY <1>n, SeqIDOf
<1>6. PICK y \in Nat : f = SeqMod * y + SeqID(f)
  BY <1>n, SeqIDOf
<1>7. SeqID(s) \in Int
  BY <1>1, <1>2 DEF SeqID
<1>8. s - f = SeqMod * (x - y)
  <2>1. s - f = SeqMod * x - SeqMod * y
    BY <1>1, <1>2, <1>5, <1>6, <1>7
  <2>2. \A M, u, v \in Int : M * u - M * v = M * (u - v)
    OBVIOUS
  <2>3. QED
    BY <1>1, <2>1, <2>2
<1>9. a * T - b * T = SeqMod * ((a - b) * Laps)
  <2>1. \A M, L, u, v \in Int : u * (M * L) - v * (M * L) = M * ((u - v) * L)
    OBVIOUS
  <2>2. QED
    BY <1>1, <2>1 DEF T
<1>10. kf - ks = s - f - (a * T - b * T)
  BY <1>1, <1>2, <1>3, <1>4
<1>11. kf - ks = SeqMod * ((x - y) - (a - b) * Laps)
  <2>1. \A M, u, v \in Int : M * u - M * v = M * (u - v)
    OBVIOUS
  <2>2. (a - b) * Laps \in Int /\ x - y \in Int
    BY <1>1
  <2>3. QED
    BY <1>1, <1>8, <1>9, <1>10, <2>1, <2>2
<1>12. kf = ks
  <2>1. kf - ks < SeqMod /\ -SeqMod < kf - ks
    BY <1>1
  <2>2. (x - y) - (a - b) * Laps \in Int
    BY <1>1
  <2>3. (x - y) - (a - b) * Laps = 0
    BY <1>1, <1>11, <2>1, <2>2, SmallMultiple
  <2>4. kf - ks = 0
    BY <1>1, <1>11, <2>3
  <2>5. QED
    BY <1>1, <2>4
<1>13. QED
  BY <1>1, <1>2, <1>3, <1>4, <1>12

(* How a send moves the others back by one. *)
LEMMA SendCounts ==
    ASSUME NEW n \in Sends
    PROVE  /\ (n + 1) % (SeqMod * Laps) \in Sends
           /\ Ago((n + 1) % (SeqMod * Laps), n, 1)
           /\ \A id \in Sends, k \in Nat :
                k + 1 <= SeqMod /\ Ago(n, id, k) =>
                    Ago((n + 1) % (SeqMod * Laps), id, k + 1)
<1> DEFINE T == SeqMod * Laps
           m == (n + 1) % T
<1>1. T \in Nat \ {0} /\ SeqMod \in Nat /\ SeqMod <= T
  <2>1. \A M, L \in Nat \ {0} : M * L \in Nat \ {0} /\ M <= M * L
    OBVIOUS
  <2>2. QED
    BY <2>1, PTPAssumption
<1>2. n \in 0..(T - 1)
  BY DEF Sends
<1> HIDE DEF T
<1>3. IF n + 1 < T THEN m = n + 1 ELSE n + 1 = T /\ m = 0
  BY <1>1, <1>2
<1> HIDE DEF m
<1>4. m \in 0..(T - 1)
  BY <1>1, <1>2, <1>3
<1>5. n + 1 = m \/ n + 1 = m + T
  BY <1>1, <1>2, <1>3
<1>6. ASSUME NEW id \in 0..(T - 1), NEW k \in Nat, k + 1 <= SeqMod,
             id + k = n \/ id + k = n + T
      PROVE  id + (k + 1) = m \/ id + (k + 1) = m + T
  BY <1>1, <1>2, <1>3, <1>6
<1>7. QED
  BY <1>4, <1>5, <1>6 DEF Ago, Sends, T, m

(* The age of what is remembered grows with the sends of its master: by one in
   a unit, whether m has sent in this one already or not. *)
LEMMA SendKeepsRecent ==
    ASSUME ListenerInv, NEW m \in Masters, SendSync(m),
           NEW k \in TwoStep, NEW id \in Sends, NEW b \in Nat, b + 1 <= SeqMod,
           Recent(k, id, b + Extra(k))
    PROVE  Recent(k, id, b + Extra(k))'
<1>1. k \in Masters /\ SeqMod \in Nat
  BY PTPAssumption
<1>2. next[k] \in Sends /\ DOMAIN next = Masters
  BY <1>1 DEF ListenerInv, NetworkOK
<1>3. m \notin sent /\ sent' = sent \cup {m}
  BY DEF SendSync
<1>4. CASE k = m
  <2>1. Extra(k) = 0 /\ Extra(k)' = 1
    BY <1>3, <1>4 DEF Extra
  <2>2. next'[k] = (next[k] + 1) % (SeqMod * Laps)
    BY <1>2, <1>1, <1>4 DEF SendSync
  <2>3. PICK j \in 1..b : Ago(next[k], id, j)
    BY <2>1 DEF Recent
  <2>4. j + 1 <= SeqMod /\ j \in Nat /\ j + 1 \in 1..(b + 1)
    BY <1>1
  <2>5. Ago(next'[k], id, j + 1)
    BY <1>2, <2>2, <2>3, <2>4, SendCounts
  <2>6. QED
    BY <2>1, <2>4, <2>5 DEF Recent
<1>5. CASE k # m
  <2>1. Extra(k)' = Extra(k)
    BY <1>3, <1>5 DEF Extra
  <2>2. next'[k] = next[k]
    BY <1>1, <1>2, <1>5 DEF SendSync
  <2>3. QED
    BY <2>1, <2>2 DEF Recent
<1>6. QED
  BY <1>4, <1>5

(* A wider bound. *)
LEMMA RecentWiden ==
    ASSUME NEW m, NEW id, NEW b \in Int, NEW c \in Int, b <= c, Recent(m, id, b)
    PROVE  Recent(m, id, c)
<1>1. PICK j \in 1..b : Ago(next[m], id, j)
  BY DEF Recent
<1>2. j \in 1..c
  OBVIOUS
<1>3. QED
  BY <1>1, <1>2 DEF Recent

LEMMA InitPair == Init => PairInv
<1> SUFFICES ASSUME Init PROVE PairInv
  OBVIOUS
<1>1. \A m \in Masters : due[m] = None
  BY DEF Init
<1>2. QED
  BY <1>1 DEF Init, Idle, PairInv, DueRecent, AirRecent, EventRecent,
              GeneralRecent, PendingRecent, PairedSamples

(* What the listener's invariant says of the bounds. *)
LEMMA PairBounds ==
    ASSUME ListenerInv, IdsOutliveEntries
    PROVE  /\ MaxDelay \in Nat /\ PendingMaxAge \in Nat /\ SeqMod \in Nat
           /\ MaxDelay + PendingMaxAge + 2 <= SeqMod /\ TwoStep \subseteq Masters
           /\ \A m : Extra(m) \in {0, 1}
           /\ \A p \in air : p.id \in Sends /\ p.src \in Masters
                             /\ p.kind \in {"sync", "followup"}
                             /\ p.age \in Nat /\ p.age <= MaxDelay
           /\ ev.id \in Sends /\ fu.id \in Sends
           /\ \A p \in pending : p.id \in Sends /\ p.age \in Nat
                                 /\ p.age <= PendingMaxAge + 1
<1> USE PTPAssumption
<1>1. \A m : Extra(m) \in {0, 1}
  BY DEF Extra
<1>2. \A p \in air : p \in Packet
  BY DEF ListenerInv, NetworkOK
<1>3. ev \in Handling /\ fu \in Handling
  BY DEF ListenerInv, LoopsOK
<1>4. \A p \in pending : p \in Entry /\ p.age <= PendingMaxAge + 1
  BY DEF ListenerInv, PendingOK
<1>5. OldAge \in Nat
  BY DEF OldAge
<1>6. \A p \in air : p.id \in Sends /\ p.src \in Masters
                     /\ p.kind \in {"sync", "followup"}
                     /\ p.age \in Nat /\ p.age <= MaxDelay
  BY <1>2 DEF Packet
<1>7. ev.id \in Sends /\ fu.id \in Sends
  BY <1>3 DEF Handling
<1>8. \A p \in pending : p.id \in Sends /\ p.age \in Nat
  BY <1>4, <1>5 DEF Entry
<1>9. QED
  BY <1>1, <1>4, <1>6, <1>7, <1>8 DEF IdsOutliveEntries

(* A send takes the next number; all that is remembered was sent before it. *)
LEMMA SendPairs ==
    ASSUME ListenerInv, PairInv, IdsOutliveEntries, NEW m \in Masters, SendSync(m)
    PROVE  PairInv'
<1> USE PTPAssumption
<1>1. /\ MaxDelay \in Nat /\ PendingMaxAge \in Nat /\ SeqMod \in Nat
      /\ MaxDelay + PendingMaxAge + 2 <= SeqMod /\ TwoStep \subseteq Masters
      /\ \A x : Extra(x) \in {0, 1}
      /\ \A p \in air : p.id \in Sends /\ p.src \in Masters
                        /\ p.kind \in {"sync", "followup"}
                        /\ p.age \in Nat /\ p.age <= MaxDelay
      /\ ev.id \in Sends /\ fu.id \in Sends
      /\ \A p \in pending : p.id \in Sends /\ p.age \in Nat
                            /\ p.age <= PendingMaxAge + 1
  BY PairBounds
<1>2. /\ \A x \in Masters : next[x] \in Sends
      /\ DOMAIN next = Masters /\ DOMAIN due = Masters
  BY DEF ListenerInv, NetworkOK
<1>3. UNCHANGED <<pending, ev, fu>>
  BY DEF SendSync, monitor, loops
<1>4. \A k \in TwoStep, id \in Sends, b \in Nat :
        b + 1 <= SeqMod /\ Recent(k, id, b + Extra(k)) =>
            Recent(k, id, b + Extra(k))'
  BY SendKeepsRecent
<1>5. m \in TwoStep => Ago(next'[m], next[m], 1)
  BY <1>2, SendCounts DEF SendSync
<1>6. DueRecent'
  <2> SUFFICES ASSUME NEW x \in Masters, due'[x] # None
               PROVE  x \in TwoStep /\ Ago(next'[x], due'[x], 1)
    BY DEF DueRecent, Ago
  <2>1. CASE x = m
    BY <2>1, <1>2, <1>5 DEF SendSync
  <2>2. CASE x # m
    <3>1. next'[x] = next[x] /\ due'[x] = due[x]
      BY <2>2, <1>2 DEF SendSync
    <3>2. QED
      BY <3>1 DEF PairInv, DueRecent
  <2>3. QED
    BY <2>1, <2>2
<1>7. AirRecent'
  <2> SUFFICES ASSUME NEW p \in air'
               PROVE  /\ p.kind = "sync" /\ p.src \in TwoStep =>
                           Recent(p.src, p.id, p.age + Extra(p.src))'
                      /\ p.kind = "followup" =>
                           /\ p.src \in TwoStep
                           /\ Recent(p.src, p.id, p.age + 1 + Extra(p.src))'
    BY DEF AirRecent, Recent, Ago, Extra
  <2>1. CASE p \in air
    <3>1. /\ p.kind = "sync" /\ p.src \in TwoStep =>
               Recent(p.src, p.id, p.age + Extra(p.src))
          /\ p.kind = "followup" =>
               p.src \in TwoStep /\ Recent(p.src, p.id, p.age + 1 + Extra(p.src))
      BY <2>1 DEF PairInv, AirRecent
    <3>2. /\ p.id \in Sends /\ p.age \in Nat /\ p.age + 1 \in Nat
          /\ p.age + 1 <= SeqMod /\ p.age + 1 + 1 <= SeqMod
      BY <2>1, <1>1
    <3>3. QED
      BY <3>1, <3>2, <1>4
  <2>2. CASE p = [kind |-> "sync", src |-> m, id |-> next[m], age |-> 0]
    <3>1. p.kind = "sync" /\ p.src = m /\ p.id = next[m] /\ p.age = 0
      BY <2>2
    <3>2. Extra(m)' = 1
      BY DEF Extra, SendSync
    <3>3. ASSUME m \in TwoStep PROVE Recent(m, p.id, 0 + Extra(m))'
      BY <3>1, <3>2, <3>3, <1>5 DEF Recent
    <3>4. QED
      BY <3>1, <3>3
  <2>3. QED
    BY <2>1, <2>2 DEF SendSync
<1>8. EventRecent'
  <2> SUFFICES ASSUME ev.pc # "recv", ev.src \in TwoStep
               PROVE  Recent(ev.src, ev.id, MaxDelay + Extra(ev.src))'
    BY <1>3 DEF EventRecent, Recent, Ago, Extra
  <2>1. Recent(ev.src, ev.id, MaxDelay + Extra(ev.src))
    BY DEF PairInv, EventRecent
  <2>2. QED
    BY <2>1, <1>1, <1>3, <1>4
<1>9. GeneralRecent'
  <2>1. ASSUME fu.pc = "pair"
        PROVE  Recent(fu.src, fu.id, MaxDelay + 1 + Extra(fu.src))'
    <3>1. fu.src \in TwoStep /\ Recent(fu.src, fu.id, MaxDelay + 1 + Extra(fu.src))
      BY <2>1 DEF PairInv, GeneralRecent
    <3>2. QED
      BY <3>1, <1>1, <1>3, <1>4
  <2>2. fu.pc # "recv" => fu.src \in TwoStep
    BY DEF PairInv, GeneralRecent
  <2>3. QED
    BY <1>3, <2>1, <2>2 DEF GeneralRecent, Recent, Ago, Extra
<1>10. PendingRecent'
  <2> SUFFICES ASSUME NEW p \in pending, p.src \in TwoStep
               PROVE  Recent(p.src, p.id, MaxDelay + p.age + Extra(p.src))'
    BY <1>3 DEF PendingRecent, Recent, Ago, Extra
  <2>1. Recent(p.src, p.id, MaxDelay + p.age + Extra(p.src))
    BY DEF PairInv, PendingRecent
  <2>2. MaxDelay + p.age \in Nat /\ MaxDelay + p.age + 1 <= SeqMod
    BY <1>1
  <2>3. QED
    BY <2>1, <2>2, <1>1, <1>4
<1>11. PairedSamples'
  BY <1>3 DEF PairInv, PairedSamples
<1>12. QED
  BY <1>6, <1>7, <1>8, <1>9, <1>10, <1>11 DEF PairInv

(* As long as no master sends and no time passes, the numbers keep their
   distance. *)
LEMMA Standstill ==
    ASSUME next' = next, sent' = sent
    PROVE  /\ \A m : Extra(m)' = Extra(m)
           /\ \A m, id, b : Recent(m, id, b)' <=> Recent(m, id, b)
BY DEF Extra, Recent, Ago

(* A unit of time: a master may send once more, and everything that waits is
   one unit older. *)
LEMMA PassPairs ==
    ASSUME ListenerInv, PairInv, IdsOutliveEntries, Pass
    PROVE  PairInv'
<1> USE PTPAssumption
<1>1. /\ MaxDelay \in Nat /\ PendingMaxAge \in Nat
      /\ \A x : Extra(x) \in {0, 1}
      /\ \A p \in air : p.age \in Nat
      /\ \A p \in pending : p.age \in Nat /\ p.age <= PendingMaxAge + 1
  BY PairBounds
<1>2. OldAge \in Nat /\ PendingMaxAge + 1 < OldAge
  BY DEF OldAge
<1>3. /\ UNCHANGED <<next, due, ev, fu>> /\ \A m : Extra(m)' = 0
      /\ ev.pc = "recv" /\ fu.pc = "recv"
  BY DEF Pass, loops, Extra
<1>4. \A m, id, b : Recent(m, id, b)' <=> Recent(m, id, b)
  BY <1>3 DEF Recent, Ago
<1>5. \A m, id, b : b \in Nat /\ Recent(m, id, b + Extra(m)) => Recent(m, id, b + 1)
  <2> SUFFICES ASSUME NEW m, NEW id, NEW b \in Nat, Recent(m, id, b + Extra(m))
               PROVE  Recent(m, id, b + 1)
    OBVIOUS
  <2>1. b + Extra(m) \in Int /\ b + 1 \in Int /\ b + Extra(m) <= b + 1
    BY <1>1
  <2>2. QED
    BY <2>1, RecentWiden
<1>6. DueRecent'
  BY <1>3 DEF PairInv, DueRecent, Ago
<1>7. AirRecent'
  <2> SUFFICES ASSUME NEW q \in air'
               PROVE  /\ q.kind = "sync" /\ q.src \in TwoStep =>
                           Recent(q.src, q.id, q.age + 0)
                      /\ q.kind = "followup" =>
                           q.src \in TwoStep /\ Recent(q.src, q.id, q.age + 1 + 0)
    BY <1>3, <1>4 DEF AirRecent
  <2>1. PICK p \in air : q = [p EXCEPT !.age = @ + 1]
    BY DEF Pass
  <2>2. p \in Packet
    BY DEF ListenerInv, NetworkOK
  <2>3. q.kind = p.kind /\ q.src = p.src /\ q.id = p.id /\ q.age = p.age + 1
    BY <2>1, <2>2 DEF Packet
  <2>4. p.age \in Nat /\ p.age + 1 \in Nat
    BY <1>1
  <2>5. /\ p.kind = "sync" /\ p.src \in TwoStep =>
             Recent(p.src, p.id, p.age + Extra(p.src))
        /\ p.kind = "followup" =>
             p.src \in TwoStep /\ Recent(p.src, p.id, p.age + 1 + Extra(p.src))
    BY DEF PairInv, AirRecent
  <2>6. /\ p.kind = "sync" /\ p.src \in TwoStep =>
             Recent(p.src, p.id, p.age + 1)
        /\ p.kind = "followup" =>
             p.src \in TwoStep /\ Recent(p.src, p.id, p.age + 1 + 1)
    BY <1>5, <2>4, <2>5
  <2>7. q.age + 0 = p.age + 1 /\ q.age + 1 + 0 = p.age + 1 + 1
    BY <2>3, <2>4
  <2>8. QED
    BY <2>3, <2>6, <2>7
<1>8. PendingRecent'
  <2> SUFFICES ASSUME NEW q \in pending', q.src \in TwoStep
               PROVE  Recent(q.src, q.id, MaxDelay + q.age + 0)
    BY <1>3, <1>4 DEF PendingRecent
  <2>1. PICK p \in pending : q = [p EXCEPT !.age = Older(@, OldAge)]
    BY DEF Pass
  <2>2. p \in Entry
    BY DEF ListenerInv, PendingOK
  <2>3. q.src = p.src /\ q.id = p.id /\ q.age = Older(p.age, OldAge)
    BY <2>1, <2>2 DEF Entry
  <2>4. Older(p.age, OldAge) = p.age + 1
    BY <1>1, <1>2 DEF Older
  <2>5. MaxDelay + p.age \in Nat /\ MaxDelay + q.age + 0 = MaxDelay + p.age + 1
    BY <1>1, <2>3, <2>4
  <2>6. Recent(p.src, p.id, MaxDelay + p.age + Extra(p.src))
    BY <2>3 DEF PairInv, PendingRecent
  <2>7. Recent(p.src, p.id, MaxDelay + p.age + 1)
    BY <1>5, <2>5, <2>6
  <2>8. QED
    BY <2>3, <2>5, <2>7
<1>9. EventRecent' /\ GeneralRecent' /\ PairedSamples'
  BY <1>3 DEF EventRecent, GeneralRecent, PairedSamples
<1>10. QED
  BY <1>6, <1>7, <1>8, <1>9 DEF PairInv

(* A Follow_Up finds the Sync of its own send, or none. *)
LEMMA FollowUpPairs ==
    ASSUME ListenerInv, PairInv, IdsOutliveEntries, FollowUpPair
    PROVE  PairedSamples' /\ GeneralRecent'
<1> USE PTPAssumption
<1>1. /\ MaxDelay \in Nat /\ PendingMaxAge \in Nat /\ SeqMod \in Nat
      /\ MaxDelay + PendingMaxAge + 2 <= SeqMod /\ TwoStep \subseteq Masters
      /\ \A x : Extra(x) \in {0, 1}
      /\ fu.id \in Sends
      /\ \A p \in pending : p.id \in Sends /\ p.age \in Nat
                            /\ p.age <= PendingMaxAge + 1
  BY PairBounds
<1>2. fu.pc = "pair" /\ fu.src \in TwoStep
      /\ Recent(fu.src, fu.id, MaxDelay + 1 + Extra(fu.src))
  BY DEF FollowUpPair, PairInv, GeneralRecent
<1>3. fu \in Handling /\ next[fu.src] \in Sends
  BY <1>1, <1>2 DEF ListenerInv, LoopsOK, NetworkOK
<1>4. CASE fu' = Idle
  BY <1>4 DEF Idle, PairedSamples, GeneralRecent
<1>5. CASE \E p \in {q \in pending : SameKey(q, fu.src, fu.id)} :
             fu' = [fu EXCEPT !.pc = "sample", !.age = p.age, !.of = p.id]
  <2>1. PICK p \in pending :
          /\ SameKey(p, fu.src, fu.id)
          /\ fu' = [fu EXCEPT !.pc = "sample", !.age = p.age, !.of = p.id]
    BY <1>5
  <2>2. /\ fu'.pc = "sample" /\ fu'.src = fu.src /\ fu'.id = fu.id
        /\ fu'.of = p.id
    BY <1>3, <2>1 DEF Handling
  <2>3. p.src = fu.src /\ SeqID(p.id) = SeqID(fu.id)
    BY <2>1 DEF SameKey
  <2>4. Recent(fu.src, p.id, MaxDelay + p.age + Extra(fu.src))
    BY <1>2, <2>3 DEF PairInv, PendingRecent
  <2>5. PICK ks \in 1..(MaxDelay + p.age + Extra(fu.src)) :
          Ago(next[fu.src], p.id, ks)
    BY <2>4 DEF Recent
  <2>6. PICK kf \in 1..(MaxDelay + 1 + Extra(fu.src)) :
          Ago(next[fu.src], fu.id, kf)
    BY <1>2 DEF Recent
  <2>7. ks \in 1..SeqMod /\ kf \in 1..SeqMod
    BY <1>1
  <2>8. p.id = fu.id
    BY <1>1, <1>3, <2>3, <2>5, <2>6, <2>7, RecentIdsDiffer
  <2>9. QED
    BY <1>2, <2>2, <2>8 DEF PairedSamples, GeneralRecent
<1>6. QED
  BY <1>4, <1>5 DEF FollowUpPair

LEMMA PairStep ==
    ASSUME ListenerInv, PairInv, IdsOutliveEntries, [Next]_vars
    PROVE  PairInv'
<1> USE PTPAssumption
<1>1. /\ MaxDelay \in Nat /\ \A x : Extra(x) \in {0, 1}
      /\ \A p \in air : p.age \in Nat /\ p.age <= MaxDelay
  BY PairBounds
<1>2. CASE \E m \in Masters : SendSync(m)
  BY <1>2, SendPairs
<1>3. CASE Pass
  BY <1>3, PassPairs
<1>4. CASE ~Pass /\ ~(\E m \in Masters : SendSync(m))
  <2>1. next' = next /\ sent' = sent
    BY <1>4 DEF Next, EventLoop, GeneralLoop, Environment, SyncNote, SyncDecide,
       SyncPend, SyncSample, FollowUpLatch, FollowUpPair, FollowUpSample, Expire,
       SendFollowUp, Lose, Elect, Weather, vars, network
  <2>2. /\ \A m : Extra(m)' = Extra(m)
        /\ \A m, id, b : Recent(m, id, b)' <=> Recent(m, id, b)
    BY <2>1, Standstill
  <2>3. DueRecent'
    <3>1. \A m \in Masters : due'[m] = due[m] \/ due'[m] = None
      <4>1. CASE \E m \in Masters : SendFollowUp(m)
        BY <4>1 DEF SendFollowUp, ListenerInv, NetworkOK
      <4>2. CASE Elect
        BY <4>2 DEF Elect
      <4>3. CASE ~Elect /\ ~(\E m \in Masters : SendFollowUp(m))
        BY <1>4, <4>3 DEF Next, EventLoop, GeneralLoop, Environment, SyncNote,
           SyncDecide, SyncPend, SyncSample, FollowUpLatch, FollowUpPair,
           FollowUpSample, Expire, Lose, Weather, vars, network
      <4>4. QED
        BY <4>1, <4>2, <4>3
    <3>2. QED
      BY <2>1, <3>1 DEF PairInv, DueRecent, Ago
  <2>4. AirRecent'
    <3>1. CASE \E m \in Masters : SendFollowUp(m)
      <4>1. PICK m \in Masters : SendFollowUp(m)
        BY <3>1
      <4>2. m \in TwoStep /\ Ago(next[m], due[m], 1)
        BY <4>1 DEF SendFollowUp, PairInv, DueRecent
      <4>3. 1 \in 1..(0 + 1 + Extra(m))
        BY <1>1
      <4>4. Recent(m, due[m], 0 + 1 + Extra(m))
        BY <4>2, <4>3 DEF Recent
      <4>5. air' = air \cup
              {[kind |-> "followup", src |-> m, id |-> due[m], age |-> 0]}
        BY <4>1 DEF SendFollowUp
      <4>6. QED
        BY <2>2, <4>2, <4>4, <4>5 DEF PairInv, AirRecent
    <3>2. CASE ~(\E m \in Masters : SendFollowUp(m))
      <4>1. air' \subseteq air
        BY <1>4, <3>2 DEF Next, EventLoop, GeneralLoop, Environment, SyncNote,
           SyncDecide, SyncPend, SyncSample, FollowUpLatch, FollowUpPair,
           FollowUpSample, Expire, Lose, Elect, Weather, vars, network
      <4>2. QED
        BY <2>2, <4>1 DEF PairInv, AirRecent
    <3>3. QED
      BY <3>1, <3>2
  <2>5. EventRecent'
    <3>1. CASE SyncNote
      <4>1. PICK p \in air :
              /\ p.kind = "sync"
              /\ ev' = [pc |-> "decide", src |-> p.src, id |-> p.id,
                        of |-> p.id, age |-> 0]
        BY <3>1 DEF SyncNote
      <4>2. ev'.src = p.src /\ ev'.id = p.id
        BY <4>1
      <4>3. p.src \in TwoStep => Recent(p.src, p.id, p.age + Extra(p.src))
        BY <4>1 DEF PairInv, AirRecent
      <4>4. /\ p.age + Extra(p.src) \in Int /\ MaxDelay + Extra(p.src) \in Int
            /\ p.age + Extra(p.src) <= MaxDelay + Extra(p.src)
        BY <1>1
      <4>5. p.src \in TwoStep => Recent(p.src, p.id, MaxDelay + Extra(p.src))
        BY <4>3, <4>4, RecentWiden
      <4>6. QED
        BY <2>2, <4>2, <4>5 DEF EventRecent
    <3>2. CASE SyncDecide
      <4>1. ev.pc # "recv" /\ ev'.src = ev.src /\ ev'.id = ev.id
        BY <3>2 DEF SyncDecide, ListenerInv, LoopsOK, Handling
      <4>2. QED
        BY <2>2, <4>1 DEF PairInv, EventRecent
    <3>3. CASE SyncPend \/ SyncSample
      BY <3>3 DEF SyncPend, SyncSample, Idle, EventRecent
    <3>4. CASE ~(SyncNote \/ SyncDecide \/ SyncPend \/ SyncSample)
      <4>1. ev' = ev
        BY <1>4, <3>4 DEF Next, EventLoop, GeneralLoop, Environment,
           FollowUpLatch, FollowUpPair, FollowUpSample, Expire, SendFollowUp,
           Lose, Elect, Weather, vars, loops
      <4>2. QED
        BY <2>2, <4>1 DEF PairInv, EventRecent
    <3>5. QED
      BY <3>1, <3>2, <3>3, <3>4
  <2>6. GeneralRecent' /\ PairedSamples'
    <3>1. CASE FollowUpLatch
      <4>1. PICK p \in air :
              /\ p.kind = "followup"
              /\ fu' = [pc |-> "pair", src |-> p.src, id |-> p.id,
                        of |-> p.id, age |-> 0]
        BY <3>1 DEF FollowUpLatch
      <4>2. fu'.pc = "pair" /\ fu'.src = p.src /\ fu'.id = p.id
        BY <4>1
      <4>3. p.src \in TwoStep /\ Recent(p.src, p.id, p.age + 1 + Extra(p.src))
        BY <4>1 DEF PairInv, AirRecent
      <4>4. /\ p.age + 1 + Extra(p.src) \in Int
            /\ MaxDelay + 1 + Extra(p.src) \in Int
            /\ p.age + 1 + Extra(p.src) <= MaxDelay + 1 + Extra(p.src)
        BY <1>1
      <4>5. Recent(p.src, p.id, MaxDelay + 1 + Extra(p.src))
        BY <4>3, <4>4, RecentWiden
      <4>6. QED
        BY <2>2, <4>2, <4>3, <4>5 DEF GeneralRecent, PairedSamples
    <3>2. CASE FollowUpPair
      BY <3>2, FollowUpPairs
    <3>3. CASE FollowUpSample
      BY <3>3 DEF FollowUpSample, Idle, GeneralRecent, PairedSamples
    <3>4. CASE ~(FollowUpLatch \/ FollowUpPair \/ FollowUpSample)
      <4>1. fu' = fu
        BY <1>4, <3>4 DEF Next, EventLoop, GeneralLoop, Environment, SyncNote,
           SyncDecide, SyncPend, SyncSample, Expire, SendFollowUp, Lose, Elect,
           Weather, vars, loops
      <4>2. QED
        BY <2>2, <4>1 DEF PairInv, GeneralRecent, PairedSamples
    <3>5. QED
      BY <3>1, <3>2, <3>3, <3>4
  <2>7. PendingRecent'
    <3>1. CASE SyncPend
      <4>1. /\ ev.pc = "pend"
            /\ pending' = {p \in pending : ~SameKey(p, ev.src, ev.id)}
                            \cup {[src |-> ev.src, id |-> ev.id, age |-> 0]}
        BY <3>1 DEF SyncPend
      <4>2. ev.src \in TwoStep =>
              Recent(ev.src, ev.id, MaxDelay + 0 + Extra(ev.src))
        <5>1. MaxDelay + 0 + Extra(ev.src) = MaxDelay + Extra(ev.src)
          BY <1>1
        <5>2. QED
          BY <4>1, <5>1 DEF PairInv, EventRecent
      <4>3. QED
        BY <2>2, <4>1, <4>2 DEF PairInv, PendingRecent
    <3>2. CASE ~SyncPend
      <4>1. pending' \subseteq pending
        BY <1>4, <3>2 DEF Next, EventLoop, GeneralLoop, Environment, SyncNote,
           SyncDecide, SyncSample, FollowUpLatch, FollowUpPair, FollowUpSample,
           Expire, SendFollowUp, Lose, Elect, Weather, vars, monitor
      <4>2. QED
        BY <2>2, <4>1 DEF PairInv, PendingRecent
    <3>3. QED
      BY <3>1, <3>2
  <2>8. QED
    BY <2>3, <2>4, <2>5, <2>6, <2>7 DEF PairInv
<1>5. QED
  BY <1>2, <1>3, <1>4

(* A Follow_Up is paired with the Sync it belongs to, over any number of
   wraparounds of the sequence id, as long as an entry of the pending map is
   expired before its id comes round: 65536 ids against an expiry of 3 s, a
   ticker of 1 s and the time a packet spends in the network.  handlePacket
   drops an entry only on a match; expirePending is what bounds its age. *)
THEOREM MatchedPairs ==
    ASSUME IdsOutliveEntries
    PROVE  Spec => []PairedSamples
<1>1. ListenerInv /\ PairInv /\ [Next]_vars => PairInv'
  BY PairStep
<1>2. PairInv => PairedSamples
  BY DEF PairInv
<1>3. QED
  BY <1>1, <1>2, InitPair, ListenerInvariant, PTL DEF Spec

-----------------------------------------------------------------------------
(* What a measurement does to the window. *)
LEMMA MeasurementEndsWindow ==
    ASSUME ListenerInv, NEW m \in Masters, NEW g \in 0..(PendingMaxAge + 1),
           AddSample(m, g)
    PROVE  /\ samples' \in Seq(Sample) /\ Len(samples') \in Nat
           /\ DOMAIN samples' = 1..Len(samples') /\ Len(samples') >= 1
           /\ samples'[Len(samples')].src = m
           /\ samples'[Len(samples')].age = g
           /\ \A i \in DOMAIN samples' :
                samples'[i].src = m \/ \E j \in DOMAIN samples : samples'[i] = samples[j]
<1>1. samples' = Retained(Append(samples, [src |-> m, age |-> g]), g)
  BY DEF AddSample
<1>2. Windowed(samples) /\ DOMAIN samples = 1..Len(samples)
  BY DEF ListenerInv, Windowed
<1>3. /\ samples' \in Seq(Sample) /\ Len(samples') \in Nat /\ Len(samples') >= 1
      /\ samples'[Len(samples')].src = m /\ samples'[Len(samples')].age = g
      /\ \A i \in 1..Len(samples') :
           samples'[i].src = m \/ \E j \in 1..Len(samples) : samples'[i] = samples[j]
  BY <1>1, <1>2, RetainedEndsNew
<1>4. DOMAIN samples' = 1..Len(samples')
  BY <1>3
<1>5. QED
  BY <1>2, <1>3, <1>4

(* Everything that is no measurement leaves the window alone, empties it, or
   lets it age. *)
OtherSteps ==
    \/ SyncDecide \/ SyncPend \/ FollowUpLatch \/ FollowUpPair \/ Expire
    \/ Environment \/ UNCHANGED vars

LEMMA StepKinds ==
    ASSUME [Next]_vars
    PROVE  SyncNote \/ SyncSample \/ FollowUpSample \/ Pass \/ OtherSteps
BY DEF Next, EventLoop, GeneralLoop, OtherSteps

LEMMA OthersKeepWindow ==
    ASSUME OtherSteps
    PROVE  UNCHANGED <<samples, locked, masterID, lastSync>>
BY DEF OtherSteps, SyncDecide, SyncPend, FollowUpLatch, FollowUpPair, Expire,
       Environment, SendSync, SendFollowUp, Lose, Elect, Weather, vars, monitor

(* The missing check: the clock of a Follow_Up is compared with the
   grandmaster when its measurement is added. *)
SourceChecked == FollowUpSample => fu.src = masterID

OneSource ==
    /\ ev.pc # "recv" => ev.src = masterID
    /\ \A i \in DOMAIN samples : samples[i].src = masterID

LEMMA EventSourceStep ==
    ASSUME OneSource, [Next]_vars
    PROVE  (ev.pc # "recv" => ev.src = masterID)'
<1>1. CASE SyncNote
  BY <1>1 DEF SyncNote, NoteMaster
<1>2. CASE ~SyncNote
  <2>1. masterID' = masterID
    BY <1>2 DEF Next, EventLoop, GeneralLoop, Environment, SyncDecide, SyncPend,
       SyncSample, FollowUpLatch, FollowUpPair, FollowUpSample, Expire, Pass,
       SendSync, SendFollowUp, Lose, Elect, Weather, vars, monitor
  <2>2. CASE SyncDecide
    <3>1. ev.pc = "decide" /\ (ev'.pc # "recv" => ev'.src = ev.src)
      BY <2>2 DEF SyncDecide
    <3>2. QED
      BY <2>1, <3>1 DEF OneSource
  <2>3. CASE SyncPend \/ SyncSample
    BY <2>3 DEF SyncPend, SyncSample, Idle
  <2>4. CASE ~(SyncDecide \/ SyncPend \/ SyncSample)
    <3>1. ev' = ev
      BY <1>2, <2>4 DEF Next, EventLoop, GeneralLoop, Environment, FollowUpLatch,
         FollowUpPair, FollowUpSample, Expire, Pass, SendSync, SendFollowUp,
         Lose, Elect, Weather, vars, loops
    <3>2. QED
      BY <2>1, <3>1 DEF OneSource
  <2>5. QED
    BY <2>2, <2>3, <2>4
<1>3. QED
  BY <1>1, <1>2

LEMMA WindowSourceStep ==
    ASSUME ListenerInv, OneSource, [Next]_vars, [SourceChecked]_vars
    PROVE  (\A i \in DOMAIN samples : samples[i].src = masterID)'
<1>1. LoopsOK /\ samples \in Seq(Sample)
  BY DEF ListenerInv, Windowed
<1>2. CASE SyncNote
  <2>1. PICK m : NoteMaster(m)
    BY <1>2 DEF SyncNote
  <2>2. samples' = <<>> \/ (samples' = samples /\ masterID' = masterID)
    BY <2>1 DEF NoteMaster
  <2>3. QED
    BY <2>2 DEF OneSource
<1>3. CASE SyncSample
  <2>1. /\ ev.src \in Masters /\ ev.age \in 0..(PendingMaxAge + 1)
        /\ ev.src = masterID /\ masterID' = masterID
    BY <1>1, <1>3, PTPAssumption DEF LoopsOK, SyncSample, OneSource
  <2>2. AddSample(ev.src, ev.age)
    BY <1>3 DEF SyncSample
  <2>3. \A i \in DOMAIN samples' :
          samples'[i].src = ev.src \/ \E j \in DOMAIN samples : samples'[i] = samples[j]
    BY <2>1, <2>2, MeasurementEndsWindow
  <2>4. QED
    BY <2>1, <2>3 DEF OneSource
<1>4. CASE FollowUpSample
  <2>1. fu.src \in Masters /\ fu.age \in 0..(PendingMaxAge + 1)
    BY <1>1, <1>4 DEF LoopsOK, FollowUpSample, Handling
  <2>2. AddSample(fu.src, fu.age) /\ masterID' = masterID
    BY <1>4 DEF FollowUpSample
  <2>3. \A i \in DOMAIN samples' :
          samples'[i].src = fu.src \/ \E j \in DOMAIN samples : samples'[i] = samples[j]
    BY <2>1, <2>2, MeasurementEndsWindow
  <2>4. vars' # vars
    BY <1>4 DEF FollowUpSample, Idle, vars, loops
  <2>5. fu.src = masterID
    BY <1>4, <2>4 DEF SourceChecked
  <2>6. QED
    BY <2>2, <2>3, <2>5 DEF OneSource
<1>5. CASE Pass
  <2>1. /\ samples' = [i \in DOMAIN samples |->
                        [samples[i] EXCEPT !.age = Older(@, OldAge)]]
        /\ masterID' = masterID
    BY <1>5 DEF Pass
  <2>2. \A i \in DOMAIN samples : samples[i] \in Sample
    BY <1>1, ElementOfSeq
  <2>3. \A i \in DOMAIN samples' :
          i \in DOMAIN samples /\ samples'[i].src = samples[i].src
    BY <2>1, <2>2 DEF Sample
  <2>4. QED
    BY <2>1, <2>3 DEF OneSource
<1>6. CASE OtherSteps
  BY <1>6, OthersKeepWindow DEF OneSource
<1>7. QED
  BY <1>2, <1>3, <1>4, <1>5, <1>6, StepKinds

(* What would give "two grandmasters share no timeline" its truth: comparing
   the clock of a Follow_Up with the grandmaster, in the critical section that
   adds its measurement.  The event port needs no check of its own, although
   it lets the lock go between noting the clock and measuring it. *)
THEOREM SourceCheckSuffices ==
    Spec /\ [][SourceChecked]_vars => []OneTimeline
<1>1. Init => OneSource
  BY DEF Init, OneSource, Idle
<1>2. ListenerInv /\ OneSource /\ [Next]_vars /\ [SourceChecked]_vars => OneSource'
  BY EventSourceStep, WindowSourceStep DEF OneSource
<1>3. OneSource => OneTimeline
  BY DEF OneSource, OneTimeline
<1>4. QED
  BY <1>1, <1>2, <1>3, ListenerInvariant, PTL DEF Spec

-----------------------------------------------------------------------------
(* How old the measurement is that an estimate extrapolates from. *)

Newest == samples[Len(samples)]

EstimateIsRecent ==
    Estimable => samples # <<>> /\ Newest.age <= Holdover + PendingMaxAge + 1

NewestInv ==
    samples # <<>> /\ lastSync <= Holdover =>
        Newest.age <= lastSync + PendingMaxAge + 1

LEMMA AgesInWindow ==
    ASSUME NEW s \in Seq(Sample), NEW i \in 1..Len(s)
    PROVE  s[i] \in Sample /\ s[i].age \in 0..OldAge /\ s[i].age \in Nat
<1>1. s[i] \in Sample
  BY ElementOfSeq
<1>2. OldAge \in Nat
  BY PTPAssumption DEF OldAge
<1>3. QED
  BY <1>1, <1>2 DEF Sample

LEMMA NewestStep ==
    ASSUME ListenerInv, NewestInv, [Next]_vars
    PROVE  NewestInv'
<1> USE PTPAssumption
<1>1. /\ LoopsOK /\ samples \in Seq(Sample) /\ lastSync \in 0..(Holdover + 1)
      /\ OldAge \in Nat
  <2>1. OldAge \in Nat
    BY DEF OldAge
  <2>2. QED
    BY <2>1 DEF ListenerInv, Windowed
<1>2. CASE SyncNote
  <2>1. PICK m : NoteMaster(m)
    BY <1>2 DEF SyncNote
  <2>2. samples' = <<>> \/ (samples' = samples /\ lastSync' = lastSync)
    BY <1>2, <2>1 DEF NoteMaster, SyncNote
  <2>3. QED
    BY <2>2 DEF NewestInv, Newest
<1>3. CASE SyncSample
  <2>1. ev.src \in Masters /\ ev.age \in 0..(PendingMaxAge + 1)
    BY <1>1, <1>3 DEF LoopsOK, SyncSample
  <2>2. AddSample(ev.src, ev.age) /\ lastSync' = 0
    BY <1>3 DEF SyncSample, AddSample
  <2>3. Newest'.age = ev.age
    BY <2>1, <2>2, MeasurementEndsWindow DEF Newest
  <2>4. QED
    BY <2>1, <2>2, <2>3 DEF NewestInv
<1>4. CASE FollowUpSample
  <2>1. fu.src \in Masters /\ fu.age \in 0..(PendingMaxAge + 1)
    BY <1>1, <1>4 DEF LoopsOK, FollowUpSample, Handling
  <2>2. AddSample(fu.src, fu.age) /\ lastSync' = 0
    BY <1>4 DEF FollowUpSample, AddSample
  <2>3. Newest'.age = fu.age
    BY <2>1, <2>2, MeasurementEndsWindow DEF Newest
  <2>4. QED
    BY <2>1, <2>2, <2>3 DEF NewestInv
<1>5. CASE Pass
  <2> DEFINE n == Len(samples)
  <2>1. /\ samples' = [i \in DOMAIN samples |->
                        [samples[i] EXCEPT !.age = Older(@, OldAge)]]
        /\ lastSync' = Older(lastSync, Holdover + 1)
    BY <1>5 DEF Pass
  <2>2. n \in Nat /\ DOMAIN samples = 1..n
    BY <1>1
  <2>3. SUFFICES ASSUME samples' # <<>>, lastSync' <= Holdover
                 PROVE  Newest'.age <= lastSync' + PendingMaxAge + 1
    BY DEF NewestInv
  <2>4. Len(samples') = n
    BY <2>1, <2>2
  <2>5. samples # <<>>
    BY <2>1, <2>2, <2>3
  <2>6. n >= 1
    BY <1>1, <2>2, <2>5
  <2>7. samples[n] \in Sample /\ samples[n].age \in 0..OldAge
    BY <1>1, <2>2, <2>6, AgesInWindow
  <2>8. samples'[n].age = Older(samples[n].age, OldAge)
    <3>1. samples'[n] = [samples[n] EXCEPT !.age = Older(samples[n].age, OldAge)]
      BY <2>1, <2>2, <2>6
    <3>2. QED
      BY <2>7, <3>1 DEF Sample
  <2>9. lastSync' = lastSync + 1 /\ lastSync <= Holdover
    BY <1>1, <2>1, <2>3 DEF Older
  <2>10. samples[n].age <= lastSync + PendingMaxAge + 1
    BY <2>5, <2>9 DEF NewestInv, Newest
  <2> HIDE DEF n
  <2>11. samples'[n].age <= samples[n].age + 1
    BY <1>1, <2>7, <2>8 DEF Older
  <2>12. samples'[n].age \in Int
    BY <1>1, <2>7, <2>8 DEF Older
  <2>13. QED
    BY <1>1, <2>4, <2>7, <2>9, <2>10, <2>11, <2>12 DEF Newest
<1>6. CASE OtherSteps
  BY <1>6, OthersKeepWindow DEF NewestInv, Newest
<1>7. QED
  BY <1>2, <1>3, <1>4, <1>5, <1>6, StepKinds

(* An estimate is never extrapolated from further back than the holdover and
   the wait for a Follow_Up: lastSync is set when a measurement is added, not
   when its Sync was received, and changes of master, expiry and the other
   read loop come in between. *)
THEOREM EstimatesAreRecent == Spec => []EstimateIsRecent
<1>1. Init => NewestInv
  BY DEF Init, NewestInv
<1>2. ListenerInv /\ NewestInv /\ LockedWhenFitted => EstimateIsRecent
  <2> SUFFICES ASSUME ListenerInv, NewestInv, LockedWhenFitted, Estimable
               PROVE  samples # <<>> /\ Newest.age <= Holdover + PendingMaxAge + 1
    BY DEF EstimateIsRecent
  <2>1. lastSync <= Holdover /\ Len(samples) >= MinSamples /\ lastSync \in Nat
    BY PTPAssumption DEF Estimable, LockedWhenFitted, ListenerInv
  <2>2. samples \in Seq(Sample) /\ Len(samples) >= 1 /\ samples # <<>>
    BY <2>1, PTPAssumption DEF ListenerInv, Windowed
  <2>3. Newest.age \in Nat
    <3>1. Len(samples) \in 1..Len(samples)
      BY <2>2
    <3>2. QED
      BY <2>2, <3>1, AgesInWindow DEF Newest
  <2>4. Newest.age <= lastSync + PendingMaxAge + 1
    BY <2>1, <2>2 DEF NewestInv
  <2>5. PendingMaxAge \in Nat /\ Holdover \in Nat
    BY PTPAssumption
  <2>6. QED
    BY ONLY <2>1, <2>2, <2>3, <2>4, <2>5
<1>3. QED
  BY <1>1, <1>2, NewestStep, ListenerInvariant, LockFollowsWindow, PTL DEF Spec
=============================================================================
