--------------------------- MODULE ControlProofs ---------------------------
(***************************************************************************)
(* Theorems about the configuration and the Companion module for any       *)
(* number of handlers, stations, polls and files.                          *)
(***************************************************************************)
EXTENDS Control, SequenceTheorems, TLAPS

(* Lists of stations. *)

\* Positions after the one that is removed.
LEMMA After ==
    ASSUME NEW i \in Int, NEW j \in Int, NEW n \in Int, 1 <= i, j > i, j <= n
    PROVE  /\ j - 1 \in 1..((i - 1) + (n - i)) /\ ~(j - 1 <= i - 1)
           /\ j - 1 - (i - 1) = j - i /\ j - i \in 1..(n - i) /\ i + (j - i) = j
<1>1. j - 1 \in Int /\ 1 <= j - 1 /\ j - 1 <= (i - 1) + (n - i)
  OBVIOUS
<1>2. j - i \in Int /\ 1 <= j - i /\ j - i <= n - i
  OBVIOUS
<1>3. QED
  BY <1>1, <1>2

\* What RemoveAt takes is one entry: the others stay.
LEMMA RemoveAtKeeps ==
    ASSUME NEW s \in Lists, NEW i \in DOMAIN s
    PROVE  /\ RemoveAt(s, i) \in Lists
           /\ \A x \in Range(s) : x # s[i] => x \in Range(RemoveAt(s, i))
<1> DEFINE front == SubSeq(s, 1, i - 1)
           back  == SubSeq(s, i + 1, Len(s))
<1>1. /\ Len(s) \in Nat /\ DOMAIN s = 1..Len(s) /\ i \in 1..Len(s)
      /\ \A j \in 1..Len(s) : s[j] \in Station
  BY LenProperties, ElementOfSeq DEF Lists
<1>2. /\ front \in Lists /\ Len(front) = i - 1
      /\ \A j \in 1..(i - 1) : front[j] = s[j]
  <2>1. /\ 1 \in Int /\ i - 1 \in Int /\ \A j \in 1..(i - 1) : s[j] \in Station
    BY <1>1
  <2>2. /\ front \in Seq(Station)
        /\ Len(front) = IF 1 <= i - 1 THEN i - 1 - 1 + 1 ELSE 0
        /\ \A j \in 1..(i - 1 - 1 + 1) : front[j] = s[1 + j - 1]
    BY <2>1, SubSeqProperties
  <2>3. i - 1 - 1 + 1 = i - 1 /\ \A j \in 1..(i - 1) : 1 + j - 1 = j
    BY <1>1
  <2>4. Len(front) = i - 1
    BY <1>1, <2>2
  <2>5. QED
    BY <2>2, <2>3, <2>4 DEF Lists
<1>3. /\ back \in Lists /\ Len(back) = Len(s) - i
      /\ \A j \in 1..(Len(s) - i) : back[j] = s[i + j]
  <2>1. /\ i + 1 \in Int /\ Len(s) \in Int
        /\ \A j \in (i + 1)..Len(s) : s[j] \in Station
    BY <1>1
  <2>2. /\ back \in Seq(Station)
        /\ Len(back) = IF i + 1 <= Len(s) THEN Len(s) - (i + 1) + 1 ELSE 0
        /\ \A j \in 1..(Len(s) - (i + 1) + 1) : back[j] = s[i + 1 + j - 1]
    BY <2>1, SubSeqProperties
  <2>3. /\ Len(s) - (i + 1) + 1 = Len(s) - i
        /\ \A j \in 1..(Len(s) - i) : i + 1 + j - 1 = i + j
    BY <1>1
  <2>4. Len(back) = Len(s) - i
    BY <1>1, <2>2
  <2>5. QED
    BY <2>2, <2>3, <2>4 DEF Lists
<1>4. /\ front \o back \in Lists
      /\ Len(front \o back) = Len(front) + Len(back)
      /\ \A j \in 1..(Len(front) + Len(back)) :
           (front \o back)[j] = IF j <= Len(front) THEN front[j] ELSE back[j - Len(front)]
  BY <1>2, <1>3, ConcatProperties DEF Lists
<1>5. RemoveAt(s, i) = front \o back
  BY DEF RemoveAt
<1>6. ASSUME NEW j \in DOMAIN s, s[j] # s[i]
      PROVE  s[j] \in Range(front \o back)
  <2>1. j \in 1..Len(s) /\ j # i
    BY <1>1, <1>6
  <2>2. CASE j < i
    <3>1. /\ j \in 1..(Len(front) + Len(back)) /\ j <= Len(front) /\ j \in 1..(i - 1)
      BY <1>1, <1>2, <1>3, <2>1, <2>2
    <3>2. (front \o back)[j] = s[j]
      BY <1>2, <1>4, <3>1
    <3>3. j \in DOMAIN (front \o back)
      BY <1>4, <3>1, LenProperties DEF Lists
    <3>4. QED
      BY <3>2, <3>3 DEF Range
  <2>3. CASE j > i
    <3>1. /\ j - 1 \in 1..(Len(front) + Len(back)) /\ ~(j - 1 <= Len(front))
          /\ j - 1 - Len(front) = j - i /\ j - i \in 1..(Len(s) - i) /\ i + (j - i) = j
      <4>1. /\ Len(front) = i - 1 /\ Len(back) = Len(s) - i
            /\ i \in Int /\ j \in Int /\ Len(s) \in Int /\ 1 <= i /\ j <= Len(s)
        BY <1>1, <1>2, <1>3, <2>1
      <4>2. /\ j - 1 \in 1..((i - 1) + (Len(s) - i)) /\ ~(j - 1 <= i - 1)
            /\ j - 1 - (i - 1) = j - i /\ j - i \in 1..(Len(s) - i) /\ i + (j - i) = j
        BY <4>1, <2>3, After
      <4>3. QED
        BY <4>1, <4>2
    <3>2. (front \o back)[j - 1] = back[j - i]
      BY <1>4, <3>1
    <3>3. (front \o back)[j - 1] = s[j]
      BY <1>3, <3>1, <3>2
    <3>4. j - 1 \in DOMAIN (front \o back)
      BY <1>4, <3>1, LenProperties DEF Lists
    <3>5. QED
      BY <3>3, <3>4 DEF Range
  <2>4. QED
    BY <1>1, <2>1, <2>2, <2>3
<1>7. QED
  BY <1>4, <1>5, <1>6 DEF Range

\* So does Append.
LEMMA AppendKeeps ==
    ASSUME NEW s \in Lists, NEW e \in Station
    PROVE  /\ Append(s, e) \in Lists /\ Append(s, e) # <<>>
           /\ \A x \in Range(s) : x \in Range(Append(s, e))
<1>1. /\ Append(s, e) \in Lists /\ Len(Append(s, e)) = Len(s) + 1 /\ Len(s) \in Nat
      /\ DOMAIN s = 1..Len(s) /\ DOMAIN Append(s, e) = 1..(Len(s) + 1)
      /\ \A i \in 1..Len(s) : Append(s, e)[i] = s[i]
  BY AppendProperties, LenProperties DEF Lists
<1>2. Append(s, e) # <<>>
  BY <1>1, EmptySeq DEF Lists
<1>3. \A i \in 1..Len(s) : i \in 1..(Len(s) + 1)
  BY <1>1
<1>4. QED
  BY <1>1, <1>2, <1>3 DEF Range

\* The first part of a list is a list, with or without its last is_custom.
LEMMA CutType ==
    ASSUME NEW s \in Lists, NEW n \in 0..Len(s)
    PROVE  Cut(s, n) \subseteq Lists
<1> DEFINE front == SubSeq(s, 1, n)
<1>1. /\ Len(s) \in Nat /\ \A j \in 1..Len(s) : s[j] \in Station
  BY LenProperties, ElementOfSeq DEF Lists
<1>2. 1 \in Int /\ n \in Int /\ \A j \in 1..n : s[j] \in Station
  BY <1>1
<1>3. front \in Seq(Station) /\ Len(front) = IF 1 <= n THEN n - 1 + 1 ELSE 0
  BY <1>2, SubSeqProperties
<1>4. ASSUME n > 0
      PROVE  [front EXCEPT ![n].custom = FALSE] \in Seq(Station)
  <2>1. n \in 1..Len(front)
    BY <1>3, <1>4
  <2>2. front[n] \in Station
    BY <1>3, <2>1, ElementOfSeq
  <2>3. [front[n] EXCEPT !.custom = FALSE] \in Station
    BY <2>2 DEF Station
  <2>4. [front EXCEPT ![n] = [front[n] EXCEPT !.custom = FALSE]] \in Seq(Station)
    BY <1>3, <2>1, <2>3, ExceptSeq
  <2>5. QED
    BY <2>4
<1>5. QED
  BY <1>3, <1>4 DEF Cut, Lists

-----------------------------------------------------------------------------
(* Types. *)

\* Reading a file of the right type leaves memory of the right type.
LEMMA StartedType ==
    ASSUME NEW d \in [Files -> Contents \cup {None}], NEW env \in Envs
    PROVE  /\ Load(d) \in Contents
           /\ Started(Load(d), env).stations \in Lists
           /\ Started(Load(d), env).presets \in Lists
           /\ Started(Load(d), env).source \in Buffers \cup {None}
<1>1. LoadPath(d) \in Files
  BY ConfigAssumption DEF LoadPath, Files
<1>2. Load(d) \in Contents
  BY <1>1 DEF Load, Blank, Contents, Lists
<1>3. \A x \in Buffers : Resolved(x, env) \in Buffers
  BY ConfigAssumption DEF Resolved, EnvDefaults, ApplyDefaults, Buffers
<1>4. QED
  BY <1>2, <1>3 DEF Started, Listed, Contents

\* What a torn file reads as has the type of a file.
LEMMA TornType ==
    ASSUME NEW c \in Contents
    PROVE  Torn(c) \subseteq Contents
<1>1. /\ c.stations \in Lists /\ c.presets \in Lists
      /\ c.source \in Buffers \cup {None}
      /\ c = [stations |-> c.stations, presets |-> c.presets, source |-> c.source]
  BY DEF Contents
<1>2. Blank \in Contents /\ <<>> \in Lists
  BY DEF Blank, Contents, Lists
<1>3. ASSUME NEW s \in IF c.source = None THEN {} ELSE CutSource(c.source)
      PROVE  [Blank EXCEPT !.source = s] \in Contents
  <2>1. s \in Buffers
    <3>1. c.source \in Buffers /\ s \in CutSource(c.source)
      BY <1>1, <1>3
    <3>2. \A n \in Int : CutNumber(n) \subseteq Int
      BY DEF CutNumber
    <3>3. QED
      BY <3>1, <3>2 DEF CutSource, Buffers
  <2>2. QED
    BY <1>2, <2>1 DEF Blank, Contents
<1>4. ASSUME NEW n \in 0..Len(c.stations), NEW s \in Cut(c.stations, n)
      PROVE  [c EXCEPT !.stations = s, !.presets = <<>>] \in Contents
  <2>1. s \in Lists
    BY <1>1, CutType
  <2>2. QED
    BY <1>1, <1>2, <2>1 DEF Contents
<1>5. ASSUME NEW n \in 0..Len(c.presets), NEW s \in Cut(c.presets, n)
      PROVE  [c EXCEPT !.presets = s] \in Contents
  <2>1. s \in Lists
    BY <1>1, CutType
  <2>2. QED
    BY <1>1, <2>1 DEF Contents
<1>6. ASSUME NEW x \in Torn(c)
      PROVE  x \in Contents
  <2>1. CASE x = Blank
    BY <1>2, <2>1
  <2>2. CASE x \in {[Blank EXCEPT !.source = s] :
                      s \in IF c.source = None THEN {} ELSE CutSource(c.source)}
    BY <1>3, <2>2
  <2>3. CASE x \in {[c EXCEPT !.stations = s, !.presets = <<>>] :
                      s \in UNION {Cut(c.stations, n) : n \in 0..Len(c.stations)}}
    <3>1. PICK s \in UNION {Cut(c.stations, n) : n \in 0..Len(c.stations)} :
            x = [c EXCEPT !.stations = s, !.presets = <<>>]
      BY <2>3, Zenon
    <3>2. PICK n \in 0..Len(c.stations) : s \in Cut(c.stations, n)
      BY <3>1, Zenon
    <3>3. QED
      BY <1>4, <3>1, <3>2
  <2>4. CASE x \in {[c EXCEPT !.presets = s] :
                      s \in UNION {Cut(c.presets, n) : n \in 0..Len(c.presets)}}
    <3>1. PICK s \in UNION {Cut(c.presets, n) : n \in 0..Len(c.presets)} :
            x = [c EXCEPT !.presets = s]
      BY <2>4, Zenon
    <3>2. PICK n \in 0..Len(c.presets) : s \in Cut(c.presets, n)
      BY <3>1, Zenon
    <3>3. QED
      BY <1>5, <3>1, <3>2
  <2>5. QED
    BY <1>6, <2>1, <2>2, <2>3, <2>4, Zenon DEF Torn
<1>7. QED
  BY <1>6

LEMMA BlankType == Blank \in Contents
  BY DEF Blank, Contents, Lists

LEMMA ConfigType == TypeOK => Config \in Contents /\ Config # None
<1>1. TypeOK => Config \in Contents
  BY DEF TypeOK, Config, Contents
<1>2. QED
  BY <1>1, ConfigAssumption

LEMMA InitTypes == Init => TypeOK
<1> SUFFICES ASSUME Init
             PROVE  TypeOK
  OBVIOUS
<1>1. disk \in [Files -> Contents \cup {None}]
  <2>1. PICK list \in Declared, s \in Stated \cup {None}, copy \in BOOLEAN :
          disk = [f \in Files |-> IF f = "other" \/ copy
                    THEN [stations |-> list, presets |-> <<>>, source |-> s] ELSE None]
    BY DEF Init
  <2>2. [stations |-> list, presets |-> <<>>, source |-> s] \in Contents
    <3>1. list \in Lists /\ <<>> \in Lists /\ s \in Buffers \cup {None}
      BY ConfigAssumption DEF Lists
    <3>2. QED
      BY <3>1 DEF Contents
  <2>3. QED
    BY <2>1, <2>2
<1>2. stations \in Lists /\ presets \in Lists /\ source \in Buffers \cup {None}
  BY <1>1, StartedType DEF Init
<1>3. QED
  BY <1>1, <1>2 DEF Init, TypeOK

\* No change overlaps a Save: what is being written is what there is.
WrittenOK == \A h \in Handlers : pc[h] = "write" => data[h] = Config

LEMMA TypeStep ==
    ASSUME TypeOK, WrittenOK, [Next]_vars
    PROVE  TypeOK'
<1>1. CASE \E h \in Handlers, id \in Ids : Post(h, id)
  <2>1. PICK h \in Handlers, id \in Ids : Post(h, id)
    BY <1>1
  <2>2. [id |-> id, custom |-> TRUE] \in Station
    BY DEF Station
  <2>3. stations' \in Lists /\ presets' \in Lists
    BY <2>1, <2>2, AppendKeeps DEF Post, TypeOK
  <2>4. QED
    BY <2>1, <2>3 DEF Post, TypeOK, Unlocked
<1>2. CASE \E h \in Handlers, id \in Ids : Delete(h, id)
  <2>1. PICK h \in Handlers, id \in Ids : Delete(h, id)
    BY <1>2
  <2>2. PICK i \in Removable(id) : stations' = RemoveAt(stations, i)
    BY <2>1 DEF Delete
  <2>3. i \in DOMAIN stations
    BY <2>2 DEF Removable
  <2>4. stations' \in Lists /\ presets' \in Lists
    BY <2>1, <2>2, <2>3, RemoveAtKeeps DEF Delete, TypeOK
  <2>5. QED
    BY <2>1, <2>4 DEF Delete, TypeOK, Unlocked
<1>3. CASE \E h \in Handlers : SaveOpen(h)
  <2>1. PICK h \in Handlers : SaveOpen(h)
    BY <1>3
  <2>2. Config \in Contents /\ Blank \in Contents
    BY ConfigType DEF Blank, Contents, Lists
  <2>3. disk' \in [Files -> Contents \cup {None}]
    BY <2>1, <2>2 DEF SaveOpen, TypeOK
  <2>4. data' \in [Handlers -> Contents \cup {None}]
    BY <2>1, <2>2 DEF SaveOpen, TypeOK
  <2>5. /\ reading' = {k \in Handlers : pc'[k] = "write"}
        /\ pc' \in [Handlers -> {"idle", "save", "write"}]
    BY <2>1 DEF SaveOpen, TypeOK
  <2>6. QED
    BY <2>1, <2>3, <2>4, <2>5 DEF SaveOpen, TypeOK, memory
<1>4. CASE \E h \in Handlers : SaveFails(h)
  BY <1>4 DEF SaveFails, TypeOK, memory
<1>5. ASSUME NEW h \in Handlers, Finish(h)
      PROVE  /\ data[h] \in Contents \cup {None}
             /\ reading' = {k \in Handlers : pc'[k] = "write"}
             /\ pc' \in [Handlers -> {"idle", "save", "write"}]
             /\ data' \in [Handlers -> Contents \cup {None}]
  BY <1>5 DEF Finish, TypeOK
<1>6. CASE \E h \in Handlers : SaveWrite(h)
  <2>1. PICK h \in Handlers : SaveWrite(h)
    BY <1>6
  <2>2. Finish(h)
    BY <2>1 DEF SaveWrite
  <2>3. disk' \in [Files -> Contents \cup {None}]
    BY <1>5, <2>1, <2>2 DEF SaveWrite, TypeOK
  <2>4. QED
    BY <1>5, <2>1, <2>2, <2>3 DEF SaveWrite, Finish, TypeOK, memory
<1>7. CASE \E h \in Handlers : SaveTears(h)
  <2>1. PICK h \in Handlers : SaveTears(h)
    BY <1>7
  <2>2. Finish(h)
    BY <2>1 DEF SaveTears
  <2>3. data[h] \in Contents
    BY <2>2, ConfigType DEF Finish, WrittenOK
  <2>4. PICK c \in Torn(data[h]) : disk' = [disk EXCEPT !["own"] = c]
    BY <2>1 DEF SaveTears
  <2>5. c \in Contents
    BY <2>3, <2>4, TornType
  <2>6. disk' \in [Files -> Contents \cup {None}]
    BY <2>4, <2>5 DEF TypeOK
  <2>7. QED
    BY <1>5, <2>1, <2>2, <2>6 DEF SaveTears, Finish, TypeOK, memory
<1>8. CASE Restart
  BY <1>8, StartedType DEF Restart, TypeOK
<1>9. CASE UNCHANGED vars
  BY <1>9 DEF vars, memory, TypeOK
<1>10. QED
  BY <1>1, <1>2, <1>3, <1>4, <1>6, <1>7, <1>8, <1>9 DEF Next, Handler

LEMMA WrittenStep ==
    ASSUME TypeOK, WrittenOK, [Next]_vars
    PROVE  WrittenOK'
<1>1. CASE \E h \in Handlers, id \in Ids : Post(h, id) \/ Delete(h, id)
  <2>1. PICK h \in Handlers, id \in Ids : Post(h, id) \/ Delete(h, id)
    BY <1>1
  <2>2. \A k \in Handlers : pc[k] # "write"
    BY <2>1 DEF Post, Delete, Unlocked, TypeOK
  <2>3. \A k \in Handlers : pc'[k] # "write"
    BY <2>1, <2>2 DEF Post, Delete, TypeOK
  <2>4. QED
    BY <2>3 DEF WrittenOK
<1>2. ASSUME UNCHANGED memory
      PROVE  Config' = Config
  BY <1>2 DEF memory, Config
<1>3. CASE \E h \in Handlers : SaveOpen(h) \/ SaveFails(h)
  BY <1>2, <1>3 DEF SaveOpen, SaveFails, WrittenOK, TypeOK
<1>4. CASE \E h \in Handlers : SaveWrite(h) \/ SaveTears(h)
  <2>1. PICK h \in Handlers : Finish(h)
    BY <1>4 DEF SaveWrite, SaveTears
  <2>2. QED
    BY <1>2, <2>1 DEF Finish, WrittenOK, TypeOK
<1>5. CASE Restart
  BY <1>5 DEF Restart, WrittenOK
<1>6. CASE UNCHANGED vars
  BY <1>2, <1>6 DEF vars, memory, WrittenOK
<1>7. QED
  BY <1>1, <1>3, <1>4, <1>5, <1>6 DEF Next, Handler

\* The configuration keeps its types, and c.mu is held for reading exactly by
\* the handlers that are writing the file, for any number of them.
THEOREM ConfigTypeCorrect == Spec => [](TypeOK /\ WrittenOK)
<1>1. Init => TypeOK /\ WrittenOK
  BY InitTypes DEF Init, WrittenOK
<1>2. TypeOK /\ WrittenOK /\ [Next]_vars => TypeOK' /\ WrittenOK'
  BY TypeStep, WrittenStep
<1>3. QED
  BY <1>1, <1>2, PTL DEF Spec

-----------------------------------------------------------------------------
(* The queue. *)

\* Whatever the file and the environment ask for, the queue of the zone has
\* room for more than its prebuffer.
THEOREM QueueHoldsPrebuffer == Spec => []BuffersFit
<1>1. TypeOK => BuffersFit
  <2> SUFFICES ASSUME TypeOK
               PROVE  BuffersFit
    OBVIOUS
  <2>1. /\ ChunkMillis \in Nat \ {0} /\ PrebufferChunks \in Nat \ {0}
        /\ QueueChunks \in Nat /\ PrebufferChunks < QueueChunks
    BY ConfigAssumption
  <2>2. \A m \in Int : m \div ChunkMillis \in Int
    BY <2>1
  <2>3. ASSUME NEW m \in Int, NEW min \in Int, NEW max \in Int, min <= max
        PROVE  /\ ClampChunks(m, min, max) \in Int
               /\ min <= ClampChunks(m, min, max) /\ ClampChunks(m, min, max) <= max
    BY <2>2, <2>3 DEF ClampChunks
  <2>4. /\ QueueChunks \div 2 \in Int /\ 1 <= QueueChunks \div 2
        /\ QueueChunks \div 2 < QueueChunks
    BY <2>1
  <2>5. source # None => source.prebuffer \in Int /\ source.buffer \in Int
    BY DEF TypeOK, Buffers
  <2>6. /\ Prebuffer(source) \in Int /\ 1 <= Prebuffer(source)
        /\ Prebuffer(source) < QueueChunks
    <3>1. CASE source # None /\ source.prebuffer > 0
      <4>1. Prebuffer(source) = ClampChunks(source.prebuffer, 1, QueueChunks \div 2)
        BY <3>1 DEF Prebuffer
      <4>2. source.prebuffer \in Int /\ 1 \in Int
        BY <2>5, <3>1
      <4>3. /\ ClampChunks(source.prebuffer, 1, QueueChunks \div 2) \in Int
            /\ 1 <= ClampChunks(source.prebuffer, 1, QueueChunks \div 2)
            /\ ClampChunks(source.prebuffer, 1, QueueChunks \div 2) <= QueueChunks \div 2
        BY <2>3, <2>4, <4>2, Zenon
      <4>4. QED
        BY <2>1, <2>4, <4>1, <4>3
    <3>2. CASE ~(source # None /\ source.prebuffer > 0)
      BY <2>1, <3>2 DEF Prebuffer
    <3>3. QED
      BY <3>1, <3>2
  <2>7. /\ Prebuffer(source) < Queue(source) /\ Queue(source) <= QueueChunks
    <3>1. CASE source # None /\ source.buffer > 0
      <4>1. Queue(source) = ClampChunks(source.buffer, Prebuffer(source) + 1, QueueChunks)
        BY <3>1 DEF Queue
      <4>2. Prebuffer(source) + 1 <= QueueChunks
        BY <2>1, <2>6
      <4>3. /\ source.buffer \in Int /\ Prebuffer(source) + 1 \in Int
            /\ QueueChunks \in Int
        BY <2>1, <2>5, <2>6, <3>1
      <4>4. /\ Prebuffer(source) + 1 <= Queue(source) /\ Queue(source) <= QueueChunks
            /\ Queue(source) \in Int
        BY <2>3, <4>1, <4>2, <4>3, Zenon
      <4>5. QED
        BY <2>1, <2>6, <4>4
    <3>2. CASE ~(source # None /\ source.buffer > 0)
      BY <2>1, <2>6, <3>2 DEF Queue
    <3>3. QED
      BY <3>1, <3>2
  <2>8. QED
    BY <2>6, <2>7 DEF BuffersFit
<1>2. QED
  BY <1>1, ConfigTypeCorrect, PTL

-----------------------------------------------------------------------------
(* What the next start finds. *)

\* The older name holds no station that the newer one has lost, or a start
\* would bring it back.
JoinedOK == stations = <<>> => presets = <<>>

\* Unless a Save has failed or is still to come, the file holds the list.
FileOK ==
    (Flag # "other" /\ fate = "whole" /\ \A h \in Handlers : pc[h] # "save")
        => Listed(Load(disk)) = stations

\* A configuration that was written whole is what a start would load.
LEMMA WrittenIsLoaded ==
    ASSUME TypeOK, WrittenOK, JoinedOK, NEW h \in Handlers, SaveWrite(h)
    PROVE  /\ disk' = [disk EXCEPT !["own"] = Config]
           /\ Flag # "other" => Listed(Load(disk')) = stations
<1>1. disk' = [disk EXCEPT !["own"] = Config]
  BY DEF SaveWrite, Finish, WrittenOK
<1>2. disk'["own"] = Config /\ Config # None
  BY <1>1, ConfigType DEF TypeOK, Files
<1>3. Flag # "other" => Load(disk') = Config
  BY <1>2, ConfigAssumption DEF Load, LoadPath, Files
<1>4. Listed(Config) = stations
  BY DEF Listed, Config, JoinedOK
<1>5. QED
  BY <1>1, <1>3, <1>4

LEMMA JoinedStep ==
    ASSUME TypeOK, JoinedOK, [Next]_vars
    PROVE  JoinedOK'
<1>1. CASE \E h \in Handlers, id \in Ids : Post(h, id) \/ Delete(h, id)
  BY <1>1 DEF Post, Delete, JoinedOK
<1>2. CASE UNCHANGED memory
  BY <1>2 DEF memory, JoinedOK
<1>3. CASE Restart
  BY <1>3 DEF Restart, Started, Listed, JoinedOK
<1>4. CASE UNCHANGED vars
  BY <1>2, <1>4 DEF vars
<1>5. QED
  BY <1>1, <1>2, <1>3, <1>4
  DEF Next, Handler, SaveOpen, SaveFails, SaveWrite, SaveTears, Finish

LEMMA FileStep ==
    ASSUME TypeOK, WrittenOK, JoinedOK, FileOK, [Next]_vars
    PROVE  FileOK'
<1>1. CASE \E h \in Handlers, id \in Ids : Post(h, id) \/ Delete(h, id)
  <2>1. PICK h \in Handlers, id \in Ids : Post(h, id) \/ Delete(h, id)
    BY <1>1
  <2>2. pc'[h] = "save"
    BY <2>1 DEF Post, Delete, TypeOK
  <2>3. QED
    BY <2>2 DEF FileOK
<1>2. CASE \E h \in Handlers : SaveOpen(h) \/ SaveFails(h) \/ SaveTears(h)
  BY <1>2 DEF SaveOpen, SaveFails, SaveTears, FileOK
<1>3. CASE \E h \in Handlers : SaveWrite(h)
  <2>1. PICK h \in Handlers : SaveWrite(h)
    BY <1>3
  <2>2. stations' = stations
    BY <2>1 DEF SaveWrite, Finish, memory
  <2>3. Flag # "other" => Listed(Load(disk')) = stations
    BY <2>1, WrittenIsLoaded
  <2>4. (Listed(Load(disk)))' = Listed(Load(disk'))
    BY DEF Listed, Load, LoadPath, Blank
  <2>5. QED
    BY <2>2, <2>3, <2>4 DEF FileOK
<1>4. CASE Restart
  <2>1. stations' = Listed(Load(disk)) /\ disk' = disk
    BY <1>4 DEF Restart, Started
  <2>2. QED
    BY <2>1 DEF FileOK, Listed, Load, LoadPath, Blank
<1>5. CASE UNCHANGED vars
  BY <1>5 DEF vars, memory, FileOK, Listed, Load, LoadPath, Blank
<1>6. QED
  BY <1>1, <1>2, <1>3, <1>4, <1>5 DEF Next, Handler

\* Unless its last Save failed, a program that is not changing the list would
\* have exactly this list after a restart, whatever has overlapped.
THEOREM NextStartFindsStations == Spec => []RestartKeepsStations
<1>1. Init => JoinedOK /\ FileOK
  BY DEF Init, JoinedOK, FileOK, Started, Listed
<1>2. TypeOK /\ WrittenOK /\ JoinedOK /\ FileOK /\ [Next]_vars => JoinedOK' /\ FileOK'
  BY JoinedStep, FileStep
<1>3. TypeOK /\ FileOK => RestartKeepsStations
  BY DEF FileOK, RestartKeepsStations, Quiet
<1>4. QED
  BY <1>1, <1>2, <1>3, ConfigTypeCorrect, PTL DEF Spec

-----------------------------------------------------------------------------
(* What the operator's file states. *)

stated == disk["other"]

KeptList(st, list) ==
    \A i \in DOMAIN st.stations :
        st.stations[i].custom \/ st.stations[i] \in Range(list)

KeptSource(st, s) ==
    st.source # None =>
        /\ s # None
        /\ st.source.prebuffer # 0 => s.prebuffer = st.source.prebuffer
        /\ st.source.buffer > 0 => s.buffer = st.source.buffer

\* The file Save writes keeps it too, unless it is torn; so a start from it
\* finds what is stated, or damage.
StatedOK ==
    /\ stated \in Contents
    /\ Flag = "own" => disk["own"] # None
    /\ ~damaged =>
        /\ KeptList(stated, stations) /\ KeptSource(stated, source)
        /\ (Flag # "other" /\ disk["own"] # None /\ fate # "torn") =>
             KeptList(stated, Listed(disk["own"])) /\ KeptSource(stated, disk["own"].source)

\* A start keeps what the file keeps.
LEMMA StartKeeps ==
    ASSUME NEW f \in Contents, NEW env \in Envs, stated \in Contents
    PROVE  /\ KeptList(stated, Listed(f)) => KeptList(stated, Started(f, env).stations)
           /\ KeptSource(stated, f.source) => KeptSource(stated, Started(f, env).source)
<1>1. Started(f, env).stations = Listed(f)
  BY DEF Started
<1>2. Started(f, env).source = IF f.source = None THEN None ELSE Resolved(f.source, env)
  BY DEF Started
<1>3. ASSUME f.source # None
      PROVE  /\ f.source.prebuffer # 0 =>
                  Resolved(f.source, env).prebuffer = f.source.prebuffer
             /\ f.source.buffer > 0 => Resolved(f.source, env).buffer = f.source.buffer
             /\ Resolved(f.source, env) # None
  <2>1. f.source.prebuffer \in Int /\ f.source.buffer \in Int
    BY <1>3 DEF Contents, Buffers
  <2>2. Resolved(f.source, env) \in Buffers
    BY <2>1, ConfigAssumption DEF Resolved, EnvDefaults, ApplyDefaults, Buffers
  <2>3. None \notin Buffers
    BY ConfigAssumption
  <2>4. QED
    BY <2>1, <2>2, <2>3 DEF Resolved, EnvDefaults, ApplyDefaults
<1>4. KeptSource(stated, f.source) => KeptSource(stated, Started(f, env).source)
  <2> SUFFICES ASSUME KeptSource(stated, f.source), stated.source # None
               PROVE  KeptSource(stated, Started(f, env).source)
    BY DEF KeptSource
  <2>1. /\ f.source # None
        /\ stated.source.prebuffer # 0 => f.source.prebuffer = stated.source.prebuffer
        /\ stated.source.buffer > 0 => f.source.buffer = stated.source.buffer
    BY DEF KeptSource
  <2>2. Started(f, env).source = Resolved(f.source, env)
    BY <1>2, <2>1
  <2>3. QED
    BY <1>3, <2>1, <2>2 DEF KeptSource
<1>5. QED
  BY <1>1, <1>4

\* And what is stated is kept by what the operator states.
LEMMA StatedKeepsItself ==
    ASSUME stated \in Contents
    PROVE  KeptList(stated, Listed(stated)) /\ KeptSource(stated, stated.source)
<1>1. stated.stations \in Lists
  BY DEF Contents
<1>2. CASE stated.stations = <<>>
  BY <1>2 DEF KeptList, KeptSource
<1>3. CASE stated.stations # <<>>
  BY <1>3 DEF KeptList, KeptSource, Listed, Range
<1>4. QED
  BY <1>2, <1>3

LEMMA InitStated == Init => StatedOK
<1> SUFFICES ASSUME Init
             PROVE  StatedOK
  OBVIOUS
<1>1. PICK list \in Declared, s \in Stated \cup {None}, copy \in BOOLEAN :
        /\ disk = [f \in Files |-> IF f = "other" \/ copy
                     THEN [stations |-> list, presets |-> <<>>, source |-> s] ELSE None]
        /\ Flag = "own" => copy
  BY DEF Init
<1>2. TypeOK
  BY InitTypes
<1>3. stated \in Contents
  <2>1. [stations |-> list, presets |-> <<>>, source |-> s] \in Contents
    <3>1. list \in Lists /\ <<>> \in Lists /\ s \in Buffers \cup {None}
      BY ConfigAssumption DEF Lists
    <3>2. QED
      BY <3>1 DEF Contents
  <2>2. QED
    BY <1>1, <2>1 DEF Files, stated
<1>4. disk["own"] # None => disk["own"] = stated
  BY <1>1 DEF Files, stated
<1>5. Flag = "own" => disk["own"] # None
  <2>1. stated # None
    BY <1>3, ConfigAssumption
  <2>2. QED
    BY <1>1, <2>1 DEF Files, stated
<1>6. Load(disk) = stated
  <2>1. stated # None
    BY <1>3, ConfigAssumption
  <2>2. LoadPath(disk) = "own" => disk["own"] # None
    BY <1>5, ConfigAssumption DEF LoadPath, Files
  <2>3. LoadPath(disk) \in Files
    BY ConfigAssumption DEF LoadPath, Files
  <2>4. QED
    BY <1>4, <2>1, <2>2, <2>3 DEF Load, Files, stated
<1>7. PICK env \in Envs : /\ stations = Started(Load(disk), env).stations
                          /\ source = Started(Load(disk), env).source
  BY DEF Init
<1>8. KeptList(stated, stations) /\ KeptSource(stated, source)
  BY <1>3, <1>6, <1>7, StartKeeps, StatedKeepsItself
<1>9. QED
  BY <1>3, <1>4, <1>5, <1>8, StatedKeepsItself DEF StatedOK

LEMMA StatedStep ==
    ASSUME TypeOK, WrittenOK, JoinedOK, StatedOK, [Next]_vars
    PROVE  StatedOK'
<1>1. disk'["other"] = disk["other"]
  BY DEF Next, Handler, Post, Delete, SaveOpen, SaveFails, SaveWrite, SaveTears,
         Restart, vars, TypeOK, Files
<1>2. /\ StatedOK' <=>
           /\ stated \in Contents
           /\ Flag = "own" => disk'["own"] # None
           /\ ~damaged' =>
               /\ KeptList(stated, stations') /\ KeptSource(stated, source')
               /\ (Flag # "other" /\ disk'["own"] # None /\ fate' # "torn") =>
                    KeptList(stated, Listed(disk'["own"])) /\ KeptSource(stated, disk'["own"].source)
  BY <1>1 DEF StatedOK, KeptList, KeptSource, Listed, stated
<1>3. CASE \E h \in Handlers, id \in Ids : Post(h, id) \/ Delete(h, id)
  <2>1. PICK h \in Handlers, id \in Ids : Post(h, id) \/ Delete(h, id)
    BY <1>3
  <2>2. /\ source' = source /\ disk' = disk /\ fate' = fate /\ damaged' = damaged
    BY <2>1 DEF Post, Delete
  <2>3. ASSUME KeptList(stated, stations)
        PROVE  KeptList(stated, stations')
    <3>1. CASE Post(h, id)
      <4>1. [id |-> id, custom |-> TRUE] \in Station
        BY DEF Station
      <4>2. \A x \in Range(stations) : x \in Range(stations')
        BY <3>1, <4>1, AppendKeeps DEF Post, TypeOK
      <4>3. QED
        BY <2>3, <4>2 DEF KeptList
    <3>2. CASE Delete(h, id)
      <4>1. PICK i \in Removable(id) : stations' = RemoveAt(stations, i)
        BY <3>2 DEF Delete
      <4>2. i \in DOMAIN stations /\ stations[i].custom
        BY <4>1 DEF Removable
      <4>3. \A x \in Range(stations) : x # stations[i] => x \in Range(stations')
        BY <4>1, <4>2, RemoveAtKeeps DEF TypeOK
      <4>4. QED
        BY <2>3, <4>2, <4>3 DEF KeptList
    <3>3. QED
      BY <2>1, <3>1, <3>2
  <2>4. QED
    BY <1>2, <2>2, <2>3 DEF StatedOK
<1>4. CASE \E h \in Handlers : SaveOpen(h)
  <2>1. PICK h \in Handlers : SaveOpen(h)
    BY <1>4
  <2>2. /\ UNCHANGED <<stations, source, damaged>> /\ fate' = "torn"
        /\ disk'["own"] = Blank
    BY <2>1 DEF SaveOpen, memory, TypeOK, Files
  <2>3. Blank # None
    BY BlankType, ConfigAssumption
  <2>4. QED
    BY <1>2, <2>2, <2>3 DEF StatedOK
<1>5. CASE \E h \in Handlers : SaveFails(h)
  BY <1>2, <1>5 DEF SaveFails, memory, StatedOK
<1>6. CASE \E h \in Handlers : SaveWrite(h)
  <2>1. PICK h \in Handlers : SaveWrite(h)
    BY <1>6
  <2>2. UNCHANGED <<stations, source, damaged>>
    BY <2>1 DEF SaveWrite, Finish, memory
  <2>3. disk'["own"] = Config /\ Config # None
    BY <2>1, WrittenIsLoaded, ConfigType DEF TypeOK, Files
  <2>4. Listed(Config) = stations /\ Config.source = source
    BY DEF Listed, Config, JoinedOK
  <2>5. QED
    BY <1>2, <2>2, <2>3, <2>4 DEF StatedOK
<1>7. CASE \E h \in Handlers : SaveTears(h)
  <2>1. PICK h \in Handlers : SaveTears(h)
    BY <1>7
  <2>2. PICK c \in Torn(data[h]) : disk' = [disk EXCEPT !["own"] = c]
    BY <2>1 DEF SaveTears
  <2>3. data[h] \in Contents
    BY <2>1, ConfigType DEF SaveTears, Finish, WrittenOK
  <2>4. c # None
    BY <2>2, <2>3, TornType, ConfigAssumption
  <2>5. UNCHANGED <<stations, source, damaged>> /\ fate' = "torn" /\ disk'["own"] = c
    BY <2>1, <2>2 DEF SaveTears, Finish, memory, TypeOK, Files
  <2>6. QED
    BY <1>2, <2>4, <2>5 DEF StatedOK
<1>8. CASE Restart
  <2>1. PICK env \in Envs : /\ stations' = Started(Load(disk), env).stations
                            /\ source' = Started(Load(disk), env).source
    BY <1>8 DEF Restart
  <2>2. /\ disk' = disk
        /\ damaged' = (damaged \/ (LoadPath(disk) = "own" /\ fate = "torn"))
    BY <1>8 DEF Restart
  <2>3. Load(disk) \in Contents
    BY <2>1, StartedType DEF TypeOK
  <2>4. CASE LoadPath(disk) = "own"
    <3>1. /\ Flag # "other" /\ disk["own"] # None
          /\ Load(disk) = disk["own"]
      <4>1. Flag \in Files \cup {None} /\ None \notin Files
        BY ConfigAssumption
      <4>2. Flag # "other" /\ disk["own"] # None
        BY <2>4, <4>1 DEF LoadPath, Files, StatedOK
      <4>3. QED
        BY <2>4, <4>2 DEF Load
    <3>2. ~damaged' =>
            KeptList(stated, Listed(disk["own"])) /\ KeptSource(stated, disk["own"].source)
      BY <2>2, <2>4, <3>1 DEF StatedOK
    <3>3. ~damaged' => KeptList(stated, stations') /\ KeptSource(stated, source')
      <4>1. Load(disk) \in Contents /\ stated \in Contents
        BY <2>3 DEF StatedOK
      <4>2. KeptList(stated, Listed(Load(disk))) => KeptList(stated, stations')
        BY <2>1, <4>1, StartKeeps
      <4>3. KeptSource(stated, Load(disk).source) => KeptSource(stated, source')
        BY <2>1, <4>1, StartKeeps
      <4>4. QED
        BY <3>1, <3>2, <4>2, <4>3
    <3>4. QED
      BY <1>2, <2>2, <3>1, <3>2, <3>3 DEF StatedOK
  <2>5. CASE LoadPath(disk) # "own"
    <3>1. LoadPath(disk) = "other" /\ (Flag # "other" => disk["own"] = None)
      BY <2>5, ConfigAssumption DEF LoadPath, Files
    <3>2. Load(disk) = stated
      BY <3>1, ConfigAssumption DEF Load, StatedOK, stated
    <3>3. KeptList(stated, stations') /\ KeptSource(stated, source')
      <4>1. stated \in Contents
        BY DEF StatedOK
      <4>2. KeptList(stated, stations') /\ KeptSource(stated, source')
        BY <2>1, <3>2, <4>1, StartKeeps, StatedKeepsItself
      <4>3. QED
        BY <4>2
    <3>4. QED
      BY <1>2, <2>2, <3>1, <3>3 DEF StatedOK
  <2>6. QED
    BY <2>4, <2>5
<1>9. CASE UNCHANGED vars
  BY <1>2, <1>9 DEF vars, memory, StatedOK
<1>10. QED
  BY <1>3, <1>4, <1>5, <1>6, <1>7, <1>8, <1>9 DEF Next, Handler

\* What the operator's file states is kept through every environment, request,
\* Save and restart, unless the program has started from a torn file.
THEOREM OperatorIsHeard == Spec => []StatedIsKept
<1>1. Init => JoinedOK /\ StatedOK
  BY InitStated DEF Init, JoinedOK, Started, Listed
<1>2. TypeOK /\ WrittenOK /\ JoinedOK /\ StatedOK /\ [Next]_vars => JoinedOK' /\ StatedOK'
  BY JoinedStep, StatedStep
<1>3. StatedOK => StatedIsKept
  BY DEF StatedOK, StatedIsKept, KeptList, KeptSource, stated
<1>4. QED
  BY <1>1, <1>2, <1>3, ConfigTypeCorrect, PTL DEF Spec

-----------------------------------------------------------------------------
(* The Companion module. *)

\* Nothing the module does changes the player, and its requests go through the
\* same handlers: what holds of the configuration holds of the composition.
THEOREM CompanionOnlyReads == CSpec => Spec
<1>1. CInit => Init
  BY DEF CInit
<1>2. [CNext]_cvars => [Next]_vars
  <2> SUFFICES ASSUME [CNext]_cvars
               PROVE  [Next]_vars
    OBVIOUS
  <2>1. CASE \E h \in Handlers : Change(h) \/ Save(h)
    BY <2>1 DEF Change, Save, Next, Handler
  <2>2. CASE CRestart
    BY <2>2 DEF CRestart, Next
  <2>3. CASE Companion
    <3>1. UNCHANGED stations
      BY <2>3
      DEF Companion, Client!ClientNext, Client!ListRead, Client!ListAnswer,
          Client!ListFails, Client!PollFails, Client!PollApply, Client!Poll,
          Client!InitConnection, Client!StartTimer, Client!Destroy, Client!Tick,
          Client!Press, Client!Calm
    <3>2. QED
      BY <2>3, <3>1 DEF Companion, vars, memory
  <2>4. CASE UNCHANGED cvars
    BY <2>4 DEF cvars
  <2>5. QED
    BY <2>1, <2>2, <2>3, <2>4 DEF CNext
<1>3. QED
  BY <1>1, <1>2, PTL DEF CSpec, Spec

\* With any number of presses and polls on top, the stations are still found by
\* the next start, what the operator was told is kept, and the buffers fit.
THEOREM CompanionKeepsConfig == CSpec => [](RestartKeepsStations /\ StatedIsKept /\ BuffersFit)
BY CompanionOnlyReads, NextStartFindsStations, OperatorIsHeard, QueueHoldsPrebuffer, PTL

\* Between initConnection's two halves, before it and after destroy there is
\* no interval.
TimerOK == OneTimer /\ (life # "up" => pollTimer = None)

LEMMA InitClient == CInit => Client!ClientTypeOK(Lists) /\ TimerOK
<1>1. <<>> \in Lists
  BY DEF Lists
<1>2. CInit => /\ polls \in [Polls -> [pc : {"free", "asked", "reading", "got", "lost"},
                                      saw : {Garbled} \cup Lists, raced : BOOLEAN]]
               /\ shown \in {Garbled} \cup Lists
  BY <1>1 DEF CInit, Client!ClientInit, Client!Free
<1>3. QED
  BY <1>2 DEF CInit, Client!ClientInit, Client!ClientTypeOK, TimerOK, OneTimer

\* The list a step of the composition starts from is a list.
LEMMA ClientTypeStep ==
    ASSUME stations \in Lists, Client!ClientTypeOK(Lists), TimerOK, [CNext]_cvars
    PROVE  Client!ClientTypeOK(Lists)'
<1> USE ControlAssumption DEF Client!ClientTypeOK
<1> DEFINE PCs == {"free", "asked", "reading", "got", "lost"}
           Request == [pc : PCs, saw : {Garbled} \cup Lists, raced : BOOLEAN]
<1>1. \A p \in Polls : polls[p] \in Request
  OBVIOUS
<1>2. Client!Free \in Request
  BY DEF Client!Free, Lists
<1>3. CASE \E h \in Handlers : Change(h)
  <2>1. \A p \in Polls : [polls[p] EXCEPT !.raced = (polls[p].pc = "reading")] \in Request
    BY <1>1
  <2>2. polls' = [p \in Polls |-> [polls[p] EXCEPT !.raced = (polls[p].pc = "reading")]]
    BY <1>3 DEF Change, Client!Race
  <2>3. \A p \in Polls : polls'[p].pc = polls[p].pc
    BY <1>1, <2>2
  <2>4. QED
    BY <1>3, <2>1, <2>2, <2>3 DEF Change
<1>4. CASE CRestart
  <2>1. polls' = [p \in Polls |->
            IF polls[p].pc \in {"asked", "reading"}
            THEN [Client!Free EXCEPT !.pc = "lost"] ELSE polls[p]]
    BY <1>4 DEF CRestart, Client!Cut
  <2>2. [Client!Free EXCEPT !.pc = "lost"] \in Request
    BY <1>2
  <2>3. polls' \in [Polls -> Request]
    BY <1>1, <2>1, <2>2
  <2>4. \A p \in Polls : polls[p].pc # "free" => polls'[p].pc # "free"
    BY <1>1, <2>1 DEF Client!Free
  <2>5. QED
    BY <1>4, <2>3, <2>4 DEF CRestart
<1>5. ASSUME NEW p \in Polls, Client!Ask(p)
      PROVE  /\ polls' \in [Polls -> Request]
             /\ \A q \in Polls : polls[q].pc # "free" => polls'[q].pc # "free"
             /\ polls'[p].pc # "free"
  <2>1. [polls[p] EXCEPT !.pc = "asked"] \in Request
    BY <1>1
  <2>2. polls' = [polls EXCEPT ![p] = [polls[p] EXCEPT !.pc = "asked"]]
    BY <1>5 DEF Client!Ask
  <2>3. polls'[p].pc = "asked"
    BY <1>1, <2>2
  <2>4. QED
    BY <2>1, <2>2, <2>3
<1>6. ASSUME NEW p \in Polls, Client!Settle(p)
      PROVE  /\ polls' \in [Polls -> Request]
             /\ awaited' \in Polls \cup {None}
             /\ awaited' # None => life = "connecting" /\ polls'[awaited'].pc # "free"
  BY <1>2, <1>6 DEF Client!Settle
<1>7. CASE \E p \in Polls : Client!ListRead(p) \/ Client!ListAnswer(p) \/ Client!ListFails(p)
  <2>1. PICK p \in Polls : Client!ListRead(p) \/ Client!ListAnswer(p) \/ Client!ListFails(p)
    BY <1>7
  <2>2. /\ UNCHANGED <<life, awaited, pollTimer, timers, shown, connected, calm>>
        /\ \E r \in Request : r.pc # "free" /\ polls' = [polls EXCEPT ![p] = r]
    <3>1. CASE Client!ListRead(p)
      <4>1. [pc |-> "reading", saw |-> stations, raced |-> FALSE] \in Request
        OBVIOUS
      <4>2. QED
        BY <3>1, <4>1 DEF Client!ListRead, Client!lifecycle
    <3>2. CASE Client!ListAnswer(p)
      <4>1. PICK answer \in {polls[p].saw} \cup (IF polls[p].raced THEN {Garbled} ELSE {}) :
              polls' = [polls EXCEPT ![p] = [pc |-> "got", saw |-> answer, raced |-> FALSE]]
        BY <3>2 DEF Client!ListAnswer
      <4>2. answer \in {Garbled} \cup Lists
        BY <1>1, <4>1
      <4>3. [pc |-> "got", saw |-> answer, raced |-> FALSE] \in Request
        BY <4>2
      <4>4. QED
        BY <3>2, <4>1, <4>3 DEF Client!ListAnswer, Client!lifecycle
    <3>3. CASE Client!ListFails(p)
      <4>1. [Client!Free EXCEPT !.pc = "got"] \in Request
        BY <1>2
      <4>2. [Client!Free EXCEPT !.pc = "got"].pc = "got"
        BY DEF Client!Free
      <4>3. QED
        BY <3>3, <4>1, <4>2 DEF Client!ListFails, Client!lifecycle
    <3>4. QED
      BY <2>1, <3>1, <3>2, <3>3
  <2>3. QED
    BY <2>2
<1>8. CASE \E p \in Polls : Client!PollApply(p)
  <2>1. PICK p \in Polls : Client!PollApply(p)
    BY <1>8
  <2>2. Client!Settle(p) /\ shown' \in {Garbled} \cup Lists
    BY <1>1, <2>1 DEF Client!PollApply
  <2>3. QED
    BY <1>6, <2>1, <2>2 DEF Client!PollApply
<1>9. CASE \E p \in Polls : Client!PollFails(p)
  BY <1>6, <1>9 DEF Client!PollFails
<1>10. CASE Client!InitConnection
  <2>1. PICK p \in Polls : Client!Ask(p) /\ awaited' = p
    BY <1>10 DEF Client!InitConnection
  <2>2. polls' \in [Polls -> Request] /\ polls'[p].pc # "free"
    BY <1>5, <2>1
  <2>3. QED
    BY <1>10, <2>1, <2>2 DEF Client!InitConnection
<1>11. CASE Client!Tick \/ Client!Press
  <2>1. PICK p \in Polls : Client!Ask(p)
    BY <1>11 DEF Client!Tick, Client!Press
  <2>2. /\ polls' \in [Polls -> Request]
        /\ \A q \in Polls : polls[q].pc # "free" => polls'[q].pc # "free"
    BY <1>5, <2>1
  <2>3. QED
    BY <1>11, <2>2 DEF Client!Tick, Client!Press, Client!lifecycle
<1>12. CASE Client!StartTimer
  BY <1>12 DEF Client!StartTimer
<1>13. CASE Client!Destroy
  BY <1>13 DEF Client!Destroy
<1>14. CASE Client!Calm
  BY <1>14 DEF Client!Calm, Client!lifecycle
<1>15. CASE UNCHANGED client
  BY <1>15 DEF client
<1>16. QED
  BY <1>3, <1>4, <1>7, <1>8, <1>9, <1>10, <1>11, <1>12, <1>13, <1>14, <1>15
  DEF CNext, Save, Companion, Client!ClientNext, Client!Poll, cvars

LEMMA TimerStep ==
    ASSUME Client!ClientTypeOK(Lists), TimerOK, [CNext]_cvars
    PROVE  TimerOK'
<1> USE ControlAssumption DEF TimerOK, OneTimer
<1>1. CASE UNCHANGED <<life, pollTimer, timers>>
  BY <1>1
<1>2. CASE Client!InitConnection
  BY <1>2 DEF Client!InitConnection
<1>3. CASE Client!StartTimer
  <2>1. PICK t \in Timers \ timers : pollTimer' = t /\ timers' = timers \cup {t}
    BY <1>3 DEF Client!StartTimer
  <2>2. timers = {} /\ t # None /\ life' = "up"
    BY <1>3, <2>1 DEF Client!StartTimer
  <2>3. QED
    BY <2>1, <2>2
<1>4. CASE Client!Destroy
  BY <1>4 DEF Client!Destroy
<1>5. CASE Client!ClientNext /\ ~Client!InitConnection /\ ~Client!StartTimer /\ ~Client!Destroy
  BY <1>1, <1>5
  DEF Client!ClientNext, Client!Poll, Client!ListRead, Client!ListAnswer,
      Client!ListFails, Client!PollApply, Client!PollFails, Client!Tick,
      Client!Press, Client!Calm, Client!lifecycle
<1>6. QED
  BY <1>1, <1>2, <1>3, <1>4, <1>5
  DEF CNext, Change, Save, CRestart, Companion, client, cvars

LEMMA ClientInvariant == CSpec => [](Client!ClientTypeOK(Lists) /\ TimerOK)
<1>1. CSpec => [](TypeOK /\ WrittenOK)
  BY CompanionOnlyReads, ConfigTypeCorrect, PTL
<1>2. CInit => Client!ClientTypeOK(Lists) /\ TimerOK
  BY InitClient
<1>3. /\ TypeOK /\ Client!ClientTypeOK(Lists) /\ TimerOK /\ [CNext]_cvars
      => Client!ClientTypeOK(Lists)' /\ TimerOK'
  BY ClientTypeStep, TimerStep DEF TypeOK
<1>4. QED
  BY <1>1, <1>2, <1>3, PTL DEF CSpec

\* The composition keeps the types of both, for any number of handlers, polls
\* and intervals.
THEOREM ControlTypeCorrect == CSpec => []CTypeOK
<1>1. CSpec => []TypeOK
  BY CompanionOnlyReads, ConfigTypeCorrect, PTL
<1>2. TypeOK /\ Client!ClientTypeOK(Lists) => CTypeOK
  BY DEF CTypeOK
<1>3. QED
  BY <1>1, <1>2, ClientInvariant, PTL

\* However often the module is configured, and whatever its polls meet, one
\* interval fires, the one destroy will clear.
THEOREM OneTimerFires == CSpec => []OneTimer
<1>1. TimerOK => OneTimer
  BY DEF TimerOK
<1>2. QED
  BY <1>1, ClientInvariant, PTL
=============================================================================
