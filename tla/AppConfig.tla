----------------------------- MODULE AppConfig -----------------------------
(***************************************************************************)
(* The configuration (config/config.go) from start to start: what the      *)
(* program reads, what the preset handlers change (api/server.go) and what *)
(* Save leaves for the next start.                                         *)
(*                                                                         *)
(* Two files matter: "own", the config.yaml in the working directory,      *)
(* which Save writes, and "other", any other file the program may read.    *)
(* One zone has a source; of the fields the program resolves, the model    *)
(* keeps the two buffer sizes of that source.  A station is its id and     *)
(* whether a client added it.                                              *)
(***************************************************************************)
EXTENDS Integers, Sequences, SequencesExt

CONSTANTS
    Handlers,          \* goroutines of POST and DELETE requests
    Ids,               \* station ids a configuration or a client may use
    Declared,          \* station lists a configuration may have
    Stated,            \* buffer sizes its source may state
    Envs,              \* buffer sizes the environment may ask for
    Flag,              \* the file -config names, or None
    None,
    ChunkMillis,       \* zoneChunkMillis
    QueueChunks,       \* zoneQueueChunks
    PrebufferChunks,   \* zonePrebufferChunks
    MaxStations        \* bound: stations in the list

Files == {"own", "other"}
Buffers == [prebuffer : Int, buffer : Int]
Station == [id : Ids, custom : BOOLEAN]
Lists == Seq(Station)
Contents == [stations : Lists, presets : Lists, source : Buffers \cup {None}]

ASSUME ConfigAssumption ==
    /\ Declared \subseteq Lists
    /\ Stated \subseteq Buffers
    /\ Envs \subseteq [prebuffer : Nat, buffer : Nat]
    /\ Flag \in Files \cup {None} /\ None \notin Files
    /\ None \notin Buffers /\ None \notin Contents
    /\ ChunkMillis \in Nat \ {0}
    /\ PrebufferChunks \in Nat \ {0} /\ QueueChunks \in Nat
    /\ PrebufferChunks < QueueChunks
    /\ MaxStations \in Nat

VARIABLES
    stations,   \* c.Stations
    presets,    \* c.Presets, the older name of the same list
    source,     \* c.Zones[i].Source, None when the zone has none
    disk,       \* the files
    pc, data,   \* each handler: where it is, and what its Save marshalled
    reading,    \* handlers that hold c.mu for reading
    fate,       \* "own" since the last Save: whole, older than it, or torn
    damaged     \* a start has read a torn file

memory == <<stations, presets, source>>
vars == <<memory, disk, pc, data, reading, fate, damaged>>

Config == [stations |-> stations, presets |-> presets, source |-> source]
Blank == [stations |-> <<>>, presets |-> <<>>, source |-> None]

-----------------------------------------------------------------------------
(* LoadConfig *)

\* applyEnvOverrides: the environment speaks for a zone that says nothing.
EnvDefaults(s, env) ==
    [prebuffer |-> IF env.prebuffer > 0 /\ s.prebuffer = 0
                   THEN env.prebuffer ELSE s.prebuffer,
     buffer    |-> IF env.buffer > 0 /\ s.buffer = 0
                   THEN env.buffer ELSE s.buffer]

\* applyDefaults: the buffer is twice the prebuffer.
ApplyDefaults(s) ==
    IF s.buffer <= 0 /\ s.prebuffer > 0
    THEN [s EXCEPT !.buffer = 2 * s.prebuffer] ELSE s

Resolved(s, env) == ApplyDefaults(EnvDefaults(s, env))

\* The file -config names, or the first that exists.
LoadPath(d) ==
    IF Flag # None THEN Flag ELSE IF d["own"] # None THEN "own" ELSE "other"

\* A file that cannot be read leaves the defaults.
Load(d) == IF d[LoadPath(d)] = None THEN Blank ELSE d[LoadPath(d)]

\* Stations and presets are two names of one list.
Listed(f) == IF f.stations = <<>> THEN f.presets ELSE f.stations

\* The memory of a program that has read file f.
Started(f, env) ==
    [stations |-> Listed(f),
     presets  |-> IF f.presets = <<>> THEN f.stations ELSE f.presets,
     source   |-> IF f.source = None THEN None ELSE Resolved(f.source, env)]

(* NewZonePlayer *)

ClampChunks(millis, min, max) ==
    LET chunks == millis \div ChunkMillis
    IN IF chunks < min THEN min ELSE IF chunks > max THEN max ELSE chunks

Prebuffer(s) ==
    IF s # None /\ s.prebuffer > 0
    THEN ClampChunks(s.prebuffer, 1, QueueChunks \div 2)
    ELSE PrebufferChunks

\* Mutant: the queue may be no longer than the prebuffer.
QueueNoHeadroom(s) ==
    IF s # None /\ s.buffer > 0
    THEN ClampChunks(s.buffer, Prebuffer(s), QueueChunks)
    ELSE QueueChunks

Queue(s) ==
    IF s # None /\ s.buffer > 0
    THEN ClampChunks(s.buffer, Prebuffer(s) + 1, QueueChunks)
    ELSE QueueChunks

-----------------------------------------------------------------------------
(* The preset handlers.  A change is one critical section under c.mu, a Save *)
(* holds c.mu for reading from before it marshals until it has written, so   *)
(* that Saves may overlap each other but no change overlaps a Save.          *)

Unlocked == reading = {}

\* handlePresets, POST: AddCustomPreset.
Post(h, id) ==
    /\ pc[h] = "idle" /\ Unlocked /\ Len(stations) < MaxStations
    /\ stations' = Append(stations, [id |-> id, custom |-> TRUE])
    /\ presets' = stations'
    /\ pc' = [pc EXCEPT ![h] = "save"]
    /\ UNCHANGED <<source, disk, data, reading, fate, damaged>>

\* Mutant: a station of the configuration may be removed.
RemovableAny(id) ==
    LET added == {i \in DOMAIN stations : stations[i].id = id}
    IN {i \in added : \A j \in added : i <= j}

\* The station DELETE may remove: the first of its id that a client added.
Removable(id) ==
    LET added == {i \in DOMAIN stations :
                    stations[i].id = id /\ stations[i].custom}
    IN {i \in added : \A j \in added : i <= j}

\* Mutant: the older name keeps the list as it was.
DeleteKeepsPresets(h, id) ==
    /\ pc[h] = "idle" /\ Unlocked
    /\ \E i \in Removable(id) : stations' = RemoveAt(stations, i)
    /\ pc' = [pc EXCEPT ![h] = "save"]
    /\ UNCHANGED <<presets, source, disk, data, reading, fate, damaged>>

\* handlePresetItem, DELETE: DeletePreset.  Without such a station the answer
\* is 404 and nothing changes.
Delete(h, id) ==
    /\ pc[h] = "idle" /\ Unlocked
    /\ \E i \in Removable(id) : stations' = RemoveAt(stations, i)
    /\ presets' = stations'
    /\ pc' = [pc EXCEPT ![h] = "save"]
    /\ UNCHANGED <<source, disk, data, reading, fate, damaged>>

\* Mutant: c.mu is given up before the file is written.
SaveOpenUnlocks(h) ==
    /\ pc[h] = "save"
    /\ pc' = [pc EXCEPT ![h] = "write"]
    /\ data' = [data EXCEPT ![h] = Config]
    /\ disk' = [disk EXCEPT !["own"] = Blank]
    /\ fate' = "torn"
    /\ UNCHANGED <<memory, reading, damaged>>

\* Save marshals, and WriteFile truncates the file.
SaveOpen(h) ==
    /\ pc[h] = "save"
    /\ pc' = [pc EXCEPT ![h] = "write"]
    /\ data' = [data EXCEPT ![h] = Config]
    /\ reading' = reading \cup {h}
    /\ disk' = [disk EXCEPT !["own"] = Blank]
    /\ fate' = "torn"
    /\ UNCHANGED <<memory, damaged>>

\* The file cannot be opened: the handler ignores the error.
SaveFails(h) ==
    /\ pc[h] = "save"
    /\ pc' = [pc EXCEPT ![h] = "idle"]
    /\ fate' = IF fate = "torn" THEN "torn" ELSE "old"
    /\ UNCHANGED <<memory, disk, data, reading, damaged>>

\* The first n stations of a list, the last perhaps without its last field,
\* which is is_custom.
Cut(list, n) ==
    {SubSeq(list, 1, n)} \cup
    {[SubSeq(list, 1, n) EXCEPT ![n].custom = FALSE] : m \in IF n > 0 THEN {n} ELSE {}}

\* A number of up to five digits, the first of them, or none.
CutNumber(n) == {n \div d : d \in {1, 10, 100, 1000, 10000}}

\* The buffer sizes are the last fields of a source.
CutSource(s) ==
    {[prebuffer |-> n, buffer |-> 0] : n \in CutNumber(s.prebuffer)} \cup
    {[prebuffer |-> s.prebuffer, buffer |-> n] : n \in CutNumber(s.buffer)}

\* What a start reads from the first part of a file: zones come first, then
\* stations, then presets; a part that does not parse reads as nothing.
Torn(c) ==
    {Blank}
    \cup {[Blank EXCEPT !.source = s] :
            s \in IF c.source = None THEN {} ELSE CutSource(c.source)}
    \cup {[c EXCEPT !.stations = s, !.presets = <<>>] :
            s \in UNION {Cut(c.stations, n) : n \in 0..Len(c.stations)}}
    \cup {[c EXCEPT !.presets = s] :
            s \in UNION {Cut(c.presets, n) : n \in 0..Len(c.presets)}}

Finish(h) ==
    /\ pc[h] = "write"
    /\ pc' = [pc EXCEPT ![h] = "idle"]
    /\ data' = [data EXCEPT ![h] = None]
    /\ reading' = reading \ {h}
    /\ UNCHANGED <<memory, damaged>>

SaveWrite(h) ==
    /\ Finish(h)
    /\ disk' = [disk EXCEPT !["own"] = data[h]]
    /\ fate' = "whole"

\* The disk is full: the handler ignores this error too.
SaveTears(h) ==
    /\ Finish(h)
    /\ \E c \in Torn(data[h]) : disk' = [disk EXCEPT !["own"] = c]
    /\ fate' = "torn"

\* The program ends at any moment, and the supervisor starts it again in an
\* environment that may have changed.
Restart ==
    /\ \E env \in Envs :
         LET c == Started(Load(disk), env)
         IN /\ stations' = c.stations /\ presets' = c.presets
            /\ source' = c.source
    /\ pc' = [h \in Handlers |-> "idle"]
    /\ data' = [h \in Handlers |-> None]
    /\ reading' = {}
    /\ fate' = "whole"
    /\ damaged' = (damaged \/ (LoadPath(disk) = "own" /\ fate = "torn"))
    /\ UNCHANGED disk

\* The operator's file is one of the two, or both are the same.
Init ==
    /\ \E list \in Declared, s \in Stated \cup {None}, copy \in BOOLEAN :
         LET file == [stations |-> list, presets |-> <<>>, source |-> s]
         IN /\ disk = [f \in Files |-> IF f = "other" \/ copy THEN file ELSE None]
            /\ Flag = "own" => copy
    /\ \E env \in Envs :
         LET c == Started(Load(disk), env)
         IN stations = c.stations /\ presets = c.presets /\ source = c.source
    /\ pc = [h \in Handlers |-> "idle"]
    /\ data = [h \in Handlers |-> None]
    /\ reading = {} /\ fate = "whole" /\ damaged = FALSE

Handler(h) ==
    \/ \E id \in Ids : Post(h, id) \/ Delete(h, id)
    \/ SaveOpen(h) \/ SaveFails(h) \/ SaveWrite(h) \/ SaveTears(h)

Next == (\E h \in Handlers : Handler(h)) \/ Restart

Spec == Init /\ [][Next]_vars

-----------------------------------------------------------------------------
\* The types; and c.mu is held for reading exactly by the handlers whose Save
\* is writing.
TypeOK ==
    /\ stations \in Lists /\ presets \in Lists
    /\ source \in Buffers \cup {None}
    /\ disk \in [Files -> Contents \cup {None}]
    /\ pc \in [Handlers -> {"idle", "save", "write"}]
    /\ data \in [Handlers -> Contents \cup {None}]
    /\ reading = {h \in Handlers : pc[h] = "write"}
    /\ fate \in {"whole", "old", "torn"} /\ damaged \in BOOLEAN

Quiet == \A h \in Handlers : pc[h] = "idle"

\* Unless its last Save failed, a program that is not changing the list would
\* have exactly this list after a restart, the deleted stations gone and the
\* added ones still removable, whatever changes and Saves have overlapped.
RestartKeepsStations ==
    (Flag # "other" /\ Quiet /\ fate = "whole") => Listed(Load(disk)) = stations

\* What the operator's file states is kept through every environment, request,
\* Save and restart: its stations are never removed, not even one whose id a
\* client has used too, and its zone keeps the buffer sizes it asks for.
StatedIsKept ==
    LET stated == disk["other"]
    IN ~damaged =>
        /\ \A i \in DOMAIN stated.stations :
             stated.stations[i].custom \/ stated.stations[i] \in Range(stations)
        /\ stated.source # None =>
             /\ source # None
             /\ stated.source.prebuffer # 0 =>
                  source.prebuffer = stated.source.prebuffer
             /\ stated.source.buffer > 0 => source.buffer = stated.source.buffer

\* Whatever a file, torn or not, and the environment ask for, the queue of the
\* zone has room for more than its prebuffer, or it would never play.
BuffersFit ==
    /\ 1 <= Prebuffer(source) /\ Prebuffer(source) < Queue(source)
    /\ Queue(source) <= QueueChunks
=============================================================================
