----------------------------- MODULE Soundboard -----------------------------
(***************************************************************************)
(* The soundboard (engine/soundboard.go): a directory of files that become *)
(* pads, a cache of their decoded samples, background goroutines that warm *)
(* it, and one voice per zone that the Dante loop mixes.                   *)
(*                                                                         *)
(* A file is represented by a version that every change on disk increases; *)
(* it stands for modification time, size and content.  Samples are the     *)
(* version they were decoded from.  Everything a goroutine does between    *)
(* two acquisitions of s.mu is a step of its own.                          *)
(***************************************************************************)
EXTENDS Integers, FiniteSets

CONSTANTS
    Files, Zones,
    Handlers,    \* HTTP handlers and status polls
    Warmers,     \* bound: goroutines of warmNew alive at once
    None,
    MaxVersion,  \* bound: changes of one file
    Broken       \* versions FFmpeg cannot decode: still being copied, or junk

ASSUME SoundboardAssumption ==
    /\ None \notin Files \cup Zones
    /\ Handlers \cap Warmers = {} /\ MaxVersion \in Nat /\ Broken \subseteq Nat

Loaders == Handlers \cup Warmers

VARIABLES
    version,   \* disk: the version of each file
    present,   \* disk: the files that exist
    cache,     \* s.cache: the version stat saw and the one decoded, or None
    warming,   \* s.warming
    voices,    \* s.voices
    listed,    \* s.listCache, None before the first scan
    fresh,     \* time.Since(s.listAt) < soundboardListTTL
    pc,        \* where each goroutine is
    job,       \* the file it loads
    tag,       \* the version stat saw in load
    got,       \* the version load returned
    todo,      \* warmers: what is left to warm; handlers: the scan's result
    zone,      \* handlers: the zone of a press, None for a status poll
    asked      \* history: the version on disk when the pad was pressed

disk == <<version, present>>
board == <<cache, warming, voices, listed, fresh>>
work == <<pc, job, tag, got, todo, zone, asked>>
vars == <<disk, board, work>>

Versions == 0..MaxVersion
Decodable == (1..MaxVersion) \ Broken

\* The goroutine started by NewSoundboard is the first status poll.
Init ==
    /\ version = [f \in Files |-> 0] /\ present = {}
    /\ cache = [f \in Files |-> None]
    /\ warming = {} /\ voices = [z \in Zones |-> None]
    /\ listed = None /\ fresh = FALSE
    /\ pc = [l \in Loaders |-> "idle"]
    /\ job = [l \in Loaders |-> None]
    /\ tag = [l \in Loaders |-> 0] /\ got = [l \in Loaders |-> 0]
    /\ todo = [l \in Loaders |-> {}]
    /\ zone = [h \in Handlers |-> None]
    /\ asked = [h \in Handlers |-> 0]

Goto(l, p) == pc' = [pc EXCEPT ![l] = p]

-----------------------------------------------------------------------------
(* Requests: a press of a pad, or a status poll that only lists. *)

Press(h, f, z) ==
    /\ pc[h] = "idle"
    /\ Goto(h, "list")
    /\ job' = [job EXCEPT ![h] = f] /\ zone' = [zone EXCEPT ![h] = z]
    /\ asked' = [asked EXCEPT ![h] = version[f]]
    /\ UNCHANGED <<disk, board, tag, got, todo>>

Poll(h) ==
    /\ pc[h] = "idle"
    /\ Goto(h, "list")
    /\ job' = [job EXCEPT ![h] = None] /\ zone' = [zone EXCEPT ![h] = None]
    /\ UNCHANGED <<disk, board, tag, got, todo, asked>>

\* A goroutine that is done with a file, or with its request.
Forget(l, p) ==
    /\ Goto(l, p)
    /\ job' = [job EXCEPT ![l] = None]
    /\ tag' = [tag EXCEPT ![l] = 0] /\ got' = [got EXCEPT ![l] = 0]

Finish(h) ==
    /\ Forget(h, "idle")
    /\ todo' = [todo EXCEPT ![h] = {}]
    /\ zone' = [zone EXCEPT ![h] = None]
    /\ asked' = [asked EXCEPT ![h] = 0]

(* List. *)

\* What Play and State do with the list: "unknown sound", load, or nothing.
Listed(h, sounds) ==
    IF job[h] \in sounds
    THEN /\ Goto(h, "stat") /\ todo' = [todo EXCEPT ![h] = {}]
         /\ UNCHANGED <<job, tag, got, zone, asked>>
    ELSE Finish(h)

ListCached(h) ==
    /\ pc[h] = "list" /\ fresh /\ listed # None
    /\ Listed(h, listed)
    /\ UNCHANGED <<disk, board>>

ListScan(h) ==
    /\ pc[h] = "list" /\ ~(fresh /\ listed # None)
    /\ Goto(h, "scanned")
    /\ todo' = [todo EXCEPT ![h] = present]
    /\ UNCHANGED <<disk, board, job, tag, got, zone, asked>>

\* The directory cannot be read: List returns nothing, so Play knows no sound,
\* nothing is warmed, and the list of an earlier scan is kept but not renewed.
ListFails(h) ==
    /\ pc[h] = "list" /\ ~(fresh /\ listed # None)
    /\ Finish(h)
    /\ UNCHANGED <<disk, board>>

ListStore(h) ==
    /\ pc[h] = "scanned"
    /\ Goto(h, "warm")
    /\ listed' = todo[h] /\ fresh' = TRUE
    /\ UNCHANGED <<disk, cache, warming, voices, job, tag, got, todo, zone, asked>>

\* Mutant: warmNew does not look at the decodes in flight.
UnwarmedAgain(sounds) == {f \in sounds : cache[f] = None}

\* warmNew: what neither is cached nor has a decode in flight.
Unwarmed(sounds) == {f \in sounds : cache[f] = None /\ f \notin warming}

WarmNew(h) ==
    /\ pc[h] = "warm"
    /\ Unwarmed(todo[h]) = {}
    /\ Listed(h, todo[h])
    /\ UNCHANGED <<disk, board>>

WarmNewStarts(h) ==
    /\ pc[h] = "warm"
    /\ Unwarmed(todo[h]) # {}
    /\ warming' = warming \cup Unwarmed(todo[h])
    /\ \E w \in Warmers :
        /\ pc[w] = "idle"
        /\ pc' = [pc EXCEPT ![w] = "next", ![h] = "listed"]
        /\ todo' = [todo EXCEPT ![w] = Unwarmed(todo[h])]
    /\ UNCHANGED <<disk, cache, voices, listed, fresh, job, tag, got, zone, asked>>

ListDone(h) ==
    /\ pc[h] = "listed"
    /\ Listed(h, todo[h])
    /\ UNCHANGED <<disk, board>>

(* The goroutine of warmNew. *)

WarmNext(w) ==
    /\ pc[w] = "next"
    /\ IF todo[w] = {}
       THEN Goto(w, "idle") /\ UNCHANGED <<job, todo>>
       ELSE \E f \in todo[w] :
              /\ Goto(w, "stat")
              /\ job' = [job EXCEPT ![w] = f]
              /\ todo' = [todo EXCEPT ![w] = @ \ {f}]
    /\ UNCHANGED <<disk, board, tag, got, zone, asked>>

\* Mutant: a file that cannot be decoded stays marked as in flight.
WarmedUnlessBroken(w) ==
    /\ pc[w] \in {"loaded", "failed"}
    /\ Forget(w, "next")
    /\ warming' = IF pc[w] = "loaded" THEN warming \ {job[w]} ELSE warming
    /\ UNCHANGED <<disk, cache, voices, listed, fresh, todo, zone, asked>>

Warmed(w) ==
    /\ pc[w] \in {"loaded", "failed"}
    /\ Forget(w, "next")
    /\ warming' = warming \ {job[w]}
    /\ UNCHANGED <<disk, cache, voices, listed, fresh, todo, zone, asked>>

(* load. *)

LoadStat(l) ==
    /\ pc[l] = "stat"
    /\ IF job[l] \in present
       THEN Goto(l, "lookup") /\ tag' = [tag EXCEPT ![l] = version[job[l]]]
       ELSE Goto(l, "failed") /\ UNCHANGED tag
    /\ UNCHANGED <<disk, board, job, got, todo, zone, asked>>

\* Mutant: any cached samples will do.
HitWhatever(l) == cache[job[l]] # None

\* The cached samples are those of the file that stat saw.
Hit(l) == cache[job[l]] # None /\ cache[job[l]].tag = tag[l]

LoadLookup(l) ==
    /\ pc[l] = "lookup"
    /\ IF Hit(l)
       THEN Goto(l, "loaded") /\ got' = [got EXCEPT ![l] = cache[job[l]].content]
       ELSE Goto(l, "decode") /\ UNCHANGED got
    /\ UNCHANGED <<disk, board, job, tag, todo, zone, asked>>

\* FFmpeg reads whatever is there while it runs.
LoadDecode(l) ==
    /\ pc[l] = "decode"
    /\ \/ /\ job[l] \in present
          /\ version[job[l]] \notin Broken
          /\ Goto(l, "store") /\ got' = [got EXCEPT ![l] = version[job[l]]]
       \/ /\ job[l] \notin present \/ version[job[l]] \in Broken
          /\ Goto(l, "failed") /\ UNCHANGED got
    /\ UNCHANGED <<disk, board, job, tag, todo, zone, asked>>

\* The entry is tagged with what stat saw before the decode.
EntryTag(l) == tag[l]

LoadStore(l) ==
    /\ pc[l] = "store"
    /\ Goto(l, "loaded")
    /\ cache' = [cache EXCEPT ![job[l]] = [tag |-> EntryTag(l), content |-> got[l]]]
    /\ UNCHANGED <<disk, warming, voices, listed, fresh, job, tag, got, todo, zone,
                   asked>>

Load(l) == LoadStat(l) \/ LoadLookup(l) \/ LoadDecode(l) \/ LoadStore(l)

(* The rest of Play. *)

PlayFails(h) ==
    /\ pc[h] = "failed"
    /\ Finish(h)
    /\ UNCHANGED <<disk, board>>

\* Mutant: the error of load is ignored.
PlayVoiceAnyway(h) ==
    /\ pc[h] \in {"loaded", "failed"}
    /\ voices' = [voices EXCEPT ![zone[h]] =
                    [sound |-> job[h], content |-> got[h]]]
    /\ Finish(h)
    /\ UNCHANGED <<disk, cache, warming, listed, fresh>>

\* The pad takes over from what its zone was sounding.
PlayVoice(h) ==
    /\ pc[h] = "loaded"
    /\ voices' = [voices EXCEPT ![zone[h]] =
                    [sound |-> job[h], content |-> got[h]]]
    /\ Finish(h)
    /\ UNCHANGED <<disk, cache, warming, listed, fresh>>

\* StopVoice, StopAll of a zone, or MixInto reaching the end of the samples.
VoiceEnds(z) ==
    /\ voices[z] # None
    /\ voices' = [voices EXCEPT ![z] = None]
    /\ UNCHANGED <<disk, cache, warming, listed, fresh, work>>

StopAll ==
    /\ voices' = [z \in Zones |-> None]
    /\ UNCHANGED <<disk, cache, warming, listed, fresh, work>>

(* The environment: the TTL of the list, and whoever changes the directory. *)

ListExpires ==
    /\ fresh' = FALSE /\ fresh
    /\ UNCHANGED <<disk, cache, warming, voices, listed, work>>

WriteFile(f) ==
    /\ version[f] < MaxVersion
    /\ version' = [version EXCEPT ![f] = @ + 1]
    /\ present' = present \cup {f}
    /\ UNCHANGED <<board, work>>

RemoveFile(f) ==
    /\ f \in present /\ present' = present \ {f}
    /\ UNCHANGED <<version, board, work>>

-----------------------------------------------------------------------------
Handle(h) ==
    \/ ListCached(h) \/ ListScan(h) \/ ListFails(h) \/ ListStore(h)
    \/ WarmNew(h) \/ WarmNewStarts(h) \/ ListDone(h)
    \/ Load(h) \/ PlayFails(h) \/ PlayVoice(h)

Warm(w) == WarmNext(w) \/ Load(w) \/ Warmed(w)

Disk == \E f \in Files : WriteFile(f) \/ RemoveFile(f)

Next ==
    \/ \E h \in Handlers : \/ Poll(h) \/ Handle(h)
                           \/ \E f \in Files, z \in Zones : Press(h, f, z)
    \/ \E w \in Warmers : Warm(w)
    \/ \E z \in Zones : VoiceEnds(z)
    \/ StopAll \/ ListExpires \/ Disk

Spec == Init /\ [][Next]_vars

\* The UI polls the state, the list expires, goroutines run, and the directory
\* is not unreadable every time it is read.
FairSpec ==
    /\ Spec
    /\ \A h \in Handlers : /\ WF_vars(Handle(h)) /\ WF_vars(Poll(h))
                           /\ SF_vars(ListScan(h))
    /\ \A w \in Warmers : WF_vars(Warm(w))
    /\ WF_vars(ListExpires)

-----------------------------------------------------------------------------
\* Samples are of a version that can be decoded, in the cache and in a voice.
TypeOK ==
    /\ version \in [Files -> Versions] /\ present \subseteq Files
    /\ cache \in [Files -> [tag : Versions, content : Decodable] \cup {None}]
    /\ warming \subseteq Files
    /\ voices \in [Zones -> [sound : Files, content : Decodable] \cup {None}]
    /\ listed = None \/ listed \subseteq Files
    /\ pc \in [Loaders -> {"idle", "list", "scanned", "warm", "listed", "next", "stat",
                           "lookup", "decode", "store", "loaded", "failed"}]
    /\ job \in [Loaders -> Files \cup {None}]
    /\ tag \in [Loaders -> Versions] /\ got \in [Loaders -> Versions]
    /\ todo \in [Loaders -> SUBSET Files]

\* A handler that serves a press has a pad that is no older than the file was
\* when it was pressed, although decodes of several versions race for the
\* cache entry.
NeverServesStale ==
    \A h \in Handlers : pc[h] = "loaded" => got[h] >= asked[h]

\* The press a handler has not answered yet, if there is one.
Pressed(h) ==
    {[sound |-> f, zone |-> zone[h], since |-> asked[h]] : f \in {job[h]} \ {None}}

\* Whatever is cached, warmed, expired and replaced on disk meanwhile, a press
\* is refused or sounds a version its file has had since the press, in its
\* zone, and nothing else starts or replaces a sound.
Pads == INSTANCE PadBoard WITH
            Clients <- Handlers, Playable <- Decodable,
            pressed <- [h \in Handlers |-> Pressed(h)], sounding <- voices
PadsKeepTheirPromise == Pads!Spec

\* What is cached for a file is at least as new as its tag says: a change
\* during a decode can only cause another decode, never hide one.
CacheNotOlder ==
    \A f \in Files : cache[f] # None => cache[f].content >= cache[f].tag

\* No two background goroutines hold the same file, and a file is marked as
\* in flight exactly while one holds it.
Holding(w) == todo[w] \cup (IF job[w] = None THEN {} ELSE {job[w]})

WarmedOnce ==
    /\ \A v, w \in Warmers : v # w => Holding(v) \cap Holding(w) = {}
    /\ warming = UNION {Holding(w) : w \in Warmers}

\* The cache entry is that of the file as it is on disk.
Current(f) == cache[f] # None /\ cache[f].tag = version[f]

\* The background decodes of warmNew: a file in the directory that can be
\* decoded gets a cache entry for good without a press, even if the first scan
\* found it unplayable, or the directory could not be read at first.  warmNew
\* passes over a file that has an entry, of whatever version, so only presses
\* bring the entry up to date: if the file goes on being pressed, the entry is
\* in the end that of its last version for good and a press finds it, although
\* a late decode may still store an older one over it.
DroppedFileIsWarmed ==
    \A f \in Files :
        <>[](f \in present /\ version[f] \notin Broken) =>
            /\ <>[](cache[f] # None)
            /\ []<>(\E h \in Handlers : pc[h] = "loaded" /\ job[h] = f) => <>[]Current(f)
=============================================================================
