-------------------------- MODULE SoundboardProofs --------------------------
(***************************************************************************)
(* Theorems about the soundboard for any number of files, handlers and     *)
(* background goroutines.                                                  *)
(***************************************************************************)
EXTENDS Soundboard, TLAPS

(* What a goroutine inside load holds. *)
LoaderOK(l) ==
    /\ pc[l] \in {"stat", "lookup", "decode", "store", "loaded"} => job[l] \in Files
    /\ pc[l] \in {"lookup", "decode", "store"} => tag[l] <= version[job[l]]
    /\ pc[l] = "store" => tag[l] <= got[l]
    /\ pc[l] \in {"store", "loaded"} =>
         got[l] <= version[job[l]] /\ got[l] \in Decodable

(* What it holds is at least as new as the file was when it was asked for. *)
AskedOK(h) ==
    /\ job[h] # None => asked[h] <= version[job[h]]
    /\ pc[h] \in {"lookup", "decode", "store"} => asked[h] <= tag[h]
    /\ pc[h] = "loaded" => asked[h] <= got[h]

CacheOK ==
    \A f \in Files : cache[f] # None =>
        /\ cache[f].tag <= cache[f].content
        /\ cache[f].content <= version[f]

BoardInv ==
    /\ TypeOK /\ asked \in [Handlers -> Versions]
    /\ zone \in [Handlers -> Zones \cup {None}]
    /\ \A f \in present : version[f] >= 1
    /\ \A h \in Handlers : job[h] # None => zone[h] \in Zones
    /\ \A l \in Loaders : LoaderOK(l)
    /\ \A h \in Handlers : AskedOK(h)
    /\ CacheOK

LEMMA InitBoard == Init => BoardInv
  BY SoundboardAssumption
  DEF Init, BoardInv, TypeOK, Versions, Loaders, LoaderOK, AskedOK, CacheOK

LEMMA TypeStep ==
    ASSUME BoardInv, [Next]_vars
    PROVE  /\ TypeOK' /\ asked' \in [Handlers -> Versions]
           /\ zone' \in [Handlers -> Zones \cup {None}]
           /\ \A f \in present' : version'[f] >= 1
<1> USE SoundboardAssumption DEF BoardInv, TypeOK, Versions, Loaders, disk, board, work, Goto, Forget, Finish, Listed
<1>1. CASE \E h \in Handlers, f \in Files, z \in Zones : Press(h, f, z)
  BY <1>1 DEF Press
<1>2. CASE \E h \in Handlers : Poll(h)
  BY <1>2 DEF Poll
<1>3. CASE \E h \in Handlers : ListCached(h)
  <2>1. PICK h \in Handlers : ListCached(h)
    BY <1>3
  <2>2. CASE job[h] \in listed
    BY <2>1, <2>2 DEF ListCached
  <2>3. CASE job[h] \notin listed
    BY <2>1, <2>3 DEF ListCached
  <2>4. QED
    BY <2>2, <2>3
<1>4. CASE \E h \in Handlers : ListScan(h)
  BY <1>4 DEF ListScan
<1>5. CASE \E h \in Handlers : ListStore(h)
  BY <1>5 DEF ListStore
<1>6. CASE \E h \in Handlers : WarmNew(h)
  BY <1>6 DEF WarmNew, Unwarmed
<1>7. CASE \E h \in Handlers : WarmNewStarts(h)
  BY <1>7 DEF WarmNewStarts, Unwarmed
<1>8. CASE \E h \in Handlers : ListDone(h)
  <2>1. PICK h \in Handlers : ListDone(h)
    BY <1>8
  <2>2. UNCHANGED <<version, present, cache, warming, voices, listed, fresh>>
    BY <2>1 DEF ListDone
  <2>3. CASE job[h] \in todo[h]
    BY <2>1, <2>2, <2>3 DEF ListDone
  <2>4. CASE job[h] \notin todo[h]
    <3>1. Finish(h)
      BY <2>1, <2>4 DEF ListDone
    <3>2. /\ asked' \in [Handlers -> Versions] /\ zone' \in [Handlers -> Zones \cup {None}]
          /\ job' \in [Loaders -> Files \cup {None}] /\ todo' \in [Loaders -> SUBSET Files]
      BY <3>1
    <3>3. tag' \in [Loaders -> Versions] /\ got' \in [Loaders -> Versions]
      BY <3>1
    <3>4. pc' = [pc EXCEPT ![h] = "idle"]
      BY <3>1
    <3>5. QED
      BY <2>2, <3>2, <3>3, <3>4
  <2>5. QED
    BY <2>3, <2>4
<1>9. CASE \E h \in Handlers : PlayFails(h) \/ ListFails(h)
  BY <1>9 DEF PlayFails, ListFails
<1>10. CASE \E h \in Handlers : PlayVoice(h)
  <2>1. PICK h \in Handlers : PlayVoice(h)
    BY <1>10
  <2>2. job[h] \in Files /\ got[h] \in Decodable
    BY <2>1 DEF PlayVoice, LoaderOK
  <2>3. voices' = [voices EXCEPT ![zone[h]] = [sound |-> job[h], content |-> got[h]]]
    BY <2>1 DEF PlayVoice
  <2>4. voices' \in [Zones -> [sound : Files, content : Decodable] \cup {None}]
    BY <2>2, <2>3
  <2>5. QED
    BY <2>1, <2>4 DEF PlayVoice
<1>11. CASE \E w \in Warmers : WarmNext(w)
  BY <1>11 DEF WarmNext
<1>12. CASE \E w \in Warmers : Warmed(w)
  BY <1>12 DEF Warmed
<1>13. CASE \E l \in Loaders : LoadStat(l)
  BY <1>13 DEF LoadStat
<1>14. CASE \E l \in Loaders : LoadLookup(l)
  <2>1. PICK l \in Loaders : LoadLookup(l)
    BY <1>14
  <2>2. job[l] \in Files
    BY <2>1 DEF LoadLookup, LoaderOK
  <2>3. Hit(l) => cache[job[l]].content \in Versions
    BY <2>2 DEF Hit, Decodable
  <2>4. QED
    BY <2>1, <2>3 DEF LoadLookup
<1>15. CASE \E l \in Loaders : LoadDecode(l)
  BY <1>15 DEF LoadDecode
<1>16. CASE \E l \in Loaders : LoadStore(l)
  <2>1. PICK l \in Loaders : LoadStore(l)
    BY <1>16
  <2>2. [tag |-> tag[l], content |-> got[l]] \in [tag : Versions, content : Decodable]
    BY <2>1 DEF LoadStore, LoaderOK
  <2>3. cache' \in [Files -> [tag : Versions, content : Decodable] \cup {None}]
    BY <2>1, <2>2 DEF LoadStore, EntryTag
  <2>4. QED
    BY <2>1, <2>3 DEF LoadStore
<1>17. CASE \E z \in Zones : VoiceEnds(z)
  BY <1>17 DEF VoiceEnds
<1>18. CASE StopAll
  BY <1>18 DEF StopAll
<1>19. CASE ListExpires
  BY <1>19 DEF ListExpires
<1>20. CASE \E f \in Files : WriteFile(f)
  BY <1>20 DEF WriteFile
<1>21. CASE \E f \in Files : RemoveFile(f)
  BY <1>21 DEF RemoveFile
<1>22. CASE UNCHANGED vars
  BY <1>22 DEF vars
<1>23. QED
  BY <1>1, <1>2, <1>3, <1>4, <1>5, <1>6, <1>7, <1>8, <1>9, <1>10, <1>11, <1>12, <1>13, <1>14, <1>15, <1>16, <1>17, <1>18, <1>19, <1>20, <1>21, <1>22 DEF Next, Handle, Warm, Load, Disk, Loaders

(* A goroutine inside load keeps a version no newer than the file. *)
LEMMA LoaderStep ==
    ASSUME BoardInv, [Next]_vars, NEW k \in Loaders
    PROVE  LoaderOK(k)'
<1> USE SoundboardAssumption DEF BoardInv, TypeOK, Versions, Loaders, LoaderOK, Goto, Forget, Finish, Listed
<1>1. CASE \E h \in Handlers, f \in Files, z \in Zones : Press(h, f, z)
  BY <1>1 DEF Press, disk, board
<1>2. CASE \E h \in Handlers : Poll(h)
  BY <1>2 DEF Poll, disk, board
<1>3. CASE \E h \in Handlers : ListCached(h)
  BY <1>3 DEF ListCached, disk, board
<1>4. CASE \E h \in Handlers : ListScan(h)
  BY <1>4 DEF ListScan, disk, board
<1>5. CASE \E h \in Handlers : ListStore(h)
  BY <1>5 DEF ListStore, disk, board
<1>6. CASE \E h \in Handlers : WarmNew(h)
  BY <1>6 DEF WarmNew, disk, board
<1>7. CASE \E h \in Handlers : WarmNewStarts(h)
  BY <1>7 DEF WarmNewStarts, disk, board
<1>8. CASE \E h \in Handlers : ListDone(h)
  BY <1>8 DEF ListDone, disk, board
<1>9. CASE \E h \in Handlers : PlayFails(h) \/ ListFails(h)
  BY <1>9 DEF PlayFails, ListFails, disk, board
<1>10. CASE \E h \in Handlers : PlayVoice(h)
  BY <1>10 DEF PlayVoice, disk, board
<1>11. CASE \E w \in Warmers : WarmNext(w)
  BY <1>11 DEF WarmNext, disk, board
<1>12. CASE \E w \in Warmers : Warmed(w)
  BY <1>12 DEF Warmed, disk, board
<1>13. CASE \E l \in Loaders : LoadStat(l)
  BY <1>13 DEF LoadStat, disk, board
<1>14. CASE \E l \in Loaders : LoadLookup(l)
  <2>1. PICK l \in Loaders : LoadLookup(l)
    BY <1>14
  <2>2. job[l] \in Files /\ UNCHANGED <<version, job, tag>>
    BY <2>1 DEF LoadLookup, disk
  <2>3. CASE Hit(l)
    <3>1. /\ cache[job[l]].content \in Decodable
          /\ cache[job[l]].content <= version[job[l]]
      BY <2>2, <2>3 DEF Hit, CacheOK
    <3>2. pc' = [pc EXCEPT ![l] = "loaded"] /\ got' = [got EXCEPT ![l] = cache[job[l]].content]
      BY <2>1, <2>3 DEF LoadLookup
    <3>3. QED
      BY <2>2, <3>1, <3>2
  <2>4. CASE ~Hit(l)
    BY <2>1, <2>2, <2>4 DEF LoadLookup
  <2>5. QED
    BY <2>3, <2>4
<1>15. CASE \E l \in Loaders : LoadDecode(l)
  <2>1. PICK l \in Loaders : LoadDecode(l)
    BY <1>15
  <2>2. job[l] \in Files /\ UNCHANGED <<version, job, tag>> /\ pc[l] = "decode"
    BY <2>1 DEF LoadDecode, disk
  <2>3. CASE pc'[l] = "store"
    <3>1. /\ pc' = [pc EXCEPT ![l] = "store"] /\ got' = [got EXCEPT ![l] = version[job[l]]]
          /\ job[l] \in present /\ version[job[l]] \notin Broken
      BY <2>1, <2>3 DEF LoadDecode
    <3>2. version[job[l]] \in Decodable
      BY <2>2, <3>1 DEF Decodable
    <3>3. QED
      BY <2>2, <3>1, <3>2
  <2>4. CASE pc'[l] # "store"
    BY <2>1, <2>2, <2>4 DEF LoadDecode
  <2>5. QED
    BY <2>3, <2>4
<1>16. CASE \E l \in Loaders : LoadStore(l)
  BY <1>16 DEF LoadStore, disk, board
<1>17. CASE \E f \in Files : WriteFile(f)
  <2>1. /\ UNCHANGED <<pc, job, tag, got>>
        /\ \A f \in Files : version'[f] \in Int /\ version[f] <= version'[f]
    BY <1>17 DEF WriteFile, work
  <2>2. \A d \in Decodable : d \in Int
    BY DEF Decodable
  <2>3. QED
    BY <2>1, <2>2
<1>18. CASE \/ \E z \in Zones : VoiceEnds(z)
            \/ \E f \in Files : RemoveFile(f)
            \/ StopAll \/ ListExpires \/ UNCHANGED vars
  BY <1>18 DEF VoiceEnds, RemoveFile, StopAll, ListExpires, vars, disk, board, work
<1>19. QED
  BY <1>1, <1>2, <1>3, <1>4, <1>5, <1>6, <1>7, <1>8, <1>9, <1>10, <1>11, <1>12, <1>13, <1>14, <1>15, <1>16, <1>17, <1>18 DEF Next, Handle, Warm, Load, Disk, Loaders

(* No cached samples are older than their tag, or newer than the file. *)
LEMMA CacheStep ==
    ASSUME BoardInv, [Next]_vars
    PROVE  CacheOK'
<1> USE SoundboardAssumption DEF BoardInv, TypeOK, Versions, Loaders, CacheOK
<1>1. CASE \E l \in Loaders : LoadStore(l)
  BY <1>1 DEF LoadStore, LoaderOK, EntryTag, disk
<1>2. CASE \E f \in Files : WriteFile(f)
  <2>1. cache' = cache /\ \A f \in Files : version'[f] \in Int /\ version[f] <= version'[f]
    BY <1>2 DEF WriteFile, board
  <2>2. \A f \in Files : cache[f] # None => cache[f].content \in Int
    BY DEF Decodable
  <2>3. QED
    BY <2>1, <2>2
<1>3. CASE ~(\E l \in Loaders : LoadStore(l)) /\ ~(\E f \in Files : WriteFile(f))
  <2>1. UNCHANGED <<cache, version>>
    BY <1>3 DEF Next, Handle, Warm, Load, Disk, Press, Poll, ListCached, ListScan,
       ListFails, ListStore, WarmNew, WarmNewStarts, ListDone, PlayFails, PlayVoice,
       WarmNext, Warmed, LoadStat, LoadLookup, LoadDecode, VoiceEnds, StopAll, ListExpires,
       RemoveFile, vars, disk, board
  <2>2. QED
    BY <2>1
<1>4. QED
  BY <1>1, <1>2, <1>3

(* What a handler holds is at least as new as the file was when it asked. *)
LEMMA AskedStep ==
    ASSUME BoardInv, [Next]_vars, NEW k \in Handlers
    PROVE  AskedOK(k)' /\ (job[k] # None => zone[k] \in Zones)'
<1> USE SoundboardAssumption DEF BoardInv, TypeOK, Versions, Loaders, AskedOK, Goto, Forget, Finish, Listed
<1>1. CASE \E h \in Handlers, f \in Files, z \in Zones : Press(h, f, z)
  BY <1>1 DEF Press, disk, board
<1>2. CASE \E h \in Handlers : Poll(h)
  BY <1>2 DEF Poll, disk, board
<1>3. CASE \E h \in Handlers : ListCached(h)
  BY <1>3 DEF ListCached, disk, board
<1>4. CASE \E h \in Handlers : ListScan(h)
  BY <1>4 DEF ListScan, disk, board
<1>5. CASE \E h \in Handlers : ListStore(h)
  BY <1>5 DEF ListStore, disk, board
<1>6. CASE \E h \in Handlers : WarmNew(h)
  BY <1>6 DEF WarmNew, disk, board
<1>7. CASE \E h \in Handlers : WarmNewStarts(h)
  BY <1>7 DEF WarmNewStarts, disk, board
<1>8. CASE \E h \in Handlers : ListDone(h)
  BY <1>8 DEF ListDone, disk, board
<1>9. CASE \E h \in Handlers : PlayFails(h) \/ ListFails(h)
  BY <1>9 DEF PlayFails, ListFails, disk, board
<1>10. CASE \E h \in Handlers : PlayVoice(h)
  BY <1>10 DEF PlayVoice, disk, board
<1>11. CASE \E w \in Warmers : WarmNext(w)
  BY <1>11 DEF WarmNext, disk, board
<1>12. CASE \E w \in Warmers : Warmed(w)
  BY <1>12 DEF Warmed, disk, board
<1>13. CASE \E l \in Loaders : LoadStat(l)
  BY <1>13 DEF LoadStat, LoaderOK, disk, board
<1>14. CASE \E l \in Loaders : LoadLookup(l)
  <2>1. PICK l \in Loaders : LoadLookup(l)
    BY <1>14
  <2>2. job[l] \in Files /\ UNCHANGED <<version, job, tag, asked, zone>>
    BY <2>1 DEF LoadLookup, LoaderOK, disk
  <2>3. CASE Hit(l)
    <3>1. /\ cache[job[l]].content \in Int
          /\ tag[l] <= cache[job[l]].content
      BY <2>2, <2>3 DEF Hit, CacheOK, Decodable
    <3>2. /\ pc[l] = "lookup" /\ pc' = [pc EXCEPT ![l] = "loaded"]
          /\ got' = [got EXCEPT ![l] = cache[job[l]].content]
      BY <2>1, <2>3 DEF LoadLookup
    <3>3. QED
      BY <2>2, <3>1, <3>2
  <2>4. CASE ~Hit(l)
    BY <2>1, <2>2, <2>4 DEF LoadLookup
  <2>5. QED
    BY <2>3, <2>4
<1>15. CASE \E l \in Loaders : LoadDecode(l)
  BY <1>15 DEF LoadDecode, LoaderOK, disk, board
<1>16. CASE \E l \in Loaders : LoadStore(l)
  BY <1>16 DEF LoadStore, LoaderOK, disk, board
<1>17. CASE \E f \in Files : WriteFile(f)
  BY <1>17 DEF WriteFile, board, work
<1>18. CASE \/ \E z \in Zones : VoiceEnds(z)
            \/ \E f \in Files : RemoveFile(f)
            \/ StopAll \/ ListExpires \/ UNCHANGED vars
  BY <1>18 DEF VoiceEnds, RemoveFile, StopAll, ListExpires, vars, disk, board, work
<1>19. QED
  BY <1>1, <1>2, <1>3, <1>4, <1>5, <1>6, <1>7, <1>8, <1>9, <1>10, <1>11, <1>12, <1>13, <1>14, <1>15, <1>16, <1>17, <1>18 DEF Next, Handle, Warm, Load, Disk, Loaders

(* What the board keeps while decodes race and files change under them. *)
THEOREM BoardInvariant == Spec => []BoardInv
<1>1. BoardInv /\ [Next]_vars => BoardInv'
  BY TypeStep, LoaderStep, AskedStep, CacheStep DEF BoardInv, Loaders
<1>2. QED
  BY <1>1, InitBoard, PTL DEF Spec

(* Every variable of the soundboard keeps its type; in particular a voice has
   samples of a file and belongs to a zone. *)
THEOREM BoardTypeCorrect == Spec => []TypeOK
  BY BoardInvariant, PTL DEF BoardInv

(* A pad never sounds older than its file was when it was pressed. *)
THEOREM PressHearsNewest == Spec => []NeverServesStale
<1>1. BoardInv => NeverServesStale
  BY DEF BoardInv, TypeOK, Versions, AskedOK, NeverServesStale, Loaders
<1>2. QED
  BY <1>1, BoardInvariant, PTL

(* The cache never claims to be newer than it is. *)
THEOREM CacheHonest == Spec => []CacheNotOlder
<1>1. BoardInv => CacheNotOlder
  BY DEF BoardInv, TypeOK, Versions, CacheOK, CacheNotOlder
<1>2. QED
  BY <1>1, BoardInvariant, PTL

-----------------------------------------------------------------------------
(* What a background goroutine holds, by where it is. *)
WarmerOK(w) ==
    /\ pc[w] \in {"idle", "next", "stat", "lookup", "decode", "store", "loaded", "failed"}
    /\ pc[w] = "idle" => todo[w] = {}
    /\ pc[w] \in {"idle", "next"} <=> job[w] = None
    /\ job[w] \notin todo[w]

HandlerOK(h) == pc[h] # "next"

WarmInv ==
    /\ TypeOK
    /\ \A w \in Warmers : WarmerOK(w)
    /\ \A h \in Handlers : HandlerOK(h)
    /\ WarmedOnce

LEMMA InitWarm == Init => WarmInv
<1> SUFFICES ASSUME Init PROVE WarmInv
  OBVIOUS
<1> USE SoundboardAssumption DEF Init, Loaders
<1>1. TypeOK
  BY InitBoard DEF BoardInv
<1>2. \A w \in Warmers : WarmerOK(w) /\ Holding(w) = {}
  BY DEF WarmerOK, Holding
<1>3. \A h \in Handlers : HandlerOK(h)
  BY DEF HandlerOK
<1>4. WarmedOnce
  BY <1>2 DEF WarmedOnce
<1>5. QED
  BY <1>1, <1>2, <1>3, <1>4 DEF WarmInv

(* A step that leaves every background goroutine's files alone. *)
LEMMA WarmFrame ==
    ASSUME WarmInv, warming' = warming,
           \A w \in Warmers : WarmerOK(w)' /\ Holding(w)' = Holding(w),
           \A h \in Handlers : HandlerOK(h)', TypeOK'
    PROVE  WarmInv'
  BY DEF WarmInv, WarmedOnce

LEMMA WarmStep ==
    ASSUME BoardInv, WarmInv, [Next]_vars
    PROVE  WarmInv'
<1> USE SoundboardAssumption
<1>1. TypeOK /\ TypeOK'
  BY TypeStep DEF WarmInv
<1>2. /\ \A w \in Warmers : w \in Loaders /\ w \notin Handlers /\ WarmerOK(w)
      /\ \A h \in Handlers : h \in Loaders /\ h \notin Warmers /\ HandlerOK(h)
      /\ WarmedOnce
  BY DEF WarmInv, Loaders
<1>3. CASE \/ \E h \in Handlers, f \in Files, z \in Zones : Press(h, f, z)
           \/ \E h \in Handlers : \/ Poll(h) \/ ListCached(h) \/ ListScan(h)
                                  \/ ListStore(h) \/ WarmNew(h) \/ ListDone(h)
                                  \/ PlayFails(h) \/ ListFails(h) \/ PlayVoice(h)
           \/ \E z \in Zones : VoiceEnds(z)
           \/ StopAll \/ ListExpires \/ Disk \/ UNCHANGED vars
  <2> USE <1>1, <1>2 DEF TypeOK, Goto, Forget, Finish, Listed
  <2>1. warming' = warming
    BY <1>3 DEF Press, Poll, ListCached, ListScan, ListStore, WarmNew, ListDone,
       PlayFails, ListFails, PlayVoice, VoiceEnds, StopAll, ListExpires, Disk,
       WriteFile, RemoveFile, vars, board
  <2>2. /\ \A w \in Warmers :
              pc'[w] = pc[w] /\ job'[w] = job[w] /\ todo'[w] = todo[w]
        /\ \A h \in Handlers : HandlerOK(h)'
    <3>1. CASE \E h \in Handlers, f \in Files, z \in Zones : Press(h, f, z)
      BY <3>1 DEF Press, HandlerOK
    <3>2. CASE \E h \in Handlers : Poll(h) \/ ListScan(h) \/ ListStore(h)
      BY <3>2 DEF Poll, ListScan, ListStore, HandlerOK
    <3>3. CASE \E h \in Handlers : ListCached(h)
      BY <3>3 DEF ListCached, HandlerOK
    <3>4. CASE \E h \in Handlers : WarmNew(h) \/ ListDone(h)
      BY <3>4 DEF WarmNew, ListDone, HandlerOK
    <3>5. CASE \E h \in Handlers : PlayFails(h) \/ ListFails(h) \/ PlayVoice(h)
      BY <3>5 DEF PlayFails, ListFails, PlayVoice, HandlerOK
    <3>6. CASE \/ \E z \in Zones : VoiceEnds(z)
               \/ StopAll \/ ListExpires \/ Disk \/ UNCHANGED vars
      BY <3>6 DEF VoiceEnds, StopAll, ListExpires, Disk, WriteFile, RemoveFile,
                  vars, work, HandlerOK
    <3>7. QED
      BY <1>3, <3>1, <3>2, <3>3, <3>4, <3>5, <3>6
  <2>4. \A w \in Warmers : WarmerOK(w)' /\ Holding(w)' = Holding(w)
    BY <2>2 DEF WarmerOK, Holding
  <2>5. QED
    BY <2>1, <2>2, <2>4, WarmFrame
<1>4. CASE \E l \in Loaders : Load(l)
  <2>1. PICK l \in Loaders : Load(l)
    BY <1>4
  <2>2. /\ warming' = warming /\ job' = job /\ todo' = todo
        /\ pc[l] \in {"stat", "lookup", "decode", "store"}
        /\ pc'[l] \in {"lookup", "decode", "store", "loaded", "failed"}
        /\ \A k \in Loaders : k # l => pc'[k] = pc[k]
    BY <2>1, <1>1 DEF Load, LoadStat, LoadLookup, LoadDecode, LoadStore, TypeOK,
       Goto, board
  <2>3. \A w \in Warmers : WarmerOK(w)' /\ Holding(w)' = Holding(w)
    BY <2>2, <1>2 DEF WarmerOK, Holding
  <2>4. \A h \in Handlers : HandlerOK(h)'
    BY <2>2, <1>2 DEF HandlerOK
  <2>5. QED
    BY <2>2, <2>3, <2>4, <1>1, WarmFrame
<1>5. CASE \E h \in Handlers : WarmNewStarts(h)
  <2>1. PICK h \in Handlers : WarmNewStarts(h)
    BY <1>5
  <2> DEFINE new == Unwarmed(todo[h])
  <2>2. PICK v \in Warmers :
          /\ pc[v] = "idle"
          /\ pc' = [pc EXCEPT ![v] = "next", ![h] = "listed"]
          /\ todo' = [todo EXCEPT ![v] = new]
    BY <2>1 DEF WarmNewStarts
  <2>3. job' = job /\ warming' = warming \cup new /\ new \cap warming = {}
    BY <2>1 DEF WarmNewStarts, Unwarmed
  <2>n. None \notin new
    BY <1>1, <1>2 DEF TypeOK, Unwarmed
  <2> HIDE DEF new
  <2>4. v # h /\ job[v] = None /\ Holding(v) = {}
    BY <1>2, <2>2 DEF WarmerOK, Holding
  <2>5. /\ pc'[v] = "next" /\ todo'[v] = new /\ pc'[h] = "listed"
        /\ \A k \in Loaders : k # v /\ k # h => pc'[k] = pc[k]
        /\ \A k \in Loaders : k # v => todo'[k] = todo[k]
    BY <1>1, <1>2, <2>2, <2>4 DEF TypeOK
  <2>6. /\ Holding(v)' = new
        /\ \A w \in Warmers : w # v => Holding(w)' = Holding(w)
    BY <1>2, <2>3, <2>4, <2>5 DEF Holding
  <2>7. \A w \in Warmers : WarmerOK(w)'
    BY <1>2, <2>n, <2>3, <2>4, <2>5 DEF WarmerOK
  <2>8. \A k \in Handlers : HandlerOK(k)'
    BY <1>2, <2>5 DEF HandlerOK
  <2>9. WarmedOnce'
    BY <1>2, <2>3, <2>4, <2>6 DEF WarmedOnce
  <2>10. QED
    BY <1>1, <2>7, <2>8, <2>9 DEF WarmInv
<1>6. CASE \E w \in Warmers : WarmNext(w)
  <2>1. PICK v \in Warmers : WarmNext(v)
    BY <1>6
  <2>2. /\ pc[v] = "next" /\ job[v] = None /\ warming' = warming
        /\ \A k \in Loaders : k # v =>
             pc'[k] = pc[k] /\ job'[k] = job[k] /\ todo'[k] = todo[k]
    BY <2>1, <1>1, <1>2 DEF WarmNext, WarmerOK, TypeOK, Goto, board
  <2>3. WarmerOK(v)' /\ Holding(v)' = Holding(v)
    <3>1. CASE todo[v] = {}
      <4>1. pc'[v] = "idle" /\ job' = job /\ todo' = todo
        BY <2>1, <3>1, <1>1, <1>2 DEF WarmNext, TypeOK, Goto
      <4>2. QED
        BY <4>1, <3>1, <2>2 DEF WarmerOK, Holding
    <3>2. CASE todo[v] # {}
      <4>1. PICK f \in todo[v] : /\ pc'[v] = "stat" /\ job'[v] = f
                                 /\ todo'[v] = todo[v] \ {f}
        BY <2>1, <3>2, <1>1, <1>2 DEF WarmNext, TypeOK, Goto
      <4>2. f # None
        BY <1>1, <1>2 DEF TypeOK
      <4>3. QED
        BY <4>1, <4>2, <2>2 DEF WarmerOK, Holding
    <3>3. QED
      BY <3>1, <3>2
  <2>4. \A w \in Warmers : WarmerOK(w)' /\ Holding(w)' = Holding(w)
    BY <2>2, <2>3, <1>2 DEF WarmerOK, Holding
  <2>5. \A h \in Handlers : HandlerOK(h)'
    BY <2>2, <1>2 DEF HandlerOK
  <2>6. QED
    BY <2>2, <2>4, <2>5, <1>1, WarmFrame
<1>7. CASE \E w \in Warmers : Warmed(w)
  <2>1. PICK v \in Warmers : Warmed(v)
    BY <1>7
  <2>2. /\ pc[v] \in {"loaded", "failed"} /\ warming' = warming \ {job[v]}
        /\ pc'[v] = "next" /\ job'[v] = None /\ todo' = todo
        /\ \A k \in Loaders : k # v => pc'[k] = pc[k] /\ job'[k] = job[k]
    BY <2>1, <1>1, <1>2 DEF Warmed, TypeOK, Goto, Forget
  <2>3. job[v] # None /\ job[v] \notin todo[v]
    BY <2>2, <1>2 DEF WarmerOK
  <2>4. /\ Holding(v) = todo[v] \cup {job[v]} /\ Holding(v)' = todo[v]
        /\ \A w \in Warmers : w # v => Holding(w)' = Holding(w)
    BY <2>2, <2>3, <1>2 DEF Holding
  <2>5. \A w \in Warmers : WarmerOK(w)'
    <3>1. None \notin todo[v]
      BY <1>1, <1>2 DEF TypeOK
    <3>2. QED
      BY <1>2, <2>2, <3>1 DEF WarmerOK
  <2>6. \A h \in Handlers : HandlerOK(h)'
    BY <1>2, <2>2 DEF HandlerOK
  <2>7. \A w \in Warmers : w # v => job[v] \notin Holding(w)
    BY <1>2, <2>4 DEF WarmedOnce
  <2>8. WarmedOnce'
    BY <1>2, <2>2, <2>3, <2>4, <2>7 DEF WarmedOnce
  <2>9. QED
    BY <1>1, <2>5, <2>6, <2>8 DEF WarmInv
<1>8. QED
  BY <1>3, <1>4, <1>5, <1>6, <1>7 DEF Next, Handle, Warm, Loaders

(* No file is decoded by two background goroutines at once, and the marks of
   decodes in flight are exact: none is lost, none is left behind. *)
THEOREM NoDoubleWarming == Spec => []WarmedOnce
<1>1. BoardInv /\ WarmInv /\ [Next]_vars => WarmInv'
  BY WarmStep
<1>2. WarmInv => WarmedOnce
  BY DEF WarmInv
<1>3. QED
  BY <1>1, <1>2, InitWarm, BoardInvariant, PTL DEF Spec

-----------------------------------------------------------------------------
(* The soundboard keeps the promise of PadBoard. *)

waiting == [h \in Handlers |-> Pressed(h)]
pads == <<version, waiting, voices>>

\* A handler at rest has no press to answer.
Rested == \A h \in Handlers : pc[h] = "idle" => job[h] = None

LEMMA RestedStep ==
    ASSUME BoardInv, Rested, [Next]_vars
    PROVE  Rested'
<1> USE SoundboardAssumption DEF BoardInv, TypeOK, Loaders, Rested, Goto, Forget, Finish, Listed
<1>1. CASE \E h \in Handlers, f \in Files, z \in Zones : Press(h, f, z)
  BY <1>1 DEF Press
<1>2. CASE \E h \in Handlers : Poll(h) \/ ListScan(h) \/ ListStore(h)
  BY <1>2 DEF Poll, ListScan, ListStore
<1>3. CASE \E h \in Handlers : ListCached(h)
  BY <1>3 DEF ListCached
<1>4. CASE \E h \in Handlers : WarmNew(h)
  BY <1>4 DEF WarmNew
<1>5. CASE \E h \in Handlers : WarmNewStarts(h)
  BY <1>5 DEF WarmNewStarts
<1>6. CASE \E h \in Handlers : ListDone(h)
  BY <1>6 DEF ListDone
<1>7. CASE \E h \in Handlers : PlayFails(h) \/ ListFails(h) \/ PlayVoice(h)
  BY <1>7 DEF PlayFails, ListFails, PlayVoice
<1>8. CASE \E w \in Warmers : WarmNext(w) \/ Warmed(w)
  BY <1>8 DEF WarmNext, Warmed
<1>9. CASE \E l \in Loaders : Load(l)
  BY <1>9 DEF Load, LoadStat, LoadLookup, LoadDecode, LoadStore
<1>10. CASE \/ \E z \in Zones : VoiceEnds(z)
            \/ StopAll \/ ListExpires \/ Disk \/ UNCHANGED vars
  BY <1>10 DEF VoiceEnds, StopAll, ListExpires, Disk, WriteFile, RemoveFile, vars, work
<1>11. QED
  BY <1>1, <1>2, <1>3, <1>4, <1>5, <1>6, <1>7, <1>8, <1>9, <1>10
     DEF Next, Handle, Warm

(* A step within a request, or of a background goroutine, is not seen. *)
LEMMA Unseen ==
    ASSUME UNCHANGED <<version, voices>>,
           \A h \in Handlers : /\ job'[h] = job[h]
                               /\ zone'[h] = zone[h] /\ asked'[h] = asked[h]
    PROVE  UNCHANGED pads
  BY DEF pads, waiting, Pressed

(* The end of a request takes its press away, and nobody else's. *)
LEMMA FinishAnswers ==
    ASSUME BoardInv, NEW h \in Handlers, Finish(h)
    PROVE  waiting' = [waiting EXCEPT ![h] = {}]
<1> USE DEF BoardInv, TypeOK, Loaders, Finish, Forget
<1>1. job'[h] = None
  OBVIOUS
<1>2. \A k \in Handlers \ {h} :
        job'[k] = job[k] /\ zone'[k] = zone[k] /\ asked'[k] = asked[k]
  OBVIOUS
<1>3. Pressed(h)' = {} /\ \A k \in Handlers \ {h} : Pressed(k)' = Pressed(k)
  BY <1>1, <1>2 DEF Pressed
<1>4. QED
  BY <1>3 DEF waiting

LEMMA FinishRefuses ==
    ASSUME BoardInv, NEW h \in Handlers, Finish(h), UNCHANGED <<version, voices>>
    PROVE  [Pads!Next]_pads
<1>1. waiting' = [waiting EXCEPT ![h] = {}]
  BY FinishAnswers
<1>2. CASE waiting[h] = {}
  <2>1. waiting' = waiting
    BY <1>1, <1>2 DEF waiting
  <2>2. QED
    BY <2>1 DEF pads
<1>3. CASE waiting[h] # {}
  <2>1. Pads!Refuse(h)
    BY <1>1, <1>3 DEF Pads!Refuse, Pads!Answer, waiting
  <2>2. QED
    BY <2>1 DEF Pads!Next
<1>4. QED
  BY <1>2, <1>3

(* What a handler does with the list it has got. *)
LEMMA ListedRefines ==
    ASSUME BoardInv, NEW h \in Handlers, NEW sounds, Listed(h, sounds),
           UNCHANGED <<version, voices>>
    PROVE  [Pads!Next]_pads
<1>1. CASE job[h] \in sounds
  <2>1. UNCHANGED <<job, zone, asked>>
    BY <1>1 DEF Listed
  <2>2. QED
    BY <2>1, Unseen
<1>2. CASE job[h] \notin sounds
  <2>1. Finish(h)
    BY <1>2 DEF Listed
  <2>2. QED
    BY <2>1, FinishRefuses
<1>3. QED
  BY <1>1, <1>2

LEMMA PressRefines ==
    ASSUME BoardInv, Rested, NEW h \in Handlers, NEW f \in Files, NEW z \in Zones,
           Press(h, f, z)
    PROVE  Pads!Press(h, f, z)
<1> USE SoundboardAssumption DEF BoardInv, TypeOK, Loaders
<1>1. /\ job[h] = None /\ job'[h] = f /\ zone'[h] = z /\ asked'[h] = version[f]
      /\ \A k \in Handlers \ {h} :
           job'[k] = job[k] /\ zone'[k] = zone[k] /\ asked'[k] = asked[k]
      /\ UNCHANGED <<version, voices>>
  BY DEF Press, Rested, disk, board
<1>2. waiting[h] = {}
  BY <1>1 DEF waiting, Pressed
<1>3. /\ Pressed(h)' = {[sound |-> f, zone |-> z, since |-> version[f]]}
      /\ \A k \in Handlers \ {h} : Pressed(k)' = Pressed(k)
  BY <1>1 DEF Pressed
<1>4. waiting' = [waiting EXCEPT
                    ![h] = {[sound |-> f, zone |-> z, since |-> version[f]]}]
  BY <1>3 DEF waiting
<1>5. QED
  BY <1>1, <1>2, <1>4 DEF Pads!Press, waiting

LEMMA PlayRefines ==
    ASSUME BoardInv, NEW h \in Handlers, PlayVoice(h)
    PROVE  Pads!Play(h)
<1> USE SoundboardAssumption
<1> DEFINE p == [sound |-> job[h], zone |-> zone[h], since |-> asked[h]]
<1>1. h \in Loaders /\ pc[h] = "loaded" /\ Finish(h) /\ UNCHANGED version
  BY DEF PlayVoice, Loaders, disk
<1>2. job[h] \in Files /\ got[h] \in Decodable /\ got[h] <= version[job[h]]
  BY <1>1 DEF BoardInv, LoaderOK
<1>3. asked[h] <= got[h]
  BY <1>1 DEF BoardInv, AskedOK
<1>4. got[h] \in asked[h]..version[job[h]]
  <2>1. got[h] \in Int /\ asked[h] \in Int /\ version[job[h]] \in Int
    BY <1>1, <1>2 DEF BoardInv, TypeOK, Versions
  <2>2. QED
    BY <1>2, <1>3, <2>1
<1>5. p \in waiting[h]
  BY <1>2 DEF waiting, Pressed, BoardInv
<1>6. waiting' = [waiting EXCEPT ![h] = {}]
  BY <1>1, FinishAnswers
<1>7. voices' = [voices EXCEPT ![p.zone] = [sound |-> p.sound, content |-> got[h]]]
  BY DEF PlayVoice
<1>8. got[h] \in p.since..version[p.sound]
  BY <1>4
<1> HIDE DEF p
<1>9. QED
  BY <1>1, <1>2, <1>5, <1>6, <1>7, <1>8 DEF Pads!Play, Pads!Answer, waiting

LEMMA PadStep ==
    ASSUME BoardInv, Rested, [Next]_vars
    PROVE  [Pads!Next]_pads
<1> USE SoundboardAssumption
<1>t. /\ \A w \in Warmers : w \in Loaders /\ w \notin Handlers
      /\ job = [l \in Loaders |-> job[l]]
      /\ voices = [z \in Zones |-> voices[z]]
  BY DEF Loaders, BoardInv, TypeOK
<1>1. CASE \E h \in Handlers, f \in Files, z \in Zones : Press(h, f, z)
  BY <1>1, PressRefines DEF Pads!Next
<1>2. CASE \E h \in Handlers : Poll(h)
  <2>1. PICK h \in Handlers : Poll(h)
    BY <1>2
  <2>2. \A k \in Handlers : Pressed(k)' = Pressed(k)
    BY <2>1, <1>t DEF Poll, Rested, Pressed, BoardInv, Loaders
  <2>3. QED
    BY <2>1, <2>2 DEF Poll, pads, waiting, disk, board
<1>3. CASE \E h \in Handlers : ListCached(h)
  BY <1>3, ListedRefines DEF ListCached, disk, board
<1>4. CASE \E h \in Handlers : WarmNew(h)
  BY <1>4, ListedRefines DEF WarmNew, disk, board
<1>5. CASE \E h \in Handlers : ListDone(h)
  BY <1>5, ListedRefines DEF ListDone, disk, board
<1>6. CASE \E h \in Handlers : ListScan(h) \/ ListStore(h) \/ WarmNewStarts(h)
  BY <1>6, Unseen DEF ListScan, ListStore, WarmNewStarts, disk, board
<1>7. CASE \E h \in Handlers : PlayFails(h) \/ ListFails(h)
  BY <1>7, FinishRefuses DEF PlayFails, ListFails, disk, board
<1>8. CASE \E h \in Handlers : PlayVoice(h)
  BY <1>8, PlayRefines DEF Pads!Next
<1>9. CASE \E w \in Warmers : WarmNext(w) \/ Warmed(w)
  <2>1. PICK w \in Warmers : WarmNext(w) \/ Warmed(w)
    BY <1>9
  <2>2. \A h \in Handlers : job'[h] = job[h]
    BY <2>1, <1>t DEF WarmNext, Warmed, Forget, Loaders
  <2>3. UNCHANGED <<version, voices, zone, asked>>
    BY <2>1 DEF WarmNext, Warmed, disk, board
  <2>4. QED
    BY <2>2, <2>3, Unseen
<1>10. CASE \E l \in Loaders : Load(l)
  BY <1>10, Unseen DEF Load, LoadStat, LoadLookup, LoadDecode, LoadStore, disk, board
<1>11. CASE \E z \in Zones : VoiceEnds(z)
  <2>1. PICK z \in Zones : VoiceEnds(z)
    BY <1>11
  <2>2. voices' = [y \in Zones |-> IF y \in {z} THEN None ELSE voices[y]]
    BY <2>1, <1>t DEF VoiceEnds
  <2>3. version' = version /\ waiting' = waiting
    BY <2>1 DEF VoiceEnds, disk, work, waiting, Pressed
  <2>4. Pads!Silence({z})
    BY <2>2, <2>3 DEF Pads!Silence, waiting
  <2>5. QED
    BY <2>4 DEF Pads!Next
<1>12. CASE StopAll
  <2>1. voices' = [y \in Zones |-> IF y \in Zones THEN None ELSE voices[y]]
    BY <1>12 DEF StopAll
  <2>2. version' = version /\ waiting' = waiting
    BY <1>12 DEF StopAll, disk, work, waiting, Pressed
  <2>3. Pads!Silence(Zones)
    BY <2>1, <2>2 DEF Pads!Silence, waiting
  <2>4. QED
    BY <2>3 DEF Pads!Next
<1>13. CASE \E f \in Files : WriteFile(f)
  <2>1. PICK f \in Files : WriteFile(f)
    BY <1>13
  <2>2. voices' = voices /\ waiting' = waiting
    BY <2>1 DEF WriteFile, board, work, waiting, Pressed
  <2>3. Pads!Change(f)
    BY <2>1, <2>2 DEF WriteFile, Pads!Change, waiting
  <2>4. QED
    BY <2>3 DEF Pads!Next
<1>14. CASE ListExpires \/ (\E f \in Files : RemoveFile(f)) \/ UNCHANGED vars
  BY <1>14, Unseen DEF ListExpires, RemoveFile, vars, disk, board, work
<1>15. QED
  BY <1>1, <1>2, <1>3, <1>4, <1>5, <1>6, <1>7, <1>8, <1>9, <1>10, <1>11, <1>12, <1>13,
     <1>14 DEF Next, Handle, Warm, Disk, Loaders

(* For any number of files, zones and handlers, and whatever is cached, warmed
   and replaced on disk meanwhile: a press of a pad is refused, or its zone
   sounds a version the file has had since; nothing else starts a sound. *)
THEOREM SoundboardImplementsPadBoard == Spec => PadsKeepTheirPromise
<1>1. Init => Pads!Init /\ Rested
  BY SoundboardAssumption DEF Init, Pads!Init, Rested, Pressed, Loaders
<1>2. BoardInv /\ Rested /\ [Next]_vars => Rested'
  BY RestedStep
<1>3. BoardInv /\ Rested /\ [Next]_vars =>
        [Pads!Next]_<<version, [h \in Handlers |-> Pressed(h)], voices>>
  BY PadStep DEF pads, waiting
<1>4. QED
  BY <1>1, <1>2, <1>3, BoardInvariant, PTL DEF Spec, PadsKeepTheirPromise, Pads!Spec
=============================================================================
