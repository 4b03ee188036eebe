--------------------------- MODULE DistributorCache ---------------------------
(***************************************************************************)
(* The asset cache of the distributor node (distributor-node/src/services):*)
(* StateCacheService, ContentService, the download queue of                *)
(* NetworkingService and the asset handler of the public API.              *)
(*                                                                         *)
(* The node is one event loop.  An action is what runs between two awaits, *)
(* callbacks or timers; while the eviction loop runs (evicting # None)     *)
(* nothing else does.  An object's data is a sequence of chunks, and the   *)
(* state of a file is its size and the offsets at which it holds the right *)
(* chunk.  Which of the groups' oldest items costs most depends on times   *)
(* that are not modelled: any of them may be the eviction candidate.       *)
(***************************************************************************)
EXTENDS Integers, FiniteSets, FiniteSetsExt, Sequences, Functions

CONSTANTS
    Objects,
    Size,                 \* size of an object, in KB
    Chunk,                \* KB that a stream delivers at a time
    StorageLimit,         \* limits.storage, in KB
    MaxCachedItemSize,    \* limits.maxCachedItemSize, in KB
    MaxConcurrent,        \* limits.maxConcurrentStorageNodeDownloads
    CACHE_GROUPS_COUNT,
    Requests,             \* the HTTP requests for assets that are ever made
    Streams,              \* TRUE: a source may send the right data; FALSE: wrong data
    Events,               \* what else happens: "obligations", "cleanup", "save", "restart"
    MaxPopularity,        \* bound on the popularity of an object
    None

(* What is at the end of a whole number of chunks. *)
Aligned(n) == \E i \in 0 .. n : n = Chunk * i

ASSUME DistributorAssumption ==
    /\ Chunk \in Nat \ {0}
    /\ IsFiniteSet(Objects)
    /\ Size \in [Objects -> Nat \ {0}]
    /\ \A o \in Objects : Aligned(Size[o])
    /\ {StorageLimit, MaxCachedItemSize} \subseteq Nat
    /\ {MaxConcurrent, MaxPopularity, CACHE_GROUPS_COUNT} \subseteq Nat \ {0}
    /\ Streams \subseteq BOOLEAN
    /\ Events \subseteq {"obligations", "cleanup", "save", "restart"}
    /\ None \notin Objects \cup Requests \cup Nat
    /\ None \notin [size : Nat] \cup [size : Nat, valid : SUBSET Nat]

VARIABLES
    files,             \* the assets directory: [size, valid] of a file, or None
    contentSizeSum,    \* ContentService.contentSizeSum
    lruCacheGroups,    \* the items of a group, the least recently used first
    groupNumber,       \* groupNumberByObjectId, or None
    mimeTypes,         \* objects with an entry in mimeTypeByObjectId
    pending,           \* pendingDownloadsByObjectId: the request that created it, or None
    downloadQueue,     \* the requests whose job waits in the download queue
    running,           \* the requests whose job runs in the download queue
    handler,           \* the state of a request's handler
    evicting,          \* the request whose eviction loop runs, or None
    supported,         \* the node's obligations, as the query node knows them
    cleanup,           \* the answer cacheCleanup goes on with, or None
    cacheFile,         \* contents of cache.json; None: not readable
    saving,            \* what save is writing, or None
    refetched,         \* history: the objects that were fetched, since the last start,
                       \* while the cache had an item for them
    unverified         \* history: the objects whose file the last start took over
                       \* although it has other data

cacheVars == <<lruCacheGroups, groupNumber, mimeTypes>>
diskVars == <<files, contentSizeSum>>
queueVars == <<downloadQueue, running>>
chainVars == <<supported, cleanup>>
storedVars == <<cacheFile, saving>>
historyVars == <<refetched, unverified>>
vars == <<files, contentSizeSum, lruCacheGroups, groupNumber, mimeTypes,
          pending, downloadQueue, running, handler, evicting, supported,
          cleanup, cacheFile, saving, refetched, unverified>>

Groups == 0 .. CACHE_GROUPS_COUNT - 1

Offsets(o) == {n \in 0 .. Size[o] - 1 : Aligned(n)}

(* A handler's place pc is "new"; "info", it awaits dataObjectInfo;        *)
(* "join", it awaits sourceData of the download that request joined        *)
(* started; "queued", "source" and "evict", its job waits, looks for a     *)
(* source, or waits for space; "stream" and "mime", its file is written,   *)
(* or its type is detected; or "done".  good tells whether the source      *)
(* sends the right data, written how much of it is written, and linked     *)
(* whether the file written to is still the one in the directory.          *)
Handler ==
    [pc : {"new", "info", "join", "queued", "source", "evict", "stream", "mime", "done"},
     obj : Objects \cup {None}, joined : Requests \cup {None},
     good : BOOLEAN, written : Nat, linked : BOOLEAN]

NewHandler == [pc |-> "new", obj |-> None, joined |-> None,
               good |-> FALSE, written |-> 0, linked |-> FALSE]
Ended == [NewHandler EXCEPT !.pc = "done"]

At(r, place) == handler[r].pc = place

(* The state of the node is well typed. *)
TypeOK ==
    /\ \A o \in Objects :
           files[o] = None \/ /\ files[o].size \in 0 .. Size[o] + Chunk
                              /\ files[o].valid \subseteq Offsets(o)
    /\ contentSizeSum \in Int
    /\ \A g \in Groups : \A i \in 1 .. Len(lruCacheGroups[g]) :
           /\ lruCacheGroups[g][i].id \in Objects
           /\ lruCacheGroups[g][i].popularity \in 1 .. MaxPopularity
    /\ groupNumber \in [Objects -> Groups \cup {None}]
    /\ mimeTypes \subseteq Objects
    /\ pending \in [Objects -> Requests \cup {None}]
    /\ Range(downloadQueue) \subseteq Requests
    /\ running \subseteq Requests
    /\ handler \in [Requests -> Handler]
    /\ evicting \in Requests \cup {None}
    /\ supported \subseteq Objects
    /\ cleanup \in (SUBSET Objects) \cup {None}
    /\ refetched \subseteq Objects
    /\ unverified \subseteq Objects

-----------------------------------------------------------------------------
(* StateCacheService *)

(* Popularity p and size s share a group with all of 2^(g-1) < s/p <= 2^g. *)
calcCacheGroup(s, p) ==
    CHOOSE g \in Groups :
        /\ p * 2^g >= s \/ g = CACHE_GROUPS_COUNT - 1
        /\ \A h \in 0 .. g - 1 : p * 2^h < s

Has(group, o) == \E i \in 1 .. Len(group) : group[i].id = o
ItemOf(group, o) == group[CHOOSE i \in 1 .. Len(group) : group[i].id = o]

(* The items of a group for the objects in ids, in their order. *)
OnlyIds(group, ids) ==
    LET kept[n \in 0 .. Len(group)] ==
            IF n = 0 THEN << >>
            ELSE IF group[n].id \in ids THEN Append(kept[n - 1], group[n]) ELSE kept[n - 1]
    IN  kept[Len(group)]
Without(group, o) == OnlyIds(group, Objects \ {o})

(* Map.set: an existing key keeps its place, a new one is the last. *)
WithItem(group, item) ==
    IF Has(group, item.id)
    THEN [i \in 1 .. Len(group) |-> IF group[i].id = item.id THEN item ELSE group[i]]
    ELSE Append(group, item)

Cached(o) == \E g \in Groups : Has(lruCacheGroups[g], o)

peekContent(o) == groupNumber[o] # None /\ Has(lruCacheGroups[groupNumber[o]], o)

(* Group 0 is falsy in the check for an existing entry. *)
newContent(o) ==
    LET g == calcCacheGroup(Size[o], 1) IN
    IF groupNumber[o] \notin {None, 0}
    THEN UNCHANGED <<lruCacheGroups, groupNumber>>
    ELSE /\ groupNumber' = [groupNumber EXCEPT ![o] = g]
         /\ lruCacheGroups' = [lruCacheGroups EXCEPT
                                  ![g] = WithItem(@, [id |-> o, popularity |-> 1])]

(* An object that is not where groupNumberByObjectId says, or nowhere, is  *)
(* only noted as such.                                                     *)
useContent(o) ==
    LET g == groupNumber[o]
        item == ItemOf(lruCacheGroups[g], o)
        target == calcCacheGroup(Size[o], item.popularity + 1)
        moved == [item EXCEPT !.popularity = @ + 1]
    IN  IF peekContent(o)
        THEN /\ item.popularity < MaxPopularity
             /\ groupNumber' = [groupNumber EXCEPT ![o] = target]
             /\ lruCacheGroups' =
                    [[lruCacheGroups EXCEPT ![g] = Without(@, o)]
                        EXCEPT ![target] = WithItem(@, moved)]
        ELSE /\ groupNumber' = [groupNumber EXCEPT ![o] = None]
             /\ UNCHANGED lruCacheGroups

(* The items getCacheEvictCandidateObjectId chooses from. *)
EvictCandidates ==
    {Head(lruCacheGroups[g]).id : g \in {h \in Groups : lruCacheGroups[h] # << >>}}

(* Faulty variant: sourceData has no handler for Failed. *)
NobodyFailed(D) == {}

(* dropPendingDownload with status Failed for the objects in D: the        *)
(* handlers of sourceData reject who waits for one of them.                *)
Failed(D) == {r \in Requests : At(r, "join") /\ \E o \in D : pending[o] = handler[r].joined}

(* The groups after dropById of the objects in D; group 0 is falsy here,   *)
(* and its items stay.                                                     *)
InLaterGroup(number, o) == number[o] \notin {None, 0}
GroupsAfterDrop(groups, number, D) ==
    [g \in Groups |->
        OnlyIds(groups[g], {o \in Objects : ~(o \in D /\ InLaterGroup(number, o) /\ number[o] = g)})]
NumbersAfterDrop(number, D) ==
    [o \in Objects |-> IF o \in D /\ InLaterGroup(number, o) THEN None ELSE number[o]]

dropById(D) ==
    /\ mimeTypes' = mimeTypes \ D
    /\ pending' = [o \in Objects |-> IF o \in D THEN None ELSE pending[o]]
    /\ lruCacheGroups' = GroupsAfterDrop(lruCacheGroups, groupNumber, D)
    /\ groupNumber' = NumbersAfterDrop(groupNumber, D)
    /\ unverified' = unverified \ D

-----------------------------------------------------------------------------
(* ContentService: files and space *)

SizeOf(file) == IF file = None THEN 0 ELSE file.size
TotalSize(F) ==
    LET size == [o \in DOMAIN F |-> SizeOf(F[o])]
    IN  MapThenSumSet(LAMBDA o : size[o], DOMAIN F)

freeSpace == StorageLimit - contentSizeSum

(* The handlers in rs end.  The files of the objects in D are deleted, and *)
(* what still writes to one of them writes to a file without a name.       *)
EndAndUnlink(rs, D) ==
    handler' = [r \in Requests |->
                   IF r \in rs THEN Ended
                   ELSE [handler[r] EXCEPT !.linked = @ /\ handler[r].obj \notin D]]
End(rs) == EndAndUnlink(rs, {})

FilesWithout(D) == [o \in Objects |-> IF o \in D THEN None ELSE files[o]]

(* drop, of all objects in D one after the other. *)
drop(D) ==
    /\ files' = FilesWithout(D)
    /\ EndAndUnlink(Failed(D), D)
    /\ contentSizeSum' = contentSizeSum - TotalSize([o \in D |-> files[o]])
    /\ dropById(D)

-----------------------------------------------------------------------------
Init ==
    /\ files = [o \in Objects |-> None]
    /\ contentSizeSum = 0
    /\ lruCacheGroups = [g \in Groups |-> << >>]
    /\ groupNumber = [o \in Objects |-> None]
    /\ mimeTypes = {}
    /\ pending = [o \in Objects |-> None]
    /\ downloadQueue = << >>
    /\ running = {}
    /\ handler = [r \in Requests |-> NewHandler]
    /\ evicting = None
    /\ supported \in (IF "obligations" \in Events THEN SUBSET Objects ELSE {Objects})
    /\ cleanup = None
    /\ cacheFile = None
    /\ saving = None
    /\ refetched = {}
    /\ unverified = {}

EventLoopFree == evicting = None

(* What objectStatus finds before it asks the query node. *)
objectStatus(o) ==
    IF pending[o] # None THEN "PendingDownload"
    ELSE IF files[o] # None THEN "Available" ELSE "Missing"

(* servePendingDownloadAsset: the response waits for the source of the     *)
(* download and is then read from the file, or from the source itself.     *)
servePendingDownloadAsset(r, o) ==
    LET p == pending[o] IN
    IF handler[p].pc \in {"queued", "source"}
    THEN handler' = [handler EXCEPT ![r].pc = "join", ![r].obj = o, ![r].joined = p]
    ELSE End({r})

serveAssetFromFilesystem(r, o) == useContent(o) /\ End({r})

(* A request for o: depending on the object's status the handler serves it *)
(* or, within objectStatus, asks the query node about it.                  *)
asset(r, o) ==
    /\ EventLoopFree
    /\ At(r, "new")
    /\ \/ /\ objectStatus(o) = "Available"
          /\ serveAssetFromFilesystem(r, o)
       \/ /\ objectStatus(o) = "PendingDownload"
          /\ servePendingDownloadAsset(r, o)
          /\ UNCHANGED <<lruCacheGroups, groupNumber>>
       \/ /\ objectStatus(o) = "Missing"
          /\ handler' = [handler EXCEPT ![r].pc = "info", ![r].obj = o]
          /\ UNCHANGED <<lruCacheGroups, groupNumber>>
    /\ UNCHANGED <<diskVars, queueVars, chainVars, storedVars, historyVars, mimeTypes,
                   pending, evicting>>

(* The query node fails, or answers that the object does not exist, is not *)
(* this node's, or is not uploaded yet.                                    *)
NotServed(r) ==
    /\ EventLoopFree
    /\ At(r, "info")
    /\ End({r})
    /\ UNCHANGED <<cacheVars, diskVars, queueVars, chainVars, storedVars, historyVars,
                   pending, evicting>>

downloadDataObject(r, o) ==
    /\ pending' = [pending EXCEPT ![o] = r]
    /\ downloadQueue' = Append(downloadQueue, r)
    /\ handler' = [handler EXCEPT ![r].pc = "queued"]

(* objectStatus is Missing, as of the moment the request came: an object   *)
(* that is too large is proxied, others are downloaded unless they are now *)
(* pending.                                                                *)
serveMissingAsset(r) ==
    LET o == handler[r].obj IN
    /\ EventLoopFree
    /\ At(r, "info")
    /\ o \in supported
    /\ \/ /\ Size[o] > MaxCachedItemSize
          /\ End({r})
          /\ UNCHANGED <<pending, downloadQueue>>
       \/ /\ Size[o] <= MaxCachedItemSize
          /\ pending[o] # None
          /\ servePendingDownloadAsset(r, o)
          /\ UNCHANGED <<pending, downloadQueue>>
       \/ /\ Size[o] <= MaxCachedItemSize
          /\ pending[o] = None
          /\ downloadDataObject(r, o)
    /\ refetched' = refetched \cup {x \in {o} : Cached(x) /\ pending[x] = None}
    /\ UNCHANGED <<cacheVars, diskVars, running, chainVars, storedVars, unverified, evicting>>

(* The download queue starts its first job. *)
downloadJob ==
    /\ EventLoopFree
    /\ downloadQueue # << >>
    /\ Cardinality(running) < MaxConcurrent
    /\ running' = running \cup {Head(downloadQueue)}
    /\ downloadQueue' = Tail(downloadQueue)
    /\ handler' = [handler EXCEPT ![Head(downloadQueue)].pc = "source"]
    /\ UNCHANGED <<cacheVars, diskVars, chainVars, storedVars, historyVars, pending, evicting>>

(* Faulty variant: the failed download stays pending. *)
SourceNotFoundKeepsPending(r) ==
    /\ EventLoopFree
    /\ At(r, "source")
    /\ running' = running \ {r}
    /\ End({r})
    /\ UNCHANGED <<cacheVars, diskVars, downloadQueue, chainVars, storedVars, historyVars,
                   pending, evicting>>

(* fail: no storage node has the object. The entry is dropped by the       *)
(* object's id.                                                            *)
SourceNotFound(r) ==
    LET o == handler[r].obj IN
    /\ EventLoopFree
    /\ At(r, "source")
    /\ pending' = [pending EXCEPT ![o] = None]
    /\ running' = running \ {r}
    /\ End(Failed({o}) \cup {r})
    /\ UNCHANGED <<cacheVars, diskVars, downloadQueue, chainVars, storedVars, historyVars, evicting>>

(* sourceFound: status Downloading releases who waits for the source, and  *)
(* handleNewContent begins by making room.                                 *)
SourceFound(r) ==
    /\ EventLoopFree
    /\ At(r, "source")
    /\ \E good \in Streams :
           handler' = [q \in Requests |->
                          IF q = r THEN [handler[r] EXCEPT !.pc = "evict", !.good = good]
                          ELSE IF At(q, "join") /\ handler[q].joined = r THEN Ended
                          ELSE handler[q]]
    /\ evicting' = r
    /\ UNCHANGED <<cacheVars, diskVars, queueVars, chainVars, storedVars, historyVars, pending>>

(* evictCacheUntilFreeSpaceReached, one round of its loop. *)
EvictOne(r) ==
    /\ evicting = r
    /\ freeSpace < Size[handler[r].obj]
    /\ \E o \in EvictCandidates : drop({o})
    /\ UNCHANGED <<queueVars, chainVars, storedVars, refetched, evicting>>

(* Nothing to drop: the loop sleeps for a second. *)
EvictSleep(r) ==
    /\ evicting = r
    /\ freeSpace < Size[handler[r].obj]
    /\ EvictCandidates = {}
    /\ evicting' = None
    /\ UNCHANGED <<cacheVars, diskVars, queueVars, chainVars, storedVars, historyVars,
                   pending, handler>>

(* The timer fires; a round that finds nothing to do again is left out. *)
EvictWake(r) ==
    /\ EventLoopFree
    /\ At(r, "evict")
    /\ EvictCandidates # {} \/ freeSpace >= Size[handler[r].obj]
    /\ evicting' = r
    /\ UNCHANGED <<cacheVars, diskVars, queueVars, chainVars, storedVars, historyVars,
                   pending, handler>>

(* The source's stream breaks off while the loop sleeps, which ends the    *)
(* job; handleNewContent finds out once it has the space.                  *)
StreamAborted(r) ==
    /\ EventLoopFree
    /\ At(r, "evict")
    /\ r \in running
    /\ running' = running \ {r}
    /\ UNCHANGED <<cacheVars, diskVars, downloadQueue, chainVars, storedVars, historyVars,
                   pending, handler, evicting>>

(* Faulty variant: space is not reserved for what is about to be written. *)
HandleNewContentUnreserved(r) ==
    LET o == handler[r].obj IN
    /\ evicting = r
    /\ freeSpace >= Size[o]
    /\ files' = [files EXCEPT ![o] = [size |-> 0, valid |-> {}]]
    /\ handler' = [handler EXCEPT ![r].pc = "stream", ![r].linked = TRUE]
    /\ evicting' = None
    /\ UNCHANGED <<cacheVars, contentSizeSum, queueVars, chainVars, storedVars, historyVars, pending>>

(* There is room: handleNewContent reserves it and opens the file, which   *)
(* empties a file of that name.                                            *)
handleNewContent(r) ==
    LET o == handler[r].obj IN
    /\ evicting = r
    /\ freeSpace >= Size[o]
    /\ contentSizeSum' = contentSizeSum + Size[o]
    /\ files' = [files EXCEPT ![o] = [size |-> 0, valid |-> {}]]
    /\ handler' = [handler EXCEPT ![r].pc = "stream", ![r].linked = TRUE]
    /\ evicting' = None
    /\ UNCHANGED <<cacheVars, queueVars, chainVars, storedVars, historyVars, pending>>

(* Faulty variant: the overrun of the expected size is not noticed. *)
OnDataUnchecked(r) ==
    LET o == handler[r].obj
        end == handler[r].written + Chunk
    IN  /\ EventLoopFree
        /\ At(r, "stream")
        /\ r \in running
        /\ end <= Size[o] + 2 * Chunk
        /\ handler' = [handler EXCEPT ![r].written = end]
        /\ files' = IF ~handler[r].linked THEN files
                    ELSE [files EXCEPT ![o].size = end,
                                       ![o].valid = (0 .. end - 1) \cap Offsets(o)]
        /\ UNCHANGED <<cacheVars, contentSizeSum, queueVars, chainVars, storedVars, historyVars,
                       pending, evicting>>

(* A chunk arrives and is written; a source may send one too many. *)
onData(r) ==
    LET o == handler[r].obj
        good == handler[r].good
        start == handler[r].written
        end == start + Chunk
    IN  /\ EventLoopFree
        /\ At(r, "stream")
        /\ r \in running
        /\ start < Size[o] \/ (start = Size[o] /\ ~good)
        /\ handler' = [handler EXCEPT ![r].written = end]
        /\ files' = IF ~handler[r].linked THEN files
                    ELSE [files EXCEPT
                             ![o].size = IF @ > end THEN @ ELSE end,
                             ![o].valid = IF good THEN @ \cup {start} ELSE @ \ {start}]
        /\ UNCHANGED <<cacheVars, contentSizeSum, queueVars, chainVars, storedVars, historyVars,
                       pending, evicting>>

(* Faulty variant: what was written is given back, not what was reserved. *)
RejectUnreservesWritten(r) ==
    LET o == handler[r].obj IN
    /\ EventLoopFree
    /\ At(r, "stream")
    /\ files' = FilesWithout({o})
    /\ EndAndUnlink(Failed({o}) \cup {r}, {o})
    /\ dropById({o})
    /\ contentSizeSum' = contentSizeSum - SizeOf(files[o])
    /\ running' = running \ {r}
    /\ UNCHANGED <<downloadQueue, chainVars, storedVars, refetched, evicting>>

(* The stream ends with an error, the wrong length or the wrong hash. *)
rejectContent(r) ==
    LET o == handler[r].obj IN
    /\ EventLoopFree
    /\ At(r, "stream")
    /\ files' = FilesWithout({o})
    /\ EndAndUnlink(Failed({o}) \cup {r}, {o})
    /\ dropById({o})
    /\ contentSizeSum' = contentSizeSum - Size[o]
    /\ running' = running \ {r}
    /\ UNCHANGED <<downloadQueue, chainVars, storedVars, refetched, evicting>>

(* Faulty variant: the hash is not compared. *)
ContentUnverified(r) ==
    /\ EventLoopFree
    /\ At(r, "stream")
    /\ r \in running
    /\ handler[r].written = Size[handler[r].obj]
    /\ running' = running \ {r}
    /\ handler' = [handler EXCEPT ![r].pc = "mime"]
    /\ UNCHANGED <<cacheVars, diskVars, downloadQueue, chainVars, storedVars, historyVars,
                   pending, evicting>>

(* The stream ends, its length and hash are right: detectMimeType. *)
ContentVerified(r) ==
    /\ EventLoopFree
    /\ At(r, "stream")
    /\ r \in running
    /\ handler[r].written = Size[handler[r].obj]
    /\ handler[r].good
    /\ running' = running \ {r}
    /\ handler' = [handler EXCEPT ![r].pc = "mime"]
    /\ UNCHANGED <<cacheVars, diskVars, downloadQueue, chainVars, storedVars, historyVars,
                   pending, evicting>>

(* New content accepted: whatever download of the object is pending is     *)
(* completed, which releases nobody, and the object enters the cache.      *)
ContentAccepted(r) ==
    LET o == handler[r].obj IN
    /\ EventLoopFree
    /\ At(r, "mime")
    /\ pending' = [pending EXCEPT ![o] = None]
    /\ newContent(o)
    /\ mimeTypes' = mimeTypes \cup {o}
    /\ End({r})
    /\ UNCHANGED <<diskVars, queueVars, chainVars, storedVars, historyVars, evicting>>

-----------------------------------------------------------------------------
(* The chain changes what the node has to distribute. *)
ObligationsChange ==
    /\ EventLoopFree
    /\ "obligations" \in Events
    /\ \E D \in SUBSET Objects : D # supported /\ supported' = D
    /\ UNCHANGED <<cacheVars, diskVars, queueVars, storedVars, historyVars, pending,
                   handler, evicting, cleanup>>

(* cacheCleanup: the query node answers, ... *)
fetchSupportedDataObjects ==
    /\ EventLoopFree
    /\ "cleanup" \in Events
    /\ cleanup = None
    /\ cleanup' = supported
    /\ UNCHANGED <<cacheVars, diskVars, queueVars, storedVars, historyVars, pending,
                   handler, evicting, supported>>

(* ... and what is cached without being in the answer is dropped. *)
cacheCleanup ==
    LET D == {o \in Objects : Cached(o)} \ cleanup IN
    /\ EventLoopFree
    /\ cleanup # None
    /\ drop(D)
    /\ cleanup' = None
    /\ UNCHANGED <<queueVars, storedVars, refetched, evicting, supported>>

serializeData == [lruCacheGroups |-> lruCacheGroups, mimeTypes |-> mimeTypes]

(* save empties cache.json and starts to write it. *)
save ==
    /\ EventLoopFree
    /\ "save" \in Events
    /\ saving = None
    /\ saving' = serializeData
    /\ cacheFile' = None
    /\ UNCHANGED <<cacheVars, diskVars, queueVars, chainVars, historyVars,
                   pending, handler, evicting>>

(* The write ends, with or without an error. *)
SaveDone ==
    /\ EventLoopFree
    /\ saving # None
    /\ saving' = None
    /\ cacheFile' \in {saving, None}
    /\ UNCHANGED <<cacheVars, diskVars, queueVars, chainVars, historyVars,
                   pending, handler, evicting>>

(* load: the groups of cache.json, none when it cannot be read, with every *)
(* object in the first of its groups only.                                 *)
load(stored) ==
    LET raw == IF stored = None THEN [g \in Groups |-> << >>] ELSE stored.lruCacheGroups
    IN  [g \in Groups |->
            OnlyIds(raw[g], {o \in Objects : \A h \in 0 .. g - 1 : ~Has(raw[h], o)})]

loadGroupNumber(groups) ==
    [o \in Objects |->
        IF \E g \in Groups : Has(groups[g], o)
        THEN CHOOSE g \in Groups : Has(groups[g], o)
        ELSE None]

(* Faulty variant: the size is not compared. *)
KeptWithAnySize(number) ==
    {o \in supported : files[o] # None /\ number[o] # None}

(* The files startupInit keeps: supported, cached and of the right size. *)
KeptAtStartup(number) ==
    {o \in supported : /\ files[o] # None
                       /\ number[o] # None
                       /\ files[o].size = Size[o]}

(* The other files, and the items whose file does not exist. *)
DroppedAtStartup(number) ==
    {o \in Objects : files[o] # None \/ number[o] # None} \ KeptAtStartup(number)

SpaceAtStartup(keep) == TotalSize([o \in keep |-> files[o]])

(* The process ends and starts again: load, then startupInit compares the  *)
(* directory with the obligations and with the cache state.                *)
startupInit(stored) ==
    LET groups == load(stored)
        number == loadGroupNumber(groups)
        keep == KeptAtStartup(number)
        dropped == DroppedAtStartup(number)
        mime == IF stored = None THEN {} ELSE stored.mimeTypes
    IN  /\ files' = [o \in Objects |-> IF o \in keep THEN files[o] ELSE None]
        /\ contentSizeSum' = SpaceAtStartup(keep)
        /\ lruCacheGroups' = GroupsAfterDrop(groups, number, dropped)
        /\ groupNumber' = NumbersAfterDrop(number, dropped)
        /\ mimeTypes' = (mime \ dropped) \cup keep
        /\ unverified' = {o \in keep : files[o].valid # Offsets(o)}

(* A crash, or an exit after saveSync. *)
Restart ==
    /\ "restart" \in Events
    /\ \E stored \in {cacheFile, serializeData} :
           startupInit(stored) /\ cacheFile' = stored
    /\ End({r \in Requests : ~At(r, "new")})
    /\ pending' = [o \in Objects |-> None]
    /\ downloadQueue' = << >>
    /\ running' = {}
    /\ evicting' = None
    /\ cleanup' = None
    /\ saving' = None
    /\ refetched' = {}
    /\ UNCHANGED supported

-----------------------------------------------------------------------------
(* What the node, the query node, the storage nodes and timers go on doing *)
(* for a request.                                                          *)
Handle(r) ==
    \/ NotServed(r) \/ serveMissingAsset(r)
    \/ SourceNotFound(r) \/ SourceFound(r)
    \/ EvictOne(r) \/ EvictSleep(r) \/ EvictWake(r)
    \/ StreamAborted(r) \/ handleNewContent(r)
    \/ onData(r) \/ rejectContent(r) \/ ContentVerified(r) \/ ContentAccepted(r)

Next ==
    \/ \E r \in Requests, o \in Objects : asset(r, o)
    \/ \E r \in Requests : Handle(r)
    \/ downloadJob
    \/ ObligationsChange \/ fetchSupportedDataObjects \/ cacheCleanup
    \/ save \/ SaveDone \/ Restart

Spec == Init /\ [][Next]_vars

FairSpec == Spec /\ \A r \in Requests : WF_vars(Handle(r)) /\ WF_vars(downloadJob)

-----------------------------------------------------------------------------
(* Downloads that hold a reservation of space. *)
Reserving == {r \in Requests : handler[r].pc \in {"stream", "mime"}}

(* contentSizeSum, which decides on evictions and is reported as the used  *)
(* space, is what the files take, an object that is being written counting *)
(* with its full size.                                                     *)
SpaceAccounted ==
    contentSizeSum =
        TotalSize([o \in Objects |->
            IF \E r \in Reserving : handler[r].obj = o THEN [size |-> Size[o]] ELSE files[o]])

(* The files that are longer than their object: their source sends a chunk *)
(* too many, and its stream is about to be destroyed.                      *)
TooLong == {o \in Objects : SizeOf(files[o]) > Size[o]}

(* Since no object was fetched again that the cache had an item for, the   *)
(* files never grow beyond limits.storage, but for the chunks by which     *)
(* sources overrun the size of their objects.  (Such an object is one that *)
(* a stale answer of the query node took for missing, or one of group 0    *)
(* that was dropped before: its item stays, and an eviction may drop the   *)
(* file that is being written.)                                            *)
LimitKept ==
    [][refetched' = {} /\ TotalSize(files') > TotalSize(files)
           => TotalSize(files') <= StorageLimit + Chunk * Cardinality(TooLong')]_vars

(* Since no object was fetched again that the cache had an item for, by a  *)
(* stale answer or as an item left behind in group 0, the space counter is *)
(* right.  A start makes it right again.                                   *)
SpaceAccountedWhenFresh == refetched = {} => SpaceAccounted

(* An object that is served as a cache hit, to be cached for a year, has   *)
(* exactly the content whose hash is on the chain, if the cache had no     *)
(* item for it when it was fetched, and unless the file is one of those    *)
(* that the last start took over with other data: startupInit only looks   *)
(* at a file's size.                                                       *)
AvailableVerified ==
    \A o \in Objects \ (refetched \cup unverified) :
        objectStatus(o) = "Available" => files[o] = [size |-> Size[o], valid |-> Offsets(o)]

(* An item of group 0 that was dropped: dropById leaves it where it is. *)
LeftBehind(o) == groupNumber[o] = 0 /\ files[o] = None

(* The cache state and the directory agree on an object that was not       *)
(* fetched again while the cache had an item for it: an item is in the one *)
(* group that groupNumberByObjectId names and has its complete file and    *)
(* its mime type, or is left behind in group 0; every other file is being  *)
(* written.  A file outside of both would take space that no eviction can  *)
(* free.                                                                   *)
CacheMatchesFiles ==
    \A o \in Objects \ refetched :
        /\ \A g \in Groups : Has(lruCacheGroups[g], o) <=> groupNumber[o] = g
        /\ Cached(o) => \/ LeftBehind(o)
                        \/ /\ files[o] # None /\ files[o].size = Size[o]
                           /\ o \in mimeTypes
        /\ files[o] # None => \/ Cached(o)
                             \/ \E r \in Reserving : handler[r].obj = o /\ handler[r].linked

(* Every pending download has a handler at work on it: an object whose     *)
(* entry is left behind would be pending, and unavailable, for ever.       *)
PendingHasDownload ==
    \A o \in Objects :
        pending[o] # None =>
            /\ handler[pending[o]].obj = o
            /\ handler[pending[o]].pc \in {"queued", "source", "evict", "stream", "mime"}

(* The eviction loop has found an item without a file: dropping it frees   *)
(* nothing, and the loop, which does not give up the event loop, may come  *)
(* upon the same item for ever.                                            *)
Spinning ==
    /\ evicting # None
    /\ freeSpace < Size[handler[evicting].obj]
    /\ \E o \in EvictCandidates : files[o] = None

(* The object was fetched again, and the entry of the download that the    *)
(* request waits for is gone: another one of the object has completed it.  *)
Orphaned(r) ==
    /\ At(r, "join")
    /\ handler[r].obj \in refetched
    /\ pending[handler[r].obj] # handler[r].joined

(* Every request for an asset is answered: no download waits for space, a  *)
(* slot in the queue or a source for ever, nor does who joined it, but for *)
(* what the code does not recover from: an eviction that spins on an item  *)
(* without a file, a space counter that is wrong, or a download that       *)
(* another one of the same object has completed.                           *)
RequestsAnswered ==
    \A r \in Requests :
        ~At(r, "new") ~> At(r, "done") \/ Orphaned(r) \/ Spinning \/ ~SpaceAccounted
=============================================================================
