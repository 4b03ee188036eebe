----------------------- MODULE DistributorCache_proofs -----------------------
(***************************************************************************)
(* Theorems about the distributor node's downloads, for any number of      *)
(* requests, objects and slots, and with crashes and stale answers.        *)
(***************************************************************************)
EXTENDS DistributorCache, Sums_proofs, SequenceTheorems

(* The part of the type invariant that the argument rests on. *)
DownloadTypes ==
    /\ pending \in [Objects -> Requests \cup {None}]
    /\ handler \in [Requests -> Handler]
    /\ downloadQueue \in Seq(Requests)
    /\ evicting \in Requests \cup {None}

IndInv == DownloadTypes /\ PendingHasDownload

(* Where a handler is while a download of its own is under way. *)
DownloadPlaces == {"queued", "source", "evict", "stream", "mime"}

-----------------------------------------------------------------------------
(* Handlers that end are left without a download; all others keep their    *)
(* place and their object.                                                 *)
LEMMA EndedHandlers ==
    ASSUME handler \in [Requests -> Handler], NEW rs, NEW D, EndAndUnlink(rs, D)
    PROVE  /\ handler' \in [Requests -> Handler]
           /\ \A r \in Requests \ rs : /\ handler'[r].pc = handler[r].pc
                                       /\ handler'[r].obj = handler[r].obj
  BY DEF EndAndUnlink, Handler, Ended, NewHandler

(* Deleting the entries of some objects keeps the invariant if no handler  *)
(* with a download of another object ends.                                 *)
LEMMA EntriesDropped ==
    ASSUME IndInv, NEW rs \in SUBSET Requests, NEW D, NEW E,
           pending' = [o \in Objects |-> IF o \in E THEN None ELSE pending[o]],
           EndAndUnlink(rs, D),
           \A r \in rs : handler[r].pc \in DownloadPlaces => handler[r].obj \in E,
           UNCHANGED <<downloadQueue, evicting>>
    PROVE  IndInv'
  <1> USE DEF IndInv, DownloadTypes, PendingHasDownload, DownloadPlaces
  <1>1. /\ handler' \in [Requests -> Handler]
        /\ \A r \in Requests \ rs : /\ handler'[r].pc = handler[r].pc
                                    /\ handler'[r].obj = handler[r].obj
    BY EndedHandlers
  <1>2. pending' \in [Objects -> Requests \cup {None}]
    OBVIOUS
  <1>3. ASSUME NEW o \in Objects, pending'[o] # None
        PROVE  /\ handler'[pending'[o]].obj = o
               /\ handler'[pending'[o]].pc \in DownloadPlaces
    <2>1. o \notin E /\ pending'[o] = pending[o] /\ pending[o] # None /\ pending[o] \in Requests
      BY <1>3
    <2>2. handler[pending[o]].obj = o /\ handler[pending[o]].pc \in DownloadPlaces
      BY <2>1
    <2>3. pending[o] \notin rs
      BY <2>1, <2>2
    <2> QED
      BY <1>1, <2>1, <2>2, <2>3
  <1> QED
    BY <1>1, <1>2, <1>3

(* Whoever is released by a failed download waited at "join". *)
LEMMA FailedAreJoined ==
    ASSUME NEW D
    PROVE  /\ Failed(D) \in SUBSET Requests
           /\ \A r \in Failed(D) : handler[r].pc \notin DownloadPlaces
  BY DEF Failed, At, DownloadPlaces

(* drop of any set of objects. *)
LEMMA DropKeepsInv ==
    ASSUME IndInv, NEW D, drop(D), UNCHANGED <<downloadQueue, evicting>>
    PROVE  IndInv'
  BY EntriesDropped, FailedAreJoined DEF drop, dropById

(* A handler that has no download, or no entry for it, and moves on. *)
LEMMA HandlerMoves ==
    ASSUME IndInv, NEW r \in Requests, NEW h \in Handler,
           handler' = [handler EXCEPT ![r] = h],
           handler[r].pc \in DownloadPlaces =>
               h.pc \in DownloadPlaces /\ h.obj = handler[r].obj,
           UNCHANGED pending,
           downloadQueue' \in Seq(Requests),
           evicting' \in Requests \cup {None}
    PROVE  IndInv'
  <1> USE DEF IndInv, DownloadTypes, PendingHasDownload, DownloadPlaces
  <1>1. handler' \in [Requests -> Handler]
    OBVIOUS
  <1>2. ASSUME NEW o \in Objects, pending'[o] # None
        PROVE  /\ handler'[pending'[o]].obj = o
               /\ handler'[pending'[o]].pc \in DownloadPlaces
    <2>1. /\ pending'[o] = pending[o] /\ pending[o] \in Requests
          /\ handler[pending[o]].obj = o
          /\ handler[pending[o]].pc \in DownloadPlaces
      BY <1>2
    <2>2. CASE pending[o] = r
      BY <2>1, <2>2
    <2>3. CASE pending[o] # r
      BY <2>1, <2>3
    <2> QED
      BY <2>2, <2>3
  <1> QED
    BY <1>1, <1>2

(* servePendingDownloadAsset, by a handler that has no download itself. *)
LEMMA ServePendingKeepsInv ==
    ASSUME IndInv, NEW r \in Requests, NEW o \in Objects,
           handler[r].pc \notin DownloadPlaces,
           pending[o] # None,
           servePendingDownloadAsset(r, o),
           UNCHANGED <<pending, downloadQueue, evicting>>
    PROVE  IndInv'
  <1>1. pending[o] \in Requests /\ handler[r] \in Handler
    BY DEF IndInv, DownloadTypes
  <1>2. CASE handler[pending[o]].pc \in {"queued", "source"}
    <2> DEFINE h == [handler[r] EXCEPT !.pc = "join", !.obj = o, !.joined = pending[o]]
    <2>1. h \in Handler
      BY <1>1 DEF Handler
    <2>2. handler' = [handler EXCEPT ![r] = h]
      BY <1>2 DEF servePendingDownloadAsset, IndInv, DownloadTypes
    <2> HIDE DEF h
    <2> QED
      BY <2>1, <2>2, HandlerMoves DEF IndInv, DownloadTypes
  <1>3. CASE handler[pending[o]].pc \notin {"queued", "source"}
    <2>1. EndAndUnlink({r}, {})
      BY <1>3 DEF servePendingDownloadAsset, End
    <2>2. pending' = [p \in Objects |-> IF p \in {} THEN None ELSE pending[p]]
      BY DEF IndInv, DownloadTypes
    <2> QED
      BY <2>1, <2>2, EntriesDropped
  <1> QED
    BY <1>2, <1>3

-----------------------------------------------------------------------------
(* One lemma for each way an action treats handlers and entries. *)

(* A handler without a download ends. *)
LEMMA EndWithoutDownload ==
    ASSUME IndInv, NEW r \in Requests, handler[r].pc \notin DownloadPlaces,
           End({r}), UNCHANGED <<pending, downloadQueue, evicting>>
    PROVE  IndInv'
  <1>1. pending' = [o \in Objects |-> IF o \in {} THEN None ELSE pending[o]]
    BY DEF IndInv, DownloadTypes
  <1> QED
    BY <1>1, EntriesDropped DEF End

(* asset. *)
LEMMA AssetKeepsInv ==
    ASSUME IndInv, NEW r \in Requests, NEW o \in Objects, asset(r, o)
    PROVE  IndInv'
  <1>1. /\ handler[r].pc = "new" /\ handler[r].pc \notin DownloadPlaces
        /\ handler[r] \in Handler
        /\ UNCHANGED <<pending, downloadQueue, evicting>>
    BY DEF asset, At, DownloadPlaces, queueVars, IndInv, DownloadTypes
  <1>2. CASE serveAssetFromFilesystem(r, o)
    BY <1>1, <1>2, EndWithoutDownload DEF serveAssetFromFilesystem
  <1>3. CASE objectStatus(o) = "PendingDownload" /\ servePendingDownloadAsset(r, o)
    <2>1. pending[o] # None
      BY <1>3 DEF objectStatus
    <2> QED
      BY <1>1, <1>3, <2>1, ServePendingKeepsInv
  <1>4. CASE handler' = [handler EXCEPT ![r].pc = "info", ![r].obj = o]
    <2> DEFINE h == [handler[r] EXCEPT !.pc = "info", !.obj = o]
    <2>1. h \in Handler
      BY <1>1 DEF Handler
    <2>2. handler' = [handler EXCEPT ![r] = h]
      BY <1>4 DEF IndInv, DownloadTypes
    <2> HIDE DEF h
    <2> QED
      BY <1>1, <2>1, <2>2, HandlerMoves DEF IndInv, DownloadTypes
  <1> QED
    BY <1>2, <1>3, <1>4 DEF asset

(* serveMissingAsset: an entry is created for the handler that now has the *)
(* download.                                                               *)
LEMMA MissingKeepsInv ==
    ASSUME IndInv, supported \subseteq Objects,
           NEW r \in Requests, serveMissingAsset(r)
    PROVE  IndInv'
  <1> DEFINE o == handler[r].obj
  <1>1. /\ handler[r].pc = "info" /\ handler[r].pc \notin DownloadPlaces
        /\ handler[r] \in Handler
        /\ UNCHANGED evicting
    BY DEF serveMissingAsset, At, DownloadPlaces, IndInv, DownloadTypes
  <1>2. CASE End({r}) /\ UNCHANGED <<pending, downloadQueue>>
    BY <1>1, <1>2, EndWithoutDownload
  <1>3. CASE /\ pending[o] # None /\ servePendingDownloadAsset(r, o)
             /\ UNCHANGED <<pending, downloadQueue>>
    <2>1. o \in Objects
      BY DEF serveMissingAsset
    <2> QED
      BY <1>1, <1>3, <2>1, ServePendingKeepsInv
  <1>4. CASE pending[o] = None /\ downloadDataObject(r, o)
    <2> USE DEF IndInv, DownloadTypes, PendingHasDownload, DownloadPlaces
    <2>1. handler' = [handler EXCEPT ![r].pc = "queued"]
      BY <1>4 DEF downloadDataObject
    <2>2. handler' \in [Requests -> Handler]
      BY <1>1, <2>1 DEF Handler
    <2>3. /\ pending' = [pending EXCEPT ![o] = r]
          /\ pending' \in [Objects -> Requests \cup {None}]
      BY <1>4 DEF downloadDataObject
    <2>4. downloadQueue' \in Seq(Requests)
      BY <1>4 DEF downloadDataObject
    <2>5. ASSUME NEW p \in Objects, pending'[p] # None
          PROVE  /\ handler'[pending'[p]].obj = p
                 /\ handler'[pending'[p]].pc \in DownloadPlaces
      <3>1. CASE p = o
        BY <1>1, <2>1, <2>3, <3>1 DEF Handler
      <3>2. CASE p # o
        <4>1. /\ pending'[p] = pending[p] /\ pending[p] \in Requests
              /\ handler[pending[p]].obj = p
              /\ handler[pending[p]].pc \in DownloadPlaces
          BY <2>3, <2>5, <3>2
        <4>2. pending[p] # r
          BY <1>1, <4>1
        <4> QED
          BY <2>1, <4>1, <4>2
      <3> QED
        BY <3>1, <3>2
    <2> QED
      BY <1>1, <2>2, <2>3, <2>4, <2>5
  <1> QED
    BY <1>2, <1>3, <1>4 DEF serveMissingAsset

(* The steps of the download queue and of the download itself. *)
LEMMA JobKeepsInv ==
    ASSUME IndInv, downloadJob
    PROVE  IndInv'
  <1> DEFINE r == Head(downloadQueue)
             h == [handler[r] EXCEPT !.pc = "source"]
  <1>1. /\ r \in Requests
        /\ downloadQueue' \in Seq(Requests)
    BY HeadTailProperties DEF downloadJob, IndInv, DownloadTypes
  <1>2. h \in Handler /\ h.pc = "source" /\ h.obj = handler[r].obj
    BY <1>1 DEF Handler, IndInv, DownloadTypes
  <1>3. /\ handler' = [handler EXCEPT ![r] = h]
        /\ UNCHANGED <<pending, evicting>>
    BY <1>1 DEF downloadJob, IndInv, DownloadTypes
  <1> HIDE DEF r, h
  <1> QED
    BY <1>1, <1>2, <1>3, HandlerMoves DEF IndInv, DownloadTypes, DownloadPlaces

(* No source is found. *)
LEMMA SourceNotFoundKeepsInv ==
    ASSUME IndInv, NEW r \in Requests, SourceNotFound(r)
    PROVE  IndInv'
  <1> DEFINE o == handler[r].obj
             rs == Failed({o}) \cup {r}
  <1>1. pending' = [p \in Objects |-> IF p \in {o} THEN None ELSE pending[p]]
    BY DEF SourceNotFound, IndInv, DownloadTypes
  <1>2. /\ rs \in SUBSET Requests
        /\ \A q \in rs : handler[q].pc \in DownloadPlaces => handler[q].obj \in {o}
    BY FailedAreJoined
  <1>3. EndAndUnlink(rs, {}) /\ UNCHANGED <<downloadQueue, evicting>>
    BY DEF SourceNotFound, End
  <1> HIDE DEF o, rs
  <1> QED
    BY <1>1, <1>2, <1>3, EntriesDropped

(* A source is found: the handlers that end are joined ones. *)
LEMMA SourceFoundKeepsInv ==
    ASSUME IndInv, NEW r \in Requests, SourceFound(r)
    PROVE  IndInv'
  <1> USE DEF IndInv, DownloadTypes, PendingHasDownload, DownloadPlaces
  <1>1. PICK good \in Streams :
            handler' = [q \in Requests |->
                           IF q = r THEN [handler[r] EXCEPT !.pc = "evict", !.good = good]
                           ELSE IF At(q, "join") /\ handler[q].joined = r THEN Ended
                           ELSE handler[q]]
    BY DEF SourceFound
  <1> DEFINE h == [handler[r] EXCEPT !.pc = "evict", !.good = good]
  <1>2. Ended \in Handler
    BY DEF Ended, NewHandler, Handler
  <1>3. h \in Handler /\ h.pc = "evict" /\ h.obj = handler[r].obj
    <2>1. good \in BOOLEAN /\ handler[r] \in Handler
      BY DistributorAssumption
    <2> QED
      BY <2>1 DEF Handler
  <1>4. /\ handler'[r] = h
        /\ \A q \in Requests \ {r} : handler'[q] \in {Ended, handler[q]}
        /\ \A q \in Requests \ {r} : ~At(q, "join") => handler'[q] = handler[q]
    BY <1>1
  <1>5. handler' \in [Requests -> Handler]
    <2>1. \A q \in Requests : handler'[q] \in Handler
      BY <1>2, <1>3, <1>4
    <2>2. /\ DOMAIN handler' = Requests
          /\ handler' = [q \in Requests |-> handler'[q]]
      BY <1>1, Zenon
    <2> HIDE DEF h
    <2> QED
      BY <2>1, <2>2, Zenon
  <1> HIDE DEF h
  <1>6. /\ UNCHANGED <<pending, downloadQueue>> /\ evicting' = r
        /\ handler[r].pc = "source"
    BY DEF SourceFound, queueVars, At
  <1>7. ASSUME NEW o \in Objects, pending'[o] # None
        PROVE  /\ handler'[pending'[o]].obj = o
               /\ handler'[pending'[o]].pc \in DownloadPlaces
    <2>1. /\ pending'[o] = pending[o] /\ pending[o] \in Requests
          /\ handler[pending[o]].obj = o
          /\ handler[pending[o]].pc \in DownloadPlaces
      BY <1>6, <1>7
    <2>2. CASE pending[o] = r
      BY <1>3, <1>4, <2>1, <2>2
    <2>3. CASE pending[o] # r
      <3>1. ~At(pending[o], "join")
        BY <2>1 DEF At
      <3> QED
        BY <1>4, <2>1, <2>3, <3>1
    <2> QED
      BY <2>2, <2>3
  <1> QED
    BY <1>5, <1>6, <1>7

(* The end of a download that is rejected. *)
LEMMA RejectKeepsInv ==
    ASSUME IndInv, NEW r \in Requests, rejectContent(r)
    PROVE  IndInv'
  <1> DEFINE o == handler[r].obj
             rs == Failed({o}) \cup {r}
  <1>1. pending' = [p \in Objects |-> IF p \in {o} THEN None ELSE pending[p]]
    BY DEF rejectContent, dropById
  <1>2. /\ rs \in SUBSET Requests
        /\ \A q \in rs : handler[q].pc \in DownloadPlaces => handler[q].obj \in {o}
    BY FailedAreJoined
  <1>3. EndAndUnlink(rs, {o}) /\ UNCHANGED <<downloadQueue, evicting>>
    BY DEF rejectContent
  <1> HIDE DEF o, rs
  <1> QED
    BY <1>1, <1>2, <1>3, EntriesDropped

(* The end of a download that is accepted. *)
LEMMA AcceptKeepsInv ==
    ASSUME IndInv, NEW r \in Requests, ContentAccepted(r)
    PROVE  IndInv'
  <1> DEFINE o == handler[r].obj
             rs == {r}
  <1>1. pending' = [p \in Objects |-> IF p \in {o} THEN None ELSE pending[p]]
    BY DEF ContentAccepted, IndInv, DownloadTypes
  <1>2. EndAndUnlink(rs, {}) /\ UNCHANGED <<downloadQueue, evicting>>
    BY DEF ContentAccepted, End, queueVars
  <1>3. /\ rs \in SUBSET Requests
        /\ \A q \in rs : handler[q].pc \in DownloadPlaces => handler[q].obj \in {o}
    OBVIOUS
  <1> HIDE DEF o, rs
  <1> QED
    BY <1>1, <1>2, <1>3, EntriesDropped

(* The steps in which a download only moves on. *)
LEMMA MovingOnKeepsInv ==
    ASSUME IndInv, NEW r \in Requests,
           handleNewContent(r) \/ onData(r) \/ ContentVerified(r)
    PROVE  IndInv'
  <1>1. handler[r] \in Handler /\ handler \in [Requests -> Handler]
    BY DEF IndInv, DownloadTypes
  <1>2. CASE handleNewContent(r)
    <2> DEFINE h == [handler[r] EXCEPT !.pc = "stream", !.linked = TRUE]
    <2>1. /\ handler' = [handler EXCEPT ![r] = h]
          /\ UNCHANGED <<pending, downloadQueue>> /\ evicting' = None
      BY <1>1, <1>2 DEF handleNewContent, queueVars
    <2>2. h \in Handler /\ h.pc \in DownloadPlaces /\ h.obj = handler[r].obj
      BY <1>1 DEF Handler, DownloadPlaces
    <2> HIDE DEF h
    <2> QED
      BY <2>1, <2>2, HandlerMoves DEF IndInv, DownloadTypes
  <1>3. CASE onData(r)
    <2> DEFINE h == [handler[r] EXCEPT !.written = @ + Chunk]
    <2>1. /\ handler' = [handler EXCEPT ![r] = h]
          /\ UNCHANGED <<pending, downloadQueue, evicting>>
          /\ handler[r].pc = "stream"
      BY <1>1, <1>3 DEF onData, queueVars, At
    <2>2. h \in Handler /\ h.pc \in DownloadPlaces /\ h.obj = handler[r].obj
      BY <1>1, <2>1, DistributorAssumption DEF Handler, DownloadPlaces
    <2> HIDE DEF h
    <2> QED
      BY <2>1, <2>2, HandlerMoves DEF IndInv, DownloadTypes
  <1>4. CASE ContentVerified(r)
    <2> DEFINE h == [handler[r] EXCEPT !.pc = "mime"]
    <2>1. /\ handler' = [handler EXCEPT ![r] = h]
          /\ UNCHANGED <<pending, downloadQueue, evicting>>
      BY <1>1, <1>4 DEF ContentVerified
    <2>2. h \in Handler /\ h.pc \in DownloadPlaces /\ h.obj = handler[r].obj
      BY <1>1 DEF Handler, DownloadPlaces
    <2> HIDE DEF h
    <2> QED
      BY <2>1, <2>2, HandlerMoves DEF IndInv, DownloadTypes
  <1> QED
    BY <1>2, <1>3, <1>4

(* Steps that leave handlers, entries and the queue alone. *)
LEMMA UntouchedKeepsInv ==
    ASSUME IndInv, UNCHANGED <<pending, handler, downloadQueue>>,
           evicting' \in Requests \cup {None}
    PROVE  IndInv'
  BY DEF IndInv, DownloadTypes, PendingHasDownload

(* The eviction loop, and the end of a stream while it sleeps. *)
LEMMA EvictionKeepsInv ==
    ASSUME IndInv, NEW r \in Requests,
           EvictOne(r) \/ EvictSleep(r) \/ EvictWake(r) \/ StreamAborted(r)
    PROVE  IndInv'
  <1>1. CASE EvictOne(r)
    <2>1. PICK o \in EvictCandidates : drop({o})
      BY <1>1 DEF EvictOne
    <2>2. UNCHANGED <<downloadQueue, evicting>>
      BY <1>1 DEF EvictOne, queueVars
    <2> QED
      BY <2>1, <2>2, DropKeepsInv
  <1>2. CASE EvictSleep(r) \/ EvictWake(r) \/ StreamAborted(r)
    <2>1. /\ UNCHANGED <<pending, handler, downloadQueue>>
          /\ evicting' \in Requests \cup {None}
      BY <1>2 DEF EvictSleep, EvictWake, StreamAborted, queueVars, IndInv, DownloadTypes
    <2> QED
      BY <2>1, UntouchedKeepsInv
  <1> QED
    BY <1>1, <1>2

(* A restart forgets all downloads. *)
LEMMA RestartKeepsInv ==
    ASSUME IndInv, Restart
    PROVE  IndInv'
  <1> DEFINE rs == {r \in Requests : ~At(r, "new")}
  <1>1. EndAndUnlink(rs, {})
    BY DEF Restart, End
  <1>2. handler' \in [Requests -> Handler]
    BY <1>1, EndedHandlers DEF IndInv, DownloadTypes
  <1>3. /\ pending' = [o \in Objects |-> None]
        /\ downloadQueue' = << >> /\ evicting' = None
    BY DEF Restart
  <1> QED
    BY <1>2, <1>3 DEF IndInv, DownloadTypes, PendingHasDownload

(* Every step of the node keeps the invariant. *)
LEMMA NextKeepsInv ==
    ASSUME IndInv, supported \subseteq Objects, [Next]_vars
    PROVE  IndInv'
  <1>1. CASE \E r \in Requests, o \in Objects : asset(r, o)
    BY <1>1, AssetKeepsInv
  <1>2. ASSUME NEW r \in Requests, Handle(r)
        PROVE  IndInv'
    <2>1. CASE NotServed(r)
      <3>1. /\ handler[r].pc \notin DownloadPlaces
            /\ End({r}) /\ UNCHANGED <<pending, downloadQueue, evicting>>
        BY <2>1 DEF NotServed, At, DownloadPlaces, queueVars
      <3> QED
        BY <3>1, EndWithoutDownload
    <2>2. CASE serveMissingAsset(r)
      BY <2>2, MissingKeepsInv
    <2>3. CASE SourceNotFound(r)
      BY <2>3, SourceNotFoundKeepsInv
    <2>4. CASE SourceFound(r)
      BY <2>4, SourceFoundKeepsInv
    <2>5. CASE EvictOne(r) \/ EvictSleep(r) \/ EvictWake(r) \/ StreamAborted(r)
      BY <2>5, EvictionKeepsInv
    <2>6. CASE handleNewContent(r) \/ onData(r) \/ ContentVerified(r)
      BY <2>6, MovingOnKeepsInv
    <2>7. CASE rejectContent(r)
      BY <2>7, RejectKeepsInv
    <2>8. CASE ContentAccepted(r)
      BY <2>8, AcceptKeepsInv
    <2> QED
      BY <1>2, <2>1, <2>2, <2>3, <2>4, <2>5, <2>6, <2>7, <2>8 DEF Handle
  <1>3. CASE downloadJob
    BY <1>3, JobKeepsInv
  <1>4. CASE cacheCleanup
    <2>1. /\ \E D : drop(D)
          /\ UNCHANGED <<downloadQueue, evicting>>
      BY <1>4 DEF cacheCleanup, queueVars
    <2> QED
      BY <2>1, DropKeepsInv
  <1>5. CASE ObligationsChange \/ fetchSupportedDataObjects \/ save \/ SaveDone
             \/ UNCHANGED vars
    <2>1. UNCHANGED <<pending, handler, downloadQueue, evicting>>
      BY <1>5 DEF ObligationsChange, fetchSupportedDataObjects, save, SaveDone,
                  queueVars, vars
    <2> QED
      BY <2>1, UntouchedKeepsInv DEF IndInv, DownloadTypes
  <1>6. CASE Restart
    BY <1>6, RestartKeepsInv
  <1> QED
    BY <1>1, <1>2, <1>3, <1>4, <1>5, <1>6 DEF Next

-----------------------------------------------------------------------------
(* The obligations are objects, whatever the chain changes. *)
LEMMA SupportedType == Spec => [](supported \subseteq Objects)
  <1>1. Init => supported \subseteq Objects
    BY DEF Init
  <1>2. supported \subseteq Objects /\ [Next]_vars => (supported \subseteq Objects)'
    BY DEF Next, Handle, asset, NotServed, serveMissingAsset, SourceNotFound,
           SourceFound, EvictOne, EvictSleep, EvictWake, StreamAborted,
           handleNewContent, onData, rejectContent, ContentVerified,
           ContentAccepted, downloadJob, ObligationsChange,
           fetchSupportedDataObjects, cacheCleanup, save, SaveDone, Restart,
           chainVars, vars
  <1> QED
    BY <1>1, <1>2, PTL DEF Spec

(* No entry of pendingDownloadsByObjectId is ever left behind: at any time, *)
(* whatever is requested, evicted, cleaned up or restarted meanwhile, the   *)
(* handler that created the entry is at work on a download of its object.   *)
THEOREM PendingDownloadsProgress == Spec => []PendingHasDownload
  <1>1. Init => IndInv
    BY DEF Init, IndInv, DownloadTypes, PendingHasDownload, NewHandler, Handler
  <1>2. IndInv /\ supported \subseteq Objects /\ [Next]_vars => IndInv'
    BY NextKeepsInv
  <1>3. IndInv => PendingHasDownload
    BY DEF IndInv
  <1> QED
    BY <1>1, <1>2, <1>3, SupportedType, PTL DEF Spec

-----------------------------------------------------------------------------
(* The types of the node's state. *)

(* Files are no longer than their object but for a chunk. *)
FileOf(o) == [size : 0 .. Size[o] + Chunk, valid : SUBSET Offsets(o)]

FileTypes ==
    /\ DOMAIN files = Objects
    /\ \A o \in Objects : files[o] \in FileOf(o) \cup {None}

Item == [id : Objects, popularity : 1 .. MaxPopularity]
GroupTypes == [Groups -> Seq(Item)]
Stored == [lruCacheGroups : GroupTypes, mimeTypes : SUBSET Objects]

CacheTypes ==
    /\ lruCacheGroups \in GroupTypes
    /\ groupNumber \in [Objects -> Groups \cup {None}]
    /\ mimeTypes \in SUBSET Objects
    /\ cacheFile \in Stored \cup {None}
    /\ saving \in Stored \cup {None}

RestTypes ==
    /\ contentSizeSum \in Int
    /\ running \in SUBSET Requests
    /\ supported \in SUBSET Objects
    /\ cleanup \in (SUBSET Objects) \cup {None}
    /\ refetched \in SUBSET Objects
    /\ unverified \in SUBSET Objects

(* What a handler has written: nothing before its file is open, whole      *)
(* chunks then, and the object when it is about to be accepted.            *)
Writes(h) ==
    /\ h.pc \in {"info", "join"} \cup DownloadPlaces => h.obj \in Objects
    /\ h.pc \notin {"stream", "mime"} => h.written = 0 /\ ~h.linked
    /\ h.pc \in {"stream", "mime"} =>
           /\ Aligned(h.written)
           /\ h.written <= Size[h.obj] + Chunk
           /\ h.good => h.written <= Size[h.obj]
    /\ h.pc = "mime" => h.good /\ h.written = Size[h.obj]

WriteTypes == \A r \in Requests : Writes(handler[r])

(* A file that is written and still has its name is in the directory. *)
LinkedFiles == \A r \in Requests : handler[r].linked => files[handler[r].obj] # None

-----------------------------------------------------------------------------
(* The agreement of the cache state and the directory. *)

(* The maps of the cache state agree on o. *)
GroupsAgree(groups, number, o) == \A g \in Groups : Has(groups[g], o) <=> number[o] = g

(* The file of o is being written by the download that is pending for o. *)
Writing(o) == pending[o] # None /\ handler[pending[o]].pc \in {"stream", "mime"}

(* An object is nowhere, or being written, or complete and in the cache,   *)
(* or left behind in group 0.                                              *)
Consistent(o) ==
    /\ GroupsAgree(lruCacheGroups, groupNumber, o)
    /\ \/ /\ ~Writing(o)
          /\ files[o] = None
          /\ groupNumber[o] = None
       \/ /\ Writing(o)
          /\ files[o] # None
          /\ files[o].size = handler[pending[o]].written
          /\ handler[pending[o]].linked
          /\ groupNumber[o] = None
       \/ /\ pending[o] = None
          /\ files[o] # None
          /\ files[o].size = Size[o]
          /\ groupNumber[o] # None
          /\ o \in mimeTypes
       \/ /\ pending[o] = None
          /\ files[o] = None
          /\ groupNumber[o] = 0

(* Whoever has a download of o has its entry. *)
OwnEntry(o) ==
    \A r \in Requests : handler[r].pc \in DownloadPlaces /\ handler[r].obj = o => pending[o] = r

Fresh(o) == Consistent(o) /\ OwnEntry(o)

(* That is so for all objects but those that were fetched again. *)
FreshInv == \A o \in Objects \ refetched : Fresh(o)

(* What an object counts for: its size as soon as it is being written. *)
Counted == [o \in Objects |-> IF Writing(o) THEN Size[o] ELSE SizeOf(files[o])]

SpaceInv ==
    refetched = {} =>
        /\ contentSizeSum = SumOver(Counted, Objects)
        /\ (\E o \in Objects : Writing(o)) => contentSizeSum <= StorageLimit

(* The data in a file is right as far as it was written by a good source,  *)
(* unless it was there, and wrong, at the last start.                      *)
RightData(o) ==
    \/ o \in unverified
    \/ /\ files[o] # None /\ pending[o] = None => files[o].valid = Offsets(o)
       /\ Writing(o) /\ handler[pending[o]].good =>
              files[o].valid = {n \in Offsets(o) : n < handler[pending[o]].written}

DataInv == \A o \in Objects \ refetched : RightData(o)

-----------------------------------------------------------------------------
(* The groups of the cache. *)

(* OnlyIds step by step, and the function it is defined by. *)
KeptStep(group, ids, f, n) ==
    IF n = 0 THEN << >>
    ELSE IF group[n].id \in ids THEN Append(f[n - 1], group[n]) ELSE f[n - 1]
KeptFcn(group, ids) ==
    CHOOSE f : f = [n \in 0 .. Len(group) |-> KeptStep(group, ids, f, n)]

(* There is such a function. *)
LEMMA KeptFcnExists ==
    ASSUME NEW group \in Seq(Item), NEW ids
    PROVE  \E f : f = [n \in 0 .. Len(group) |-> KeptStep(group, ids, f, n)]
  <1> DEFINE L == Len(group)
             F == [0 .. L -> Seq(Item)]
             Right(f, n) == \A m \in 0 .. n : f[m] = KeptStep(group, ids, f, m)
             Missed == {n \in 0 .. L : \A f \in F : ~Right(f, n)}
  <1>1. L \in Nat /\ \A n \in 1 .. L : group[n] \in Item
    OBVIOUS
  <1>2. 0 \notin Missed
    <2>1. [n \in 0 .. L |-> << >>] \in F
      OBVIOUS
    <2>2. Right([n \in 0 .. L |-> << >>], 0)
      BY <1>1 DEF KeptStep
    <2> QED
      BY <2>1, <2>2
  <1>3. ASSUME NEW n \in Missed, \A m \in Missed : n <= m
        PROVE  FALSE
    <2>1. n \in 1 .. L /\ n - 1 \in 0 .. L /\ n - 1 \notin Missed
      <3>1. n \in 0 .. L
        BY <1>3
      <3> HIDE DEF Missed
      <3> QED
        BY <1>1, <1>2, <1>3, <3>1
    <2>2. PICK f \in F : Right(f, n - 1)
      BY <2>1
    <2> DEFINE h == [f EXCEPT ![n] = KeptStep(group, ids, f, n)]
    <2>3. f[n - 1] \in Seq(Item) /\ group[n] \in Item
      BY <1>1, <2>1
    <2>4. KeptStep(group, ids, f, n) \in Seq(Item)
      BY <2>1, <2>3 DEF KeptStep
    <2>5. h \in F
      BY <2>1, <2>4
    <2>6. ASSUME NEW m \in 0 .. n
          PROVE  h[m] = KeptStep(group, ids, h, m)
      <3>1. m = 0 \/ (m - 1 \in 0 .. L /\ m - 1 # n)
        BY <2>1
      <3>2. KeptStep(group, ids, h, m) = KeptStep(group, ids, f, m)
        BY <3>1 DEF KeptStep
      <3>3. CASE m = n
        BY <2>1, <3>2, <3>3
      <3>4. CASE m # n
        <4>1. m \in 0 .. n - 1
          BY <2>1, <3>4
        <4> QED
          BY <2>1, <2>2, <3>2, <3>4, <4>1
      <3> QED
        BY <3>3, <3>4
    <2> QED
      BY <2>5, <2>6
  <1>4. Missed = {}
    <2>1. Missed \subseteq Nat
      BY <1>1
    <2> QED
      BY <1>3, <2>1, LeastNatural
  <1>5. PICK f \in F : Right(f, L)
    BY <1>1, <1>4
  <1>6. f = [n \in 0 .. L |-> KeptStep(group, ids, f, n)]
    <2>1. f = [n \in 0 .. L |-> f[n]]
      OBVIOUS
    <2> QED
      BY <1>5, <2>1
  <1> QED
    BY <1>6

(* OnlyIds keeps the items for the objects in ids, and no others. *)
LEMMA OnlyIdsItems ==
    ASSUME NEW group \in Seq(Item), NEW ids
    PROVE  /\ OnlyIds(group, ids) \in Seq(Item)
           /\ \A o \in Objects : Has(OnlyIds(group, ids), o) <=> o \in ids /\ Has(group, o)
  <1> DEFINE L == Len(group)
             f == KeptFcn(group, ids)
             Right(n) == /\ f[n] \in Seq(Item)
                         /\ \A o \in Objects :
                                Has(f[n], o) <=> o \in ids /\ \E i \in 1 .. n : group[i].id = o
             Wrong == {n \in 0 .. L : ~Right(n)}
  <1>1. L \in Nat /\ \A n \in 1 .. L : group[n] \in Item
    OBVIOUS
  <1>2. f = [n \in 0 .. L |-> KeptStep(group, ids, f, n)]
    BY KeptFcnExists DEF KeptFcn
  <1>3. OnlyIds(group, ids) = f[L]
    BY DEF OnlyIds, KeptFcn, KeptStep
  <1> HIDE DEF f
  <1>4. \A n \in 0 .. L : f[n] = KeptStep(group, ids, f, n)
    BY <1>2
  <1>5. Right(0)
    <2>1. f[0] = << >>
      BY <1>1, <1>4 DEF KeptStep
    <2>2. \A o : ~Has(<< >>, o)
      BY DEF Has
    <2>3. \A o : ~\E i \in 1 .. 0 : group[i].id = o
      OBVIOUS
    <2>4. << >> \in Seq(Item)
      OBVIOUS
    <2> QED
      BY <2>1, <2>2, <2>3, <2>4
  <1>6. ASSUME NEW n \in 1 .. L, Right(n - 1)
        PROVE  Right(n)
    <2>1. f[n] = KeptStep(group, ids, f, n) /\ n # 0
      BY <1>1, <1>4
    <2>2. CASE group[n].id \in ids
      <3>1. f[n] = Append(f[n - 1], group[n])
        BY <2>1, <2>2 DEF KeptStep
      <3>2. /\ f[n] \in Seq(Item)
            /\ Len(f[n]) = Len(f[n - 1]) + 1
            /\ \A i \in 1 .. Len(f[n - 1]) : f[n][i] = f[n - 1][i]
            /\ f[n][Len(f[n - 1]) + 1] = group[n]
        BY <1>1, <1>6, <3>1
      <3>3. ASSUME NEW o \in Objects
            PROVE  Has(f[n], o) <=> Has(f[n - 1], o) \/ group[n].id = o
        <4>1. Len(f[n - 1]) \in Nat
          BY <1>6
        <4>2. ASSUME NEW i \in 1 .. Len(f[n]), f[n][i].id = o
              PROVE  Has(f[n - 1], o) \/ group[n].id = o
          <5>1. i \in 1 .. Len(f[n - 1]) \/ i = Len(f[n - 1]) + 1
            BY <3>2, <4>1
          <5>2. CASE i \in 1 .. Len(f[n - 1])
            BY <3>2, <4>2, <5>2 DEF Has
          <5>3. CASE i = Len(f[n - 1]) + 1
            BY <3>2, <4>2, <5>3
          <5> QED
            BY <5>1, <5>2, <5>3
        <4>3. ASSUME NEW i \in 1 .. Len(f[n - 1]), f[n - 1][i].id = o
              PROVE  Has(f[n], o)
          BY <3>2, <4>1, <4>3 DEF Has
        <4>4. group[n].id = o => Has(f[n], o)
          BY <3>2, <4>1 DEF Has
        <4> QED
          BY <4>2, <4>3, <4>4 DEF Has
      <3>4. ASSUME NEW o \in Objects
            PROVE  Has(f[n], o) <=> o \in ids /\ \E i \in 1 .. n : group[i].id = o
        <4>1. (\E i \in 1 .. n : group[i].id = o)
                 <=> (\E i \in 1 .. n - 1 : group[i].id = o) \/ group[n].id = o
          BY <1>1
        <4> QED
          BY <1>6, <2>2, <3>3, <4>1
      <3> QED
        BY <3>2, <3>4
    <2>3. CASE group[n].id \notin ids
      <3>1. f[n] = f[n - 1]
        BY <2>1, <2>3 DEF KeptStep
      <3>2. ASSUME NEW o \in Objects
            PROVE  Has(f[n], o) <=> o \in ids /\ \E i \in 1 .. n : group[i].id = o
        <4>1. (\E i \in 1 .. n : group[i].id = o)
                 <=> (\E i \in 1 .. n - 1 : group[i].id = o) \/ group[n].id = o
          BY <1>1
        <4> QED
          BY <1>6, <2>3, <3>1, <4>1
      <3> QED
        BY <1>6, <3>1, <3>2
    <2> QED
      BY <2>2, <2>3
  <1> HIDE DEF Right
  <1>7. ASSUME NEW n \in Wrong, \A m \in Wrong : n <= m
        PROVE  FALSE
    <2>1. n # 0
      BY <1>5, <1>7
    <2>2. n \in 1 .. L /\ n - 1 \in 0 .. L /\ n - 1 \notin Wrong
      BY <1>1, <1>7, <2>1
    <2>3. Right(n - 1)
      BY <2>2
    <2> QED
      BY <1>6, <1>7, <2>2, <2>3
  <1>8. Wrong = {}
    <2>1. Wrong \subseteq Nat
      BY <1>1
    <2> QED
      BY <1>7, <2>1, LeastNatural
  <1>9. Right(L)
    BY <1>1, <1>8
  <1> QED
    BY <1>1, <1>3, <1>9 DEF Right, Has

(* Map.set adds one object's item, and no other. *)
LEMMA WithItemItems ==
    ASSUME NEW group \in Seq(Item), NEW item \in Item
    PROVE  /\ WithItem(group, item) \in Seq(Item)
           /\ \A o \in Objects : Has(WithItem(group, item), o) <=> Has(group, o) \/ o = item.id
  <1>1. Len(group) \in Nat /\ \A i \in 1 .. Len(group) : group[i] \in Item
    OBVIOUS
  <1>2. CASE Has(group, item.id)
    <2> DEFINE s == [i \in 1 .. Len(group) |-> IF group[i].id = item.id THEN item ELSE group[i]]
    <2>1. WithItem(group, item) = s
      BY <1>2 DEF WithItem
    <2>2. s \in Seq(Item) /\ Len(s) = Len(group)
      BY <1>1
    <2>3. \A i \in 1 .. Len(group) : s[i].id = group[i].id
      OBVIOUS
    <2> HIDE DEF s
    <2>4. \A o \in Objects : Has(s, o) <=> Has(group, o)
      BY <2>2, <2>3 DEF Has
    <2> QED
      BY <1>2, <2>1, <2>2, <2>4
  <1>3. CASE ~Has(group, item.id)
    <2> DEFINE s == Append(group, item)
    <2>1. WithItem(group, item) = s
      BY <1>3 DEF WithItem
    <2>2. /\ s \in Seq(Item)
          /\ Len(s) = Len(group) + 1
          /\ \A i \in 1 .. Len(group) : s[i] = group[i]
          /\ s[Len(group) + 1] = item
      BY <1>1
    <2> HIDE DEF s
    <2>3. ASSUME NEW o \in Objects
          PROVE  Has(s, o) <=> Has(group, o) \/ o = item.id
      <3>1. ASSUME NEW i \in 1 .. Len(s), s[i].id = o
            PROVE  Has(group, o) \/ o = item.id
        <4>1. i \in 1 .. Len(group) \/ i = Len(group) + 1
          BY <1>1, <2>2
        <4> QED
          BY <2>2, <3>1, <4>1 DEF Has
      <3>2. ASSUME NEW i \in 1 .. Len(group), group[i].id = o
            PROVE  Has(s, o)
        BY <1>1, <2>2, <3>2 DEF Has
      <3>3. o = item.id => Has(s, o)
        BY <1>1, <2>2 DEF Has
      <3> QED
        BY <3>1, <3>2, <3>3 DEF Has
    <2> QED
      BY <2>1, <2>2, <2>3
  <1> QED
    BY <1>2, <1>3

(* Every size and popularity has a group: the first that is wide enough,   *)
(* or the last.                                                            *)
LEMMA CacheGroupExists ==
    ASSUME NEW s \in Nat, NEW p \in Nat
    PROVE  calcCacheGroup(s, p) \in Groups
  <1> DEFINE last == CACHE_GROUPS_COUNT - 1
             Fits == {g \in Groups : p * 2^g >= s \/ g = last}
  <1>1. last \in Nat /\ Groups = 0 .. last
    BY DistributorAssumption DEF Groups
  <1>2. last \in Fits /\ Fits \subseteq Nat
    BY <1>1
  <1>3. PICK g \in Fits : \A h \in Fits : g <= h
    BY <1>2, LeastNatural
  <1>4. g \in 0 .. last /\ (p * 2^g >= s \/ g = last)
    BY <1>1, <1>3
  <1>5. ASSUME NEW h \in 0 .. g - 1
        PROVE  p * 2^h < s
    <2>1. h \in Groups /\ h \in Nat /\ h < g
      BY <1>1, <1>4
    <2>2. h \notin Fits
      BY <1>3, <1>4, <2>1
    <2>3. ~(p * 2^h >= s)
      BY <2>1, <2>2
    <2> QED
      BY <2>1, <2>3
  <1>6. \E k \in Groups : /\ p * 2^k >= s \/ k = CACHE_GROUPS_COUNT - 1
                          /\ \A h \in 0 .. k - 1 : p * 2^h < s
    BY <1>1, <1>4, <1>5
  <1> QED
    BY <1>6 DEF calcCacheGroup

MapTypes(groups, number) == groups \in GroupTypes /\ number \in [Objects -> Groups \cup {None}]

(* newContent adds an object to the cache. *)
LEMMA NewContentGroups ==
    ASSUME NEW o \in Objects, MapTypes(lruCacheGroups, groupNumber), newContent(o)
    PROVE  /\ MapTypes(lruCacheGroups', groupNumber')
           /\ groupNumber'[o] # None
           /\ \A q \in Objects \ {o} : groupNumber'[q] = groupNumber[q]
           /\ \A q \in Objects :
                  GroupsAgree(lruCacheGroups, groupNumber, q) /\ (q = o => groupNumber[o] = None)
                      => GroupsAgree(lruCacheGroups', groupNumber', q)
  <1> DEFINE g == calcCacheGroup(Size[o], 1)
             item == [id |-> o, popularity |-> 1]
             group == WithItem(lruCacheGroups[g], item)
  <1>1. g \in Groups /\ Groups \subseteq Nat /\ None \notin Groups /\ 1 \in 1 .. MaxPopularity
    <2>1. Size[o] \in Nat
      BY DistributorAssumption
    <2>2. g \in Groups
      BY <2>1, CacheGroupExists
    <2> QED
      BY <2>2, DistributorAssumption DEF Groups
  <1>2. item \in Item /\ lruCacheGroups[g] \in Seq(Item) /\ item.id = o
    BY <1>1 DEF Item, MapTypes, GroupTypes
  <1>3. /\ group \in Seq(Item)
        /\ \A q \in Objects : Has(group, q) <=> Has(lruCacheGroups[g], q) \/ q = o
    BY <1>2, WithItemItems
  <1>4. CASE groupNumber[o] \notin {None, 0}
    BY <1>4 DEF newContent, GroupsAgree
  <1>5. CASE groupNumber[o] \in {None, 0}
    <2>1. /\ groupNumber' = [groupNumber EXCEPT ![o] = g]
          /\ lruCacheGroups' = [lruCacheGroups EXCEPT ![g] = group]
      BY <1>1, <1>5 DEF newContent, MapTypes, GroupTypes
    <2> HIDE DEF g, group
    <2>2. MapTypes(lruCacheGroups', groupNumber')
      BY <1>1, <1>3, <2>1 DEF MapTypes, GroupTypes
    <2>3. groupNumber'[o] = g /\ \A q \in Objects \ {o} : groupNumber'[q] = groupNumber[q]
      BY <2>1 DEF MapTypes
    <2>4. /\ lruCacheGroups'[g] = group
          /\ \A k \in Groups \ {g} : lruCacheGroups'[k] = lruCacheGroups[k]
      BY <1>1, <2>1 DEF MapTypes, GroupTypes
    <2>5. ASSUME NEW q \in Objects, GroupsAgree(lruCacheGroups, groupNumber, q),
                 q = o => groupNumber[o] = None
          PROVE  GroupsAgree(lruCacheGroups', groupNumber', q)
      <3>1. ASSUME NEW k \in Groups
            PROVE  Has(lruCacheGroups'[k], q) <=> groupNumber'[q] = k
        <4>1. Has(lruCacheGroups[k], q) <=> groupNumber[q] = k
          BY <2>5 DEF GroupsAgree
        <4>2. CASE k = g
          BY <1>1, <1>3, <2>3, <2>4, <4>1, <4>2
        <4>3. CASE k # g
          BY <1>1, <2>3, <2>4, <2>5, <4>1, <4>3
        <4> QED
          BY <4>2, <4>3
      <3> QED
        BY <3>1 DEF GroupsAgree
    <2> QED
      BY <1>1, <2>2, <2>3, <2>5
  <1> QED
    BY <1>4, <1>5

(* useContent moves an object from group to group. *)
LEMMA UseContentGroups ==
    ASSUME NEW o \in Objects, MapTypes(lruCacheGroups, groupNumber), useContent(o)
    PROVE  /\ MapTypes(lruCacheGroups', groupNumber')
           /\ \A q \in Objects \ {o} : groupNumber'[q] = groupNumber[q]
           /\ \A q \in Objects :
                  GroupsAgree(lruCacheGroups, groupNumber, q)
                      => /\ GroupsAgree(lruCacheGroups', groupNumber', q)
                         /\ groupNumber'[q] = None <=> groupNumber[q] = None
  <1> DEFINE g == groupNumber[o]
             item == ItemOf(lruCacheGroups[g], o)
             target == calcCacheGroup(Size[o], item.popularity + 1)
             moved == [item EXCEPT !.popularity = @ + 1]
             left == [lruCacheGroups EXCEPT ![g] = Without(lruCacheGroups[g], o)]
             group == WithItem(left[target], moved)
  <1>1. Groups \subseteq Nat /\ None \notin Groups
    BY DistributorAssumption DEF Groups
  <1>2. CASE peekContent(o)
    <2>1. g \in Groups /\ Has(lruCacheGroups[g], o) /\ lruCacheGroups[g] \in Seq(Item)
      BY <1>2 DEF peekContent, MapTypes, GroupTypes
    <2>2. item \in Item /\ item.id = o
      BY <2>1 DEF Has, ItemOf
    <2>3. item.popularity + 1 \in 1 .. MaxPopularity /\ moved \in Item /\ moved.id = o
      BY <1>2, <2>2, DistributorAssumption DEF useContent, Item
    <2>4. target \in Groups
      BY <2>3, CacheGroupExists, DistributorAssumption
    <2>5. /\ Without(lruCacheGroups[g], o) \in Seq(Item)
          /\ \A q \in Objects : Has(Without(lruCacheGroups[g], o), q)
                                    <=> q # o /\ Has(lruCacheGroups[g], q)
      BY <2>1, OnlyIdsItems DEF Without
    <2>6. /\ groupNumber' = [groupNumber EXCEPT ![o] = target]
          /\ lruCacheGroups' = [left EXCEPT ![target] = group]
      <3>1. /\ groupNumber' = [groupNumber EXCEPT ![o] = target]
            /\ lruCacheGroups' = [[lruCacheGroups EXCEPT ![g] = Without(@, o)]
                                     EXCEPT ![target] = WithItem(@, moved)]
        BY <1>2 DEF useContent
      <3> HIDE DEF g, target, moved
      <3> QED
        BY <2>1, <2>4, <3>1 DEF MapTypes, GroupTypes
    <2> HIDE DEF g, item, target, moved, group
    <2>7. left \in GroupTypes
      BY <2>1, <2>5 DEF MapTypes, GroupTypes
    <2>8. left[target] \in Seq(Item)
      BY <2>4, <2>7 DEF GroupTypes
    <2>9. ASSUME NEW k \in Groups, NEW q \in Objects
          PROVE  Has(left[k], q) <=> Has(lruCacheGroups[k], q) /\ (k = g => q # o)
      BY <2>1, <2>5 DEF MapTypes, GroupTypes
    <2> HIDE DEF left
    <2>10. /\ group \in Seq(Item)
           /\ \A q \in Objects : Has(group, q) <=> Has(left[target], q) \/ q = o
      BY <2>3, <2>8, WithItemItems DEF group
    <2>11. /\ lruCacheGroups' \in GroupTypes
           /\ lruCacheGroups'[target] = group
           /\ \A k \in Groups \ {target} : lruCacheGroups'[k] = left[k]
      BY <2>4, <2>6, <2>7, <2>10 DEF GroupTypes
    <2>12. /\ groupNumber' \in [Objects -> Groups \cup {None}]
           /\ groupNumber'[o] = target
           /\ \A q \in Objects \ {o} : groupNumber'[q] = groupNumber[q]
      BY <2>4, <2>6 DEF MapTypes
    <2>13. ASSUME NEW q \in Objects, GroupsAgree(lruCacheGroups, groupNumber, q)
           PROVE  /\ GroupsAgree(lruCacheGroups', groupNumber', q)
                  /\ groupNumber'[q] = None <=> groupNumber[q] = None
      <3>1. ASSUME NEW k \in Groups
            PROVE  Has(lruCacheGroups'[k], q) <=> groupNumber'[q] = k
        <4>1. Has(lruCacheGroups[k], q) <=> groupNumber[q] = k
          BY <2>13 DEF GroupsAgree
        <4>2. Has(left[k], q) <=> groupNumber[q] = k /\ q # o
          BY <2>9, <4>1 DEF g
        <4>3. CASE k = target
          BY <2>10, <2>11, <2>12, <4>2, <4>3
        <4>4. CASE k # target
          BY <2>11, <2>12, <4>2, <4>4
        <4> QED
          BY <4>3, <4>4
      <3>2. groupNumber'[q] = None <=> groupNumber[q] = None
        BY <1>1, <2>1, <2>4, <2>12 DEF g
      <3> QED
        BY <3>1, <3>2 DEF GroupsAgree
    <2> QED
      BY <2>11, <2>12, <2>13 DEF MapTypes
  <1>3. CASE ~peekContent(o)
    <2>1. /\ groupNumber' = [groupNumber EXCEPT ![o] = None]
          /\ UNCHANGED lruCacheGroups
      BY <1>3 DEF useContent
    <2>2. MapTypes(lruCacheGroups', groupNumber')
      BY <2>1 DEF MapTypes
    <2>3. \A q \in Objects \ {o} : groupNumber'[q] = groupNumber[q]
      BY <2>1 DEF MapTypes
    <2>4. GroupsAgree(lruCacheGroups, groupNumber, o) => groupNumber'[o] = groupNumber[o]
      <3>1. GroupsAgree(lruCacheGroups, groupNumber, o) => groupNumber[o] = None
        BY <1>3 DEF peekContent, GroupsAgree, MapTypes
      <3> QED
        BY <2>1, <3>1 DEF MapTypes
    <2> QED
      BY <2>1, <2>2, <2>3, <2>4 DEF GroupsAgree
  <1> QED
    BY <1>2, <1>3

(* dropById takes the objects in D out of the cache, except from group 0. *)
LEMMA DropGroups ==
    ASSUME NEW groups, NEW number, NEW D, MapTypes(groups, number)
    PROVE  /\ MapTypes(GroupsAfterDrop(groups, number, D), NumbersAfterDrop(number, D))
           /\ \A o \in Objects :
                  GroupsAgree(groups, number, o)
                      => GroupsAgree(GroupsAfterDrop(groups, number, D),
                                     NumbersAfterDrop(number, D), o)
  <1> DEFINE Stays(g) == {o \in Objects : ~(o \in D /\ InLaterGroup(number, o) /\ number[o] = g)}
             after == GroupsAfterDrop(groups, number, D)
             numbers == NumbersAfterDrop(number, D)
  <1>1. Groups \subseteq Nat /\ None \notin Groups
    BY DistributorAssumption DEF Groups
  <1>2. after = [g \in Groups |-> OnlyIds(groups[g], Stays(g))]
    BY DEF GroupsAfterDrop
  <1> HIDE DEF after
  <1>3. ASSUME NEW g \in Groups
        PROVE  /\ after[g] \in Seq(Item)
               /\ \A o \in Objects : Has(after[g], o) <=> o \in Stays(g) /\ Has(groups[g], o)
    <2>1. groups[g] \in Seq(Item)
      BY DEF MapTypes, GroupTypes
    <2>2. after[g] = OnlyIds(groups[g], Stays(g))
      BY <1>2
    <2> HIDE DEF Stays
    <2> QED
      BY <2>1, <2>2, OnlyIdsItems
  <1>4. after \in GroupTypes
    BY <1>2, <1>3 DEF GroupTypes
  <1>5. numbers \in [Objects -> Groups \cup {None}]
    BY DEF NumbersAfterDrop, MapTypes
  <1>6. ASSUME NEW o \in Objects, GroupsAgree(groups, number, o)
        PROVE  GroupsAgree(after, numbers, o)
    <2>1. numbers[o] = IF o \in D /\ InLaterGroup(number, o) THEN None ELSE number[o]
      BY DEF NumbersAfterDrop
    <2> HIDE DEF numbers
    <2>2. ASSUME NEW g \in Groups
          PROVE  Has(after[g], o) <=> numbers[o] = g
      <3>1. Has(groups[g], o) <=> number[o] = g
        BY <1>6 DEF GroupsAgree
      <3>2. o \in Stays(g) <=> ~(o \in D /\ InLaterGroup(number, o) /\ number[o] = g)
        OBVIOUS
      <3> HIDE DEF Stays
      <3> QED
        BY <1>1, <1>3, <2>1, <3>1, <3>2
    <2> QED
      BY <2>2 DEF GroupsAgree
  <1> QED
    BY <1>4, <1>5, <1>6 DEF MapTypes, after, numbers

(* What load makes of the stored groups: an object is in one of them. *)
LEMMA LoadGroups ==
    ASSUME NEW stored \in Stored \cup {None}
    PROVE  /\ MapTypes(load(stored), loadGroupNumber(load(stored)))
           /\ \A o \in Objects : GroupsAgree(load(stored), loadGroupNumber(load(stored)), o)
  <1> DEFINE raw == IF stored = None THEN [g \in Groups |-> << >>] ELSE stored.lruCacheGroups
             First(g) == {o \in Objects : \A h \in 0 .. g - 1 : ~Has(raw[h], o)}
             groups == load(stored)
             number == loadGroupNumber(groups)
  <1>1. Groups = 0 .. CACHE_GROUPS_COUNT - 1 /\ CACHE_GROUPS_COUNT \in Nat \ {0}
        /\ None \notin Groups /\ 0 \in Groups
    BY DistributorAssumption DEF Groups
  <1>2. raw \in GroupTypes
    BY DEF Stored, GroupTypes
  <1>3. groups = [g \in Groups |-> OnlyIds(raw[g], First(g))]
    BY DEF load
  <1> HIDE DEF raw, groups
  <1>5. ASSUME NEW g \in Groups
        PROVE  /\ groups[g] \in Seq(Item)
               /\ \A o \in Objects : Has(groups[g], o) <=> o \in First(g) /\ Has(raw[g], o)
    <2>1. raw[g] \in Seq(Item) /\ groups[g] = OnlyIds(raw[g], First(g))
      BY <1>2, <1>3 DEF GroupTypes
    <2> HIDE DEF First
    <2> QED
      BY <2>1, OnlyIdsItems
  <1>6. groups \in GroupTypes
    BY <1>3, <1>5 DEF GroupTypes
  <1>7. number \in [Objects -> Groups \cup {None}]
    BY DEF loadGroupNumber
  <1>8. ASSUME NEW o \in Objects, NEW g \in Groups, NEW h \in Groups,
               Has(groups[g], o), Has(groups[h], o)
        PROVE  g = h
    <2>1. o \in First(g) /\ o \in First(h) /\ Has(raw[g], o) /\ Has(raw[h], o)
      BY <1>5, <1>8
    <2>2. ~(h \in 0 .. g - 1) /\ ~(g \in 0 .. h - 1)
      BY <2>1
    <2> QED
      BY <1>1, <2>2
  <1>9. ASSUME NEW o \in Objects
        PROVE  \A g \in Groups : Has(groups[g], o) <=> number[o] = g
    <2>1. CASE \E g \in Groups : Has(groups[g], o)
      <3>1. number[o] \in Groups /\ Has(groups[number[o]], o)
        BY <2>1 DEF loadGroupNumber
      <3> QED
        BY <1>8, <3>1
    <2>2. CASE ~\E g \in Groups : Has(groups[g], o)
      BY <1>1, <2>2 DEF loadGroupNumber
    <2> QED
      BY <2>1, <2>2
  <1> QED
    BY <1>6, <1>7, <1>9 DEF MapTypes, GroupsAgree, groups

-----------------------------------------------------------------------------
(* The cache state, whatever the requests do. *)

(* The steps that change the cache state, the others leave it alone. *)
LEMMA CacheSteps ==
    ASSUME [Next]_vars
    PROVE  \/ UNCHANGED <<lruCacheGroups, groupNumber, mimeTypes, cacheFile, saving>>
           \/ \E r \in Requests, o \in Objects : asset(r, o)
           \/ \E r \in Requests : ContentAccepted(r)
           \/ \E r \in Requests : rejectContent(r)
           \/ \E r \in Requests : EvictOne(r)
           \/ cacheCleanup \/ save \/ SaveDone \/ Restart
  <1>1. ASSUME NEW r \in Requests, Handle(r)
        PROVE  \/ UNCHANGED <<lruCacheGroups, groupNumber, mimeTypes, cacheFile, saving>>
               \/ ContentAccepted(r) \/ rejectContent(r) \/ EvictOne(r)
    BY <1>1 DEF Handle, NotServed, serveMissingAsset, SourceNotFound, SourceFound, EvictSleep,
                EvictWake, StreamAborted, handleNewContent, onData, ContentVerified,
                cacheVars, storedVars
  <1>2. downloadJob \/ ObligationsChange \/ fetchSupportedDataObjects \/ UNCHANGED vars
           => UNCHANGED <<lruCacheGroups, groupNumber, mimeTypes, cacheFile, saving>>
    BY DEF downloadJob, ObligationsChange, fetchSupportedDataObjects, vars, cacheVars, storedVars
  <1> QED
    BY <1>1, <1>2 DEF Next

(* Only the maps change. *)
LEMMA MapsKeepTypes ==
    ASSUME CacheTypes, MapTypes(lruCacheGroups', groupNumber'), mimeTypes' \in SUBSET Objects,
           UNCHANGED <<cacheFile, saving>>
    PROVE  CacheTypes'
  BY DEF CacheTypes, MapTypes

(* dropById of any objects. *)
LEMMA DropByIdKeepsCache ==
    ASSUME CacheTypes, NEW D, dropById(D), UNCHANGED <<cacheFile, saving>>
    PROVE  CacheTypes'
  <1>1. MapTypes(lruCacheGroups, groupNumber)
    BY DEF CacheTypes, MapTypes
  <1>2. MapTypes(lruCacheGroups', groupNumber')
    BY <1>1, DropGroups DEF dropById
  <1>3. mimeTypes' \in SUBSET Objects
    BY DEF dropById, CacheTypes
  <1> QED
    BY <1>2, <1>3, MapsKeepTypes

(* What is written to cache.json is the state of the cache. *)
LEMMA SerializedCache ==
    ASSUME CacheTypes
    PROVE  serializeData \in Stored
  BY DEF serializeData, Stored, CacheTypes

(* startupInit: load, and drop what startup does not keep. *)
LEMMA StartupKeepsCache ==
    ASSUME FileTypes, supported \in SUBSET Objects,
           NEW stored \in Stored \cup {None}, startupInit(stored)
    PROVE  /\ MapTypes(lruCacheGroups', groupNumber')
           /\ mimeTypes' \in SUBSET Objects
           /\ \A o \in Objects : GroupsAgree(lruCacheGroups', groupNumber', o)
  <1> DEFINE groups == load(stored)
             number == loadGroupNumber(groups)
             dropped == DroppedAtStartup(number)
  <1>1. /\ MapTypes(groups, number)
        /\ \A o \in Objects : GroupsAgree(groups, number, o)
    BY LoadGroups
  <1>2. /\ lruCacheGroups' = GroupsAfterDrop(groups, number, dropped)
        /\ groupNumber' = NumbersAfterDrop(number, dropped)
    BY DEF startupInit
  <1>3. mimeTypes' \in SUBSET Objects
    BY DEF startupInit, KeptAtStartup, Stored
  <1> HIDE DEF groups, number, dropped
  <1> QED
    BY <1>1, <1>2, <1>3, DropGroups

(* Every step keeps the cache state well formed. *)
LEMMA NextKeepsCache ==
    ASSUME CacheTypes, FileTypes, supported \in SUBSET Objects, WriteTypes, [Next]_vars
    PROVE  CacheTypes'
  <1>0. MapTypes(lruCacheGroups, groupNumber)
    BY DEF CacheTypes, MapTypes
  <1>1. CASE UNCHANGED <<lruCacheGroups, groupNumber, mimeTypes, cacheFile, saving>>
    BY <1>1 DEF CacheTypes
  <1>2. ASSUME NEW r \in Requests, NEW o \in Objects, asset(r, o)
        PROVE  CacheTypes'
    <2>1. UNCHANGED <<mimeTypes, cacheFile, saving>>
          /\ (useContent(o) \/ UNCHANGED <<lruCacheGroups, groupNumber>>)
      BY <1>2 DEF asset, serveAssetFromFilesystem, storedVars
    <2>2. MapTypes(lruCacheGroups', groupNumber')
      BY <1>0, <2>1, UseContentGroups
    <2>3. mimeTypes' \in SUBSET Objects
      BY <2>1 DEF CacheTypes
    <2> QED
      BY <2>1, <2>2, <2>3, MapsKeepTypes
  <1>3. ASSUME NEW r \in Requests, ContentAccepted(r)
        PROVE  CacheTypes'
    <2> DEFINE o == handler[r].obj
    <2>1. o \in Objects
      BY <1>3 DEF ContentAccepted, At, WriteTypes, Writes, DownloadPlaces
    <2>2. newContent(o) /\ UNCHANGED <<cacheFile, saving>> /\ mimeTypes' = mimeTypes \cup {o}
      BY <1>3 DEF ContentAccepted, storedVars
    <2> HIDE DEF o
    <2>3. MapTypes(lruCacheGroups', groupNumber')
      BY <1>0, <2>1, <2>2, NewContentGroups
    <2>4. mimeTypes' \in SUBSET Objects
      BY <2>1, <2>2 DEF CacheTypes
    <2> QED
      BY <2>2, <2>3, <2>4, MapsKeepTypes
  <1>4. ASSUME NEW r \in Requests, rejectContent(r)
        PROVE  CacheTypes'
    <2>1. (\E D : dropById(D)) /\ UNCHANGED <<cacheFile, saving>>
      BY <1>4 DEF rejectContent, storedVars
    <2> QED
      BY <2>1, DropByIdKeepsCache
  <1>5. ASSUME NEW r \in Requests, EvictOne(r)
        PROVE  CacheTypes'
    <2>1. (\E D : dropById(D)) /\ UNCHANGED <<cacheFile, saving>>
      BY <1>5 DEF EvictOne, drop, storedVars
    <2> QED
      BY <2>1, DropByIdKeepsCache
  <1>6. CASE cacheCleanup
    <2>1. (\E D : dropById(D)) /\ UNCHANGED <<cacheFile, saving>>
      BY <1>6 DEF cacheCleanup, drop, storedVars
    <2> QED
      BY <2>1, DropByIdKeepsCache
  <1>7. CASE save \/ SaveDone
    <2>1. /\ UNCHANGED <<lruCacheGroups, groupNumber, mimeTypes>>
          /\ {cacheFile', saving'} \subseteq {cacheFile, saving, serializeData, None}
      BY <1>7 DEF save, SaveDone, cacheVars
    <2> QED
      BY <2>1, SerializedCache DEF CacheTypes
  <1>8. CASE Restart
    <2>1. PICK stored \in {cacheFile, serializeData} : startupInit(stored) /\ cacheFile' = stored
      BY <1>8 DEF Restart
    <2>2. stored \in Stored \cup {None}
      BY <2>1, SerializedCache DEF CacheTypes
    <2>3. MapTypes(lruCacheGroups', groupNumber') /\ mimeTypes' \in SUBSET Objects
      BY <2>1, <2>2, StartupKeepsCache
    <2>4. saving' = None
      BY <1>8 DEF Restart
    <2> QED
      BY <2>1, <2>2, <2>3, <2>4 DEF CacheTypes, MapTypes
  <1> QED
    BY <1>1, <1>2, <1>3, <1>4, <1>5, <1>6, <1>7, <1>8, CacheSteps

-----------------------------------------------------------------------------
(* The places of the handlers. *)

(* The jobs in the queue are queued, each once, and the eviction loop runs *)
(* for a download that waits for space.                                    *)
QueueInv ==
    /\ \A i \in 1 .. Len(downloadQueue) : handler[downloadQueue[i]].pc = "queued"
    /\ \A i, j \in 1 .. Len(downloadQueue) : downloadQueue[i] = downloadQueue[j] => i = j
    /\ evicting # None => handler[evicting].pc = "evict"

PlaceInv == QueueInv /\ WriteTypes

(* Handlers end that neither wait in the queue nor for space. *)
LEMMA EndsKeepPlaces ==
    ASSUME IndInv, PlaceInv, NEW rs, NEW D, EndAndUnlink(rs, D),
           \A r \in rs \cap Requests : handler[r].pc \notin {"queued", "evict"},
           UNCHANGED <<downloadQueue, evicting>>
    PROVE  PlaceInv'
  <1>1. handler \in [Requests -> Handler] /\ downloadQueue \in Seq(Requests)
        /\ evicting \in Requests \cup {None}
    BY DEF IndInv, DownloadTypes
  <1>2. Writes(Ended)
    BY DEF Writes, Ended, NewHandler, DownloadPlaces
  <1>3. ASSUME NEW r \in Requests
        PROVE  /\ Writes(handler'[r])
               /\ handler[r].pc \in {"queued", "evict"} => handler'[r].pc = handler[r].pc
    <2>1. Writes(handler[r]) /\ handler[r] \in Handler
      BY <1>1 DEF PlaceInv, WriteTypes
    <2>2. CASE r \in rs
      BY <1>2, <1>3, <2>2 DEF EndAndUnlink
    <2>3. CASE r \notin rs
      <3> DEFINE h == [handler[r] EXCEPT !.linked = @ /\ handler[r].obj \notin D]
      <3>1. handler'[r] = h
        BY <2>3 DEF EndAndUnlink
      <3>2. /\ h.pc = handler[r].pc /\ h.obj = handler[r].obj /\ h.written = handler[r].written
            /\ h.good = handler[r].good /\ (h.linked => handler[r].linked)
        BY <2>1 DEF Handler
      <3> HIDE DEF h
      <3> QED
        BY <2>1, <3>1, <3>2 DEF Writes
    <2> QED
      BY <2>2, <2>3
  <1>4. WriteTypes'
    BY <1>3 DEF WriteTypes
  <1>5. QueueInv'
    BY <1>1, <1>3 DEF PlaceInv, QueueInv
  <1> QED
    BY <1>4, <1>5 DEF PlaceInv

(* A handler moves on that neither waits in the queue nor for space. *)
LEMMA MoveKeepsPlaces ==
    ASSUME IndInv, PlaceInv, NEW r \in Requests, NEW h, Writes(h),
           handler' = [handler EXCEPT ![r] = h],
           handler[r].pc \notin {"queued", "evict"},
           UNCHANGED <<downloadQueue, evicting>>
    PROVE  PlaceInv'
  <1>1. handler \in [Requests -> Handler] /\ downloadQueue \in Seq(Requests)
        /\ evicting \in Requests \cup {None}
    BY DEF IndInv, DownloadTypes
  <1>2. handler'[r] = h /\ \A q \in Requests \ {r} : handler'[q] = handler[q]
    BY <1>1
  <1>3. WriteTypes'
    BY <1>2 DEF PlaceInv, WriteTypes
  <1>4. QueueInv'
    BY <1>1, <1>2 DEF PlaceInv, QueueInv
  <1> QED
    BY <1>3, <1>4 DEF PlaceInv

(* Handlers and the queue are left alone. *)
LEMMA RestKeepsPlaces ==
    ASSUME PlaceInv, UNCHANGED <<handler, downloadQueue>>,
           evicting' # None => handler[evicting'].pc = "evict"
    PROVE  PlaceInv'
  BY DEF PlaceInv, QueueInv, WriteTypes

(* servePendingDownloadAsset, by a handler that has no download. *)
LEMMA JoinKeepsPlaces ==
    ASSUME IndInv, PlaceInv, NEW r \in Requests, NEW o \in Objects,
           handler[r].pc \in {"new", "info"}, servePendingDownloadAsset(r, o),
           UNCHANGED <<downloadQueue, evicting>>
    PROVE  PlaceInv'
  <1>1. handler \in [Requests -> Handler] /\ handler[r] \in Handler /\ Writes(handler[r])
    BY DEF IndInv, DownloadTypes, PlaceInv, WriteTypes
  <1>2. CASE End({r})
    BY <1>2, EndsKeepPlaces DEF End
  <1>3. CASE ~End({r})
    <2> DEFINE h == [handler[r] EXCEPT !.pc = "join", !.obj = o, !.joined = pending[o]]
    <2>1. handler' = [handler EXCEPT ![r] = h]
      BY <1>1, <1>3 DEF servePendingDownloadAsset
    <2>2. h.pc = "join" /\ h.obj = o /\ h.written = handler[r].written /\ h.linked = handler[r].linked
      BY <1>1 DEF Handler
    <2> HIDE DEF h
    <2>3. Writes(h)
      BY <1>1, <2>2 DEF Writes
    <2> QED
      BY <2>1, <2>3, MoveKeepsPlaces
  <1> QED
    BY <1>2, <1>3

(* A request comes. *)
LEMMA AssetKeepsPlaces ==
    ASSUME IndInv, PlaceInv, NEW r \in Requests, NEW o \in Objects, asset(r, o)
    PROVE  PlaceInv'
  <1>1. handler \in [Requests -> Handler] /\ handler[r] \in Handler /\ Writes(handler[r])
    BY DEF IndInv, DownloadTypes, PlaceInv, WriteTypes
  <1>2. handler[r].pc = "new" /\ UNCHANGED <<downloadQueue, evicting>>
    BY DEF asset, At, queueVars
  <1>3. CASE End({r})
    BY <1>2, <1>3, EndsKeepPlaces DEF End
  <1>4. CASE servePendingDownloadAsset(r, o)
    BY <1>2, <1>4, JoinKeepsPlaces
  <1>5. CASE handler' = [handler EXCEPT ![r].pc = "info", ![r].obj = o]
    <2> DEFINE h == [handler[r] EXCEPT !.pc = "info", !.obj = o]
    <2>1. handler' = [handler EXCEPT ![r] = h]
      BY <1>1, <1>5
    <2>2. h.pc = "info" /\ h.obj = o /\ h.written = handler[r].written /\ h.linked = handler[r].linked
      BY <1>1 DEF Handler
    <2> HIDE DEF h
    <2>3. Writes(h)
      BY <1>1, <1>2, <2>2 DEF Writes
    <2> QED
      BY <1>2, <2>1, <2>3, MoveKeepsPlaces
  <1> QED
    BY <1>3, <1>4, <1>5 DEF asset, serveAssetFromFilesystem

(* A job is added to the queue. *)
LEMMA QueueKeepsPlaces ==
    ASSUME IndInv, PlaceInv, NEW r \in Requests, handler[r].pc = "info",
           downloadDataObject(r, handler[r].obj), UNCHANGED evicting
    PROVE  PlaceInv'
  <1> DEFINE h == [handler[r] EXCEPT !.pc = "queued"]
             L == Len(downloadQueue)
  <1>1. /\ handler \in [Requests -> Handler] /\ handler[r] \in Handler /\ Writes(handler[r])
        /\ downloadQueue \in Seq(Requests) /\ evicting \in Requests \cup {None}
    BY DEF IndInv, DownloadTypes, PlaceInv, WriteTypes
  <1>2. handler' = [handler EXCEPT ![r] = h] /\ downloadQueue' = Append(downloadQueue, r)
    BY <1>1 DEF downloadDataObject
  <1>3. /\ h.pc = "queued" /\ h.obj = handler[r].obj
        /\ h.written = handler[r].written /\ h.linked = handler[r].linked
    BY <1>1 DEF Handler
  <1> HIDE DEF h
  <1>4. Writes(h)
    BY <1>1, <1>3 DEF Writes, DownloadPlaces
  <1>5. handler'[r] = h /\ \A q \in Requests \ {r} : handler'[q] = handler[q]
    BY <1>1, <1>2
  <1>6. WriteTypes'
    BY <1>4, <1>5 DEF PlaceInv, WriteTypes
  <1>7. /\ L \in Nat /\ Len(downloadQueue') = L + 1 /\ downloadQueue'[L + 1] = r
        /\ \A i \in 1 .. L : /\ downloadQueue'[i] = downloadQueue[i]
                             /\ downloadQueue[i] \in Requests \ {r}
                             /\ handler[downloadQueue[i]].pc = "queued"
    BY <1>1, <1>2 DEF PlaceInv, QueueInv
  <1>8. \A i \in 1 .. L + 1 : i \in 1 .. L \/ i = L + 1
    BY <1>7
  <1>9. \A i, j \in 1 .. L : downloadQueue[i] = downloadQueue[j] => i = j
    BY DEF PlaceInv, QueueInv
  <1> HIDE DEF L
  <1>10. \A i \in 1 .. Len(downloadQueue') : handler'[downloadQueue'[i]].pc = "queued"
    BY <1>3, <1>5, <1>7, <1>8
  <1>11. \A i, j \in 1 .. Len(downloadQueue') : downloadQueue'[i] = downloadQueue'[j] => i = j
    BY <1>7, <1>8, <1>9
  <1>12. evicting' # None => handler'[evicting'].pc = "evict"
    BY <1>1, <1>5 DEF PlaceInv, QueueInv
  <1> QED
    BY <1>6, <1>10, <1>11, <1>12 DEF PlaceInv, QueueInv

(* The first job of the queue starts. *)
LEMMA JobKeepsPlaces ==
    ASSUME IndInv, PlaceInv, downloadJob
    PROVE  PlaceInv'
  <1> DEFINE r == Head(downloadQueue)
             h == [handler[r] EXCEPT !.pc = "source"]
  <1>1. /\ handler \in [Requests -> Handler]
        /\ downloadQueue \in Seq(Requests) /\ downloadQueue # << >>
    BY DEF IndInv, DownloadTypes, downloadJob
  <1>2. /\ r = downloadQueue[1] /\ r \in Requests /\ 1 \in 1 .. Len(downloadQueue)
        /\ Len(downloadQueue) \in Nat
    BY <1>1
  <1>3. /\ downloadQueue' = Tail(downloadQueue) /\ Len(downloadQueue') = Len(downloadQueue) - 1
        /\ \A i \in 1 .. Len(downloadQueue') : downloadQueue'[i] = downloadQueue[i + 1]
    BY <1>1 DEF downloadJob
  <1>4. handler[r].pc = "queued" /\ handler[r] \in Handler /\ Writes(handler[r])
    BY <1>1, <1>2 DEF PlaceInv, QueueInv, WriteTypes
  <1>5. handler' = [handler EXCEPT ![r] = h]
    BY <1>1, <1>2 DEF downloadJob
  <1>6. /\ h.pc = "source" /\ h.obj = handler[r].obj
        /\ h.written = handler[r].written /\ h.linked = handler[r].linked
    BY <1>4 DEF Handler
  <1> HIDE DEF h
  <1>7. Writes(h)
    BY <1>4, <1>6 DEF Writes, DownloadPlaces
  <1> HIDE DEF r
  <1>8. handler'[r] = h /\ \A q \in Requests \ {r} : handler'[q] = handler[q]
    BY <1>1, <1>2, <1>5
  <1>9. WriteTypes'
    BY <1>7, <1>8 DEF PlaceInv, WriteTypes
  <1>10. ASSUME NEW i \in 1 .. Len(downloadQueue')
         PROVE  /\ i + 1 \in 1 .. Len(downloadQueue)
                /\ downloadQueue'[i] \in Requests \ {r}
                /\ handler[downloadQueue'[i]].pc = "queued"
    <2>1. i + 1 \in 1 .. Len(downloadQueue) /\ i + 1 # 1
      BY <1>2, <1>3
    <2>2. downloadQueue[i + 1] \in Requests /\ downloadQueue[i + 1] # downloadQueue[1]
      BY <1>1, <1>2, <2>1 DEF PlaceInv, QueueInv
    <2> QED
      BY <1>2, <1>3, <2>1, <2>2 DEF PlaceInv, QueueInv
  <1>11. \A i \in 1 .. Len(downloadQueue') : handler'[downloadQueue'[i]].pc = "queued"
    BY <1>8, <1>10
  <1>12. ASSUME NEW i \in 1 .. Len(downloadQueue'), NEW j \in 1 .. Len(downloadQueue'),
                downloadQueue'[i] = downloadQueue'[j]
         PROVE  i = j
    <2>1. i + 1 \in 1 .. Len(downloadQueue) /\ j + 1 \in 1 .. Len(downloadQueue)
      BY <1>10
    <2>2. downloadQueue[i + 1] = downloadQueue[j + 1]
      BY <1>3, <1>12
    <2>3. i + 1 = j + 1
      BY <2>1, <2>2 DEF PlaceInv, QueueInv
    <2> QED
      BY <1>2, <1>3, <2>3
  <1>13. evicting' = None
    BY DEF downloadJob, EventLoopFree
  <1> QED
    BY <1>9, <1>11, <1>12, <1>13 DEF PlaceInv, QueueInv

(* Chunks follow one another without a gap. *)
LEMMA AlignedStep ==
    ASSUME NEW n \in Nat, Aligned(n)
    PROVE  /\ Aligned(n + Chunk)
           /\ \A m \in Nat : Aligned(m) /\ n < m => n + Chunk <= m
  <1>1. Chunk \in Nat \ {0}
    BY DistributorAssumption
  <1>2. PICK i \in 0 .. n : n = Chunk * i
    BY DEF Aligned
  <1>3. n + Chunk = Chunk * (i + 1) /\ i + 1 \in 0 .. n + Chunk
    BY <1>1, <1>2
  <1>4. ASSUME NEW m \in Nat, Aligned(m), n < m
        PROVE  n + Chunk <= m
    <2>1. PICK j \in 0 .. m : m = Chunk * j
      BY <1>4 DEF Aligned
    <2>2. i < j
      <3>1. SUFFICES ASSUME j <= i PROVE FALSE
        OBVIOUS
      <3>2. Chunk * j <= Chunk * i
        BY <1>1, <2>1, <3>1
      <3> QED
        BY <1>1, <1>2, <1>4, <2>1, <3>2
    <2>3. Chunk * i + Chunk <= Chunk * j
      BY <1>1, <2>1, <2>2
    <2> QED
      BY <1>2, <2>1, <2>3
  <1> QED
    BY <1>3, <1>4 DEF Aligned

(* The start and the size of an object are aligned. *)
LEMMA AlignedEnds ==
    /\ Aligned(0)
    /\ \A o \in Objects : Size[o] \in Nat \ {0} /\ Aligned(Size[o])
  <1>1. 0 \in 0 .. 0 /\ 0 = Chunk * 0
    BY DistributorAssumption
  <1> QED
    BY <1>1, DistributorAssumption DEF Aligned

(* A source is found. *)
LEMMA SourceFoundKeepsPlaces ==
    ASSUME IndInv, PlaceInv, NEW r \in Requests, SourceFound(r)
    PROVE  PlaceInv'
  <1>1. PICK good \in Streams :
            handler' = [q \in Requests |->
                           IF q = r THEN [handler[r] EXCEPT !.pc = "evict", !.good = good]
                           ELSE IF At(q, "join") /\ handler[q].joined = r THEN Ended
                           ELSE handler[q]]
    BY DEF SourceFound
  <1> DEFINE h == [handler[r] EXCEPT !.pc = "evict", !.good = good]
  <1>2. /\ handler \in [Requests -> Handler] /\ handler[r] \in Handler /\ Writes(handler[r])
        /\ downloadQueue \in Seq(Requests) /\ handler[r].pc = "source"
    BY DEF IndInv, DownloadTypes, PlaceInv, WriteTypes, SourceFound, At
  <1>3. /\ h.pc = "evict" /\ h.obj = handler[r].obj
        /\ h.written = handler[r].written /\ h.linked = handler[r].linked
    BY <1>2 DEF Handler
  <1>4. /\ handler'[r] = h
        /\ \A q \in Requests \ {r} : handler'[q] \in {Ended, handler[q]}
        /\ \A q \in Requests \ {r} : ~At(q, "join") => handler'[q] = handler[q]
    BY <1>1
  <1> HIDE DEF h
  <1>5. Writes(h)
    BY <1>2, <1>3 DEF Writes, DownloadPlaces
  <1>6. Writes(Ended)
    BY DEF Writes, Ended, NewHandler, DownloadPlaces
  <1>7. WriteTypes'
    BY <1>4, <1>5, <1>6 DEF PlaceInv, WriteTypes
  <1>8. evicting' = r /\ downloadQueue' = downloadQueue
    BY DEF SourceFound, queueVars
  <1>9. \A i \in 1 .. Len(downloadQueue) :
            /\ downloadQueue[i] \in Requests \ {r}
            /\ handler'[downloadQueue[i]].pc = "queued"
    BY <1>2, <1>4 DEF PlaceInv, QueueInv, At
  <1> QED
    BY <1>3, <1>4, <1>7, <1>8, <1>9 DEF PlaceInv, QueueInv

(* The file is opened: nothing is written yet. *)
LEMMA OpenKeepsPlaces ==
    ASSUME IndInv, PlaceInv, NEW r \in Requests, handleNewContent(r)
    PROVE  PlaceInv'
  <1> DEFINE h == [handler[r] EXCEPT !.pc = "stream", !.linked = TRUE]
  <1>1. /\ handler \in [Requests -> Handler] /\ handler[r] \in Handler /\ Writes(handler[r])
        /\ downloadQueue \in Seq(Requests)
    BY DEF IndInv, DownloadTypes, PlaceInv, WriteTypes
  <1>2. handler[r].pc = "evict"
    BY DistributorAssumption DEF handleNewContent, PlaceInv, QueueInv
  <1>3. /\ handler' = [handler EXCEPT ![r] = h]
        /\ UNCHANGED downloadQueue /\ evicting' = None
    BY <1>1 DEF handleNewContent, queueVars
  <1>4. h.pc = "stream" /\ h.obj = handler[r].obj /\ h.written = handler[r].written
    BY <1>1 DEF Handler
  <1> HIDE DEF h
  <1>5. handler[r].obj \in Objects /\ handler[r].written = 0
    BY <1>1, <1>2 DEF Writes, DownloadPlaces
  <1>6. Size[h.obj] \in Nat /\ Chunk \in Nat /\ Aligned(0)
    BY <1>4, <1>5, AlignedEnds, DistributorAssumption
  <1>7. Writes(h)
    BY <1>4, <1>5, <1>6 DEF Writes
  <1>8. handler'[r] = h /\ \A q \in Requests \ {r} : handler'[q] = handler[q]
    BY <1>1, <1>3
  <1>9. WriteTypes'
    BY <1>7, <1>8 DEF PlaceInv, WriteTypes
  <1>10. \A i \in 1 .. Len(downloadQueue) :
            /\ downloadQueue[i] \in Requests \ {r}
            /\ handler'[downloadQueue[i]].pc = "queued"
    BY <1>1, <1>2, <1>8 DEF PlaceInv, QueueInv
  <1> QED
    BY <1>3, <1>9, <1>10 DEF PlaceInv, QueueInv

(* A chunk is written. *)
LEMMA DataKeepsPlaces ==
    ASSUME IndInv, PlaceInv, NEW r \in Requests, onData(r)
    PROVE  PlaceInv'
  <1> DEFINE h == [handler[r] EXCEPT !.written = @ + Chunk]
             s == Size[handler[r].obj]
             start == handler[r].written
  <1>1. /\ handler \in [Requests -> Handler] /\ handler[r] \in Handler /\ Writes(handler[r])
        /\ handler[r].pc = "stream" /\ UNCHANGED <<downloadQueue, evicting>>
    BY DEF IndInv, DownloadTypes, PlaceInv, WriteTypes, onData, At, queueVars
  <1>2. handler' = [handler EXCEPT ![r] = h]
    BY <1>1 DEF onData
  <1>3. /\ h.pc = "stream" /\ h.obj = handler[r].obj
        /\ h.written = start + Chunk /\ h.good = handler[r].good
    BY <1>1 DEF Handler
  <1>4. handler[r].obj \in Objects /\ start \in Nat /\ Aligned(start)
    BY <1>1 DEF Writes, Handler, DownloadPlaces
  <1>5. Chunk \in Nat /\ s \in Nat /\ Aligned(s)
    BY <1>4, AlignedEnds, DistributorAssumption
  <1>6. start < s \/ (start = s /\ ~handler[r].good)
    BY DEF onData
  <1> HIDE DEF h
  <1>7. Aligned(h.written) /\ h.written <= s + Chunk /\ (h.good => h.written <= s)
    <2>1. Aligned(start + Chunk) /\ (start < s => start + Chunk <= s)
      BY <1>4, <1>5, AlignedStep
    <2> HIDE DEF s, start
    <2> QED
      BY <1>3, <1>4, <1>5, <1>6, <2>1
  <1>8. Writes(h)
    BY <1>3, <1>4, <1>7 DEF Writes
  <1> QED
    BY <1>1, <1>2, <1>8, MoveKeepsPlaces

(* The download is complete and right. *)
LEMMA VerifiedKeepsPlaces ==
    ASSUME IndInv, PlaceInv, NEW r \in Requests, ContentVerified(r)
    PROVE  PlaceInv'
  <1> DEFINE h == [handler[r] EXCEPT !.pc = "mime"]
  <1>1. /\ handler \in [Requests -> Handler] /\ handler[r] \in Handler /\ Writes(handler[r])
        /\ handler[r].pc = "stream" /\ UNCHANGED <<downloadQueue, evicting>>
        /\ handler[r].good /\ handler[r].written = Size[handler[r].obj]
    BY DEF IndInv, DownloadTypes, PlaceInv, WriteTypes, ContentVerified, At
  <1>2. handler' = [handler EXCEPT ![r] = h]
    BY <1>1 DEF ContentVerified
  <1>3. /\ h.pc = "mime" /\ h.obj = handler[r].obj
        /\ h.written = handler[r].written /\ h.good = handler[r].good
    BY <1>1 DEF Handler
  <1> HIDE DEF h
  <1>4. Writes(h)
    BY <1>1, <1>3 DEF Writes, DownloadPlaces
  <1> QED
    BY <1>1, <1>2, <1>4, MoveKeepsPlaces

(* Every step keeps the places of the handlers. *)
LEMMA NextKeepsPlaces ==
    ASSUME IndInv, PlaceInv, supported \in SUBSET Objects, [Next]_vars
    PROVE  PlaceInv'
  <1>1. CASE \E r \in Requests, o \in Objects : asset(r, o)
    BY <1>1, AssetKeepsPlaces
  <1>2. ASSUME NEW r \in Requests, Handle(r)
        PROVE  PlaceInv'
    <2>0. ASSUME NEW D PROVE \A q \in Failed(D) : handler[q].pc = "join"
      BY DEF Failed, At
    <2>1. CASE NotServed(r)
      BY <2>1, EndsKeepPlaces DEF NotServed, End, At, queueVars
    <2>2. CASE serveMissingAsset(r)
      <3>1. handler[r].pc = "info" /\ UNCHANGED evicting /\ handler[r].obj \in Objects
        BY <2>2 DEF serveMissingAsset, At
      <3>2. CASE End({r}) /\ UNCHANGED downloadQueue
        BY <3>1, <3>2, EndsKeepPlaces DEF End
      <3>3. CASE servePendingDownloadAsset(r, handler[r].obj) /\ UNCHANGED downloadQueue
        BY <3>1, <3>3, JoinKeepsPlaces
      <3>4. CASE downloadDataObject(r, handler[r].obj)
        BY <3>1, <3>4, QueueKeepsPlaces
      <3> QED
        BY <2>2, <3>2, <3>3, <3>4 DEF serveMissingAsset
    <2>3. CASE SourceNotFound(r)
      <3>1. /\ handler[r].pc = "source" /\ UNCHANGED <<downloadQueue, evicting>>
            /\ EndAndUnlink(Failed({handler[r].obj}) \cup {r}, {})
        BY <2>3 DEF SourceNotFound, At, End
      <3> QED
        BY <2>0, <3>1, EndsKeepPlaces
    <2>4. CASE SourceFound(r)
      BY <2>4, SourceFoundKeepsPlaces
    <2>5. CASE EvictOne(r)
      <3>1. PICK o : drop({o})
        BY <2>5 DEF EvictOne
      <3>2. UNCHANGED <<downloadQueue, evicting>> /\ EndAndUnlink(Failed({o}), {o})
        BY <2>5, <3>1 DEF EvictOne, drop, queueVars
      <3> QED
        BY <2>0, <3>2, EndsKeepPlaces
    <2>6. CASE EvictSleep(r) \/ EvictWake(r) \/ StreamAborted(r)
      <3>1. UNCHANGED <<handler, downloadQueue>>
            /\ (evicting' = evicting \/ evicting' = None \/ (evicting' = r /\ At(r, "evict")))
        BY <2>6 DEF EvictSleep, EvictWake, StreamAborted, queueVars
      <3> QED
        BY <3>1, RestKeepsPlaces DEF PlaceInv, QueueInv, At
    <2>7. CASE handleNewContent(r)
      BY <2>7, OpenKeepsPlaces
    <2>8. CASE onData(r)
      BY <2>8, DataKeepsPlaces
    <2>9. CASE rejectContent(r)
      <3>1. /\ handler[r].pc = "stream" /\ UNCHANGED <<downloadQueue, evicting>>
            /\ EndAndUnlink(Failed({handler[r].obj}) \cup {r}, {handler[r].obj})
        BY <2>9 DEF rejectContent, At
      <3> QED
        BY <2>0, <3>1, EndsKeepPlaces
    <2>10. CASE ContentVerified(r)
      BY <2>10, VerifiedKeepsPlaces
    <2>11. CASE ContentAccepted(r)
      BY <2>11, EndsKeepPlaces DEF ContentAccepted, End, At, queueVars
    <2> QED
      BY <1>2, <2>1, <2>2, <2>3, <2>4, <2>5, <2>6, <2>7, <2>8, <2>9, <2>10, <2>11 DEF Handle
  <1>3. CASE downloadJob
    BY <1>3, JobKeepsPlaces
  <1>4. CASE cacheCleanup
    <2>1. PICK D : drop(D)
      BY <1>4 DEF cacheCleanup
    <2>2. UNCHANGED <<downloadQueue, evicting>> /\ EndAndUnlink(Failed(D), D)
      BY <1>4, <2>1 DEF cacheCleanup, drop, queueVars
    <2>3. \A q \in Failed(D) : handler[q].pc = "join"
      BY DEF Failed, At
    <2> QED
      BY <2>2, <2>3, EndsKeepPlaces
  <1>5. CASE ObligationsChange \/ fetchSupportedDataObjects \/ save \/ SaveDone
             \/ UNCHANGED vars
    <2>1. UNCHANGED <<handler, downloadQueue, evicting>>
      BY <1>5 DEF ObligationsChange, fetchSupportedDataObjects, save, SaveDone,
                  queueVars, vars
    <2> QED
      BY <2>1, RestKeepsPlaces DEF PlaceInv, QueueInv
  <1>6. CASE Restart
    <2> DEFINE rs == {r \in Requests : ~At(r, "new")}
    <2>1. /\ EndAndUnlink(rs, {}) /\ downloadQueue' = << >> /\ evicting' = None
      BY <1>6 DEF Restart, End
    <2>2. handler \in [Requests -> Handler]
      BY DEF IndInv, DownloadTypes
    <2>3. Writes(Ended)
      BY DEF Writes, Ended, NewHandler, DownloadPlaces
    <2>4. ASSUME NEW r \in Requests PROVE Writes(handler'[r])
      <3>1. CASE r \in rs
        BY <2>1, <2>3, <3>1 DEF EndAndUnlink
      <3>2. CASE r \notin rs
        <4>1. handler[r].pc = "new" /\ handler[r] \in Handler /\ Writes(handler[r])
          BY <2>2, <3>2 DEF PlaceInv, WriteTypes, At
        <4>2. handler'[r] = [handler[r] EXCEPT !.linked = @ /\ handler[r].obj \notin {}]
          BY <2>1, <3>2 DEF EndAndUnlink
        <4>3. /\ handler'[r].pc = "new" /\ handler'[r].written = handler[r].written
              /\ (handler'[r].linked => handler[r].linked)
          BY <4>1, <4>2 DEF Handler
        <4> QED
          BY <4>1, <4>3 DEF Writes, DownloadPlaces
      <3> QED
        BY <3>1, <3>2
    <2>5. \A i : i \notin 1 .. Len(downloadQueue')
      BY <2>1
    <2> QED
      BY <2>1, <2>4, <2>5 DEF PlaceInv, QueueInv, WriteTypes
  <1> QED
    BY <1>1, <1>2, <1>3, <1>4, <1>5, <1>6 DEF Next

-----------------------------------------------------------------------------
(* The files, and what they take. *)

(* The steps that change files, the counter or the history; all others     *)
(* leave them alone.                                                       *)
LEMMA FileSteps ==
    ASSUME [Next]_vars
    PROVE  \/ UNCHANGED <<files, contentSizeSum>>
           \/ \E r \in Requests : handleNewContent(r)
           \/ \E r \in Requests : onData(r)
           \/ \E r \in Requests : rejectContent(r)
           \/ \E r \in Requests : EvictOne(r)
           \/ cacheCleanup \/ Restart
  <1>1. ASSUME NEW r \in Requests, Handle(r)
        PROVE  \/ UNCHANGED <<files, contentSizeSum>>
               \/ handleNewContent(r) \/ onData(r) \/ rejectContent(r) \/ EvictOne(r)
    BY <1>1 DEF Handle, NotServed, serveMissingAsset, SourceNotFound, SourceFound, EvictSleep,
                EvictWake, StreamAborted, ContentVerified, ContentAccepted, diskVars
  <1>2. (\E r \in Requests, o \in Objects : asset(r, o)) => UNCHANGED <<files, contentSizeSum>>
    BY DEF asset, diskVars
  <1>3. downloadJob \/ ObligationsChange \/ fetchSupportedDataObjects \/ save \/ SaveDone
           \/ UNCHANGED vars
           => UNCHANGED <<files, contentSizeSum>>
    BY DEF downloadJob, ObligationsChange, fetchSupportedDataObjects, save, SaveDone, vars, diskVars
  <1> QED
    BY <1>1, <1>2, <1>3 DEF Next

(* A handler that writes to a file with a name did so before, or opens it. *)
LEMMA LinkedSteps ==
    ASSUME IndInv, PlaceInv, [Next]_vars, NEW r \in Requests, handler'[r].linked
    PROVE  \/ handler[r].linked /\ handler'[r].obj = handler[r].obj
           \/ handleNewContent(r) /\ handler'[r].obj = handler[r].obj
  <1>0. /\ handler \in [Requests -> Handler] /\ handler[r] \in Handler /\ Writes(handler[r])
        /\ downloadQueue \in Seq(Requests)
    BY DEF IndInv, DownloadTypes, PlaceInv, WriteTypes
  <1> DEFINE Goal == handler[r].linked /\ handler'[r].obj = handler[r].obj
  <1>1. ASSUME NEW rs, NEW D, EndAndUnlink(rs, D)
        PROVE  Goal
    <2>1. r \notin rs
      BY <1>1 DEF EndAndUnlink, Ended, NewHandler
    <2>2. handler'[r] = [handler[r] EXCEPT !.linked = @ /\ handler[r].obj \notin D]
      BY <1>1, <2>1 DEF EndAndUnlink
    <2> QED
      BY <1>0, <2>2 DEF Handler
  <1>2. handler[r].pc \in {"new", "info"} => ~handler[r].linked
    BY <1>0 DEF Writes
  <1>3. ASSUME NEW q \in Requests, NEW o \in Objects, handler[q].pc \in {"new", "info"},
               servePendingDownloadAsset(q, o)
        PROVE  Goal
    <2>1. CASE End({q})
      BY <1>1, <2>1 DEF End
    <2>2. CASE ~End({q})
      BY <1>0, <1>2, <1>3, <2>2 DEF servePendingDownloadAsset, Handler
    <2> QED
      BY <2>1, <2>2
  <1>4. ASSUME NEW q \in Requests, NEW o \in Objects, asset(q, o)
        PROVE  Goal
    <2>1. CASE End({q})
      BY <1>1, <2>1 DEF End
    <2>2. CASE servePendingDownloadAsset(q, o)
      BY <1>3, <1>4, <2>2 DEF asset, At
    <2>3. CASE handler' = [handler EXCEPT ![q].pc = "info", ![q].obj = o]
      BY <1>0, <1>2, <1>4, <2>3 DEF asset, At, Handler
    <2> QED
      BY <1>4, <2>1, <2>2, <2>3 DEF asset, serveAssetFromFilesystem
  <1>5. ASSUME NEW q \in Requests, Handle(q)
        PROVE  Goal \/ (handleNewContent(r) /\ handler'[r].obj = handler[r].obj)
    <2>1. CASE NotServed(q) \/ SourceNotFound(q) \/ rejectContent(q) \/ ContentAccepted(q)
      BY <1>1, <2>1 DEF NotServed, SourceNotFound, rejectContent, ContentAccepted, End
    <2>2. CASE serveMissingAsset(q)
      <3>1. handler[q].pc = "info"
        BY <2>2 DEF serveMissingAsset, At
      <3>2. CASE End({q})
        BY <1>1, <3>2 DEF End
      <3>3. CASE handler[q].obj \in Objects /\ servePendingDownloadAsset(q, handler[q].obj)
        BY <1>3, <3>1, <3>3
      <3>4. CASE downloadDataObject(q, handler[q].obj)
        BY <1>0, <3>4 DEF downloadDataObject, Handler
      <3>5. CASE handler[q].obj \notin Objects
        <4>1. Writes(handler[q])
          BY DEF PlaceInv, WriteTypes
        <4> QED
          BY <3>1, <3>5, <4>1 DEF Writes
      <3> QED
        BY <2>2, <3>2, <3>3, <3>4, <3>5 DEF serveMissingAsset
    <2>3. CASE SourceFound(q)
      <3>1. PICK good \in Streams :
                handler' = [p \in Requests |->
                               IF p = q THEN [handler[q] EXCEPT !.pc = "evict", !.good = good]
                               ELSE IF At(p, "join") /\ handler[p].joined = q THEN Ended
                               ELSE handler[p]]
        BY <2>3 DEF SourceFound
      <3>2. CASE r = q
        <4>1. handler'[r] = [handler[r] EXCEPT !.pc = "evict", !.good = good]
          BY <3>1, <3>2
        <4> QED
          BY <1>0, <4>1 DEF Handler
      <3>3. CASE r # q
        BY <3>1, <3>3 DEF Ended, NewHandler
      <3> QED
        BY <3>2, <3>3
    <2>4. CASE EvictOne(q)
      BY <1>1, <2>4 DEF EvictOne, drop
    <2>5. CASE EvictSleep(q) \/ EvictWake(q) \/ StreamAborted(q)
      BY <2>5 DEF EvictSleep, EvictWake, StreamAborted
    <2>6. CASE handleNewContent(q)
      BY <1>0, <2>6 DEF handleNewContent, Handler
    <2>7. CASE onData(q) \/ ContentVerified(q)
      BY <1>0, <2>7 DEF onData, ContentVerified, Handler
    <2> QED
      BY <1>5, <2>1, <2>2, <2>3, <2>4, <2>5, <2>6, <2>7 DEF Handle
  <1>6. CASE downloadJob
    BY <1>0, <1>6 DEF downloadJob, Handler
  <1>7. CASE cacheCleanup
    BY <1>1, <1>7 DEF cacheCleanup, drop
  <1>8. CASE ObligationsChange \/ fetchSupportedDataObjects \/ save \/ SaveDone \/ UNCHANGED vars
    BY <1>8 DEF ObligationsChange, fetchSupportedDataObjects, save, SaveDone, vars
  <1>9. CASE Restart
    BY <1>1, <1>9 DEF Restart, End
  <1> QED
    BY <1>4, <1>5, <1>6, <1>7, <1>8, <1>9 DEF Next

(* The space the files in F take is a sum of integers. *)
LEMMA TotalIsSum ==
    ASSUME NEW F, DOMAIN F \in SUBSET Objects,
           \A o \in DOMAIN F : F[o] = None \/ F[o].size \in Nat
    PROVE  LET size == [o \in DOMAIN F |-> SizeOf(F[o])]
           IN  /\ Summable(size, DOMAIN F)
               /\ TotalSize(F) = SumOver(size, DOMAIN F)
               /\ TotalSize(F) \in Int
  <1> DEFINE size == [o \in DOMAIN F |-> SizeOf(F[o])]
  <1>1. IsFiniteSet(DOMAIN F)
    BY DistributorAssumption, FS_Subset
  <1>2. \A o \in DOMAIN F : size[o] \in Int
    BY DEF SizeOf
  <1>3. Summable(size, DOMAIN F)
    BY <1>1, <1>2 DEF Summable
  <1>4. TotalSize(F) = SumOver(size, DOMAIN F)
    BY DEF TotalSize, SumOver
  <1> HIDE DEF size
  <1>5. TotalSize(F) \in Int
    BY <1>3, <1>4, SumType
  <1> QED
    BY <1>3, <1>4, <1>5 DEF size

FileInv == FileTypes /\ LinkedFiles

(* What a step does to the files of the handlers at work: a deleted file   *)
(* loses the handlers that write to it.                                    *)
LEMMA DeletedKeepFiles ==
    ASSUME IndInv, PlaceInv, FileInv, NEW rs, NEW D,
           files' = FilesWithout(D), EndAndUnlink(rs, D)
    PROVE  FileInv'
  <1>1. FileTypes'
    BY DEF FileInv, FileTypes, FilesWithout
  <1>2. ASSUME NEW r \in Requests, handler'[r].linked
        PROVE  files'[handler'[r].obj] # None
    <2>1. r \notin rs /\ handler[r] \in Handler
      BY <1>2 DEF EndAndUnlink, Ended, NewHandler, IndInv, DownloadTypes
    <2>2. handler'[r] = [handler[r] EXCEPT !.linked = @ /\ handler[r].obj \notin D]
      BY <2>1 DEF EndAndUnlink
    <2>3. handler[r].linked /\ handler[r].obj \notin D /\ handler'[r].obj = handler[r].obj
      BY <1>2, <2>1, <2>2 DEF Handler
    <2>4. files[handler[r].obj] # None
      BY <2>3 DEF FileInv, LinkedFiles
    <2>5. handler[r].obj \in Objects
      BY <2>3 DEF PlaceInv, WriteTypes, Writes, DownloadPlaces
    <2> QED
      BY <2>3, <2>4, <2>5 DEF FilesWithout
  <1> QED
    BY <1>1, <1>2 DEF FileInv, LinkedFiles

(* A file is not None. *)
LEMMA FilesExist ==
    ASSUME NEW o \in Objects
    PROVE  None \notin FileOf(o)
  <1>1. FileOf(o) \subseteq [size : Nat, valid : SUBSET Nat]
    BY DistributorAssumption DEF FileOf, Offsets
  <1> QED
    BY <1>1, DistributorAssumption

(* The file of the handler's object with the next chunk written to it. *)
Longer(r) ==
    LET f == files[handler[r].obj]
        start == handler[r].written
        end == start + Chunk
    IN  [size |-> IF f.size > end THEN f.size ELSE end,
         valid |-> IF handler[r].good THEN f.valid \cup {start} ELSE f.valid \ {start}]

(* A chunk of the data is written where the data has one. *)
LEMMA DataKeepsFiles ==
    ASSUME IndInv, PlaceInv, FileInv, NEW r \in Requests, onData(r)
    PROVE  /\ FileTypes'
           /\ \A q \in Objects \ {handler[r].obj} : files'[q] = files[q]
           /\ ~handler[r].linked => files' = files
           /\ handler[r].linked => files'[handler[r].obj] = Longer(r)
  <1> DEFINE o == handler[r].obj
             start == handler[r].written
             end == start + Chunk
             f == files[o]
             size == IF f.size > end THEN f.size ELSE end
             valid == IF handler[r].good THEN f.valid \cup {start} ELSE f.valid \ {start}
  <1>1. /\ handler[r] \in Handler /\ Writes(handler[r]) /\ handler[r].pc = "stream"
    BY DEF IndInv, DownloadTypes, PlaceInv, WriteTypes, onData, At
  <1>2. o \in Objects /\ start \in Nat /\ Aligned(start) /\ Chunk \in Nat /\ Size[o] \in Nat
    BY <1>1, DistributorAssumption DEF Writes, Handler, DownloadPlaces
  <1>3. start < Size[o] \/ (start = Size[o] /\ ~handler[r].good)
    BY DEF onData
  <1>4. CASE ~handler[r].linked
    BY <1>4 DEF onData, FileInv, FileTypes
  <1>5. CASE handler[r].linked
    <2>1. f # None /\ f \in FileOf(o)
      BY <1>2, <1>5 DEF FileInv, FileTypes, LinkedFiles
    <2>2. files' = [files EXCEPT ![o].size = IF @ > end THEN @ ELSE end,
                                 ![o].valid = IF handler[r].good THEN @ \cup {start} ELSE @ \ {start}]
      BY <1>5 DEF onData
    <2>3. size \in 0 .. Size[o] + Chunk
      BY <1>2, <1>3, <2>1 DEF FileOf
    <2>4. valid \in SUBSET Offsets(o)
      <3>1. f.valid \in SUBSET Offsets(o)
        BY <2>1 DEF FileOf
      <3>2. handler[r].good => start \in Offsets(o)
        BY <1>2, <1>3 DEF Offsets
      <3> QED
        BY <3>1, <3>2
    <2>5. files'[o] = [size |-> size, valid |-> valid]
      <3>1. f = [size |-> f.size, valid |-> f.valid]
        BY <2>1 DEF FileOf
      <3>2. o \in DOMAIN files
        BY <1>2 DEF FileInv, FileTypes
      <3> QED
        BY <2>1, <2>2, <3>1, <3>2 DEF FileOf
    <2>6. DOMAIN files' = Objects /\ \A q \in Objects \ {o} : files'[q] = files[q]
      BY <2>2 DEF FileInv, FileTypes
    <2>7. files'[o] \in FileOf(o)
      <3> HIDE DEF size, valid, o
      <3> QED
        BY <2>3, <2>4, <2>5 DEF FileOf
    <2>8. files'[o] = Longer(r)
      BY <2>5 DEF Longer
    <2> HIDE DEF o
    <2>9. FileTypes'
      BY <2>6, <2>7 DEF FileInv, FileTypes
    <2> QED
      BY <1>5, <2>6, <2>8, <2>9 DEF o
  <1> QED
    BY <1>4, <1>5

(* Every step keeps the files well formed. *)
LEMMA NextKeepsFiles ==
    ASSUME IndInv, PlaceInv, FileInv, [Next]_vars
    PROVE  FileInv'
  <1>1. ASSUME FileTypes', \A o \in Objects : files[o] # None => files'[o] # None,
               \A r \in Requests : handleNewContent(r) => files'[handler[r].obj] # None
        PROVE  FileInv'
    <2>1. ASSUME NEW r \in Requests, handler'[r].linked
          PROVE  files'[handler'[r].obj] # None
      <3>1. CASE handleNewContent(r) /\ handler'[r].obj = handler[r].obj
        BY <1>1, <3>1
      <3>2. CASE handler[r].linked /\ handler'[r].obj = handler[r].obj
        <4>1. handler[r].obj \in Objects
          BY <3>2 DEF PlaceInv, WriteTypes, Writes, DownloadPlaces
        <4> QED
          BY <1>1, <3>2, <4>1 DEF FileInv, LinkedFiles
      <3> QED
        BY <2>1, <3>1, <3>2, LinkedSteps
    <2> QED
      BY <1>1, <2>1 DEF FileInv, LinkedFiles
  <1>2. ASSUME NEW r \in Requests, handleNewContent(r)
        PROVE  FileInv'
    <2> DEFINE o == handler[r].obj
               f == [size |-> 0, valid |-> {}]
    <2>1. handler[r].pc = "evict"
      BY <1>2, DistributorAssumption DEF handleNewContent, PlaceInv, QueueInv
    <2>2. o \in Objects
      BY <2>1 DEF PlaceInv, WriteTypes, Writes, DownloadPlaces
    <2>3. files' = [files EXCEPT ![o] = f]
      BY <1>2 DEF handleNewContent
    <2>4. f \in FileOf(o) /\ f # None
      BY <2>2, DistributorAssumption DEF FileOf
    <2> HIDE DEF f
    <2>5. FileTypes'
      BY <2>2, <2>3, <2>4 DEF FileInv, FileTypes
    <2>6. \A q \in Requests : handleNewContent(q) => q = r
      BY <1>2, DistributorAssumption DEF handleNewContent
    <2>7. files'[o] # None /\ \A q \in Objects : files[q] # None => files'[q] # None
      BY <2>2, <2>3, <2>4 DEF FileInv, FileTypes
    <2> QED
      BY <1>1, <2>5, <2>6, <2>7
  <1>3. ASSUME NEW r \in Requests, onData(r)
        PROVE  FileInv'
    <2> DEFINE o == handler[r].obj
    <2>1. FileTypes'
      BY <1>3, DataKeepsFiles
    <2>2. ASSUME NEW q \in Objects, files[q] # None
          PROVE  files'[q] # None
      <3>1. /\ \A p \in Objects \ {o} : files'[p] = files[p]
            /\ ~handler[r].linked => files' = files
            /\ handler[r].linked => files'[o] = Longer(r)
        BY <1>3, DataKeepsFiles
      <3>2. CASE q # o \/ ~handler[r].linked
        BY <2>2, <3>1, <3>2
      <3>3. CASE q = o /\ handler[r].linked
        <4>1. files'[q] \in FileOf(q) \/ Longer(r) = None
          BY <2>1, <3>1, <3>3 DEF FileTypes
        <4>2. Longer(r) # None
          <5> DEFINE start == handler[r].written
          <5>1. /\ files[o] \in FileOf(o) /\ start \in Nat /\ start + Chunk \in Nat
            BY <2>2, <3>3, DistributorAssumption
               DEF FileInv, FileTypes, IndInv, DownloadTypes, Handler
          <5>2. files[o].size \in Nat /\ files[o].valid \in SUBSET Nat
            BY <2>2, <3>3, <5>1, DistributorAssumption DEF FileOf, Offsets
          <5>3. Longer(r) \in [size : Nat, valid : SUBSET Nat]
            BY <5>1, <5>2 DEF Longer
          <5> QED
            BY <5>3, DistributorAssumption
        <4> QED
          BY <4>1, <4>2, FilesExist
      <3> QED
        BY <3>2, <3>3
    <2>3. \A q \in Requests : ~handleNewContent(q)
      BY <1>3, DistributorAssumption DEF onData, handleNewContent, EventLoopFree
    <2> QED
      BY <1>1, <2>1, <2>2, <2>3
  <1>4. ASSUME NEW r \in Requests, rejectContent(r)
        PROVE  FileInv'
    BY <1>4, DeletedKeepFiles DEF rejectContent
  <1>5. ASSUME NEW r \in Requests, EvictOne(r)
        PROVE  FileInv'
    BY <1>5, DeletedKeepFiles DEF EvictOne, drop
  <1>6. CASE cacheCleanup
    BY <1>6, DeletedKeepFiles DEF cacheCleanup, drop
  <1>7. CASE Restart
    <2>1. PICK stored : startupInit(stored)
      BY <1>7 DEF Restart
    <2>2. FileTypes'
      BY <2>1 DEF startupInit, FileInv, FileTypes
    <2>3. ASSUME NEW r \in Requests PROVE ~handler'[r].linked
      <3>1. EndAndUnlink({q \in Requests : ~At(q, "new")}, {})
        BY <1>7 DEF Restart, End
      <3>2. handler[r] \in Handler /\ (At(r, "new") => ~handler[r].linked)
        BY DEF IndInv, DownloadTypes, PlaceInv, WriteTypes, Writes, At
      <3>3. CASE At(r, "new")
        <4>1. handler'[r] = [handler[r] EXCEPT !.linked = @ /\ handler[r].obj \notin {}]
          BY <3>1, <3>3 DEF EndAndUnlink
        <4> QED
          BY <3>2, <3>3, <4>1 DEF Handler
      <3>4. CASE ~At(r, "new")
        BY <3>1, <3>4 DEF EndAndUnlink, Ended, NewHandler
      <3> QED
        BY <3>3, <3>4
    <2> QED
      BY <2>2, <2>3 DEF FileInv, LinkedFiles
  <1>8. CASE UNCHANGED <<files, contentSizeSum>> /\ \A r \in Requests : ~handleNewContent(r)
    BY <1>1, <1>8 DEF FileInv, FileTypes
  <1> QED
    BY <1>2, <1>3, <1>4, <1>5, <1>6, <1>7, <1>8, FileSteps

Sizes == [o \in Objects |-> SizeOf(files[o])]

(* What the files of some objects take, in terms of the sizes of all. *)
LEMMA PartIsSum ==
    ASSUME FileTypes, NEW D \in SUBSET Objects
    PROVE  /\ Summable(Sizes, D)
           /\ TotalSize([o \in D |-> files[o]]) = SumOver(Sizes, D)
           /\ TotalSize([o \in D |-> files[o]]) \in Int
  <1> DEFINE F == [o \in D |-> files[o]]
             size == [o \in DOMAIN F |-> SizeOf(F[o])]
  <1>1. DOMAIN F = D
    OBVIOUS
  <1>2. \A o \in D : F[o] = files[o] /\ size[o] = Sizes[o]
    BY DEF Sizes
  <1>3. \A o \in DOMAIN F : F[o] = None \/ F[o].size \in Nat
    BY <1>1, <1>2, DistributorAssumption DEF FileTypes, FileOf
  <1> HIDE DEF F
  <1>4. Summable(size, D) /\ TotalSize(F) = SumOver(size, D) /\ TotalSize(F) \in Int
    BY <1>1, <1>3, TotalIsSum
  <1>5. Summable(Sizes, D)
    <2> HIDE DEF size
    <2> QED
      BY <1>2, <1>4 DEF Summable
  <1>6. SumOver(size, D) = SumOver(Sizes, D)
    <2> HIDE DEF size
    <2> QED
      BY <1>2, <1>4, SumSame
  <1> QED
    BY <1>4, <1>5, <1>6 DEF F

(* The space counter stays an integer. *)
LEMMA NextKeepsCounter ==
    ASSUME IndInv, PlaceInv, FileTypes, contentSizeSum \in Int, supported \in SUBSET Objects,
           CacheTypes, [Next]_vars
    PROVE  contentSizeSum' \in Int
  <1>1. ASSUME NEW D \in SUBSET Objects, drop(D)
        PROVE  contentSizeSum' \in Int
    BY <1>1, PartIsSum DEF drop
  <1>2. ASSUME NEW r \in Requests, handleNewContent(r)
        PROVE  contentSizeSum' \in Int
    <2>1. handler[r].pc = "evict"
      BY <1>2, DistributorAssumption DEF handleNewContent, PlaceInv, QueueInv
    <2>2. handler[r].obj \in Objects
      BY <2>1 DEF PlaceInv, WriteTypes, Writes, DownloadPlaces
    <2> QED
      BY <1>2, <2>2, DistributorAssumption DEF handleNewContent
  <1>3. ASSUME NEW r \in Requests, rejectContent(r)
        PROVE  contentSizeSum' \in Int
    <2>1. handler[r].obj \in Objects
      BY <1>3 DEF rejectContent, At, PlaceInv, WriteTypes, Writes, DownloadPlaces
    <2> QED
      BY <1>3, <2>1, DistributorAssumption DEF rejectContent
  <1>4. ASSUME NEW r \in Requests, EvictOne(r)
        PROVE  contentSizeSum' \in Int
    <2>1. PICK o \in EvictCandidates : drop({o})
      BY <1>4 DEF EvictOne
    <2>2. PICK g \in Groups : lruCacheGroups[g] # << >> /\ o = Head(lruCacheGroups[g]).id
      BY <2>1 DEF EvictCandidates
    <2>3. Head(lruCacheGroups[g]) \in Item
      BY <2>2 DEF CacheTypes, GroupTypes
    <2>4. {o} \in SUBSET Objects
      BY <2>2, <2>3 DEF Item
    <2> QED
      BY <1>1, <2>1, <2>4
  <1>5. CASE cacheCleanup
    <2>1. PICK D \in SUBSET Objects : drop(D)
      BY <1>5 DEF cacheCleanup
    <2> QED
      BY <1>1, <2>1
  <1>6. CASE Restart
    <2>1. PICK stored : startupInit(stored)
      BY <1>6 DEF Restart
    <2> DEFINE keep == KeptAtStartup(loadGroupNumber(load(stored)))
    <2>2. contentSizeSum' = TotalSize([o \in keep |-> files[o]])
      BY <2>1 DEF startupInit, SpaceAtStartup
    <2>3. keep \in SUBSET Objects
      BY DEF KeptAtStartup
    <2> HIDE DEF keep
    <2> QED
      BY <2>2, <2>3, PartIsSum
  <1>7. CASE UNCHANGED contentSizeSum
    BY <1>7
  <1> QED
    BY <1>2, <1>3, <1>4, <1>5, <1>6, <1>7, FileSteps DEF onData

(* So does the rest of the types. *)
LEMMA NextKeepsRest ==
    ASSUME IndInv, PlaceInv, FileTypes, RestTypes, CacheTypes, [Next]_vars
    PROVE  RestTypes'
  <1>1. contentSizeSum' \in Int
    BY NextKeepsCounter DEF RestTypes
  <1>2. supported' \in SUBSET Objects /\ cleanup' \in (SUBSET Objects) \cup {None}
    BY DEF RestTypes, Next, Handle, asset, NotServed, serveMissingAsset, SourceNotFound,
           SourceFound, EvictOne, EvictSleep, EvictWake, StreamAborted,
           handleNewContent, onData, rejectContent, ContentVerified,
           ContentAccepted, downloadJob, ObligationsChange,
           fetchSupportedDataObjects, cacheCleanup, save, SaveDone, Restart,
           chainVars, vars
  <1>3. refetched' \in SUBSET Objects /\ unverified' \in SUBSET Objects
    <2>1. ASSUME NEW r \in Requests, serveMissingAsset(r)
          PROVE  refetched' \in SUBSET Objects /\ unverified' = unverified
      BY <2>1 DEF serveMissingAsset, RestTypes
    <2>2. ASSUME Restart
          PROVE  refetched' = {} /\ unverified' \in SUBSET Objects
      BY <2>2 DEF Restart, startupInit, KeptAtStartup, RestTypes
    <2>3. \/ \E r \in Requests : serveMissingAsset(r)
          \/ Restart
          \/ refetched' = refetched /\ unverified' \subseteq unverified
      BY DEF Next, Handle, asset, NotServed, SourceNotFound, SourceFound, EvictOne, EvictSleep,
             EvictWake, StreamAborted, handleNewContent, onData, rejectContent, ContentVerified,
             ContentAccepted, downloadJob, ObligationsChange, fetchSupportedDataObjects,
             cacheCleanup, save, SaveDone, drop, dropById, historyVars, vars
    <2> QED
      BY <2>1, <2>2, <2>3 DEF RestTypes
  <1>4. CASE downloadJob
    <2>1. Head(downloadQueue) \in Requests
      BY <1>4 DEF downloadJob, IndInv, DownloadTypes
    <2>2. running' \in SUBSET Requests
      BY <1>4, <2>1 DEF downloadJob, RestTypes
    <2> QED
      BY <1>1, <1>2, <1>3, <2>2 DEF RestTypes
  <1>5. CASE ~downloadJob
    <2>1. running' \subseteq running
      BY <1>5 DEF Next, Handle, asset, NotServed, serveMissingAsset, SourceNotFound,
           SourceFound, EvictOne, EvictSleep, EvictWake, StreamAborted,
           handleNewContent, onData, rejectContent, ContentVerified,
           ContentAccepted, ObligationsChange,
           fetchSupportedDataObjects, cacheCleanup, save, SaveDone, Restart, queueVars, vars
    <2> QED
      BY <1>1, <1>2, <1>3, <2>1 DEF RestTypes
  <1> QED
    BY <1>4, <1>5

-----------------------------------------------------------------------------
(* All of that is an invariant of the node. *)
NodeInv == IndInv /\ PlaceInv /\ FileInv /\ CacheTypes /\ RestTypes

(* It holds in every state of every behaviour. *)
LEMMA NodeInvariant == Spec => []NodeInv
  <1>1. Init => NodeInv
    <2> SUFFICES ASSUME Init PROVE NodeInv
      OBVIOUS
    <2>1. IndInv
      BY DEF Init, IndInv, DownloadTypes, PendingHasDownload, NewHandler, Handler
    <2>2. PlaceInv
      BY DEF Init, PlaceInv, QueueInv, WriteTypes, Writes, NewHandler, DownloadPlaces
    <2>3. FileInv /\ RestTypes
      <3>1. FileInv
        BY DEF Init, FileInv, FileTypes, LinkedFiles, NewHandler
      <3>2. supported \in SUBSET Objects
        BY DEF Init
      <3>3. contentSizeSum = 0 /\ running = {} /\ cleanup = None
            /\ refetched = {} /\ unverified = {}
        BY DEF Init
      <3>4. contentSizeSum \in Int /\ running \in SUBSET Requests
        BY <3>3
      <3>5. refetched \in SUBSET Objects /\ unverified \in SUBSET Objects
        BY <3>3
      <3>6. cleanup \in (SUBSET Objects) \cup {None}
        BY <3>3
      <3> QED
        BY <3>1, <3>2, <3>4, <3>5, <3>6 DEF RestTypes
    <2>4. CacheTypes
      BY DEF Init, CacheTypes, GroupTypes
    <2> QED
      BY <2>1, <2>2, <2>3, <2>4 DEF NodeInv
  <1>2. NodeInv /\ [Next]_vars => NodeInv'
    <2> SUFFICES ASSUME NodeInv, [Next]_vars PROVE NodeInv'
      OBVIOUS
    <2>1. /\ IndInv /\ PlaceInv /\ FileInv /\ CacheTypes /\ RestTypes
          /\ FileTypes /\ WriteTypes
          /\ supported \in SUBSET Objects /\ supported \subseteq Objects
      BY DEF NodeInv, FileInv, PlaceInv, RestTypes
    <2>2. IndInv'
      BY <2>1, NextKeepsInv
    <2>3. PlaceInv'
      BY <2>1, NextKeepsPlaces
    <2>4. FileInv'
      BY <2>1, NextKeepsFiles
    <2>5. CacheTypes'
      BY <2>1, NextKeepsCache
    <2>6. RestTypes'
      BY <2>1, NextKeepsRest
    <2> QED
      BY <2>2, <2>3, <2>4, <2>5, <2>6 DEF NodeInv
  <1> QED
    BY <1>1, <1>2, PTL DEF Spec

(* The state of the node is always well typed: no file grows by more than  *)
(* one chunk beyond its object, and no chunk counts as right that the      *)
(* object does not have.                                                   *)
THEOREM NodeTypes == Spec => []TypeOK
  <1>1. NodeInv => TypeOK
    <2> SUFFICES ASSUME NodeInv PROVE TypeOK
      OBVIOUS
    <2>1. \A o \in Objects : files[o] = None \/ /\ files[o].size \in 0 .. Size[o] + Chunk
                                                /\ files[o].valid \subseteq Offsets(o)
      BY DEF NodeInv, FileInv, FileTypes, FileOf
    <2>2. \A g \in Groups : \A i \in 1 .. Len(lruCacheGroups[g]) :
              /\ lruCacheGroups[g][i].id \in Objects
              /\ lruCacheGroups[g][i].popularity \in 1 .. MaxPopularity
      <3>1. ASSUME NEW g \in Groups, NEW i \in 1 .. Len(lruCacheGroups[g])
            PROVE  lruCacheGroups[g][i] \in Item
        BY DEF NodeInv, CacheTypes, GroupTypes
      <3> QED
        BY <3>1 DEF Item
    <2>3. Range(downloadQueue) \subseteq Requests
      BY DEF NodeInv, IndInv, DownloadTypes, Range
    <2> QED
      BY <2>1, <2>2, <2>3 DEF TypeOK, NodeInv, IndInv, DownloadTypes, CacheTypes, RestTypes
  <1> QED
    BY <1>1, NodeInvariant, PTL

-----------------------------------------------------------------------------
(* What a step does to an object and to the handlers that have a download  *)
(* of it.                                                                  *)

(* The download of q, if it has one, goes on as before. *)
SameDownload(q) ==
    /\ handler'[q].pc \in DownloadPlaces <=> handler[q].pc \in DownloadPlaces
    /\ handler[q].pc \in DownloadPlaces =>
           /\ handler'[q].obj = handler[q].obj
           /\ handler'[q].pc \in {"stream", "mime"} <=> handler[q].pc \in {"stream", "mime"}
           /\ handler[q].pc \in {"stream", "mime"} =>
                  /\ handler'[q].linked = handler[q].linked
                  /\ handler'[q].written = handler[q].written
                  /\ handler'[q].good = handler[q].good

SameMaps(o) ==
    GroupsAgree(lruCacheGroups, groupNumber, o) =>
        /\ GroupsAgree(lruCacheGroups', groupNumber', o)
        /\ groupNumber'[o] = None <=> groupNumber[o] = None
        /\ files[o] = None => groupNumber'[o] = groupNumber[o]

SameObject(o) ==
    /\ pending'[o] = pending[o]
    /\ files'[o] = files[o]
    /\ o \in mimeTypes => o \in mimeTypes'
    /\ o \in unverified' <=> o \in unverified
    /\ SameMaps(o)

(* Only the objects in X are concerned. *)
Local(X) ==
    /\ \A o \in Objects \ X : SameObject(o)
    /\ \A q \in Requests :
           \/ SameDownload(q)
           \/ /\ handler[q].pc \in DownloadPlaces => handler[q].obj \in X
              /\ handler'[q].pc \in DownloadPlaces => handler'[q].obj \in X

(* All other objects stay as they are. *)
LEMMA LocalFrame ==
    ASSUME NodeInv, NEW X, Local(X), NEW o \in Objects \ X
    PROVE  /\ Fresh(o) => Fresh(o)'
           /\ Writing(o)' <=> Writing(o)
           /\ Counted'[o] = Counted[o]
           /\ RightData(o) => RightData(o)'
  <1>1. SameObject(o) /\ SameMaps(o)
    BY DEF Local, SameObject
  <1>2. OwnEntry(o) => OwnEntry(o)'
    <2> SUFFICES ASSUME OwnEntry(o), NEW q \in Requests,
                        handler'[q].pc \in DownloadPlaces, handler'[q].obj = o
                 PROVE  pending'[o] = q
      BY DEF OwnEntry
    <2>1. SameDownload(q)
      BY DEF Local
    <2>2. handler[q].pc \in DownloadPlaces /\ handler[q].obj = o
      BY <2>1 DEF SameDownload
    <2> QED
      BY <1>1, <2>2 DEF OwnEntry, SameObject
  <1>3. CASE pending[o] = None
    <2>1. ~Writing(o) /\ ~Writing(o)'
      BY <1>1, <1>3 DEF Writing, SameObject
    <2>2. Consistent(o) => Consistent(o)'
      BY <1>1, <1>3, <2>1 DEF Consistent, SameObject, SameMaps
    <2>3. Counted'[o] = Counted[o]
      BY <1>1, <2>1 DEF Counted, SameObject
    <2>4. RightData(o) => RightData(o)'
      BY <1>1, <2>1 DEF RightData, SameObject
    <2> QED
      BY <1>2, <2>1, <2>2, <2>3, <2>4 DEF Fresh
  <1>4. CASE pending[o] # None
    <2> DEFINE p == pending[o]
    <2>1. /\ p \in Requests /\ handler[p].obj = o /\ handler[p].pc \in DownloadPlaces
      BY <1>4 DEF NodeInv, IndInv, DownloadTypes, PendingHasDownload, DownloadPlaces
    <2>2. SameDownload(p)
      BY <2>1 DEF Local
    <2>3. pending'[o] = p /\ pending'[o] # None
      BY <1>1, <1>4 DEF SameObject
    <2>4. /\ Writing(o)' <=> Writing(o)
          /\ Writing(o) => /\ handler'[pending'[o]].linked = handler[pending[o]].linked
                           /\ handler'[pending'[o]].written = handler[pending[o]].written
                           /\ handler'[pending'[o]].good = handler[pending[o]].good
      BY <2>1, <2>2, <2>3 DEF Writing, SameDownload
    <2>5. Consistent(o) => Consistent(o)'
      BY <1>1, <1>4, <2>3, <2>4 DEF Consistent, SameObject, SameMaps
    <2>6. Counted'[o] = Counted[o]
      BY <1>1, <2>4 DEF Counted, SameObject
    <2>7. RightData(o) => RightData(o)'
      BY <1>1, <1>4, <2>3, <2>4 DEF RightData, SameObject
    <2> QED
      BY <1>2, <2>4, <2>5, <2>6, <2>7 DEF Fresh
  <1> QED
    BY <1>3, <1>4

(* A step that concerns no object, ... *)
Quiet == Local({}) /\ contentSizeSum' = contentSizeSum

(* ... one object, whose space is reserved or given back, ... *)
Moves(o) ==
    /\ Fresh(o)'
    /\ contentSizeSum' = contentSizeSum + (Counted'[o] - Counted[o])
    /\ Writing(o)' => Writing(o) \/ contentSizeSum' <= StorageLimit
    /\ contentSizeSum' <= contentSizeSum \/ contentSizeSum' <= StorageLimit
    /\ RightData(o) => RightData(o)'

Touches(o) ==
    /\ Local({o})
    /\ Fresh(o) /\ o \notin refetched' => Moves(o)

(* ... or some objects in the cache, which are dropped. *)
Dropped(o) ==
    /\ Fresh(o)'
    /\ pending'[o] = None /\ files'[o] = None
    /\ ~Writing(o)

Drops(D) ==
    /\ Local(D)
    /\ \A o \in D : Fresh(o) => Dropped(o)
    /\ contentSizeSum' = contentSizeSum - SumOver(Sizes, D)

(* Handlers end; the others go on, but for what writes to a deleted file. *)
LEMMA EndsLocal ==
    ASSUME NodeInv, NEW rs, NEW E, EndAndUnlink(rs, E), NEW q \in Requests
    PROVE  /\ \/ SameDownload(q)
              \/ handler[q].pc \in DownloadPlaces /\ (q \in rs \/ handler[q].obj \in E)
           /\ handler'[q].pc \in DownloadPlaces
                 => q \notin rs /\ handler[q].pc \in DownloadPlaces /\ handler'[q].obj = handler[q].obj
  <1>1. handler[q] \in Handler
    BY DEF NodeInv, IndInv, DownloadTypes
  <1>2. CASE q \in rs
    <2>1. handler'[q].pc = "done"
      BY <1>2 DEF EndAndUnlink, Ended, NewHandler
    <2> QED
      BY <1>2, <2>1 DEF SameDownload, DownloadPlaces
  <1>3. CASE q \notin rs
    <2> DEFINE h == [handler[q] EXCEPT !.linked = @ /\ handler[q].obj \notin E]
    <2>1. handler'[q] = h
      BY <1>3 DEF EndAndUnlink
    <2>2. /\ h.pc = handler[q].pc /\ h.obj = handler[q].obj /\ h.written = handler[q].written
          /\ h.good = handler[q].good /\ h.linked = (handler[q].linked /\ handler[q].obj \notin E)
          /\ handler[q].linked \in BOOLEAN
      BY <1>1 DEF Handler
    <2> HIDE DEF h
    <2>3. handler[q].obj \notin E => h.linked = handler[q].linked
      BY <2>2
    <2> QED
      BY <1>3, <2>1, <2>2, <2>3 DEF SameDownload
  <1> QED
    BY <1>2, <1>3

(* The handlers that had a download of one of the objects in E, or of none. *)
LEMMA EndsKeepLocal ==
    ASSUME NodeInv, NEW rs, NEW E, EndAndUnlink(rs, E), NEW X,
           \A q \in Requests : handler[q].pc \in DownloadPlaces /\ (q \in rs \/ handler[q].obj \in E)
                                  => handler[q].obj \in X,
           \A o \in Objects \ X : SameObject(o)
    PROVE  Local(X)
  <1>1. ASSUME NEW q \in Requests
        PROVE  \/ SameDownload(q)
               \/ /\ handler[q].pc \in DownloadPlaces => handler[q].obj \in X
                  /\ handler'[q].pc \in DownloadPlaces => handler'[q].obj \in X
    BY EndsLocal
  <1> QED
    BY <1>1 DEF Local

(* An object that neither a download nor the cache has to do with. *)
LEMMA UnchangedObject ==
    ASSUME NEW o, pending'[o] = pending[o], files'[o] = files[o],
           UNCHANGED <<lruCacheGroups, groupNumber, mimeTypes, unverified>>
    PROVE  SameObject(o)
  BY DEF SameObject, SameMaps, GroupsAgree

(* dropById does not touch the maps of other objects, and keeps them in    *)
(* agreement for all.                                                      *)
LEMMA DroppedMaps ==
    ASSUME NodeInv, NEW D, dropById(D)
    PROVE  /\ \A o \in Objects : GroupsAgree(lruCacheGroups, groupNumber, o)
                                    => GroupsAgree(lruCacheGroups', groupNumber', o)
           /\ \A o \in Objects : groupNumber'[o] = IF o \in D /\ groupNumber[o] # 0
                                                   THEN None ELSE groupNumber[o]
           /\ \A o \in Objects \ D : SameMaps(o)
  <1>1. MapTypes(lruCacheGroups, groupNumber)
    BY DEF NodeInv, CacheTypes, MapTypes
  <1>2. /\ lruCacheGroups' = GroupsAfterDrop(lruCacheGroups, groupNumber, D)
        /\ groupNumber' = NumbersAfterDrop(groupNumber, D)
    BY DEF dropById
  <1>3. \A o \in Objects : GroupsAgree(lruCacheGroups, groupNumber, o)
                                => GroupsAgree(lruCacheGroups', groupNumber', o)
    BY <1>1, <1>2, DropGroups
  <1>4. \A o \in Objects : groupNumber'[o] = IF o \in D /\ groupNumber[o] # 0
                                            THEN None ELSE groupNumber[o]
    BY <1>2 DEF NumbersAfterDrop, InLaterGroup
  <1> QED
    BY <1>3, <1>4 DEF SameMaps

(* Handlers without a download end. *)
LEMMA EndsQuiet ==
    ASSUME NodeInv, NEW rs, End(rs), \A r \in rs \cap Requests : handler[r].pc \notin DownloadPlaces,
           \A o \in Objects : SameObject(o), UNCHANGED contentSizeSum
    PROVE  Quiet
  <1>1. \A q \in Requests : SameDownload(q)
    BY EndsLocal DEF End
  <1> QED
    BY <1>1 DEF Quiet, Local

(* A handler moves that has no download, or whose download only moves on. *)
LEMMA MoveQuiet ==
    ASSUME NodeInv, NEW r \in Requests, NEW h, handler' = [handler EXCEPT ![r] = h],
           handler'[r] = h => SameDownload(r),
           \A o \in Objects : SameObject(o), UNCHANGED contentSizeSum
    PROVE  Quiet
  <1>1. handler'[r] = h /\ \A q \in Requests \ {r} : handler'[q] = handler[q]
    BY DEF NodeInv, IndInv, DownloadTypes
  <1>2. \A q \in Requests : SameDownload(q)
    BY <1>1 DEF SameDownload
  <1> QED
    BY <1>2 DEF Quiet, Local

(* servePendingDownloadAsset *)
LEMMA JoinQuiet ==
    ASSUME NodeInv, NEW r \in Requests, NEW o \in Objects, servePendingDownloadAsset(r, o),
           handler[r].pc \in {"new", "info"},
           \A p \in Objects : SameObject(p), UNCHANGED contentSizeSum
    PROVE  Quiet
  <1>1. handler \in [Requests -> Handler] /\ handler[r] \in Handler
        /\ handler[r].pc \notin DownloadPlaces
    BY DEF NodeInv, IndInv, DownloadTypes, DownloadPlaces
  <1>2. CASE End({r})
    BY <1>1, <1>2, EndsQuiet
  <1>3. CASE ~End({r})
    <2> DEFINE h == [handler[r] EXCEPT !.pc = "join", !.obj = o, !.joined = pending[o]]
    <2>1. handler' = [handler EXCEPT ![r] = h]
      BY <1>1, <1>3 DEF servePendingDownloadAsset
    <2>2. h.pc = "join"
      BY <1>1 DEF Handler
    <2> HIDE DEF h
    <2>3. handler'[r] = h => SameDownload(r)
      BY <1>1, <2>2 DEF SameDownload, DownloadPlaces
    <2> QED
      BY <2>1, <2>3, MoveQuiet
  <1> QED
    BY <1>2, <1>3

(* A request comes. *)
LEMMA AssetQuiet ==
    ASSUME NodeInv, NEW r \in Requests, NEW o \in Objects, asset(r, o)
    PROVE  Quiet
  <1>1. /\ handler \in [Requests -> Handler] /\ handler[r] \in Handler
        /\ handler[r].pc = "new" /\ handler[r].pc \notin DownloadPlaces
    BY DEF NodeInv, IndInv, DownloadTypes, DownloadPlaces, asset, At
  <1>2. UNCHANGED <<files, contentSizeSum, pending, mimeTypes, unverified>>
    BY DEF asset, diskVars, historyVars
  <1>3. \A q \in Objects : SameMaps(q)
    <2>1. CASE objectStatus(o) = "Available" /\ useContent(o)
      <3>1. files[o] # None
        BY <2>1 DEF objectStatus
      <3>2. MapTypes(lruCacheGroups, groupNumber)
        BY DEF NodeInv, CacheTypes, MapTypes
      <3>3. /\ \A q \in Objects \ {o} : groupNumber'[q] = groupNumber[q]
            /\ \A q \in Objects :
                   GroupsAgree(lruCacheGroups, groupNumber, q)
                       => /\ GroupsAgree(lruCacheGroups', groupNumber', q)
                          /\ groupNumber'[q] = None <=> groupNumber[q] = None
        BY <2>1, <3>2, UseContentGroups
      <3> QED
        BY <3>1, <3>3 DEF SameMaps
    <2>2. CASE UNCHANGED <<lruCacheGroups, groupNumber>>
      BY <2>2 DEF SameMaps, GroupsAgree
    <2> QED
      BY <2>1, <2>2 DEF asset, serveAssetFromFilesystem
  <1>4. \A p \in Objects : SameObject(p)
    BY <1>2, <1>3 DEF SameObject
  <1>5. CASE End({r})
    BY <1>1, <1>2, <1>4, <1>5, EndsQuiet
  <1>6. CASE servePendingDownloadAsset(r, o)
    BY <1>1, <1>2, <1>4, <1>6, JoinQuiet
  <1>7. CASE handler' = [handler EXCEPT ![r].pc = "info", ![r].obj = o]
    <2> DEFINE h == [handler[r] EXCEPT !.pc = "info", !.obj = o]
    <2>1. handler' = [handler EXCEPT ![r] = h]
      BY <1>1, <1>7
    <2>2. h.pc = "info"
      BY <1>1 DEF Handler
    <2> HIDE DEF h
    <2>3. handler'[r] = h => SameDownload(r)
      BY <1>1, <2>2 DEF SameDownload, DownloadPlaces
    <2> QED
      BY <1>2, <1>4, <2>1, <2>3, MoveQuiet
  <1> QED
    BY <1>5, <1>6, <1>7 DEF asset, serveAssetFromFilesystem

(* Steps that leave objects and handlers alone. *)
LEMMA UnchangedQuiet ==
    ASSUME UNCHANGED <<handler, pending, files, contentSizeSum, lruCacheGroups, groupNumber,
                       mimeTypes, unverified>>
    PROVE  Quiet
  BY UnchangedObject DEF Quiet, Local, SameDownload

(* The steps of a handler that concern no object. *)
LEMMA HandlerQuiet ==
    ASSUME NodeInv, NEW r \in Requests,
           \/ NotServed(r) \/ SourceFound(r) \/ EvictSleep(r) \/ EvictWake(r)
           \/ StreamAborted(r) \/ ContentVerified(r)
    PROVE  Quiet
  <1>1. UNCHANGED <<files, contentSizeSum, pending, lruCacheGroups, groupNumber, mimeTypes,
                    unverified>>
    BY DEF NotServed, SourceFound, EvictSleep, EvictWake, StreamAborted, ContentVerified,
           diskVars, cacheVars, historyVars
  <1>2. \A p \in Objects : SameObject(p)
    BY <1>1, UnchangedObject
  <1>3. handler \in [Requests -> Handler] /\ handler[r] \in Handler
    BY DEF NodeInv, IndInv, DownloadTypes
  <1>4. CASE NotServed(r)
    <2>1. End({r}) /\ handler[r].pc \notin DownloadPlaces
      BY <1>4 DEF NotServed, At, DownloadPlaces
    <2> QED
      BY <1>1, <1>2, <2>1, EndsQuiet
  <1>5. CASE SourceFound(r)
    <2>1. PICK good \in Streams :
              handler' = [q \in Requests |->
                             IF q = r THEN [handler[r] EXCEPT !.pc = "evict", !.good = good]
                             ELSE IF At(q, "join") /\ handler[q].joined = r THEN Ended
                             ELSE handler[q]]
      BY <1>5 DEF SourceFound
    <2>2. handler[r].pc = "source"
      BY <1>5 DEF SourceFound, At
    <2>3. SameDownload(r)
      <3>1. handler'[r] = [handler[r] EXCEPT !.pc = "evict", !.good = good]
        BY <2>1
      <3>2. handler'[r].pc = "evict" /\ handler'[r].obj = handler[r].obj
        BY <1>3, <3>1 DEF Handler
      <3> QED
        BY <2>2, <3>2 DEF SameDownload, DownloadPlaces
    <2>4. ASSUME NEW q \in Requests \ {r} PROVE SameDownload(q)
      <3>1. CASE handler'[q] = handler[q]
        BY <3>1 DEF SameDownload
      <3>2. CASE handler'[q] # handler[q]
        <4>1. handler[q].pc = "join" /\ handler'[q] = Ended
          BY <2>1, <3>2 DEF At
        <4> QED
          BY <4>1 DEF SameDownload, DownloadPlaces, Ended, NewHandler
      <3> QED
        BY <3>1, <3>2
    <2> QED
      BY <1>1, <1>2, <2>3, <2>4 DEF Quiet, Local
  <1>6. CASE EvictSleep(r) \/ EvictWake(r) \/ StreamAborted(r)
    <2>1. UNCHANGED handler
      BY <1>6 DEF EvictSleep, EvictWake, StreamAborted
    <2> QED
      BY <1>1, <2>1, UnchangedQuiet
  <1>7. CASE ContentVerified(r)
    <2> DEFINE h == [handler[r] EXCEPT !.pc = "mime"]
    <2>1. handler' = [handler EXCEPT ![r] = h] /\ handler[r].pc = "stream"
      BY <1>3, <1>7 DEF ContentVerified, At
    <2>2. /\ h.pc = "mime" /\ h.obj = handler[r].obj /\ h.written = handler[r].written
          /\ h.good = handler[r].good /\ h.linked = handler[r].linked
      BY <1>3 DEF Handler
    <2> HIDE DEF h
    <2>3. handler'[r] = h => SameDownload(r)
      BY <2>1, <2>2 DEF SameDownload, DownloadPlaces
    <2> QED
      BY <1>1, <1>2, <2>1, <2>3, MoveQuiet
  <1> QED
    BY <1>4, <1>5, <1>6, <1>7

(* The first job of the queue starts. *)
LEMMA JobQuiet ==
    ASSUME NodeInv, downloadJob
    PROVE  Quiet
  <1> DEFINE r == Head(downloadQueue)
             h == [handler[r] EXCEPT !.pc = "source"]
  <1>1. UNCHANGED <<files, contentSizeSum, pending, lruCacheGroups, groupNumber, mimeTypes,
                    unverified>>
    BY DEF downloadJob, diskVars, cacheVars, historyVars
  <1>2. \A p \in Objects : SameObject(p)
    BY <1>1, UnchangedObject
  <1>3. /\ handler \in [Requests -> Handler]
        /\ downloadQueue \in Seq(Requests) /\ downloadQueue # << >>
    BY DEF NodeInv, IndInv, DownloadTypes, downloadJob
  <1>4. r = downloadQueue[1] /\ r \in Requests /\ 1 \in 1 .. Len(downloadQueue)
    BY <1>3
  <1>5. handler[r].pc = "queued" /\ handler[r] \in Handler
    BY <1>3, <1>4 DEF NodeInv, PlaceInv, QueueInv
  <1>6. handler' = [handler EXCEPT ![r] = h]
    BY <1>3, <1>4 DEF downloadJob
  <1>7. h.pc = "source" /\ h.obj = handler[r].obj
    BY <1>5 DEF Handler
  <1> HIDE DEF h
  <1>8. handler'[r] = h => SameDownload(r)
    BY <1>5, <1>7 DEF SameDownload, DownloadPlaces
  <1> HIDE DEF r
  <1> QED
    BY <1>1, <1>2, <1>4, <1>6, <1>8, MoveQuiet

(* The download of a handler, and what is known of its object. *)
LEMMA OwnObject ==
    ASSUME NodeInv, NEW r \in Requests, handler[r].pc \in DownloadPlaces, Fresh(handler[r].obj)
    PROVE  LET o == handler[r].obj
           IN  /\ o \in Objects /\ Size[o] \in Nat /\ pending[o] = r /\ pending[o] # None
               /\ GroupsAgree(lruCacheGroups, groupNumber, o)
               /\ Writing(o) <=> handler[r].pc \in {"stream", "mime"}
               /\ groupNumber[o] = None
               /\ Writing(o) => /\ files[o] # None /\ handler[r].linked
                                /\ files[o].size = handler[r].written
                                /\ Counted[o] = Size[o]
               /\ ~Writing(o) => files[o] = None /\ Counted[o] = 0
  <1> DEFINE o == handler[r].obj
  <1>1. o \in Objects /\ Size[o] \in Nat
    BY DistributorAssumption DEF NodeInv, PlaceInv, WriteTypes, Writes
  <1>2. pending[o] = r /\ pending[o] # None
    BY DistributorAssumption DEF Fresh, OwnEntry
  <1>3. Consistent(o) /\ GroupsAgree(lruCacheGroups, groupNumber, o)
    BY DEF Fresh, Consistent
  <1>4. Writing(o) <=> handler[r].pc \in {"stream", "mime"}
    BY <1>2 DEF Writing
  <1>5. /\ groupNumber[o] = None
        /\ Writing(o) => /\ files[o] # None /\ handler[r].linked
                         /\ files[o].size = handler[r].written
        /\ ~Writing(o) => files[o] = None
    BY <1>2, <1>3 DEF Consistent
  <1>6. /\ Writing(o) => Counted[o] = Size[o]
        /\ ~Writing(o) => Counted[o] = 0
    BY <1>1, <1>5 DEF Counted, SizeOf
  <1> QED
    BY <1>1, <1>2, <1>3, <1>4, <1>5, <1>6

(* A download is started: of an object that is nowhere, unless the cache   *)
(* has an item for it.                                                     *)
LEMMA StartTouches ==
    ASSUME NodeInv, NEW r \in Requests, handler[r].pc = "info",
           NEW o \in Objects, o = handler[r].obj, pending[o] = None,
           downloadDataObject(r, o), Cached(o) => o \in refetched',
           UNCHANGED <<files, contentSizeSum, lruCacheGroups, groupNumber, mimeTypes, unverified>>
    PROVE  Touches(o)
  <1> DEFINE h == [handler[r] EXCEPT !.pc = "queued"]
  <1>1. /\ handler \in [Requests -> Handler] /\ handler[r] \in Handler
        /\ pending \in [Objects -> Requests \cup {None}]
        /\ contentSizeSum \in Int
    BY DEF NodeInv, IndInv, DownloadTypes, RestTypes
  <1>2. handler' = [handler EXCEPT ![r] = h] /\ pending' = [pending EXCEPT ![o] = r]
    BY <1>1 DEF downloadDataObject
  <1>3. h.pc = "queued" /\ h.obj = o
    BY <1>1 DEF Handler
  <1> HIDE DEF h
  <1>4. /\ handler'[r] = h /\ \A q \in Requests \ {r} : handler'[q] = handler[q]
        /\ pending'[o] = r /\ \A p \in Objects \ {o} : pending'[p] = pending[p]
    BY <1>1, <1>2
  <1>5. Local({o})
    <2>1. \A p \in Objects \ {o} : SameObject(p)
      BY <1>4, UnchangedObject
    <2>2. \A q \in Requests \ {r} : SameDownload(q)
      BY <1>4 DEF SameDownload
    <2>3. handler[r].pc \in DownloadPlaces => handler[r].obj \in {o}
      OBVIOUS
    <2>4. handler'[r].obj \in {o}
      BY <1>3, <1>4
    <2> QED
      BY <2>1, <2>2, <2>3, <2>4 DEF Local
  <1>6. ASSUME Fresh(o), o \notin refetched' PROVE Moves(o)
    <2>1. groupNumber[o] = None
      <3>1. groupNumber[o] \in Groups \cup {None} /\ GroupsAgree(lruCacheGroups, groupNumber, o)
        BY <1>6 DEF NodeInv, CacheTypes, Fresh, Consistent
      <3> QED
        BY <1>6, <3>1 DEF GroupsAgree, Cached
    <2>2. ~Writing(o) /\ ~Writing(o)'
      BY <1>3, <1>4 DEF Writing
    <2>3. files[o] = None
      BY <1>6, <2>1, <2>2 DEF Fresh, Consistent
    <2>4. Consistent(o)'
      BY <1>6, <2>1, <2>2, <2>3 DEF Fresh, Consistent, GroupsAgree
    <2>5. Counted[o] = 0 /\ Counted'[o] = 0
      BY <2>2, <2>3 DEF Counted, SizeOf
    <2>6. ASSUME NEW q \in Requests, handler'[q].pc \in DownloadPlaces, handler'[q].obj = o
          PROVE  pending'[o] = q
      <3>1. CASE q # r
        <4>1. pending[o] = q
          BY <1>4, <1>6, <2>6, <3>1 DEF Fresh, OwnEntry
        <4> QED
          BY <4>1, DistributorAssumption
      <3> QED
        BY <1>4, <3>1
    <2>7. Fresh(o)'
      BY <2>4, <2>6 DEF Fresh, OwnEntry
    <2>8. RightData(o)'
      BY <2>2, <2>3 DEF RightData
    <2>9. /\ contentSizeSum' = contentSizeSum + (Counted'[o] - Counted[o])
          /\ contentSizeSum' <= contentSizeSum
      BY <1>1, <2>5
    <2> QED
      BY <2>2, <2>7, <2>8, <2>9 DEF Moves
  <1> QED
    BY <1>5, <1>6 DEF Touches

(* serveMissingAsset, whatever became of the object meanwhile. *)
LEMMA MissingShape ==
    ASSUME NodeInv, NEW r \in Requests, serveMissingAsset(r)
    PROVE  Quiet \/ \E o \in Objects : Touches(o)
  <1>0. PICK o \in Objects : o = handler[r].obj
    BY DEF serveMissingAsset, NodeInv, RestTypes
  <1>1. /\ handler[r].pc = "info" /\ handler[r].pc \notin DownloadPlaces
        /\ UNCHANGED <<files, contentSizeSum, lruCacheGroups, groupNumber, mimeTypes, unverified>>
        /\ pending[o] = None /\ Cached(o) => o \in refetched'
    BY <1>0 DEF serveMissingAsset, At, DownloadPlaces, diskVars, cacheVars
  <1>2. CASE End({r}) /\ UNCHANGED pending
    <2>1. \A p \in Objects : SameObject(p)
      BY <1>1, <1>2, UnchangedObject
    <2> QED
      BY <1>1, <1>2, <2>1, EndsQuiet
  <1>3. CASE servePendingDownloadAsset(r, o) /\ UNCHANGED pending
    <2>1. \A p \in Objects : SameObject(p)
      BY <1>1, <1>3, UnchangedObject
    <2> QED
      BY <1>1, <1>3, <2>1, JoinQuiet
  <1>4. CASE pending[o] = None /\ downloadDataObject(r, o)
    <2>1. Touches(o)
      BY <1>0, <1>1, <1>4, StartTouches
    <2> QED
      BY <2>1
  <1> QED
    BY <1>0, <1>2, <1>3, <1>4 DEF serveMissingAsset

(* A download fails or is rejected: its object is nowhere again. *)
LEMMA EndTouches ==
    ASSUME NodeInv, NEW r \in Requests, handler[r].pc \in DownloadPlaces,
           NEW o \in Objects, o = handler[r].obj, NEW E \in SUBSET {o},
           EndAndUnlink(Failed({o}) \cup {r}, E),
           pending' = [p \in Objects |-> IF p = o THEN None ELSE pending[p]],
           \A p \in Objects \ {o} : SameObject(p),
           Fresh(o) => /\ files'[o] = None /\ groupNumber'[o] = None
                       /\ GroupsAgree(lruCacheGroups', groupNumber', o)
                       /\ contentSizeSum' = contentSizeSum - Counted[o]
    PROVE  Touches(o)
  <1>1. \A q \in Requests : handler[q].pc \in DownloadPlaces => q \notin Failed({o})
    BY FailedAreJoined
  <1>2. Local({o})
    <2>1. \A q \in Requests :
              handler[q].pc \in DownloadPlaces /\ (q \in Failed({o}) \cup {r} \/ handler[q].obj \in E)
                  => handler[q].obj \in {o}
      BY <1>1
    <2> QED
      BY <2>1, EndsKeepLocal
  <1>3. ASSUME Fresh(o) PROVE Moves(o)
    <2>1. /\ Size[o] \in Nat /\ pending[o] = r
          /\ Writing(o) => Counted[o] = Size[o]
          /\ ~Writing(o) => Counted[o] = 0
      BY <1>3, OwnObject
    <2>2. contentSizeSum \in Int /\ Counted[o] \in Nat
      BY <2>1 DEF NodeInv, RestTypes
    <2>3. pending'[o] = None /\ ~Writing(o)'
      BY DEF Writing
    <2>4. Consistent(o)'
      BY <1>3, <2>3 DEF Consistent
    <2>5. Counted'[o] = 0
      BY <1>3, <2>3 DEF Counted, SizeOf
    <2>6. ASSUME NEW q \in Requests, handler'[q].pc \in DownloadPlaces, handler'[q].obj = o
          PROVE  pending'[o] = q
      <3>1. q # r /\ handler[q].pc \in DownloadPlaces /\ handler[q].obj = o
        BY <2>6, EndsLocal
      <3> QED
        BY <1>3, <2>1, <3>1 DEF Fresh, OwnEntry
    <2>7. Fresh(o)'
      BY <2>4, <2>6 DEF Fresh, OwnEntry
    <2>8. RightData(o)'
      BY <1>3, <2>3 DEF RightData
    <2>9. /\ contentSizeSum' = contentSizeSum + (Counted'[o] - Counted[o])
          /\ contentSizeSum' <= contentSizeSum
      BY <1>3, <2>2, <2>5
    <2> QED
      BY <2>3, <2>7, <2>8, <2>9 DEF Moves
  <1> QED
    BY <1>2, <1>3 DEF Touches

(* No source is found. *)
LEMMA NotFoundTouches ==
    ASSUME NodeInv, NEW r \in Requests, SourceNotFound(r),
           NEW o \in Objects, o = handler[r].obj
    PROVE  Touches(o)
  <1>1. handler[r].pc = "source" /\ handler[r].pc \in DownloadPlaces
    BY DEF SourceNotFound, At, DownloadPlaces
  <1>2. /\ UNCHANGED <<files, contentSizeSum, lruCacheGroups, groupNumber, mimeTypes, unverified>>
        /\ EndAndUnlink(Failed({o}) \cup {r}, {})
    BY DEF SourceNotFound, End, diskVars, cacheVars, historyVars
  <1>3. pending' = [p \in Objects |-> IF p = o THEN None ELSE pending[p]]
    BY DEF SourceNotFound, NodeInv, IndInv, DownloadTypes
  <1>4. \A p \in Objects \ {o} : SameObject(p)
    BY <1>2, <1>3, UnchangedObject
  <1>5. ASSUME Fresh(o)
        PROVE  /\ files'[o] = None /\ groupNumber'[o] = None
               /\ GroupsAgree(lruCacheGroups', groupNumber', o)
               /\ contentSizeSum' = contentSizeSum - Counted[o]
    <2>1. /\ ~Writing(o) /\ files[o] = None /\ Counted[o] = 0 /\ groupNumber[o] = None
          /\ GroupsAgree(lruCacheGroups, groupNumber, o)
      BY <1>1, <1>5, OwnObject
    <2> QED
      BY <1>2, <2>1 DEF NodeInv, RestTypes, GroupsAgree
  <1>6. {} \in SUBSET {o}
    OBVIOUS
  <1> QED
    BY <1>1, <1>2, <1>3, <1>4, <1>5, <1>6, EndTouches

(* The download is rejected. *)
LEMMA RejectTouches ==
    ASSUME NodeInv, NEW r \in Requests, rejectContent(r),
           NEW o \in Objects, o = handler[r].obj
    PROVE  Touches(o)
  <1>1. handler[r].pc = "stream" /\ handler[r].pc \in DownloadPlaces
    BY DEF rejectContent, At, DownloadPlaces
  <1>2. /\ EndAndUnlink(Failed({o}) \cup {r}, {o})
        /\ dropById({o})
        /\ pending' = [p \in Objects |-> IF p = o THEN None ELSE pending[p]]
        /\ files' = FilesWithout({o})
        /\ mimeTypes' = mimeTypes \ {o} /\ unverified' = unverified \ {o}
        /\ contentSizeSum' = contentSizeSum - Size[o]
    BY DEF rejectContent, dropById
  <1>3. files'[o] = None /\ \A p \in Objects \ {o} : files'[p] = files[p]
    BY <1>2 DEF FilesWithout
  <1>4. /\ GroupsAgree(lruCacheGroups, groupNumber, o)
               => GroupsAgree(lruCacheGroups', groupNumber', o)
        /\ groupNumber[o] = None => groupNumber'[o] = None
        /\ \A p \in Objects \ {o} : SameMaps(p)
    BY <1>2, DroppedMaps
  <1>5. \A p \in Objects \ {o} : SameObject(p)
    BY <1>2, <1>3, <1>4 DEF SameObject
  <1>6. ASSUME Fresh(o)
        PROVE  /\ files'[o] = None /\ groupNumber'[o] = None
               /\ GroupsAgree(lruCacheGroups', groupNumber', o)
               /\ contentSizeSum' = contentSizeSum - Counted[o]
    <2>1. /\ Counted[o] = Size[o] /\ groupNumber[o] = None
          /\ GroupsAgree(lruCacheGroups, groupNumber, o)
      BY <1>1, <1>6, OwnObject
    <2> QED
      BY <1>2, <1>3, <1>4, <2>1
  <1>7. {o} \in SUBSET {o}
    OBVIOUS
  <1> QED
    BY <1>1, <1>2, <1>5, <1>6, <1>7, EndTouches

(* There is room for the object, and its file is opened. *)
LEMMA OpenTouches ==
    ASSUME NodeInv, NEW r \in Requests, handleNewContent(r),
           NEW o \in Objects, o = handler[r].obj
    PROVE  Touches(o)
  <1> DEFINE h == [handler[r] EXCEPT !.pc = "stream", !.linked = TRUE]
             f == [size |-> 0, valid |-> {}]
  <1>1. /\ handler \in [Requests -> Handler] /\ handler[r] \in Handler
        /\ contentSizeSum \in Int /\ StorageLimit \in Nat /\ DOMAIN files = Objects
    BY DistributorAssumption DEF NodeInv, IndInv, DownloadTypes, RestTypes, FileInv, FileTypes
  <1>2. handler[r].pc = "evict" /\ handler[r].pc \in DownloadPlaces
    BY DistributorAssumption DEF handleNewContent, NodeInv, PlaceInv, QueueInv, DownloadPlaces
  <1>3. handler[r].written = 0
    BY <1>2 DEF NodeInv, PlaceInv, WriteTypes, Writes
  <1>4. /\ handler' = [handler EXCEPT ![r] = h] /\ files' = [files EXCEPT ![o] = f]
        /\ contentSizeSum' = contentSizeSum + Size[o] /\ freeSpace >= Size[o]
        /\ UNCHANGED <<pending, lruCacheGroups, groupNumber, mimeTypes, unverified>>
    BY <1>1 DEF handleNewContent, cacheVars, historyVars
  <1>5. h.pc = "stream" /\ h.obj = o /\ h.linked /\ h.written = 0
    BY <1>1, <1>3 DEF Handler
  <1>6. f # None /\ f.size = 0 /\ f.valid = {}
    BY DistributorAssumption
  <1> HIDE DEF h, f
  <1>7. /\ handler'[r] = h /\ \A q \in Requests \ {r} : handler'[q] = handler[q]
        /\ files'[o] = f /\ \A p \in Objects \ {o} : files'[p] = files[p]
    BY <1>1, <1>4
  <1>8. Local({o})
    <2>1. \A p \in Objects \ {o} : SameObject(p)
      BY <1>4, <1>7, UnchangedObject
    <2>2. \A q \in Requests \ {r} : SameDownload(q)
      BY <1>7 DEF SameDownload
    <2>3. handler[r].obj \in {o} /\ handler'[r].obj \in {o}
      BY <1>5, <1>7
    <2> QED
      BY <2>1, <2>2, <2>3 DEF Local
  <1>9. ASSUME Fresh(o) PROVE Moves(o)
    <2>1. /\ pending[o] = r /\ pending[o] # None /\ ~Writing(o) /\ groupNumber[o] = None
          /\ GroupsAgree(lruCacheGroups, groupNumber, o)
          /\ Counted[o] = 0 /\ Size[o] \in Nat
      BY <1>2, <1>9, OwnObject
    <2>2. Writing(o)'
      BY <1>4, <1>5, <1>7, <2>1 DEF Writing
    <2>3. Consistent(o)'
      BY <1>4, <1>5, <1>6, <1>7, <2>1, <2>2 DEF Consistent, GroupsAgree
    <2>4. Counted'[o] = Size[o]
      BY <2>2 DEF Counted
    <2>5. ASSUME NEW q \in Requests, handler'[q].pc \in DownloadPlaces, handler'[q].obj = o
          PROVE  pending'[o] = q
      BY <1>4, <1>7, <1>9, <2>1, <2>5 DEF Fresh, OwnEntry
    <2>6. Fresh(o)'
      BY <2>3, <2>5 DEF Fresh, OwnEntry
    <2>7. RightData(o)'
      <3>1. {n \in Offsets(o) : n < 0} = {}
        BY <2>1 DEF Offsets
      <3>2. pending'[o] = r /\ handler'[pending'[o]].written = 0 /\ files'[o].valid = {} /\ r # None
        BY <1>4, <1>5, <1>6, <1>7, <2>1
      <3> QED
        BY <3>1, <3>2 DEF RightData
    <2>8. /\ contentSizeSum' = contentSizeSum + (Counted'[o] - Counted[o])
          /\ contentSizeSum' <= StorageLimit
      BY <1>1, <1>4, <2>1, <2>4 DEF freeSpace
    <2> QED
      BY <2>6, <2>7, <2>8 DEF Moves
  <1> QED
    BY <1>8, <1>9 DEF Touches

(* A chunk is written. *)
LEMMA DataTouches ==
    ASSUME NodeInv, NEW r \in Requests, onData(r),
           NEW o \in Objects, o = handler[r].obj
    PROVE  Touches(o)
  <1> DEFINE h == [handler[r] EXCEPT !.written = @ + Chunk]
             start == handler[r].written
  <1>1. /\ handler \in [Requests -> Handler] /\ handler[r] \in Handler /\ start \in Nat
        /\ contentSizeSum \in Int /\ Chunk \in Nat \ {0} /\ FileInv /\ IndInv /\ PlaceInv
    BY DistributorAssumption DEF NodeInv, IndInv, DownloadTypes, RestTypes, Handler
  <1>2. handler[r].pc = "stream" /\ handler[r].pc \in DownloadPlaces
    BY DEF onData, At, DownloadPlaces
  <1>3. /\ handler' = [handler EXCEPT ![r] = h]
        /\ UNCHANGED <<contentSizeSum, pending, lruCacheGroups, groupNumber, mimeTypes, unverified>>
    BY <1>1 DEF onData, cacheVars, historyVars
  <1>4. /\ h.pc = "stream" /\ h.obj = o /\ h.linked = handler[r].linked
        /\ h.written = start + Chunk /\ h.good = handler[r].good
    BY <1>1, <1>2 DEF Handler
  <1> HIDE DEF h
  <1>5. handler'[r] = h /\ \A q \in Requests \ {r} : handler'[q] = handler[q]
    BY <1>1, <1>3
  <1>6. /\ \A p \in Objects \ {o} : files'[p] = files[p]
        /\ handler[r].linked => files'[o] = Longer(r)
    <2>1. CASE handler[r].linked
      BY <1>1, <2>1, DataKeepsFiles
    <2>2. CASE ~handler[r].linked
      BY <2>2 DEF onData
    <2> QED
      BY <2>1, <2>2
  <1>7. Local({o})
    <2>1. \A p \in Objects \ {o} : SameObject(p)
      BY <1>3, <1>6, UnchangedObject
    <2>2. \A q \in Requests \ {r} : SameDownload(q)
      BY <1>5 DEF SameDownload
    <2>3. handler[r].obj \in {o} /\ handler'[r].obj \in {o}
      BY <1>4, <1>5
    <2> QED
      BY <2>1, <2>2, <2>3 DEF Local
  <1>8. ASSUME Fresh(o) PROVE Moves(o)
    <2>1. /\ pending[o] = r /\ pending[o] # None /\ Writing(o) /\ groupNumber[o] = None
          /\ GroupsAgree(lruCacheGroups, groupNumber, o)
          /\ Counted[o] = Size[o] /\ Size[o] \in Nat
          /\ files[o] # None /\ handler[r].linked /\ files[o].size = start
      BY <1>2, <1>8, OwnObject
    <2>2. /\ files'[o].size = start + Chunk
          /\ handler[r].good => files'[o].valid = files[o].valid \cup {start}
      BY <1>1, <1>6, <2>1 DEF Longer
    <2>3. Writing(o)'
      BY <1>3, <1>4, <1>5, <2>1 DEF Writing
    <2>4. files'[o] # None
      <3>1. files[o] \in FileOf(o)
        BY <1>1, <2>1 DEF FileInv, FileTypes
      <3>2. files[o].size \in Nat /\ files[o].valid \in SUBSET Nat /\ start + Chunk \in Nat
        BY <1>1, <2>1, <3>1 DEF FileOf, Offsets
      <3>3. Longer(r) \in [size : Nat, valid : SUBSET Nat]
        BY <1>1, <3>2 DEF Longer
      <3> QED
        BY <1>6, <2>1, <3>3, DistributorAssumption
    <2>5. Consistent(o)'
      BY <1>3, <1>4, <1>5, <2>1, <2>2, <2>3, <2>4 DEF Consistent, GroupsAgree
    <2>6. Counted'[o] = Size[o]
      BY <2>3 DEF Counted
    <2>7. ASSUME NEW q \in Requests, handler'[q].pc \in DownloadPlaces, handler'[q].obj = o
          PROVE  pending'[o] = q
      BY <1>3, <1>5, <1>8, <2>1, <2>7 DEF Fresh, OwnEntry
    <2>8. Fresh(o)'
      BY <2>5, <2>7 DEF Fresh, OwnEntry
    <2>9. ASSUME RightData(o) PROVE RightData(o)'
      <3>1. /\ pending'[o] = r /\ handler'[pending'[o]].written = start + Chunk
            /\ handler'[pending'[o]].good = handler[r].good
        BY <1>3, <1>4, <1>5, <2>1
      <3>2. ASSUME handler[r].good, o \notin unverified
            PROVE  files'[o].valid = {n \in Offsets(o) : n < start + Chunk}
        <4>1. files[o].valid = {n \in Offsets(o) : n < start}
          BY <2>1, <2>9, <3>2 DEF RightData
        <4>2. Aligned(start) /\ start < Size[o]
          BY <1>2, <3>2 DEF NodeInv, PlaceInv, WriteTypes, Writes, onData
        <4>3. start \in Offsets(o)
          BY <1>1, <2>1, <4>2 DEF Offsets
        <4>4. ASSUME NEW n \in Offsets(o), n < start + Chunk, n # start
              PROVE  n < start
          <5>1. n \in Nat /\ Aligned(n)
            BY <2>1 DEF Offsets
          <5>2. start < n => start + Chunk <= n
            BY <1>1, <4>2, <5>1, AlignedStep
          <5> QED
            BY <1>1, <4>4, <5>1, <5>2
        <4>5. \A n \in Offsets(o) : n < start \/ n = start => n < start + Chunk
          BY <1>1, <2>1 DEF Offsets
        <4> HIDE DEF start
        <4> QED
          BY <2>2, <3>2, <4>1, <4>3, <4>4, <4>5
      <3> QED
        BY <1>3, <2>1, <3>1, <3>2 DEF RightData
    <2>10. /\ contentSizeSum' = contentSizeSum + (Counted'[o] - Counted[o])
           /\ contentSizeSum' <= contentSizeSum
      BY <1>1, <1>3, <2>1, <2>6
    <2> QED
      BY <2>1, <2>8, <2>9, <2>10 DEF Moves
  <1> QED
    BY <1>7, <1>8 DEF Touches

(* The download is accepted, and the object enters the cache. *)
LEMMA AcceptTouches ==
    ASSUME NodeInv, NEW r \in Requests, ContentAccepted(r),
           NEW o \in Objects, o = handler[r].obj
    PROVE  Touches(o)
  <1>1. contentSizeSum \in Int /\ pending \in [Objects -> Requests \cup {None}]
        /\ MapTypes(lruCacheGroups, groupNumber)
    BY DEF NodeInv, IndInv, DownloadTypes, RestTypes, CacheTypes, MapTypes
  <1>2. handler[r].pc = "mime" /\ handler[r].pc \in DownloadPlaces
    BY DEF ContentAccepted, At, DownloadPlaces
  <1>3. handler[r].written = Size[o] /\ handler[r].good
    BY <1>2 DEF NodeInv, PlaceInv, WriteTypes, Writes
  <1>4. /\ pending' = [pending EXCEPT ![o] = None] /\ newContent(o)
        /\ mimeTypes' = mimeTypes \cup {o} /\ EndAndUnlink({r}, {})
        /\ UNCHANGED <<files, contentSizeSum, unverified>>
    BY DEF ContentAccepted, End, diskVars, historyVars
  <1>5. /\ groupNumber'[o] # None
        /\ \A p \in Objects \ {o} : groupNumber'[p] = groupNumber[p]
        /\ \A p \in Objects :
               GroupsAgree(lruCacheGroups, groupNumber, p) /\ (p = o => groupNumber[o] = None)
                   => GroupsAgree(lruCacheGroups', groupNumber', p)
    BY <1>1, <1>4, NewContentGroups
  <1>6. pending'[o] = None /\ \A p \in Objects \ {o} : pending'[p] = pending[p]
    BY <1>1, <1>4
  <1>7. Local({o})
    <2>1. \A p \in Objects \ {o} : SameMaps(p)
      BY <1>5 DEF SameMaps
    <2>2. \A p \in Objects \ {o} : SameObject(p)
      BY <1>4, <1>6, <2>1 DEF SameObject
    <2>3. \A q \in Requests :
              handler[q].pc \in DownloadPlaces /\ (q \in {r} \/ handler[q].obj \in {})
                  => handler[q].obj \in {o}
      OBVIOUS
    <2> QED
      BY <1>4, <2>2, <2>3, EndsKeepLocal
  <1>8. ASSUME Fresh(o) PROVE Moves(o)
    <2>1. /\ pending[o] = r /\ Writing(o) /\ Counted[o] = Size[o] /\ Size[o] \in Nat
          /\ files[o] # None /\ files[o].size = handler[r].written
          /\ GroupsAgree(lruCacheGroups, groupNumber, o) /\ groupNumber[o] = None
      BY <1>2, <1>8, OwnObject
    <2>2. ~Writing(o)'
      BY <1>6 DEF Writing
    <2>3. GroupsAgree(lruCacheGroups', groupNumber', o)
      BY <1>5, <2>1
    <2>4. Consistent(o)'
      BY <1>3, <1>4, <1>5, <1>6, <2>1, <2>3 DEF Consistent
    <2>5. Counted'[o] = Size[o]
      BY <1>3, <1>4, <2>1, <2>2 DEF Counted, SizeOf
    <2>6. ASSUME NEW q \in Requests, handler'[q].pc \in DownloadPlaces, handler'[q].obj = o
          PROVE  pending'[o] = q
      <3>1. q # r /\ handler[q].pc \in DownloadPlaces /\ handler[q].obj = o
        BY <1>4, <2>6, EndsLocal
      <3> QED
        BY <1>8, <2>1, <3>1 DEF Fresh, OwnEntry
    <2>7. Fresh(o)'
      BY <2>4, <2>6 DEF Fresh, OwnEntry
    <2>8. ASSUME RightData(o) PROVE RightData(o)'
      <3>1. o \notin unverified => files[o].valid = {n \in Offsets(o) : n < Size[o]}
        BY <1>3, <2>1, <2>8 DEF RightData
      <3>2. o \notin unverified => files[o].valid = Offsets(o)
        BY <2>1, <3>1 DEF Offsets
      <3> QED
        BY <1>4, <2>2, <3>2 DEF RightData
    <2>9. /\ contentSizeSum' = contentSizeSum + (Counted'[o] - Counted[o])
          /\ contentSizeSum' <= contentSizeSum
      BY <1>1, <1>4, <2>1, <2>5
    <2> QED
      BY <2>2, <2>7, <2>8, <2>9 DEF Moves
  <1> QED
    BY <1>7, <1>8 DEF Touches

(* Objects in the cache are dropped: nobody downloads one that is fresh.   *)
LEMMA DropDrops ==
    ASSUME NodeInv, NEW D \in SUBSET Objects, \A o \in D : Cached(o), drop(D)
    PROVE  Drops(D)
  <1>1. /\ EndAndUnlink(Failed(D), D)
        /\ dropById(D)
        /\ files' = FilesWithout(D)
        /\ contentSizeSum' = contentSizeSum - TotalSize([o \in D |-> files[o]])
        /\ pending' = [o \in Objects |-> IF o \in D THEN None ELSE pending[o]]
        /\ mimeTypes' = mimeTypes \ D /\ unverified' = unverified \ D
    BY DEF drop, dropById
  <1>2. \A o \in Objects : files'[o] = IF o \in D THEN None ELSE files[o]
    BY <1>1 DEF FilesWithout
  <1>3. /\ \A o \in Objects : GroupsAgree(lruCacheGroups, groupNumber, o)
                                 => GroupsAgree(lruCacheGroups', groupNumber', o)
        /\ \A o \in D : groupNumber'[o] \in {None, 0}
        /\ \A o \in Objects \ D : SameMaps(o)
    BY <1>1, DroppedMaps
  <1>4. Local(D)
    <2>1. \A o \in Objects \ D : SameObject(o)
      BY <1>1, <1>2, <1>3 DEF SameObject
    <2>2. \A q \in Requests :
              handler[q].pc \in DownloadPlaces /\ (q \in Failed(D) \/ handler[q].obj \in D)
                  => handler[q].obj \in D
      BY FailedAreJoined
    <2> QED
      BY <1>1, <2>1, <2>2, EndsKeepLocal
  <1>5. ASSUME NEW o \in D, Fresh(o) PROVE Dropped(o)
    <2>1. GroupsAgree(lruCacheGroups, groupNumber, o) /\ groupNumber[o] # None
      <3>1. None \notin Groups
        BY DistributorAssumption DEF Groups
      <3> QED
        BY <1>5, <3>1 DEF Cached, Fresh, Consistent, GroupsAgree
    <2>2. pending[o] = None /\ ~Writing(o)
      BY <1>5, <2>1 DEF Fresh, Consistent, Writing
    <2>3. pending'[o] = None /\ files'[o] = None /\ ~Writing(o)'
      BY <1>1, <1>2 DEF Writing
    <2>4. Consistent(o)'
      BY <1>3, <2>1, <2>3 DEF Consistent
    <2>5. ASSUME NEW q \in Requests, handler'[q].pc \in DownloadPlaces, handler'[q].obj = o
          PROVE  pending'[o] = q
      <3>1. handler[q].pc \in DownloadPlaces /\ handler[q].obj = o
        BY <1>1, <2>5, EndsLocal
      <3> QED
        BY <1>5, <2>2, <3>1, DistributorAssumption DEF Fresh, OwnEntry
    <2> QED
      BY <2>2, <2>3, <2>4, <2>5 DEF Dropped, Fresh, OwnEntry
  <1>6. contentSizeSum' = contentSizeSum - SumOver(Sizes, D)
    BY <1>1, PartIsSum DEF NodeInv, FileInv
  <1> QED
    BY <1>4, <1>5, <1>6 DEF Drops

(* A round of the eviction loop. *)
LEMMA EvictDrops ==
    ASSUME NodeInv, NEW r \in Requests, EvictOne(r)
    PROVE  \E D \in SUBSET Objects : Drops(D)
  <1>1. PICK o \in EvictCandidates : drop({o})
    BY DEF EvictOne
  <1>2. PICK g \in Groups : lruCacheGroups[g] # << >> /\ o = Head(lruCacheGroups[g]).id
    BY <1>1 DEF EvictCandidates
  <1>3. lruCacheGroups[g] \in Seq(Item)
    BY DEF NodeInv, CacheTypes, GroupTypes
  <1>4. 1 \in 1 .. Len(lruCacheGroups[g]) /\ Head(lruCacheGroups[g]) = lruCacheGroups[g][1]
    BY <1>2, <1>3
  <1>5. lruCacheGroups[g][1] \in Item
    BY <1>3, <1>4
  <1>6. o \in Objects /\ Cached(o)
    BY <1>2, <1>4, <1>5 DEF Has, Item, Cached
  <1>7. {o} \in SUBSET Objects /\ \A p \in {o} : Cached(p)
    BY <1>6
  <1>8. Drops({o})
    BY <1>1, <1>7, DropDrops
  <1> QED
    BY <1>7, <1>8

(* cacheCleanup *)
LEMMA CleanupDrops ==
    ASSUME NodeInv, cacheCleanup
    PROVE  \E D \in SUBSET Objects : Drops(D)
  <1> DEFINE D == {o \in Objects : Cached(o)} \ cleanup
  <1>1. D \in SUBSET Objects /\ drop(D) /\ \A o \in D : Cached(o)
    BY DEF cacheCleanup
  <1> HIDE DEF D
  <1>2. Drops(D)
    BY <1>1, DropDrops
  <1> QED
    BY <1>1, <1>2

(* What any step but a restart does. *)
LEMMA StepShapes ==
    ASSUME NodeInv, [Next]_vars
    PROVE  \/ Restart
           \/ Quiet
           \/ \E o \in Objects : Touches(o)
           \/ \E D \in SUBSET Objects : Drops(D)
  <1> DEFINE Goal == \/ Quiet
                     \/ \E o \in Objects : Touches(o)
                     \/ \E D \in SUBSET Objects : Drops(D)
  <1>1. ASSUME NEW r \in Requests, NEW o \in Objects, asset(r, o)
        PROVE  Goal
    BY <1>1, AssetQuiet
  <1>2. ASSUME NEW r \in Requests, Handle(r)
        PROVE  Goal
    <2>1. handler[r].pc \in DownloadPlaces => \E o \in Objects : o = handler[r].obj
      BY DEF NodeInv, PlaceInv, WriteTypes, Writes
    <2>2. CASE \/ NotServed(r) \/ SourceFound(r) \/ EvictSleep(r) \/ EvictWake(r)
               \/ StreamAborted(r) \/ ContentVerified(r)
      BY <2>2, HandlerQuiet
    <2>3. CASE serveMissingAsset(r)
      BY <2>3, MissingShape
    <2>4. CASE SourceNotFound(r)
      <3>1. handler[r].pc \in DownloadPlaces
        BY <2>4 DEF SourceNotFound, At, DownloadPlaces
      <3> QED
        BY <2>1, <2>4, <3>1, NotFoundTouches
    <2>5. CASE EvictOne(r)
      BY <2>5, EvictDrops
    <2>6. CASE handleNewContent(r)
      <3>1. handler[r].pc \in DownloadPlaces
        BY <2>6, DistributorAssumption
           DEF handleNewContent, NodeInv, PlaceInv, QueueInv, DownloadPlaces
      <3> QED
        BY <2>1, <2>6, <3>1, OpenTouches
    <2>7. CASE onData(r)
      <3>1. handler[r].pc \in DownloadPlaces
        BY <2>7 DEF onData, At, DownloadPlaces
      <3> QED
        BY <2>1, <2>7, <3>1, DataTouches
    <2>8. CASE rejectContent(r)
      <3>1. handler[r].pc \in DownloadPlaces
        BY <2>8 DEF rejectContent, At, DownloadPlaces
      <3> QED
        BY <2>1, <2>8, <3>1, RejectTouches
    <2>9. CASE ContentAccepted(r)
      <3>1. handler[r].pc \in DownloadPlaces
        BY <2>9 DEF ContentAccepted, At, DownloadPlaces
      <3> QED
        BY <2>1, <2>9, <3>1, AcceptTouches
    <2> HIDE DEF Goal
    <2> QED
      BY <1>2, <2>2, <2>3, <2>4, <2>5, <2>6, <2>7, <2>8, <2>9 DEF Handle
  <1>3. ASSUME downloadJob PROVE Goal
    BY <1>3, JobQuiet
  <1>4. ASSUME cacheCleanup PROVE Goal
    BY <1>4, CleanupDrops
  <1>5. ASSUME ObligationsChange \/ fetchSupportedDataObjects \/ save \/ SaveDone \/ UNCHANGED vars
        PROVE  Goal
    <2>1. UNCHANGED <<handler, pending, files, contentSizeSum, lruCacheGroups, groupNumber,
                      mimeTypes, unverified>>
      BY <1>5 DEF ObligationsChange, fetchSupportedDataObjects, save, SaveDone, vars,
                  diskVars, cacheVars, historyVars
    <2> QED
      BY <2>1, UnchangedQuiet
  <1> HIDE DEF Goal
  <1>6. Restart \/ Goal
    BY <1>1, <1>2, <1>3, <1>4, <1>5 DEF Next
  <1> QED
    BY <1>6 DEF Goal

(* An object that was fetched again is remembered until the next start. *)
LEMMA FreshBefore ==
    ASSUME [Next]_vars, ~Restart
    PROVE  refetched \subseteq refetched'
  BY DEF Next, Handle, asset, NotServed, serveMissingAsset, SourceNotFound,
         SourceFound, EvictOne, EvictSleep, EvictWake, StreamAborted,
         handleNewContent, onData, rejectContent, ContentVerified,
         ContentAccepted, downloadJob, ObligationsChange,
         fetchSupportedDataObjects, cacheCleanup, save, SaveDone, historyVars, vars

(* What an object counts for is a number, before and after a step. *)
LEMMA CountedTypes ==
    /\ NodeInv => Summable(Counted, Objects) /\ \A o \in Objects : Counted[o] \in Nat
    /\ NodeInv' => Summable(Counted', Objects) /\ \A o \in Objects : Counted'[o] \in Nat
  <1>1. IsFiniteSet(Objects) /\ \A o \in Objects : Size[o] \in Nat
    BY DistributorAssumption
  <1>2. \A o \in Objects : \A f \in FileOf(o) \cup {None} : SizeOf(f) \in Nat
    BY <1>1, DistributorAssumption DEF FileOf, SizeOf
  <1>3. NodeInv => \A o \in Objects : Counted[o] \in Nat
    BY <1>1, <1>2 DEF NodeInv, FileInv, FileTypes, Counted
  <1>4. NodeInv' => \A o \in Objects : Counted'[o] \in Nat
    BY <1>1, <1>2 DEF NodeInv, FileInv, FileTypes, Counted
  <1> QED
    BY <1>1, <1>3, <1>4, SumNat

(* After a start no object is being written, all are consistent, and the   *)
(* files have the right data or are among those that were not looked at.   *)
LEMMA RestartFresh ==
    ASSUME NodeInv, NodeInv', Restart
    PROVE  /\ \A o \in Objects : Fresh(o)' /\ RightData(o)' /\ ~Writing(o)'
           /\ contentSizeSum' = SumOver(Counted', Objects)
  <1>1. PICK stored \in {cacheFile, serializeData} : startupInit(stored)
    BY DEF Restart
  <1>2. stored \in Stored \cup {None}
    BY <1>1, SerializedCache DEF NodeInv, CacheTypes
  <1> DEFINE groups == load(stored)
             number == loadGroupNumber(groups)
             keep == KeptAtStartup(number)
             dropped == DroppedAtStartup(number)
  <1>3. \A o \in Objects : GroupsAgree(lruCacheGroups', groupNumber', o)
    BY <1>1, <1>2, StartupKeepsCache DEF NodeInv, FileInv, RestTypes
  <1>4. /\ files' = [o \in Objects |-> IF o \in keep THEN files[o] ELSE None]
        /\ contentSizeSum' = TotalSize([o \in keep |-> files[o]])
        /\ groupNumber' = NumbersAfterDrop(number, dropped)
        /\ keep \in SUBSET mimeTypes'
        /\ unverified' = {o \in keep : files[o].valid # Offsets(o)}
    BY <1>1 DEF startupInit, SpaceAtStartup
  <1>5. /\ keep \in SUBSET Objects
        /\ \A o \in keep : files[o] # None /\ number[o] # None /\ files[o].size = Size[o]
        /\ \A o \in Objects \ keep : files[o] # None \/ number[o] # None => o \in dropped
        /\ \A o \in keep : o \notin dropped
    BY DEF KeptAtStartup, DroppedAtStartup, NodeInv, RestTypes
  <1> HIDE DEF groups, number, keep, dropped
  <1>6. \A o \in Objects :
            groupNumber'[o] = IF o \in dropped /\ number[o] # 0 THEN None ELSE number[o]
    BY <1>4 DEF NumbersAfterDrop, InLaterGroup
  <1>7. \A o \in Objects : pending'[o] = None /\ ~Writing(o)'
    BY DEF Restart, Writing
  <1>8. ASSUME NEW o \in Objects PROVE Consistent(o)' /\ RightData(o)'
    <2>1. CASE o \in keep
      <3>1. Consistent(o)'
        BY <1>3, <1>4, <1>5, <1>6, <1>7, <2>1 DEF Consistent
      <3>2. o \in unverified' \/ files'[o].valid = Offsets(o)
        BY <1>4, <2>1
      <3> QED
        BY <1>7, <3>1, <3>2 DEF RightData
    <2>2. CASE o \notin keep
      <3>1. files'[o] = None /\ groupNumber'[o] \in {None, 0}
        BY <1>4, <1>5, <1>6, <2>2
      <3> QED
        BY <1>3, <1>7, <3>1 DEF Consistent, RightData
    <2> QED
      BY <2>1, <2>2
  <1>9. ASSUME NEW q \in Requests PROVE handler'[q].pc \notin DownloadPlaces
    <2> DEFINE rs == {r \in Requests : ~At(r, "new")}
    <2>1. EndAndUnlink(rs, {})
      BY DEF Restart, End
    <2>2. q \notin rs => handler[q].pc \notin DownloadPlaces
      BY DEF At, DownloadPlaces
    <2> HIDE DEF rs
    <2> QED
      BY <2>1, <2>2, EndsLocal
  <1>10. \A o \in Objects : Fresh(o)'
    BY <1>8, <1>9 DEF Fresh, OwnEntry
  <1>11. contentSizeSum' = SumOver(Counted', Objects)
    <2>1. /\ Summable(Sizes, keep)
          /\ contentSizeSum' = SumOver(Sizes, keep)
          /\ contentSizeSum' \in Int
      BY <1>4, <1>5, PartIsSum DEF NodeInv, FileInv
    <2>2. \A o \in keep : Sizes[o] = Counted'[o]
      BY <1>4, <1>5, <1>7 DEF Sizes, Counted
    <2>3. \A o \in Objects \ keep : Counted'[o] = 0
      BY <1>4, <1>7 DEF Counted, SizeOf
    <2>4. Summable(Counted', Objects)
      BY CountedTypes
    <2>5. IsFiniteSet(Objects \ keep)
      BY DistributorAssumption, FS_Subset
    <2> DEFINE C == Counted'
    <2> HIDE DEF C
    <2>6. SumOver(C, Objects) = SumOver(C, keep) + SumOver(C, Objects \ keep)
      BY <1>5, <2>4, SumSplit DEF C
    <2>7. SumOver(Sizes, keep) = SumOver(C, keep)
      BY <2>1, <2>2, SumSame DEF C
    <2>8. SumOver(C, Objects \ keep) = 0
      BY <2>3, <2>5, SumZero DEF C
    <2> QED
      BY <2>1, <2>6, <2>7, <2>8 DEF C
  <1> QED
    BY <1>7, <1>8, <1>10, <1>11

-----------------------------------------------------------------------------
(* The agreement of the cache and the directory on the objects that were   *)
(* not fetched again.                                                      *)

(* Every step keeps those objects consistent. *)
LEMMA NextKeepsFresh ==
    ASSUME NodeInv, NodeInv', FreshInv, [Next]_vars
    PROVE  FreshInv'
  <1> SUFFICES ASSUME NEW o \in Objects, o \notin refetched' PROVE Fresh(o)'
    BY DEF FreshInv
  <1>1. CASE Restart
    BY <1>1, RestartFresh
  <1>2. CASE ~Restart
    <2>1. Fresh(o)
      BY <1>2, FreshBefore DEF FreshInv
    <2>2. CASE Quiet
      BY <2>1, <2>2, LocalFrame DEF Quiet
    <2>3. ASSUME NEW p \in Objects, Touches(p) PROVE Fresh(o)'
      <3>1. CASE p = o
        BY <2>1, <2>3, <3>1 DEF Touches, Moves
      <3>2. CASE p # o
        BY <2>1, <2>3, <3>2, LocalFrame DEF Touches
      <3> QED
        BY <3>1, <3>2
    <2>4. ASSUME NEW D \in SUBSET Objects, Drops(D) PROVE Fresh(o)'
      <3>1. CASE o \in D
        BY <2>1, <2>4, <3>1 DEF Drops, Dropped
      <3>2. CASE o \notin D
        BY <2>1, <2>4, <3>2, LocalFrame DEF Drops
      <3> QED
        BY <3>1, <3>2
    <2> QED
      BY <1>2, <2>2, <2>3, <2>4, StepShapes
  <1> QED
    BY <1>1, <1>2

(* So that holds in every state. *)
LEMMA FreshInvariant == Spec => []FreshInv
  <1>1. Init => FreshInv
    <2> SUFFICES ASSUME Init, NEW o \in Objects PROVE Fresh(o)
      BY DEF FreshInv
    <2>1. None \notin Groups
      BY DistributorAssumption DEF Groups
    <2>2. \A g \in Groups : ~Has(lruCacheGroups[g], o) /\ groupNumber[o] = None
      BY DEF Init, Has
    <2>3. GroupsAgree(lruCacheGroups, groupNumber, o)
      BY <2>1, <2>2 DEF GroupsAgree
    <2> QED
      BY <2>3 DEF Init, Fresh, OwnEntry, Consistent, Writing, NewHandler, DownloadPlaces
  <1>2. NodeInv /\ NodeInv' /\ FreshInv /\ [Next]_vars => FreshInv'
    BY NextKeepsFresh
  <1> QED
    BY <1>1, <1>2, NodeInvariant, PTL DEF Spec

(* The cache state and the directory agree on every object, whatever its   *)
(* group, that was not fetched again since the last start while the cache  *)
(* had an item for it: an item is in the one group that                    *)
(* groupNumberByObjectId names, with a complete file and a mime type, or   *)
(* is what dropById left behind in group 0, and every other file is being  *)
(* written.                                                                *)
THEOREM CacheMatchesDirectory == Spec => []CacheMatchesFiles
  <1>1. NodeInv /\ FreshInv => CacheMatchesFiles
    <2> SUFFICES ASSUME NodeInv, FreshInv PROVE CacheMatchesFiles
      OBVIOUS
    <2> DEFINE Kept == Objects \ refetched
    <2>1. ASSUME NEW o \in Kept
          PROVE  /\ \A g \in Groups : Has(lruCacheGroups[g], o) <=> groupNumber[o] = g
                 /\ groupNumber[o] \in Groups \cup {None} /\ Consistent(o) /\ o \in Objects
      BY DEF NodeInv, CacheTypes, GroupsAgree, FreshInv, Fresh, Consistent
    <2>2. None \notin Groups
      BY DistributorAssumption DEF Groups
    <2>3. ASSUME NEW o \in Kept PROVE Cached(o) <=> groupNumber[o] # None
      BY <2>1, <2>2 DEF Cached
    <2>4. ASSUME NEW o \in Kept, Cached(o)
          PROVE  \/ LeftBehind(o)
                 \/ files[o] # None /\ files[o].size = Size[o] /\ o \in mimeTypes
      BY <2>1, <2>3, <2>4 DEF Consistent, LeftBehind
    <2>5. ASSUME NEW o \in Kept, files[o] # None, ~Cached(o)
          PROVE  \E r \in Reserving : handler[r].obj = o /\ handler[r].linked
      <3>1. Writing(o) /\ handler[pending[o]].linked
        BY <2>1, <2>3, <2>5 DEF Consistent
      <3>2. pending[o] \in Requests /\ handler[pending[o]].obj = o
        BY <2>1, <3>1 DEF Writing, NodeInv, IndInv, DownloadTypes, PendingHasDownload
      <3> QED
        BY <3>1, <3>2 DEF Writing, Reserving
    <2> QED
      BY <2>1, <2>4, <2>5 DEF CacheMatchesFiles
  <1> QED
    BY <1>1, NodeInvariant, FreshInvariant, PTL

-----------------------------------------------------------------------------
(* The space counter. *)

(* A step that concerns no object. *)
LEMMA QuietKeepsSpace ==
    ASSUME NodeInv, NodeInv', refetched = {}, SpaceInv, Quiet
    PROVE  SpaceInv'
  <1>1. \A o \in Objects : (Writing(o)' <=> Writing(o)) /\ Counted'[o] = Counted[o]
    BY LocalFrame DEF Quiet
  <1>2. Summable(Counted, Objects)
    BY CountedTypes
  <1> DEFINE C == Counted'
  <1> HIDE DEF C
  <1>3. SumOver(Counted, Objects) = SumOver(C, Objects)
    BY <1>1, <1>2, SumSame DEF C
  <1>4. contentSizeSum' = SumOver(Counted', Objects)
    BY <1>3 DEF SpaceInv, Quiet, C
  <1>5. (\E o \in Objects : Writing(o)') => contentSizeSum' <= StorageLimit
    BY <1>1 DEF SpaceInv, Quiet
  <1> QED
    BY <1>4, <1>5 DEF SpaceInv

(* A step that concerns one object. *)
LEMMA MovesKeepSpace ==
    ASSUME NodeInv, NodeInv', refetched = {}, SpaceInv, NEW o \in Objects, Local({o}), Moves(o)
    PROVE  SpaceInv'
  <1>1. \A p \in Objects \ {o} : (Writing(p)' <=> Writing(p)) /\ Counted'[p] = Counted[p]
    BY LocalFrame
  <1>2. /\ Summable(Counted, Objects) /\ Summable(Counted', Objects)
        /\ Counted[o] \in Nat /\ Counted'[o] \in Nat
        /\ contentSizeSum \in Int /\ contentSizeSum' \in Int /\ StorageLimit \in Int
    BY CountedTypes, DistributorAssumption DEF NodeInv, RestTypes
  <1>3. /\ contentSizeSum = SumOver(Counted, Objects)
        /\ contentSizeSum' = contentSizeSum + (Counted'[o] - Counted[o])
    BY DEF SpaceInv, Moves
  <1> DEFINE C == Counted'
  <1> HIDE DEF C
  <1>4. SumOver(C, Objects) = (SumOver(Counted, Objects) - Counted[o]) + C[o]
    BY <1>1, <1>2, SumSwap DEF C
  <1>5. contentSizeSum' = SumOver(Counted', Objects)
    BY <1>2, <1>3, <1>4 DEF C
  <1>6. ASSUME NEW p \in Objects, Writing(p)'
        PROVE  contentSizeSum' <= StorageLimit
    <2>1. Writing(p) \/ contentSizeSum' <= StorageLimit
      BY <1>1, <1>6 DEF Moves
    <2>2. Writing(p) => contentSizeSum <= StorageLimit
      BY DEF SpaceInv
    <2>3. contentSizeSum' <= contentSizeSum \/ contentSizeSum' <= StorageLimit
      BY DEF Moves
    <2> QED
      BY <1>2, <2>1, <2>2, <2>3
  <1> QED
    BY <1>5, <1>6 DEF SpaceInv

(* Objects are dropped. *)
LEMMA DropsKeepSpace ==
    ASSUME NodeInv, NodeInv', refetched = {}, SpaceInv, NEW D \in SUBSET Objects, Drops(D),
           \A o \in D : Fresh(o)
    PROVE  SpaceInv'
  <1>1. \A p \in Objects \ D : (Writing(p)' <=> Writing(p)) /\ Counted'[p] = Counted[p]
    BY LocalFrame DEF Drops
  <1>2. /\ Summable(Counted, Objects) /\ Summable(Counted', Objects)
        /\ \A o \in Objects : Counted[o] \in Nat
        /\ contentSizeSum \in Int /\ contentSizeSum' \in Int /\ StorageLimit \in Int
    BY CountedTypes, DistributorAssumption DEF NodeInv, RestTypes
  <1>3. \A o \in D : ~Writing(o) /\ ~Writing(o)' /\ Sizes[o] = Counted[o] /\ Counted'[o] = 0
    <2>1. \A o \in D : ~Writing(o) /\ pending'[o] = None /\ files'[o] = None
      BY DEF Drops, Dropped
    <2>2. \A o \in D : ~Writing(o)'
      BY <2>1 DEF Writing
    <2> QED
      BY <2>1, <2>2 DEF Sizes, Counted, SizeOf
  <1>4. IsFiniteSet(D) /\ IsFiniteSet(Objects \ D)
    BY DistributorAssumption, FS_Subset
  <1>5. Summable(Counted, D) /\ SumOver(Counted, D) \in Nat
    BY <1>2, <1>4, SumNat
  <1>6. SumOver(Sizes, D) = SumOver(Counted, D)
    BY <1>3, <1>5, SumSame
  <1>7. Summable(Counted, Objects \ D) /\ SumOver(Counted, Objects \ D) \in Int
    BY <1>2, <1>4, SumNat
  <1> DEFINE C == Counted'
  <1> HIDE DEF C
  <1>8. SumOver(Counted, Objects) = SumOver(Counted, D) + SumOver(Counted, Objects \ D)
    BY <1>2, SumSplit
  <1>9. SumOver(C, Objects) = SumOver(C, D) + SumOver(C, Objects \ D)
    BY <1>2, SumSplit DEF C
  <1>10. SumOver(C, D) = 0
    BY <1>3, <1>4, SumZero DEF C
  <1>11. SumOver(Counted, Objects \ D) = SumOver(C, Objects \ D)
    BY <1>1, <1>7, SumSame DEF C
  <1>12. /\ contentSizeSum = SumOver(Counted, Objects)
         /\ contentSizeSum' = contentSizeSum - SumOver(Sizes, D)
    BY DEF SpaceInv, Drops
  <1>13. contentSizeSum' = SumOver(C, Objects) /\ contentSizeSum' <= contentSizeSum
    BY <1>2, <1>5, <1>6, <1>7, <1>8, <1>9, <1>10, <1>11, <1>12
  <1>14. ASSUME NEW p \in Objects, Writing(p)'
         PROVE  contentSizeSum' <= StorageLimit
    <2>1. contentSizeSum <= StorageLimit
      BY <1>1, <1>3, <1>14 DEF SpaceInv
    <2> QED
      BY <1>2, <1>13, <2>1
  <1>15. contentSizeSum' = SumOver(Counted', Objects)
    BY <1>13 DEF C
  <1> QED
    BY <1>14, <1>15 DEF SpaceInv

(* Every step keeps the counter right. *)
LEMMA NextKeepsSpace ==
    ASSUME NodeInv, NodeInv', FreshInv, SpaceInv, [Next]_vars
    PROVE  SpaceInv'
  <1>1. CASE refetched' # {}
    BY <1>1 DEF SpaceInv
  <1>2. CASE Restart
    BY <1>2, RestartFresh DEF SpaceInv
  <1>3. CASE refetched' = {} /\ ~Restart
    <2>1. refetched = {} /\ \A o \in Objects : Fresh(o)
      BY <1>3, FreshBefore DEF FreshInv
    <2>2. ASSUME NEW o \in Objects, Touches(o) PROVE SpaceInv'
      <3>1. Local({o}) /\ Moves(o)
        BY <1>3, <2>1, <2>2 DEF Touches
      <3> QED
        BY <2>1, <3>1, MovesKeepSpace
    <2>3. ASSUME NEW D \in SUBSET Objects, Drops(D) PROVE SpaceInv'
      <3>1. \A o \in D : Fresh(o)
        BY <2>1
      <3> QED
        BY <2>1, <2>3, <3>1, DropsKeepSpace
    <2> QED
      BY <1>3, <2>1, <2>2, <2>3, StepShapes, QuietKeepsSpace
  <1> QED
    BY <1>1, <1>2, <1>3

(* So it is right in every state. *)
LEMMA SpaceInvariant == Spec => []SpaceInv
  <1>1. ASSUME Init PROVE SpaceInv
    <2>1. contentSizeSum = 0 /\ \A o \in Objects : files[o] = None /\ pending[o] = None
      BY <1>1 DEF Init
    <2>2. \A o \in Objects : ~Writing(o) /\ Counted[o] = 0
      BY <2>1 DEF Writing, Counted, SizeOf
    <2>3. SumOver(Counted, Objects) = 0
      BY <2>2, DistributorAssumption, SumZero
    <2> QED
      BY <2>1, <2>2, <2>3 DEF SpaceInv
  <1>2. NodeInv /\ NodeInv' /\ FreshInv /\ SpaceInv /\ [Next]_vars => SpaceInv'
    BY NextKeepsSpace
  <1> QED
    BY <1>1, <1>2, NodeInvariant, FreshInvariant, PTL DEF Spec

(* The space counter is what the files take, an object that is being       *)
(* written counting with its full size, unless an object was fetched again *)
(* since the last start while the cache had an item for it: objects of any *)
(* group, and also evictions that come upon an item left behind.           *)
THEOREM SpaceIsAccounted == Spec => []SpaceAccountedWhenFresh
  <1>1. NodeInv /\ FreshInv /\ SpaceInv => SpaceAccountedWhenFresh
    <2> SUFFICES ASSUME NodeInv, FreshInv, SpaceInv, refetched = {} PROVE SpaceAccounted
      BY DEF SpaceAccountedWhenFresh
    <2> DEFINE F == [o \in Objects |->
                        IF \E r \in Reserving : handler[r].obj = o THEN [size |-> Size[o]] ELSE files[o]]
               size == [o \in DOMAIN F |-> SizeOf(F[o])]
    <2>1. DOMAIN F = Objects
      OBVIOUS
    <2>2. ASSUME NEW o \in Objects
          PROVE  Writing(o) <=> \E r \in Reserving : handler[r].obj = o
      <3>1. ASSUME Writing(o) PROVE \E r \in Reserving : handler[r].obj = o
        BY <3>1 DEF Writing, Reserving, NodeInv, IndInv, DownloadTypes, PendingHasDownload
      <3>2. ASSUME NEW r \in Reserving, handler[r].obj = o PROVE Writing(o)
        <4>1. r \in Requests /\ handler[r].pc \in {"stream", "mime"} /\ r # None
          BY DistributorAssumption DEF Reserving
        <4>2. pending[o] = r
          BY <3>2, <4>1 DEF FreshInv, Fresh, OwnEntry, DownloadPlaces
        <4> QED
          BY <4>1, <4>2 DEF Writing
      <3> QED
        BY <3>1, <3>2
    <2>3. ASSUME NEW o \in Objects
          PROVE  (F[o] = None \/ F[o].size \in Nat) /\ SizeOf(F[o]) = Counted[o]
      <3>1. CASE Writing(o)
        <4>1. F[o] = [size |-> Size[o]] /\ Size[o] \in Nat
          BY <2>2, <3>1, DistributorAssumption
        <4>2. F[o] # None /\ F[o].size = Size[o]
          BY <4>1, DistributorAssumption
        <4> QED
          BY <3>1, <4>1, <4>2 DEF SizeOf, Counted
      <3>2. CASE ~Writing(o)
        <4>1. F[o] = files[o] /\ files[o] \in FileOf(o) \cup {None}
          BY <2>2, <3>2 DEF NodeInv, FileInv, FileTypes
        <4>2. files[o] = None \/ files[o].size \in Nat
          BY <4>1, DistributorAssumption DEF FileOf
        <4> QED
          BY <3>2, <4>1, <4>2 DEF Counted
      <3> QED
        BY <3>1, <3>2
    <2> HIDE DEF F
    <2>4. Summable(size, Objects) /\ TotalSize(F) = SumOver(size, Objects)
      BY <2>1, <2>3, TotalIsSum
    <2>5. \A o \in Objects : size[o] = Counted[o]
      BY <2>1, <2>3
    <2> HIDE DEF size
    <2>6. SumOver(size, Objects) = SumOver(Counted, Objects)
      BY <2>4, <2>5, SumSame
    <2>7. contentSizeSum = TotalSize(F)
      BY <2>4, <2>6 DEF SpaceInv
    <2> QED
      BY <2>7 DEF SpaceAccounted, F
  <1> QED
    BY <1>1, NodeInvariant, FreshInvariant, SpaceInvariant, PTL

-----------------------------------------------------------------------------
(* The storage limit. *)

(* What all files take is the sum of their sizes, before and after a step. *)
LEMMA TotalOfSizes ==
    /\ NodeInv => /\ Summable(Sizes, Objects) /\ TotalSize(files) = SumOver(Sizes, Objects)
                  /\ \A o \in Objects : Sizes[o] \in Nat
    /\ NodeInv' => /\ Summable(Sizes', Objects) /\ TotalSize(files') = SumOver(Sizes', Objects)
                   /\ \A o \in Objects : Sizes'[o] \in Nat
  <1>1. ASSUME NEW F, DOMAIN F = Objects, \A o \in Objects : F[o] \in FileOf(o) \cup {None},
               NEW S, S = [o \in Objects |-> SizeOf(F[o])]
        PROVE  /\ Summable(S, Objects) /\ TotalSize(F) = SumOver(S, Objects)
               /\ \A o \in Objects : S[o] \in Nat
    <2>1. \A o \in Objects : (F[o] = None \/ F[o].size \in Nat) /\ SizeOf(F[o]) \in Nat
      BY <1>1, DistributorAssumption DEF FileOf, SizeOf
    <2>2. DOMAIN F \in SUBSET Objects /\ \A o \in DOMAIN F : F[o] = None \/ F[o].size \in Nat
      BY <1>1, <2>1
    <2>3. S = [o \in DOMAIN F |-> SizeOf(F[o])]
      BY <1>1
    <2>4. Summable(S, Objects) /\ TotalSize(F) = SumOver(S, Objects)
      BY <1>1, <2>2, <2>3, TotalIsSum
    <2> QED
      BY <1>1, <2>1, <2>4
  <1>2. NodeInv => /\ DOMAIN files = Objects /\ \A o \in Objects : files[o] \in FileOf(o) \cup {None}
                   /\ Sizes = [o \in Objects |-> SizeOf(files[o])]
    BY DEF NodeInv, FileInv, FileTypes, Sizes
  <1>3. NodeInv' => /\ DOMAIN files' = Objects /\ \A o \in Objects : files'[o] \in FileOf(o) \cup {None}
                    /\ Sizes' = [o \in Objects |-> SizeOf(files'[o])]
    BY DEF NodeInv, FileInv, FileTypes, Sizes
  <1> QED
    BY <1>1, <1>2, <1>3

(* Only data that arrives makes a file longer, and then its object is      *)
(* being written.                                                          *)
LEMMA GrowingIsWriting ==
    ASSUME NodeInv, NodeInv', FreshInv, refetched' = {}, [Next]_vars
    PROVE  \/ \A o \in Objects : Sizes'[o] <= Sizes[o]
           \/ \E o \in Objects : Writing(o)'
  <1> DEFINE Shorter == \A o \in Objects : Sizes'[o] <= Sizes[o]
  <1>1. \A o \in Objects : /\ Sizes[o] = SizeOf(files[o]) /\ Sizes'[o] = SizeOf(files'[o])
                           /\ Sizes[o] \in Nat /\ Sizes'[o] \in Nat
    BY TotalOfSizes DEF Sizes
  <1>2. ASSUME \A o \in Objects : files'[o] \in {files[o], None}
        PROVE  Shorter
    <2>1. \A o \in Objects : Sizes'[o] = Sizes[o] \/ Sizes'[o] = 0
      BY <1>1, <1>2 DEF SizeOf
    <2> QED
      BY <1>1, <2>1
  <1>3. ASSUME UNCHANGED files PROVE Shorter
    BY <1>2, <1>3
  <1>4. ASSUME NEW r \in Requests, handleNewContent(r)
        PROVE  Shorter
    <2>1. PICK f : files' = [files EXCEPT ![handler[r].obj] = f] /\ SizeOf(f) = 0
      <3>1. SizeOf([size |-> 0, valid |-> {}]) = 0
        BY DEF SizeOf
      <3> QED
        BY <1>4, <3>1 DEF handleNewContent
    <2>2. \A o \in Objects : Sizes'[o] = Sizes[o] \/ Sizes'[o] = 0
      BY <1>1, <2>1 DEF NodeInv, FileInv, FileTypes
    <2> QED
      BY <1>1, <2>2
  <1>5. ASSUME NEW D, files' = FilesWithout(D)
        PROVE  Shorter
    BY <1>2, <1>5 DEF FilesWithout
  <1>6. ASSUME Restart PROVE Shorter
    <2>1. PICK stored : startupInit(stored)
      BY <1>6 DEF Restart
    <2>2. \A o \in Objects : files'[o] \in {files[o], None}
      BY <2>1 DEF startupInit
    <2> QED
      BY <1>2, <2>2
  <1>7. ASSUME NEW r \in Requests, onData(r), ~Restart
        PROVE  \E o \in Objects : Writing(o)'
    <2>1. \A o \in Objects : Fresh(o)
      BY <1>7, FreshBefore DEF FreshInv
    <2>2. handler[r].pc = "stream" /\ handler[r].pc \in DownloadPlaces
      BY <1>7 DEF onData, At, DownloadPlaces
    <2>3. PICK o \in Objects : o = handler[r].obj
      BY <2>2 DEF NodeInv, PlaceInv, WriteTypes, Writes
    <2>4. pending[o] = r
      BY <2>1, <2>2, <2>3, OwnObject
    <2>5. handler'[r].pc = "stream" /\ pending' = pending
      BY <1>7, <2>2 DEF onData, NodeInv, IndInv, DownloadTypes, Handler
    <2>6. Writing(o)'
      BY <2>4, <2>5, DistributorAssumption DEF Writing
    <2> QED
      BY <2>6
  <1>8. ASSUME NEW r \in Requests, rejectContent(r) \/ EvictOne(r)
        PROVE  Shorter
    BY <1>5, <1>8 DEF rejectContent, EvictOne, drop
  <1>9. ASSUME cacheCleanup PROVE Shorter
    BY <1>5, <1>9 DEF cacheCleanup, drop
  <1> HIDE DEF Shorter
  <1>10. Shorter \/ \E o \in Objects : Writing(o)'
    BY <1>3, <1>4, <1>6, <1>7, <1>8, <1>9, FileSteps
  <1> QED
    BY <1>10 DEF Shorter

(* Files that do not grow take no more space. *)
LEMMA ShorterTotal ==
    ASSUME NodeInv, NodeInv', \A o \in Objects : Sizes'[o] <= Sizes[o]
    PROVE  TotalSize(files') <= TotalSize(files)
  <1> DEFINE S == Sizes'
  <1>1. /\ Summable(Sizes, Objects) /\ TotalSize(files) = SumOver(Sizes, Objects)
        /\ Summable(S, Objects) /\ TotalSize(files') = SumOver(S, Objects)
    BY TotalOfSizes
  <1>2. AtMost(S, Sizes, Objects, {}, 0)
    BY DEF AtMost
  <1>3. {} \in SUBSET Objects /\ 0 \in Nat
    OBVIOUS
  <1> HIDE DEF S
  <1>4. SumOver(S, Objects) <= SumOver(Sizes, Objects) + 0 * Cardinality({})
    BY <1>1, <1>2, <1>3, SumAtMost
  <1>5. SumOver(Sizes, Objects) \in Int /\ SumOver(S, Objects) \in Int /\ Cardinality({}) = 0
    BY <1>1, SumType, FS_EmptySet
  <1> QED
    BY <1>1, <1>4, <1>5

(* The files take no more than the counter says, but for the overruns. *)
LEMMA CounterCoversFiles ==
    ASSUME NodeInv', SpaceInv', refetched' = {}, NEW o \in Objects, Writing(o)'
    PROVE  TotalSize(files') <= StorageLimit + Chunk * Cardinality(TooLong')
  <1> DEFINE S == Sizes'
             C == Counted'
             T == TooLong'
  <1>1. /\ Summable(S, Objects) /\ TotalSize(files') = SumOver(S, Objects)
        /\ \A p \in Objects : S[p] \in Nat
    BY TotalOfSizes
  <1>2. Summable(C, Objects)
    BY CountedTypes
  <1>3. T = {p \in Objects : SizeOf(files'[p]) > Size[p]}
    BY DEF TooLong
  <1>4. Chunk \in Nat /\ \A p \in Objects : Size[p] \in Nat
    BY DistributorAssumption
  <1>5. ASSUME NEW p \in Objects
        PROVE  /\ p \notin T => S[p] <= C[p]
               /\ S[p] <= C[p] + Chunk
    <2>1. S[p] = SizeOf(files'[p])
      BY DEF Sizes
    <2>2. S[p] <= Size[p] + Chunk
      <3>1. files'[p] \in FileOf(p) \cup {None}
        BY DEF NodeInv, FileInv, FileTypes
      <3> QED
        BY <1>4, <2>1, <3>1 DEF FileOf, SizeOf
    <2>3. CASE Writing(p)'
      <3>1. C[p] = Size[p]
        BY <2>3 DEF Counted
      <3>2. p \notin T => S[p] <= Size[p]
        BY <1>1, <1>3, <1>4, <2>1
      <3> QED
        BY <2>2, <3>1, <3>2
    <2>4. CASE ~Writing(p)'
      <3>1. C[p] = S[p]
        BY <2>1, <2>4 DEF Counted
      <3>2. S[p] \in Nat
        BY <1>1
      <3> HIDE DEF S, C
      <3> QED
        BY <1>4, <3>1, <3>2
    <2> QED
      BY <2>3, <2>4
  <1>6. contentSizeSum' = SumOver(C, Objects) /\ contentSizeSum' <= StorageLimit
    BY DEF SpaceInv
  <1> HIDE DEF S, C, T
  <1>7. T \in SUBSET Objects
    BY <1>3
  <1>8. AtMost(S, C, Objects, T, Chunk)
    BY <1>5 DEF AtMost
  <1>9. SumOver(S, Objects) <= SumOver(C, Objects) + Chunk * Cardinality(T)
    BY <1>1, <1>2, <1>4, <1>7, <1>8, SumAtMost
  <1>10. /\ SumOver(S, Objects) \in Int /\ SumOver(C, Objects) \in Int /\ StorageLimit \in Int
         /\ Chunk * Cardinality(T) \in Int
    <2>1. Cardinality(T) \in Nat
      BY <1>7, DistributorAssumption, FS_Subset, FS_CardinalityType
    <2> QED
      BY <1>1, <1>2, <1>4, <2>1, SumType, DistributorAssumption
  <1> QED
    BY <1>1, <1>6, <1>9, <1>10 DEF T

(* As long as no object is fetched again that the cache has an item for,   *)
(* the files never grow beyond the storage limit, but for the chunks by    *)
(* which sources overrun their objects.                                    *)
THEOREM StorageLimitIsKept == Spec => LimitKept
  <1>1. ASSUME NodeInv, NodeInv', FreshInv, SpaceInv', [Next]_vars, refetched' = {},
               TotalSize(files') > TotalSize(files)
        PROVE  TotalSize(files') <= StorageLimit + Chunk * Cardinality(TooLong')
    <2>1. CASE \E o \in Objects : Writing(o)'
      BY <1>1, <2>1, CounterCoversFiles
    <2>2. CASE \A o \in Objects : Sizes'[o] <= Sizes[o]
      <3>1. TotalSize(files') <= TotalSize(files)
        BY <1>1, <2>2, ShorterTotal
      <3>2. TotalSize(files') \in Int /\ TotalSize(files) \in Int
        BY <1>1, TotalOfSizes, SumType
      <3> QED
        BY <1>1, <3>1, <3>2
    <2> QED
      BY <1>1, <2>1, <2>2, GrowingIsWriting
  <1>2. NodeInv /\ NodeInv' /\ FreshInv /\ SpaceInv' /\ [Next]_vars
           => [refetched' = {} /\ TotalSize(files') > TotalSize(files)
                  => TotalSize(files') <= StorageLimit + Chunk * Cardinality(TooLong')]_vars
    BY <1>1
  <1> QED
    BY <1>2, NodeInvariant, FreshInvariant, SpaceInvariant, PTL DEF Spec, LimitKept

-----------------------------------------------------------------------------
(* The content of the files. *)

(* Every step keeps the data right. *)
LEMMA NextKeepsData ==
    ASSUME NodeInv, NodeInv', FreshInv, DataInv, [Next]_vars
    PROVE  DataInv'
  <1> SUFFICES ASSUME NEW o \in Objects, o \notin refetched' PROVE RightData(o)'
    BY DEF DataInv
  <1>1. CASE Restart
    BY <1>1, RestartFresh
  <1>2. CASE ~Restart
    <2>1. Fresh(o) /\ RightData(o)
      BY <1>2, FreshBefore DEF FreshInv, DataInv
    <2>2. CASE Quiet
      BY <2>1, <2>2, LocalFrame DEF Quiet
    <2>3. ASSUME NEW p \in Objects, Touches(p) PROVE RightData(o)'
      <3>1. CASE p = o
        BY <2>1, <2>3, <3>1 DEF Touches, Moves
      <3>2. CASE p # o
        BY <2>1, <2>3, <3>2, LocalFrame DEF Touches
      <3> QED
        BY <3>1, <3>2
    <2>4. ASSUME NEW D \in SUBSET Objects, Drops(D) PROVE RightData(o)'
      <3>1. CASE o \in D
        BY <2>1, <2>4, <3>1 DEF Drops, Dropped, RightData, Writing
      <3>2. CASE o \notin D
        BY <2>1, <2>4, <3>2, LocalFrame DEF Drops
      <3> QED
        BY <3>1, <3>2
    <2> QED
      BY <1>2, <2>2, <2>3, <2>4, StepShapes
  <1> QED
    BY <1>1, <1>2

(* What the node serves as a cache hit is exactly the content whose hash   *)
(* is on the chain, also after crashes and starts, if the cache had no     *)
(* item for the object when it was fetched, and unless the last start      *)
(* itself took a file over that has other data.                            *)
THEOREM AvailableIsVerified == Spec => []AvailableVerified
  <1>1. Init => DataInv
    BY DEF Init, DataInv, RightData, Writing
  <1>2. NodeInv /\ NodeInv' /\ FreshInv /\ DataInv /\ [Next]_vars => DataInv'
    BY NextKeepsData
  <1>3. NodeInv /\ FreshInv /\ DataInv => AvailableVerified
    <2> SUFFICES ASSUME NodeInv, FreshInv, DataInv, NEW o \in Objects,
                        o \notin refetched, o \notin unverified, objectStatus(o) = "Available"
                 PROVE  files[o] = [size |-> Size[o], valid |-> Offsets(o)]
      BY DEF AvailableVerified
    <2>1. pending[o] = None /\ files[o] # None
      BY DEF objectStatus
    <2>2. files[o] \in FileOf(o)
      BY <2>1 DEF NodeInv, FileInv, FileTypes
    <2>3. files[o].size = Size[o]
      BY <2>1 DEF FreshInv, Fresh, Consistent, Writing
    <2>4. files[o].valid = Offsets(o)
      BY <2>1 DEF DataInv, RightData
    <2> QED
      BY <2>2, <2>3, <2>4 DEF FileOf
  <1> QED
    BY <1>1, <1>2, <1>3, NodeInvariant, FreshInvariant, PTL DEF Spec
=============================================================================
