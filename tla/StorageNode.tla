----------------------------- MODULE StorageNode -----------------------------
(***************************************************************************)
(* The storage node, Colossus (storage-node): uploads, the directory of    *)
(* stored files with its in-memory index, and the synchronization with the *)
(* other providers.                                                        *)
(*                                                                         *)
(* The node is one Node.js process: a handler runs without interruption    *)
(* between two awaits, and every action below is such a stretch.  A file   *)
(* is good when its size and hash are those the chain has for the object.  *)
(* Temporary files are private to the request or task that writes them and *)
(* are kept in its state; a restart empties their directory.               *)
(*                                                                         *)
(* The chain (the storage pallet), the query node and the other providers  *)
(* are the node's environment.                                             *)
(***************************************************************************)
EXTENDS Integers, FiniteSets, Sequences, Functions

CONSTANTS
    None,
    Objects,       \* data objects, created on the chain in bags of this node
    Uploads,       \* upload requests
    Workers,       \* syncWorkersNumber processors of a synchronization
    Operators,     \* other providers of the objects' bags
    Events,        \* what else happens to the objects on the chain
    MaxFaults,     \* bound on failed calls to the environment
    MaxRestarts    \* bound on restarts of the node

VARIABLES
    chain,       \* DataObjectsById: the object's status
    assigned,    \* objects whose bag is stored by this node's bucket
    promised,    \* objects this node accepted: PendingDataObjectsAccepted
    tx, nonce,   \* the accepting extrinsics of the uploads
    indexed,     \* the query node's view of the objects
    remote,      \* the files of the other providers
    files,       \* the uploads directory
    idCache,     \* localDataObjects.ts
    upload,      \* the upload requests
    sync,        \* performSync
    stack,       \* WorkingStack
    worker,      \* TaskProcessor
    remoteIds,   \* availableIDsCache
    badUrls,     \* badOperatorUrls
    faults, restarts

chainVars == <<chain, assigned, promised>>
txVars == <<tx, nonce>>
envVars == <<chainVars, indexed, remote>>
diskVars == <<files, idCache>>
caches == <<remoteIds, badUrls>>
syncVars == <<sync, stack, worker, caches>>
counters == <<faults, restarts>>
vars == <<chain, assigned, promised, tx, nonce, indexed, remote, files,
          idCache, upload, sync, stack, worker, remoteIds, badUrls, faults,
          restarts>>

Idle == [pc |-> "idle", obj |-> None, content |-> None]
Asleep == [pc |-> "asleep", files |-> {}, bags |-> {}]
Off == [pc |-> "off", task |-> None, urls |-> {}, content |-> None]

PrepareTask(o) == [kind |-> "prepare", obj |-> o]
DownloadTask(o, url, hash) ==
    [kind |-> "download", obj |-> o, url |-> url, expectedHash |-> hash]

Tasks == [kind : {"prepare"}, obj : Objects]
           \cup [kind : {"download"}, obj : Objects, url : Operators,
                 expectedHash : BOOLEAN]

ASSUME StorageAssumption ==
    /\ MaxFaults \in Nat
    /\ MaxRestarts \in Nat
    /\ None \notin Objects \cup {"good", "bad"} \cup Tasks
    /\ IsFiniteSet(Objects)
    /\ IsFiniteSet(Uploads)
    /\ Workers # {}

Contents == {"good", "bad", None}

UploadStates ==
    [pc : {"idle", "received", "cached", "accepting", "cleanup", "failed", "ended"},
     obj : Objects \cup {None}, content : Contents]

WorkerStates ==
    [pc : {"off", "get", "prepare", "download", "rename", "cache"},
     task : Tasks \cup {None}, urls : SUBSET Operators, content : Contents]

Init ==
    /\ chain = [o \in Objects |-> "pending"]
    /\ assigned = Objects
    /\ promised = {}
    /\ tx = [u \in Uploads |-> "none"]
    /\ nonce = [u \in Uploads |-> 0]
    /\ indexed = [accepted |-> {}, assigned |-> Objects]
    /\ remote = [p \in Operators |-> {}]
    /\ files = [o \in Objects |-> None]
    /\ idCache = {}
    /\ upload = [u \in Uploads |-> Idle]
    /\ sync = Asleep
    /\ stack = <<>>
    /\ worker = [w \in Workers |-> Off]
    /\ remoteIds = [p \in Operators |-> None]
    /\ badUrls = {}
    /\ faults = 0
    /\ restarts = 0

-----------------------------------------------------------------------------
(* The environment.                                                        *)

(* Another provider accepts an object it was given, or replicates it. *)
OtherAccepts(o, p) ==
    /\ chain[o] # "deleted"
    /\ o \notin remote[p]
    /\ chain' = [chain EXCEPT ![o] = "accepted"]
    /\ remote' = [remote EXCEPT ![p] = @ \cup {o}]
    /\ UNCHANGED <<assigned, promised, txVars, indexed, diskVars, upload,
                   syncVars, counters>>

(* delete_data_objects *)
ObjectDeleted(o) ==
    /\ "delete" \in Events
    /\ chain[o] # "deleted"
    /\ chain' = [chain EXCEPT ![o] = "deleted"]
    /\ promised' = promised \ {o}
    /\ UNCHANGED <<assigned, txVars, indexed, remote, diskVars, upload,
                   syncVars, counters>>

(* update_storage_buckets_for_bag takes the bag away from this node. *)
BagRemoved(o) ==
    /\ "unassign" \in Events
    /\ o \in assigned
    /\ assigned' = assigned \ {o}
    /\ promised' = promised \ {o}
    /\ UNCHANGED <<chain, txVars, indexed, remote, diskVars, upload,
                   syncVars, counters>>

(* The query node catches up. *)
Index ==
    /\ indexed' = [accepted |-> {o \in Objects : chain[o] = "accepted"},
                   assigned |-> assigned]
    /\ UNCHANGED <<chainVars, txVars, remote, diskVars, upload, syncVars,
                   counters>>

Fault == faults < MaxFaults /\ faults' = faults + 1

-----------------------------------------------------------------------------
(* acceptPendingDataObjects: the life of the extrinsic of an upload, which *)
(* does not end when the upload stops waiting for it.                      *)

Sent == {u \in Uploads : tx[u] \in {"pending", "ok", "failed"}}

(* Faulty variant: the lock is not taken, and two uploads read the same nonce. *)
NonceUnlocked(u) ==
    /\ tx[u] = "waiting"
    /\ tx' = [tx EXCEPT ![u] = "signing"]
    /\ nonce' = [nonce EXCEPT ![u] = Cardinality(Sent)]
    /\ UNCHANGED <<envVars, diskVars, upload, syncVars, counters>>

(* Faulty variant: the nonce of the last extrinsic, not the next one. *)
LastNonceUsed(u) ==
    /\ tx[u] = "waiting"
    /\ \A v \in Uploads : tx[v] # "signing"
    /\ tx' = [tx EXCEPT ![u] = "signing"]
    /\ nonce' = [nonce EXCEPT ![u] = Cardinality(Sent) - 1]
    /\ UNCHANGED <<envVars, diskVars, upload, syncVars, counters>>

(* The lock is held from the request of the nonce until the extrinsic is   *)
(* in the pool of the chain's node, which counts it in accountNextIndex.   *)
lockAndGetNonce(u) ==
    /\ tx[u] = "waiting"
    /\ \A v \in Uploads : tx[v] # "signing"
    /\ tx' = [tx EXCEPT ![u] = "signing"]
    /\ nonce' = [nonce EXCEPT ![u] = Cardinality(Sent)]
    /\ UNCHANGED <<envVars, diskVars, upload, syncVars, counters>>

signAndSend(u) ==
    /\ tx[u] = "signing"
    /\ tx' = [tx EXCEPT ![u] = "pending"]
    /\ UNCHANGED <<envVars, nonce, diskVars, upload, syncVars, counters>>

(* The nonce cannot be read, or the extrinsic is not taken. *)
SendFails(u) ==
    /\ tx[u] = "signing"
    /\ Fault
    /\ tx' = [tx EXCEPT ![u] = "unsent"]
    /\ UNCHANGED <<envVars, nonce, diskVars, upload, syncVars, restarts>>

(* accept_pending_data_objects, applied in a block: also to an object that *)
(* is already accepted.  That this node's bucket exists and its key is the *)
(* bucket's transactor is taken for granted.                               *)
TxIncluded(u) ==
    LET o == upload[u].obj
        ok == chain[o] # "deleted" /\ o \in assigned
    IN  /\ tx[u] = "pending"
        /\ tx' = [tx EXCEPT ![u] = IF ok THEN "ok" ELSE "failed"]
        /\ chain' = [chain EXCEPT ![o] = IF ok THEN "accepted" ELSE @]
        /\ promised' = IF ok THEN promised \cup {o} ELSE promised
        /\ UNCHANGED <<assigned, indexed, remote, nonce, diskVars, upload,
                       syncVars, counters>>

TxStep(u) == lockAndGetNonce(u) \/ signAndSend(u) \/ TxIncluded(u)

-----------------------------------------------------------------------------
(* uploadFile, after validateUploadFileParams.                             *)

(* The request is over, with a temporary file that nobody reads. *)
Ended(up) == [up EXCEPT !.pc = "ended", !.content = None]

verifyBagAssignment(o) == o \in assigned

(* validateUploadFileParams: the upload of an accepted object is refused.  *)
(* The file is then received into the temporary directory.                 *)
UploadStart(u, o, content) ==
    /\ upload[u].pc = "idle"
    /\ verifyBagAssignment(o)
    /\ chain[o] = "pending"
    /\ upload' = [upload EXCEPT ![u] = [pc |-> "received", obj |-> o,
                                        content |-> content]]
    /\ UNCHANGED <<envVars, txVars, diskVars, syncVars, counters>>

(* verifyDataObjectInfo: the accepted flag it returns is not used. *)
verifyDataObjectInfo(u) ==
    chain[upload[u].obj] # "deleted" /\ upload[u].content = "good"

(* Faulty variant: an upload that is refused removes the stored file as well. *)
RejectedUploadUnlinks(u) ==
    /\ upload[u].pc = "received"
    /\ \/ /\ verifyDataObjectInfo(u)
          /\ idCache' = idCache \cup {upload[u].obj}
          /\ upload' = [upload EXCEPT ![u].pc = "cached"]
          /\ UNCHANGED files
       \/ /\ ~ verifyDataObjectInfo(u)
          /\ upload' = [upload EXCEPT ![u] = Ended(@)]
          /\ files' = [files EXCEPT ![upload[u].obj] = None]
          /\ UNCHANGED idCache
    /\ UNCHANGED <<envVars, txVars, syncVars, counters>>

(* The id is listed before the file is moved. *)
UploadVerify(u) ==
    /\ upload[u].pc = "received"
    /\ \/ /\ verifyDataObjectInfo(u)
          /\ idCache' = idCache \cup {upload[u].obj}
          /\ upload' = [upload EXCEPT ![u].pc = "cached"]
       \/ /\ ~ verifyDataObjectInfo(u)
          /\ upload' = [upload EXCEPT ![u] = Ended(@)]
          /\ UNCHANGED idCache
    /\ UNCHANGED <<envVars, txVars, files, syncVars, counters>>

(* The file is moved, over an existing one, and the object accepted. *)
UploadRename(u) ==
    /\ upload[u].pc = "cached"
    /\ files' = [files EXCEPT ![upload[u].obj] = upload[u].content]
    /\ upload' = [upload EXCEPT ![u].pc = "accepting"]
    /\ tx' = [tx EXCEPT ![u] = "waiting"]
    /\ UNCHANGED <<envVars, nonce, idCache, syncVars, counters>>

(* The extrinsic is in a block, or could not be sent.  One that the pool   *)
(* drops after it has taken it is not modelled: to the upload that is a    *)
(* timeout, and its nonce is not given out again.                          *)
UploadAnswered(u) ==
    /\ upload[u].pc = "accepting"
    /\ \/ /\ tx[u] = "ok"
          /\ upload' = [upload EXCEPT ![u] = Ended(@)]
       \/ /\ tx[u] \in {"failed", "unsent"}
          /\ upload' = [upload EXCEPT ![u].pc = "cleanup"]
    /\ UNCHANGED <<envVars, txVars, diskVars, syncVars, counters>>

(* extrinsicWrapper gives up after 25 seconds; the extrinsic goes on. *)
UploadTimeout(u) ==
    /\ upload[u].pc = "accepting"
    /\ Fault
    /\ upload' = [upload EXCEPT ![u].pc = "cleanup"]
    /\ UNCHANGED <<envVars, txVars, diskVars, syncVars, restarts>>

(* cleanupFileOnError removes the stored file; its id stays in the cache.  *)
UploadCleanup(u) ==
    /\ upload[u].pc = "cleanup"
    /\ files' = [files EXCEPT ![upload[u].obj] = None]
    /\ upload' = [upload EXCEPT ![u].pc = "failed", ![u].content = None]
    /\ UNCHANGED <<envVars, txVars, idCache, syncVars, counters>>

UploadStep(u) ==
    UploadVerify(u) \/ UploadRename(u) \/ UploadAnswered(u) \/ UploadCleanup(u)

-----------------------------------------------------------------------------
(* runSyncWithInterval and performSync.                                    *)

SyncStart ==
    /\ sync.pc = "asleep"
    /\ sync' = [sync EXCEPT !.pc = "buckets", !.files = idCache]
    /\ UNCHANGED <<envVars, txVars, diskVars, upload, stack, worker, caches,
                   counters>>

(* getStorageObligationsFromRuntime asks for the bags, and then for the    *)
(* accepted objects of these bags.                                         *)
SyncBags ==
    /\ sync.pc = "buckets"
    /\ sync' = [sync EXCEPT !.pc = "bags", !.bags = indexed.assigned]
    /\ UNCHANGED <<envVars, txVars, diskVars, upload, stack, worker, caches,
                   counters>>

(* Objects that are stored and no longer required are left alone. *)
Added == (sync.bags \cap indexed.accepted) \ sync.files

TaskOrders(S) ==
    {s \in [1 .. Cardinality(S) -> {PrepareTask(o) : o \in S}] :
        \A i, j \in DOMAIN s : s[i] = s[j] => i = j}

SyncTasks ==
    /\ sync.pc = "bags"
    /\ stack' \in TaskOrders(Added)
    /\ sync' = [Asleep EXCEPT !.pc = "processing"]
    /\ worker' = [w \in Workers |-> [Off EXCEPT !.pc = "get"]]
    /\ UNCHANGED <<envVars, txVars, diskVars, upload, caches, counters>>

(* A query fails: the round is given up, until the next interval. *)
SyncFails ==
    /\ sync.pc \in {"buckets", "bags"}
    /\ Fault
    /\ sync' = Asleep
    /\ UNCHANGED <<envVars, txVars, diskVars, upload, stack, worker, caches,
                   restarts>>

(* Faulty variant: the round ends with the first processor that returns. *)
SyncEndsWithFirst ==
    /\ sync.pc = "processing"
    /\ \E w \in Workers : worker[w].pc = "off"
    /\ sync' = Asleep
    /\ UNCHANGED <<envVars, txVars, diskVars, upload, stack, worker, caches,
                   counters>>

(* TaskProcessorSpawner.process: all the processors have returned. *)
SyncEnd ==
    /\ sync.pc = "processing"
    /\ \A w \in Workers : worker[w].pc = "off"
    /\ sync' = Asleep
    /\ UNCHANGED <<envVars, txVars, diskVars, upload, stack, worker, caches,
                   counters>>

-----------------------------------------------------------------------------
(* TaskProcessor.process: the tasks of a round.                            *)

NextTask == [Off EXCEPT !.pc = "get"]

(* An empty stack ends the processor, the last task is taken first. *)
WorkerExit(w) ==
    /\ worker[w].pc = "get"
    /\ stack = <<>>
    /\ worker' = [worker EXCEPT ![w] = Off]
    /\ UNCHANGED <<envVars, txVars, diskVars, upload, sync, stack, caches,
                   counters>>

WorkerGet(w) ==
    LET task == stack[Len(stack)]
    IN  /\ worker[w].pc = "get"
        /\ stack # <<>>
        /\ stack' = SubSeq(stack, 1, Len(stack) - 1)
        /\ worker' = [worker EXCEPT ![w] =
               [pc |-> task.kind, task |-> task, content |-> None,
                urls |-> IF task.kind = "prepare" THEN Operators ELSE {}]]
        /\ UNCHANGED <<envVars, txVars, diskVars, upload, sync, caches,
                       counters>>

(* PrepareDownloadFileTask.execute asks one provider after the other, in   *)
(* any order.  The hash of an object that has been deleted is empty, and   *)
(* an empty hash is not verified.                                          *)
PrepareWith(w, p, ids) ==
    LET o == worker[w].task.obj
    IN  IF o \in ids
        THEN /\ stack' = Append(stack,
                                DownloadTask(o, p, chain[o] # "deleted"))
             /\ worker' = [worker EXCEPT ![w] = NextTask]
        ELSE /\ worker' = [worker EXCEPT ![w].urls = @ \ {p}]
             /\ UNCHANGED stack

(* getRemoteDataObjects: a provider that failed has nothing, and what one  *)
(* has answered is not asked again, until the cached answer expires.       *)
getRemoteDataObjects(p) ==
    IF p \in badUrls THEN {}
    ELSE IF remoteIds[p] # None THEN remoteIds[p] ELSE remote[p]

SetAvailableIDs(p) ==
    remoteIds' = IF p \in badUrls THEN remoteIds
                 ELSE [remoteIds EXCEPT ![p] = getRemoteDataObjects(p)]

PrepareAsk(w, p) ==
    /\ worker[w].pc = "prepare"
    /\ p \in worker[w].urls
    /\ PrepareWith(w, p, getRemoteDataObjects(p))
    /\ SetAvailableIDs(p)
    /\ UNCHANGED <<envVars, txVars, diskVars, upload, sync, badUrls, counters>>

(* The provider does not answer, or the chain does not give the hash. *)
PrepareFails(w, p) ==
    /\ worker[w].pc = "prepare"
    /\ p \in worker[w].urls
    /\ Fault
    /\ PrepareWith(w, p, {})
    /\ \/ /\ p \notin badUrls /\ remoteIds[p] = None
          /\ badUrls' = badUrls \cup {p}
          /\ UNCHANGED remoteIds
       \/ SetAvailableIDs(p) /\ UNCHANGED badUrls
    /\ UNCHANGED <<envVars, txVars, diskVars, upload, sync, restarts>>

PrepareGivesUp(w) ==
    /\ worker[w].pc = "prepare"
    /\ worker[w].urls = {}
    /\ worker' = [worker EXCEPT ![w] = NextTask]
    /\ UNCHANGED <<envVars, txVars, diskVars, upload, sync, stack, caches,
                   counters>>

(* Faulty variant: a downloaded file is not verified. *)
AnyFile(task, content) == TRUE

(* verifyDownloadedFile *)
verifyDownloadedFile(task, content) == task.expectedHash => content = "good"

(* DownloadFileTask.execute: the file is fetched and verified, or dropped. *)
DownloadWith(w, content) ==
    worker' = [worker EXCEPT ![w] =
        IF verifyDownloadedFile(@.task, content)
        THEN [@ EXCEPT !.pc = "rename", !.content = content] ELSE NextTask]

(* The answer of a provider without the file is an error document, and is  *)
(* written like a file.                                                    *)
Download(w) ==
    /\ worker[w].pc = "download"
    /\ DownloadWith(w, IF worker[w].task.obj \in remote[worker[w].task.url]
                       THEN "good" ELSE "bad")
    /\ UNCHANGED <<envVars, txVars, diskVars, upload, sync, stack, caches,
                   counters>>

(* Faulty variant: the id is listed although the download failed. *)
FailedIsListed(w) ==
    /\ worker[w].pc = "download"
    /\ Fault
    /\ worker' = [worker EXCEPT ![w] = NextTask]
    /\ idCache' = idCache \cup {worker[w].task.obj}
    /\ UNCHANGED <<envVars, txVars, files, upload, sync, stack, caches,
                   restarts>>

(* A timeout or a broken connection, or another body than the file. *)
DownloadFails(w) ==
    /\ worker[w].pc = "download"
    /\ Fault
    /\ \/ DownloadWith(w, "bad")
       \/ worker' = [worker EXCEPT ![w] = NextTask]
    /\ UNCHANGED <<envVars, txVars, diskVars, upload, sync, stack, caches,
                   restarts>>

DownloadRename(w) ==
    /\ worker[w].pc = "rename"
    /\ files' = [files EXCEPT ![worker[w].task.obj] = worker[w].content]
    /\ worker' = [worker EXCEPT ![w].pc = "cache"]
    /\ UNCHANGED <<envVars, txVars, idCache, upload, sync, stack, caches,
                   counters>>

(* Faulty variant: a downloaded file is not listed. *)
DownloadNotListed(w) ==
    /\ worker[w].pc = "cache"
    /\ worker' = [worker EXCEPT ![w] = NextTask]
    /\ UNCHANGED <<envVars, txVars, diskVars, upload, sync, stack, caches,
                   counters>>

DownloadAddToCache(w) ==
    /\ worker[w].pc = "cache"
    /\ idCache' = idCache \cup {worker[w].task.obj}
    /\ worker' = [worker EXCEPT ![w] = NextTask]
    /\ UNCHANGED <<envVars, txVars, files, upload, sync, stack, caches,
                   counters>>

WorkerStep(w) ==
    \/ WorkerExit(w) \/ WorkerGet(w) \/ PrepareGivesUp(w)
    \/ \E p \in Operators : PrepareAsk(w, p)
    \/ Download(w) \/ DownloadRename(w) \/ DownloadAddToCache(w)

(* The entries of remoteStorageData.ts expire after three minutes. *)
ExpireIds(p) ==
    /\ remoteIds[p] # None
    /\ remoteIds' = [remoteIds EXCEPT ![p] = None]
    /\ UNCHANGED <<envVars, txVars, diskVars, upload, sync, stack, worker,
                   badUrls, counters>>

ExpireBadUrl(p) ==
    /\ p \in badUrls
    /\ badUrls' = badUrls \ {p}
    /\ UNCHANGED <<envVars, txVars, diskVars, upload, sync, stack, worker,
                   remoteIds, counters>>

-----------------------------------------------------------------------------
(* The process stops at any point and is started again (Server.run): the   *)
(* temporary directory is emptied and the names of the stored files are    *)
(* read.  An extrinsic that was being sent may have left.                  *)
loadDataObjectIdCache == {o \in Objects : files[o] # None}

Restart ==
    /\ restarts < MaxRestarts
    /\ restarts' = restarts + 1
    /\ idCache' = loadDataObjectIdCache
    /\ upload' = [u \in Uploads |-> IF upload[u].pc \in {"idle", "failed"}
                                    THEN upload[u] ELSE Ended(upload[u])]
    /\ \E sent \in SUBSET {u \in Uploads : tx[u] = "signing"} :
           tx' = [u \in Uploads |->
                     IF u \in sent THEN "pending"
                     ELSE IF tx[u] \in {"waiting", "signing"} THEN "unsent"
                     ELSE tx[u]]
    /\ sync' = Asleep
    /\ stack' = <<>>
    /\ worker' = [w \in Workers |-> Off]
    /\ remoteIds' = [p \in Operators |-> None]
    /\ badUrls' = {}
    /\ UNCHANGED <<envVars, nonce, files, faults>>

SyncStep == SyncStart \/ SyncBags \/ SyncTasks \/ SyncEnd

Next ==
    \/ \E o \in Objects, p \in Operators : OtherAccepts(o, p)
    \/ \E o \in Objects : ObjectDeleted(o) \/ BagRemoved(o)
    \/ Index
    \/ \E u \in Uploads : TxStep(u) \/ SendFails(u)
    \/ \E u \in Uploads, o \in Objects, content \in {"good", "bad"} :
           UploadStart(u, o, content)
    \/ \E u \in Uploads : UploadStep(u) \/ UploadTimeout(u)
    \/ SyncStep
    \/ SyncFails
    \/ \E w \in Workers : WorkerStep(w) \/ DownloadFails(w)
    \/ \E w \in Workers, p \in Operators : PrepareFails(w, p)
    \/ \E p \in Operators : ExpireIds(p) \/ ExpireBadUrl(p)
    \/ Restart

Spec == Init /\ [][Next]_vars

(* The node runs: its handlers and timers proceed and blocks are produced. *)
(* Nothing is assumed of clients, of what happens to objects, or of the    *)
(* calls that fail, but that they fail only MaxFaults times.               *)
FairSpec ==
    /\ Spec
    /\ WF_vars(Index)
    /\ \A u \in Uploads : WF_vars(TxStep(u)) /\ WF_vars(UploadStep(u))
    /\ WF_vars(SyncStep)
    /\ \A w \in Workers : WF_vars(WorkerStep(w))
    /\ \A p \in Operators : WF_vars(ExpireIds(p)) /\ WF_vars(ExpireBadUrl(p))

-----------------------------------------------------------------------------
(* Properties.                                                             *)

(* Every variable of the node and of its environment is well typed. *)
TypeOK ==
    /\ chain \in [Objects -> {"pending", "accepted", "deleted"}]
    /\ assigned \in SUBSET Objects
    /\ promised \in SUBSET Objects
    /\ tx \in [Uploads -> {"none", "waiting", "signing", "pending", "ok",
                           "failed", "unsent"}]
    /\ nonce \in [Uploads -> Nat]
    /\ indexed \in [accepted : SUBSET Objects, assigned : SUBSET Objects]
    /\ remote \in [Operators -> SUBSET Objects]
    /\ files \in [Objects -> Contents]
    /\ idCache \in SUBSET Objects
    /\ upload \in [Uploads -> UploadStates]
    /\ sync \in [pc : {"asleep", "buckets", "bags", "processing"},
                  files : SUBSET Objects, bags : SUBSET Objects]
    /\ stack \in Seq(Tasks)
    /\ worker \in [Workers -> WorkerStates]
    /\ remoteIds \in [Operators -> (SUBSET Objects) \cup {None}]
    /\ badUrls \in SUBSET Operators
    /\ faults \in Nat /\ restarts \in Nat

(* A stored file of an object that exists is the file the chain expects,   *)
(* although an object deleted while it is fetched is not verified and the  *)
(* error document of a provider is written like a file.                    *)
FilesVerified == \A o \in Objects : chain[o] # "deleted" => files[o] # "bad"

UploadFailed(o) ==
    \E u \in Uploads : upload[u].obj = o /\ upload[u].pc = "failed"

(* The files of objects the node has accepted on the chain are there,      *)
(* whatever uploads and downloads of the object raced and wherever the     *)
(* node was restarted, unless an upload of the object failed after its     *)
(* file had been stored.                                                   *)
AcceptedHeld ==
    \A o \in promised :
        \/ files[o] = "good"
        \/ UploadFailed(o)

(* What the node's README promises of an upload: an object is registered   *)
(* as accepted only when its data is in the data folder.                   *)
AcceptedIsStored == \A o \in promised : files[o] # None

(* Extrinsics that are sent have different nonces, however many uploads    *)
(* have stopped waiting for theirs.                                        *)
NoncesDistinct == \A u, v \in Sent : u # v => nonce[u] # nonce[v]

(* Every stored file is listed in the index the API and the next           *)
(* synchronization read, but for the file a worker has just moved.         *)
FilesListed ==
    \A o \in Objects : files[o] # None =>
        \/ o \in idCache
        \/ \E w \in Workers : worker[w].pc = "cache" /\ worker[w].task.obj = o

(* An accepted object of this node that another provider has is stored in  *)
(* the end, unless it is deleted, its bag is taken away, or an upload of   *)
(* it failed after the file had been stored.                               *)
Replicated ==
    \A o \in Objects :
        (/\ chain[o] = "accepted" /\ o \in assigned
         /\ \E p \in Operators : o \in remote[p])
          ~> (\/ files[o] = "good" \/ chain[o] = "deleted" \/ o \notin assigned
              \/ UploadFailed(o))

(* The rounds of synchronization, as SyncRound describes them. *)
Round == INSTANCE SyncRound WITH
    running <- sync.pc = "processing",
    todo <- {task.obj : task \in Range(stack) \cup
                                  ({worker[w].task : w \in Workers} \ {None})}

(* Workers that exit early, tasks that put other tasks on the stack and a  *)
(* LIFO order lose no object of a round and let every round end.           *)
SyncIsRound == Round!Spec
=============================================================================
