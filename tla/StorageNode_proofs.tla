------------------------- MODULE StorageNode_proofs --------------------------
(***************************************************************************)
(* The safety of the storage node, for any number of objects, uploads,     *)
(* workers and providers, and any number of failed calls and restarts.     *)
(***************************************************************************)
EXTENDS StorageNode, FiniteSetTheorems, SequenceTheorems, TLAPS

Running == {"prepare", "download", "rename", "cache"}

(* An upload names an object, has an extrinsic only once its file has been *)
(* stored, and stores only what was verified and listed.                   *)
UploadsSound ==
    \A u \in Uploads :
        /\ upload[u].pc # "idle" => upload[u].obj \in Objects
        /\ tx[u] # "none" => upload[u].pc \in {"accepting", "cleanup", "failed", "ended"}
        /\ upload[u].pc = "cached" =>
              upload[u].content = "good" /\ upload[u].obj \in idCache

(* Processors run only in a round, each on a task of the kind it is at. *)
WorkersSound ==
    \A w \in Workers :
        /\ worker[w].pc # "off" => sync.pc = "processing"
        /\ worker[w].pc \in Running => worker[w].task \in Tasks
        /\ worker[w].pc \in {"download", "rename"} => worker[w].task.kind = "download"

(* Only the file of a deleted object is downloaded without verification. *)
Verified(task, ch) ==
    task.kind = "download" => task.expectedHash \/ ch[task.obj] = "deleted"

DownloadsVerified ==
    /\ \A i \in 1 .. Len(stack) : Verified(stack[i], chain)
    /\ \A w \in Workers :
          /\ worker[w].pc = "download" => Verified(worker[w].task, chain)
          /\ worker[w].pc = "rename" =>
                worker[w].content = "good" \/ chain[worker[w].task.obj] = "deleted"

(* The lock hands out one nonce at a time, and always the next one. *)
NoncesSound ==
    /\ \A u, v \in Uploads : tx[u] = "signing" /\ tx[v] = "signing" => u = v
    /\ \A u \in Uploads : tx[u] = "signing" => nonce[u] = Cardinality(Sent)
    /\ \A u \in Sent : nonce[u] < Cardinality(Sent)
    /\ NoncesDistinct

(* An object keeps its file, unless it is deleted or an upload of it fails. *)
Held(o) == files[o] = "good" \/ UploadFailed(o) \/ chain[o] = "deleted"

ObjectsHeld ==
    /\ \A o \in promised : Held(o) /\ chain[o] # "deleted"
    /\ \A u \in Uploads : tx[u] \in {"waiting", "signing", "pending", "ok"} =>
          Held(upload[u].obj)

IndInv ==
    /\ TypeOK
    /\ UploadsSound
    /\ WorkersSound
    /\ DownloadsVerified
    /\ NoncesSound
    /\ FilesVerified
    /\ FilesListed
    /\ ObjectsHeld

-----------------------------------------------------------------------------
(* Types.                                                                  *)

(* The states of an upload request. *)
LEMMA UploadUpdates ==
    ASSUME NEW up \in UploadStates
    PROVE  /\ \A pc \in {"cached", "accepting", "cleanup", "failed", "ended"} :
                 [up EXCEPT !.pc = pc] \in UploadStates
           /\ [up EXCEPT !.pc = "failed", !.content = None] \in UploadStates
           /\ Ended(up) \in UploadStates
           /\ up.content \in Contents
  <1>1. \A pc \in {"cached", "accepting", "cleanup", "failed", "ended"} :
            [up EXCEPT !.pc = pc] \in UploadStates
    BY DEF UploadStates
  <1>2. [up EXCEPT !.content = None] \in UploadStates
    BY DEF UploadStates, Contents
  <1>3. up.content \in Contents
    BY DEF UploadStates
  <1>4. ASSUME NEW pc \in {"failed", "ended"}
        PROVE  [up EXCEPT !.pc = pc, !.content = None] \in UploadStates
    <2> DEFINE mid == [up EXCEPT !.pc = pc]
    <2>1. mid \in UploadStates
      BY <1>1
    <2>2. [up EXCEPT !.pc = pc, !.content = None] = [mid EXCEPT !.content = None]
      OBVIOUS
    <2> HIDE DEF mid
    <2>3. [mid EXCEPT !.content = None] \in UploadStates
      BY <2>1 DEF UploadStates, Contents
    <2>4. QED
      BY <2>2, <2>3
  <1>5. QED
    BY <1>1, <1>3, <1>4 DEF Ended

(* What the updates of a request leave alone. *)
LEMMA UploadFields ==
    ASSUME NEW up \in UploadStates
    PROVE  /\ Ended(up).pc = "ended" /\ Ended(up).obj = up.obj
           /\ \A pc : LET new == [up EXCEPT !.pc = pc]
                      IN  new.pc = pc /\ new.obj = up.obj /\ new.content = up.content
           /\ LET new == [up EXCEPT !.pc = "failed", !.content = None]
              IN  new.pc = "failed" /\ new.obj = up.obj
  BY DEF UploadStates, Ended

(* The environment, and the extrinsics. *)
LEMMA ChainTypes ==
    ASSUME TypeOK, UploadsSound,
           \/ \E o \in Objects, p \in Operators : OtherAccepts(o, p)
           \/ \E o \in Objects : ObjectDeleted(o) \/ BagRemoved(o)
           \/ Index
           \/ \E u \in Uploads : TxStep(u) \/ SendFails(u)
    PROVE  TypeOK'
  <1>1. ASSUME NEW o \in Objects, NEW p \in Operators, OtherAccepts(o, p)
        PROVE  TypeOK'
    BY <1>1 DEF TypeOK, OtherAccepts, txVars, diskVars, syncVars, caches, counters
  <1>2. ASSUME NEW o \in Objects, ObjectDeleted(o) \/ BagRemoved(o)
        PROVE  TypeOK'
    BY <1>2 DEF TypeOK, ObjectDeleted, BagRemoved, txVars, diskVars, syncVars, caches, counters
  <1>3. CASE Index
    BY <1>3 DEF TypeOK, Index, chainVars, txVars, diskVars, syncVars, caches, counters
  <1>4. Cardinality(Sent) \in Nat
    BY StorageAssumption, FS_Subset, FS_CardinalityType DEF Sent
  <1>5. ASSUME NEW u \in Uploads, lockAndGetNonce(u)
        PROVE  TypeOK'
    BY <1>4, <1>5 DEF TypeOK, lockAndGetNonce, envVars, chainVars, diskVars, syncVars,
       caches, counters
  <1>8. ASSUME NEW u \in Uploads, signAndSend(u) \/ SendFails(u)
        PROVE  TypeOK'
    <2>1. /\ tx' = [tx EXCEPT ![u] = "pending"] \/ tx' = [tx EXCEPT ![u] = "unsent"]
          /\ faults' \in {faults, faults + 1}
          /\ UNCHANGED <<envVars, nonce, diskVars, upload, syncVars, restarts>>
      BY <1>8 DEF signAndSend, SendFails, Fault, counters
    <2>2. tx' \in [Uploads -> {"none", "waiting", "signing", "pending", "ok",
                               "failed", "unsent"}]
      BY <2>1 DEF TypeOK
    <2>3. faults' \in Nat
      BY <2>1 DEF TypeOK
    <2>4. QED
      BY <2>1, <2>2, <2>3 DEF TypeOK, envVars, chainVars, diskVars, syncVars, caches
  <1>6. ASSUME NEW u \in Uploads, TxIncluded(u)
        PROVE  TypeOK'
    <2>1. upload[u].obj \in Objects
      BY <1>6 DEF TypeOK, UploadsSound, TxIncluded
    <2>2. QED
      BY <1>6, <2>1 DEF TypeOK, TxIncluded, diskVars, syncVars, caches, counters
  <1>7. QED
    BY <1>1, <1>2, <1>3, <1>5, <1>6, <1>8 DEF TxStep

(* The uploads, and a restart. *)
LEMMA UploadTypes ==
    ASSUME TypeOK, UploadsSound,
           \/ \E u \in Uploads, o \in Objects, content \in {"good", "bad"} :
                  UploadStart(u, o, content)
           \/ \E u \in Uploads : UploadStep(u) \/ UploadTimeout(u)
           \/ Restart
    PROVE  TypeOK'
  <1>1. ASSUME NEW u \in Uploads, NEW o \in Objects, NEW content \in {"good", "bad"},
               UploadStart(u, o, content)
        PROVE  TypeOK'
    <2>1. [pc |-> "received", obj |-> o, content |-> content] \in UploadStates
      BY DEF UploadStates, Contents
    <2>2. upload' \in [Uploads -> UploadStates]
      BY <1>1, <2>1 DEF TypeOK, UploadStart
    <2>3. QED
      BY <1>1, <2>2 DEF TypeOK, UploadStart, envVars, chainVars, txVars, diskVars,
         syncVars, caches, counters
  <1>2. ASSUME NEW u \in Uploads, UploadVerify(u)
        PROVE  TypeOK'
    <2>1. upload[u] \in UploadStates /\ upload[u].obj \in Objects
      BY <1>2 DEF TypeOK, UploadsSound, UploadVerify
    <2>2. upload' \in [Uploads -> UploadStates]
      BY <1>2, <2>1, UploadUpdates DEF TypeOK, UploadVerify
    <2>3. QED
      BY <1>2, <2>1, <2>2 DEF TypeOK, UploadVerify, envVars, chainVars, txVars,
         syncVars, caches, counters
  <1>3. ASSUME NEW u \in Uploads, UploadRename(u) \/ UploadCleanup(u)
        PROVE  TypeOK'
    <2>1. upload[u] \in UploadStates
      BY DEF TypeOK
    <2>2. upload' \in [Uploads -> UploadStates]
      BY <1>3, <2>1, UploadUpdates DEF TypeOK, UploadRename, UploadCleanup
    <2>3. files' \in [Objects -> Contents]
      BY <1>3, <2>1, UploadUpdates DEF TypeOK, UploadRename, UploadCleanup, Contents
    <2>4. QED
      BY <1>3, <2>2, <2>3 DEF TypeOK, UploadRename, UploadCleanup, envVars, chainVars,
         txVars, syncVars, caches, counters
  <1>4. ASSUME NEW u \in Uploads, UploadAnswered(u) \/ UploadTimeout(u)
        PROVE  TypeOK'
    <2>1. upload[u] \in UploadStates
      BY DEF TypeOK
    <2>2. upload' \in [Uploads -> UploadStates]
      BY <1>4, <2>1, UploadUpdates DEF TypeOK, UploadAnswered, UploadTimeout
    <2>3. QED
      BY <1>4, <2>2 DEF TypeOK, UploadAnswered, UploadTimeout, Fault, envVars, chainVars,
         txVars, diskVars, syncVars, caches, counters
  <1>5. CASE Restart
    <2>1. upload' \in [Uploads -> UploadStates]
      BY <1>5, UploadUpdates DEF TypeOK, Restart
    <2>2. Off \in WorkerStates
      BY DEF Off, WorkerStates, Contents
    <2>3. worker' \in [Workers -> WorkerStates]
      BY <1>5, <2>2 DEF Restart
    <2>4. /\ tx' \in [Uploads -> {"none", "waiting", "signing", "pending", "ok",
                                  "failed", "unsent"}]
      BY <1>5 DEF TypeOK, Restart
    <2>5. /\ sync' = Asleep /\ stack' = <<>>
          /\ remoteIds' = [p \in Operators |-> None] /\ badUrls' = {}
          /\ idCache' \in SUBSET Objects /\ restarts' = restarts + 1
          /\ UNCHANGED <<envVars, nonce, files, faults>>
      BY <1>5 DEF Restart, loadDataObjectIdCache
    <2>6. sync' \in [pc : {"asleep", "buckets", "bags", "processing"},
                     files : SUBSET Objects, bags : SUBSET Objects]
      BY <2>5 DEF Asleep
    <2>7. restarts' \in Nat
      BY <2>5 DEF TypeOK
    <2>8. stack' \in Seq(Tasks)
      BY <2>5
    <2>9. remoteIds' \in [Operators -> (SUBSET Objects) \cup {None}]
      BY <2>5
    <2>10. QED
      BY <2>1, <2>3, <2>4, <2>5, <2>6, <2>7, <2>8, <2>9 DEF TypeOK, envVars, chainVars
  <1>6. QED
    BY <1>1, <1>2, <1>3, <1>4, <1>5 DEF UploadStep

(* The states of a processor. *)
LEMMA WorkerUpdates ==
    ASSUME NEW wk \in WorkerStates
    PROVE  /\ \A pc \in {"get", "cache"} : [wk EXCEPT !.pc = pc] \in WorkerStates
           /\ \A S \in SUBSET Operators : [wk EXCEPT !.urls = S] \in WorkerStates
           /\ \A c \in Contents :
                 [wk EXCEPT !.pc = "rename", !.content = c] \in WorkerStates
           /\ Off \in WorkerStates /\ NextTask \in WorkerStates
           /\ wk.content \in Contents /\ wk.urls \in SUBSET Operators
  <1>1. /\ \A pc \in {"get", "cache", "rename"} : [wk EXCEPT !.pc = pc] \in WorkerStates
        /\ \A S \in SUBSET Operators : [wk EXCEPT !.urls = S] \in WorkerStates
        /\ wk.content \in Contents /\ wk.urls \in SUBSET Operators
    BY DEF WorkerStates
  <1>2. Off \in WorkerStates /\ NextTask \in WorkerStates
    BY DEF Off, NextTask, WorkerStates, Contents
  <1>3. ASSUME NEW c \in Contents
        PROVE  [wk EXCEPT !.pc = "rename", !.content = c] \in WorkerStates
    <2> DEFINE mid == [wk EXCEPT !.pc = "rename"]
    <2>1. mid \in WorkerStates
      BY <1>1
    <2>2. [wk EXCEPT !.pc = "rename", !.content = c] = [mid EXCEPT !.content = c]
      OBVIOUS
    <2> HIDE DEF mid
    <2>3. [mid EXCEPT !.content = c] \in WorkerStates
      BY <2>1 DEF WorkerStates
    <2>4. QED
      BY <2>2, <2>3
  <1>4. QED
    BY <1>1, <1>2, <1>3

(* The rounds of a synchronization. *)
LEMMA SyncTypes ==
    ASSUME TypeOK, SyncStep \/ SyncFails
    PROVE  TypeOK'
  <1> DEFINE SyncStates == [pc : {"asleep", "buckets", "bags", "processing"},
                            files : SUBSET Objects, bags : SUBSET Objects]
  <1>1. CASE SyncStart \/ SyncBags \/ SyncEnd
    <2>1. sync' \in SyncStates
      <3>1. CASE SyncStart
        BY <3>1 DEF TypeOK, SyncStart
      <3>2. CASE SyncBags
        BY <3>2 DEF TypeOK, SyncBags
      <3>3. CASE SyncEnd
        BY <3>3 DEF SyncEnd, Asleep
      <3>4. QED
        BY <1>1, <3>1, <3>2, <3>3
    <2>2. QED
      BY <1>1, <2>1 DEF TypeOK, SyncStart, SyncBags, SyncEnd, envVars, chainVars, txVars,
         diskVars, caches, counters
  <1>2. CASE SyncTasks
    <2>1. sync' \in SyncStates
      BY <1>2 DEF SyncTasks, Asleep
    <2>2. [Off EXCEPT !.pc = "get"] \in WorkerStates
      BY DEF Off, WorkerStates, Contents
    <2>3. worker' \in [Workers -> WorkerStates]
      BY <1>2, <2>2 DEF SyncTasks
    <2>4. stack' \in Seq(Tasks)
      <3>1. IsFiniteSet(Added) /\ Added \subseteq Objects
        BY StorageAssumption, FS_Subset DEF Added, TypeOK
      <3>2. Cardinality(Added) \in Nat
        BY <3>1, FS_CardinalityType
      <3>3. {PrepareTask(o) : o \in Added} \subseteq Tasks
        BY <3>1 DEF PrepareTask, Tasks
      <3>4. stack' \in [1 .. Cardinality(Added) -> Tasks]
        BY <1>2, <3>3 DEF SyncTasks, TaskOrders
      <3>5. QED
        BY <3>2, <3>4
    <2>5. QED
      BY <1>2, <2>1, <2>3, <2>4 DEF TypeOK, SyncTasks, envVars, chainVars, txVars,
         diskVars, caches, counters
  <1>3. CASE SyncFails
    <2>1. sync' \in SyncStates
      BY <1>3 DEF SyncFails, Asleep
    <2>2. QED
      BY <1>3, <2>1 DEF TypeOK, SyncFails, Fault, envVars, chainVars, txVars, diskVars,
         caches
  <1>4. QED
    BY <1>1, <1>2, <1>3 DEF SyncStep

(* Taking the last task of the stack, and putting one on it. *)
LEMMA StackTypes ==
    ASSUME NEW s \in Seq(Tasks)
    PROVE  /\ s # <<>> => /\ s[Len(s)] \in Tasks
                          /\ Len(s) \in 1 .. Len(s)
                          /\ SubSeq(s, 1, Len(s) - 1) \in Seq(Tasks)
                          /\ Len(SubSeq(s, 1, Len(s) - 1)) = Len(s) - 1
                          /\ \A i \in 1 .. Len(s) - 1 : SubSeq(s, 1, Len(s) - 1)[i] = s[i]
           /\ \A t \in Tasks :
                 /\ Append(s, t) \in Seq(Tasks)
                 /\ Len(Append(s, t)) = Len(s) + 1
                 /\ \A i \in 1 .. Len(s) : Append(s, t)[i] = s[i]
                 /\ Append(s, t)[Len(s) + 1] = t
  <1>1. ASSUME s # <<>>
        PROVE  /\ s[Len(s)] \in Tasks
               /\ Len(s) \in 1 .. Len(s)
               /\ SubSeq(s, 1, Len(s) - 1) \in Seq(Tasks)
               /\ Len(SubSeq(s, 1, Len(s) - 1)) = Len(s) - 1
               /\ \A i \in 1 .. Len(s) - 1 : SubSeq(s, 1, Len(s) - 1)[i] = s[i]
    <2>1. Len(s) \in Nat /\ Len(s) > 0
      BY <1>1
    <2>2. s[Len(s)] \in Tasks
      BY <2>1
    <2>3. \A i \in 1 .. Len(s) - 1 : i \in 1 .. Len(s) /\ s[i] \in Tasks
      BY <2>1
    <2> DEFINE n == Len(s) - 1
    <2>4. n \in Nat /\ \A i \in 1 .. n : s[i] \in Tasks
      BY <2>1, <2>3
    <2>5. SubSeq(s, 1, n) = [i \in 1 .. n |-> s[i]]
      BY <2>4
    <2> HIDE DEF n
    <2>6. SubSeq(s, 1, n) \in Seq(Tasks) /\ Len(SubSeq(s, 1, n)) = n
      BY <2>4, <2>5
    <2>7. QED
      BY <2>1, <2>2, <2>5, <2>6 DEF n
  <1>2. QED
    BY <1>1

(* The tasks of a round. *)
LEMMA WorkerTypes ==
    ASSUME TypeOK, WorkersSound,
           \/ \E w \in Workers : WorkerStep(w) \/ DownloadFails(w)
           \/ \E w \in Workers, p \in Operators : PrepareFails(w, p)
           \/ \E p \in Operators : ExpireIds(p) \/ ExpireBadUrl(p)
    PROVE  TypeOK'
  <1>1. ASSUME NEW w \in Workers, WorkerExit(w) \/ PrepareGivesUp(w)
        PROVE  TypeOK'
    <2>1. worker' \in [Workers -> WorkerStates]
      BY <1>1, WorkerUpdates DEF TypeOK, WorkerExit, PrepareGivesUp
    <2>2. QED
      BY <1>1, <2>1 DEF TypeOK, WorkerExit, PrepareGivesUp, envVars, chainVars, txVars,
         diskVars, caches, counters
  <1>2. ASSUME NEW w \in Workers, WorkerGet(w)
        PROVE  TypeOK'
    <2> DEFINE t == stack[Len(stack)]
    <2>1. t \in Tasks /\ stack' \in Seq(Tasks)
      BY <1>2, StackTypes DEF TypeOK, WorkerGet
    <2>2. t.kind \in {"prepare", "download"}
      BY <2>1 DEF Tasks
    <2>3. [pc |-> t.kind, task |-> t, content |-> None,
           urls |-> IF t.kind = "prepare" THEN Operators ELSE {}] \in WorkerStates
      BY <2>1, <2>2 DEF WorkerStates, Contents
    <2>4. worker' \in [Workers -> WorkerStates]
      BY <1>2, <2>3 DEF TypeOK, WorkerGet
    <2>5. QED
      BY <1>2, <2>1, <2>4 DEF TypeOK, WorkerGet, envVars, chainVars, txVars, diskVars,
         caches, counters
  <1>3. ASSUME NEW w \in Workers, NEW p \in Operators, NEW ids,
               worker[w].pc = "prepare", PrepareWith(w, p, ids)
        PROVE  stack' \in Seq(Tasks) /\ worker' \in [Workers -> WorkerStates]
    <2>1. worker[w] \in WorkerStates /\ worker[w].task \in Tasks
      BY <1>3 DEF TypeOK, WorkersSound, Running
    <2>2. worker[w].task.obj \in Objects
      BY <2>1 DEF Tasks
    <2>3. \A b \in BOOLEAN : DownloadTask(worker[w].task.obj, p, b) \in Tasks
      BY <2>2 DEF DownloadTask, Tasks
    <2>4. [worker[w] EXCEPT !.urls = @ \ {p}] \in WorkerStates /\ NextTask \in WorkerStates
      BY <2>1, WorkerUpdates
    <2>5. CASE worker[w].task.obj \in ids
      <3>1. stack' = Append(stack, DownloadTask(worker[w].task.obj, p,
                                          chain[worker[w].task.obj] # "deleted"))
        BY <1>3, <2>5 DEF PrepareWith
      <3>2. stack' \in Seq(Tasks)
        BY <2>3, <3>1, StackTypes DEF TypeOK
      <3>3. QED
        BY <1>3, <2>4, <2>5, <3>2 DEF PrepareWith, TypeOK
    <2>6. CASE worker[w].task.obj \notin ids
      BY <1>3, <2>4, <2>6 DEF PrepareWith, TypeOK
    <2>7. QED
      BY <2>5, <2>6
  <1>4. ASSUME NEW p \in Operators, SetAvailableIDs(p)
        PROVE  remoteIds' \in [Operators -> (SUBSET Objects) \cup {None}]
    <2>1. getRemoteDataObjects(p) \in SUBSET Objects
      BY DEF TypeOK, getRemoteDataObjects
    <2>2. QED
      BY <1>4, <2>1 DEF TypeOK, SetAvailableIDs
  <1>5. ASSUME NEW w \in Workers, NEW p \in Operators, PrepareAsk(w, p)
        PROVE  TypeOK'
    <2>1. /\ stack' \in Seq(Tasks) /\ worker' \in [Workers -> WorkerStates]
          /\ remoteIds' \in [Operators -> (SUBSET Objects) \cup {None}]
      BY <1>3, <1>4, <1>5 DEF PrepareAsk
    <2>2. QED
      BY <1>5, <2>1 DEF TypeOK, PrepareAsk, envVars, chainVars, txVars, diskVars, counters
  <1>6. ASSUME NEW w \in Workers, NEW p \in Operators, PrepareFails(w, p)
        PROVE  TypeOK'
    <2>1. stack' \in Seq(Tasks) /\ worker' \in [Workers -> WorkerStates]
      BY <1>3, <1>6 DEF PrepareFails
    <2>2. /\ remoteIds' \in [Operators -> (SUBSET Objects) \cup {None}]
          /\ badUrls' \in SUBSET Operators
      BY <1>4, <1>6 DEF PrepareFails, TypeOK
    <2>3. faults' \in Nat
      BY <1>6 DEF PrepareFails, Fault, TypeOK
    <2>4. QED
      BY <1>6, <2>1, <2>2, <2>3 DEF TypeOK, PrepareFails, envVars, chainVars, txVars,
         diskVars
  <1>7. ASSUME NEW w \in Workers, NEW c \in Contents, DownloadWith(w, c)
        PROVE  worker' \in [Workers -> WorkerStates]
    <2>1. /\ [worker[w] EXCEPT !.pc = "rename", !.content = c] \in WorkerStates
          /\ NextTask \in WorkerStates
      BY WorkerUpdates DEF TypeOK
    <2>2. QED
      BY <1>7, <2>1 DEF TypeOK, DownloadWith
  <1>8. ASSUME NEW w \in Workers, Download(w) \/ DownloadFails(w)
        PROVE  TypeOK'
    <2>1. worker' \in [Workers -> WorkerStates]
      <3>1. CASE \E c \in Contents : DownloadWith(w, c)
        BY <1>7, <3>1
      <3>2. CASE worker' = [worker EXCEPT ![w] = NextTask]
        <4>1. NextTask \in WorkerStates
          BY WorkerUpdates DEF TypeOK
        <4>2. QED
          BY <3>2, <4>1 DEF TypeOK
      <3>3. "good" \in Contents /\ "bad" \in Contents
        BY DEF Contents
      <3>4. QED
        BY <1>8, <3>1, <3>2, <3>3 DEF Download, DownloadFails
    <2>2. faults' \in Nat
      BY <1>8 DEF Download, DownloadFails, Fault, TypeOK, counters
    <2>3. UNCHANGED <<envVars, txVars, diskVars, upload, sync, stack, caches, restarts>>
      BY <1>8 DEF Download, DownloadFails, counters
    <2>4. QED
      BY <2>1, <2>2, <2>3 DEF TypeOK, envVars, chainVars, txVars, diskVars, caches
  <1>9. ASSUME NEW w \in Workers, DownloadRename(w)
        PROVE  TypeOK'
    <2>1. worker' \in [Workers -> WorkerStates] /\ files' \in [Objects -> Contents]
      BY <1>9, WorkerUpdates DEF TypeOK, DownloadRename
    <2>2. QED
      BY <1>9, <2>1 DEF TypeOK, DownloadRename, envVars, chainVars, txVars, caches, counters
  <1>10. ASSUME NEW w \in Workers, DownloadAddToCache(w)
         PROVE  TypeOK'
    <2>1. worker' \in [Workers -> WorkerStates]
      BY <1>10, WorkerUpdates DEF TypeOK, DownloadAddToCache
    <2>2. worker[w].task.obj \in Objects
      BY <1>10 DEF DownloadAddToCache, WorkersSound, Running, Tasks
    <2>3. QED
      BY <1>10, <2>1, <2>2 DEF TypeOK, DownloadAddToCache, envVars, chainVars, txVars,
         caches, counters
  <1>11. ASSUME NEW p \in Operators, ExpireIds(p) \/ ExpireBadUrl(p)
         PROVE  TypeOK'
    BY <1>11 DEF TypeOK, ExpireIds, ExpireBadUrl, envVars, chainVars, txVars, diskVars,
       counters
  <1>12. QED
    BY <1>1, <1>2, <1>5, <1>6, <1>8, <1>9, <1>10, <1>11 DEF WorkerStep

-----------------------------------------------------------------------------
(* Uploads.                                                                *)

(* What a step may do to an upload request: nothing in most steps. *)
LEMMA UploadSteps ==
    ASSUME Next
    PROVE  \/ /\ UNCHANGED <<upload, tx>> /\ idCache \subseteq idCache'
           \/ \E u \in Uploads : lockAndGetNonce(u) \/ signAndSend(u) \/ TxIncluded(u)
                                   \/ SendFails(u)
           \/ \E u \in Uploads, o \in Objects, content \in {"good", "bad"} :
                  UploadStart(u, o, content)
           \/ \E u \in Uploads : UploadStep(u) \/ UploadTimeout(u)
           \/ Restart
  <1>1. ASSUME SyncStep \/ SyncFails
        PROVE  UNCHANGED <<upload, tx, idCache>>
    BY <1>1 DEF SyncStep, SyncStart, SyncBags, SyncTasks, SyncEnd, SyncFails, txVars, diskVars
  <1>2. ASSUME NEW w \in Workers, WorkerStep(w) \/ DownloadFails(w)
        PROVE  UNCHANGED <<upload, tx>> /\ idCache \subseteq idCache'
    BY <1>2 DEF WorkerStep, WorkerExit, WorkerGet, PrepareGivesUp, PrepareAsk, Download,
       DownloadRename, DownloadAddToCache, DownloadFails, txVars, diskVars
  <1>3. ASSUME NEW p \in Operators,
               (\E w \in Workers : PrepareFails(w, p)) \/ ExpireIds(p) \/ ExpireBadUrl(p)
        PROVE  UNCHANGED <<upload, tx, idCache>>
    BY <1>3 DEF PrepareFails, ExpireIds, ExpireBadUrl, txVars, diskVars
  <1>4. ASSUME NEW o \in Objects,
               (\E p \in Operators : OtherAccepts(o, p)) \/ ObjectDeleted(o) \/ BagRemoved(o)
        PROVE  UNCHANGED <<upload, tx, idCache>>
    BY <1>4 DEF OtherAccepts, ObjectDeleted, BagRemoved, txVars, diskVars
  <1>5. ASSUME Index
        PROVE  UNCHANGED <<upload, tx, idCache>>
    BY <1>5 DEF Index, txVars, diskVars
  <1>6. QED
    BY <1>1, <1>2, <1>3, <1>4, <1>5 DEF Next, TxStep

(* Every step keeps the requests in step with their extrinsics. *)
LEMMA StepKeepsUploadsSound ==
    ASSUME TypeOK, UploadsSound, Next
    PROVE  UploadsSound'
  <1>1. CASE UNCHANGED <<upload, tx>> /\ idCache \subseteq idCache'
    BY <1>1 DEF UploadsSound
  <1>2. ASSUME NEW u \in Uploads,
               lockAndGetNonce(u) \/ signAndSend(u) \/ TxIncluded(u) \/ SendFails(u)
        PROVE  UploadsSound'
    <2>1. /\ tx[u] \in {"waiting", "signing", "pending"}
          /\ \A v \in Uploads : v # u => tx'[v] = tx[v]
          /\ UNCHANGED <<upload, idCache>>
      BY <1>2 DEF TypeOK, lockAndGetNonce, signAndSend, TxIncluded, SendFails, diskVars
    <2>2. QED
      BY <2>1 DEF UploadsSound
  <1>3. ASSUME NEW u \in Uploads, NEW o \in Objects, NEW content \in {"good", "bad"},
               UploadStart(u, o, content)
        PROVE  UploadsSound'
    BY <1>3 DEF TypeOK, UploadsSound, UploadStart, txVars, diskVars
  <1>4. ASSUME NEW u \in Uploads, UploadVerify(u)
        PROVE  UploadsSound'
    <2>1. /\ upload'[u].obj = upload[u].obj
          /\ upload'[u].pc = "ended" \/ (/\ upload'[u].pc = "cached"
                                        /\ upload'[u].content = "good"
                                        /\ upload[u].obj \in idCache')
      <3>1. upload[u] \in UploadStates
        BY DEF TypeOK
      <3>2. CASE verifyDataObjectInfo(u)
        <4>1. /\ upload'[u] = [upload[u] EXCEPT !.pc = "cached"]
              /\ idCache' = idCache \cup {upload[u].obj}
          BY <1>4, <3>2 DEF TypeOK, UploadVerify
        <4>2. QED
          BY <3>1, <3>2, <4>1, UploadFields DEF verifyDataObjectInfo
      <3>3. CASE ~ verifyDataObjectInfo(u)
        <4>1. upload'[u] = Ended(upload[u])
          BY <1>4, <3>3 DEF TypeOK, UploadVerify
        <4>2. QED
          BY <3>1, <4>1, UploadFields
      <3>4. QED
        BY <3>2, <3>3
    <2>2. /\ \A v \in Uploads : v # u => upload'[v] = upload[v]
          /\ UNCHANGED tx /\ idCache \subseteq idCache'
          /\ upload[u].pc = "received"
      BY <1>4 DEF TypeOK, UploadVerify, txVars
    <2>3. QED
      BY <2>1, <2>2 DEF UploadsSound
  <1>5. ASSUME NEW u \in Uploads,
               UploadRename(u) \/ UploadAnswered(u) \/ UploadCleanup(u) \/ UploadTimeout(u)
        PROVE  UploadsSound'
    <2>1. /\ upload'[u].obj = upload[u].obj
          /\ upload'[u].pc \in {"accepting", "cleanup", "failed", "ended"}
          /\ upload[u].pc # "idle"
      <3>1. upload[u] \in UploadStates /\ upload[u].pc # "idle"
        BY <1>5 DEF TypeOK, UploadRename, UploadAnswered, UploadCleanup, UploadTimeout
      <3>2. \/ upload'[u] = [upload[u] EXCEPT !.pc = "accepting"]
            \/ upload'[u] = [upload[u] EXCEPT !.pc = "cleanup"]
            \/ upload'[u] = [upload[u] EXCEPT !.pc = "failed", !.content = None]
            \/ upload'[u] = Ended(upload[u])
        BY <1>5 DEF TypeOK, UploadRename, UploadAnswered, UploadCleanup, UploadTimeout
      <3>3. ASSUME NEW pc \in {"accepting", "cleanup"},
                   upload'[u] = [upload[u] EXCEPT !.pc = pc]
            PROVE  upload'[u].pc = pc /\ upload'[u].obj = upload[u].obj
        BY <3>1, <3>3, UploadFields
      <3>4. CASE upload'[u] = [upload[u] EXCEPT !.pc = "failed", !.content = None]
        BY <3>1, <3>4, UploadFields
      <3>5. CASE upload'[u] = Ended(upload[u])
        BY <3>1, <3>5, UploadFields
      <3>6. QED
        BY <3>1, <3>2, <3>3, <3>4, <3>5
    <2>2. /\ \A v \in Uploads : v # u => upload'[v] = upload[v] /\ tx'[v] = tx[v]
          /\ UNCHANGED idCache
      BY <1>5 DEF TypeOK, UploadRename, UploadAnswered, UploadCleanup, UploadTimeout,
         txVars, diskVars
    <2>3. QED
      BY <2>1, <2>2 DEF UploadsSound
  <1>6. CASE Restart
    <2>1. ASSUME NEW u \in Uploads
          PROVE  \/ upload'[u] = upload[u] /\ upload[u].pc \in {"idle", "failed"}
                 \/ /\ upload'[u].pc = "ended" /\ upload'[u].obj = upload[u].obj
                    /\ upload[u].pc # "idle"
      <3>1. upload[u] \in UploadStates
        BY DEF TypeOK
      <3>2. upload'[u] = IF upload[u].pc \in {"idle", "failed"}
                         THEN upload[u] ELSE Ended(upload[u])
        BY <1>6 DEF Restart
      <3>3. Ended(upload[u]).pc = "ended" /\ Ended(upload[u]).obj = upload[u].obj
        BY <3>1, UploadFields
      <3>4. QED
        BY <3>2, <3>3
    <2>2. ASSUME NEW u \in Uploads
          PROVE  tx'[u] = "none" <=> tx[u] = "none"
      BY <1>6 DEF TypeOK, Restart
    <2>3. QED
      BY <2>1, <2>2 DEF UploadsSound
  <1>7. QED
    BY <1>1, <1>2, <1>3, <1>4, <1>5, <1>6, UploadSteps DEF UploadStep

-----------------------------------------------------------------------------
(* Workers and what they download.                                         *)

(* The steps that concern a synchronization; all others leave it alone. *)
LEMMA WorkerSteps ==
    ASSUME Next
    PROVE  \/ UNCHANGED <<sync, stack, worker>>
           \/ SyncStep \/ SyncFails
           \/ \E w \in Workers : WorkerExit(w) \/ WorkerGet(w) \/ PrepareGivesUp(w)
           \/ \E w \in Workers, p \in Operators : PrepareAsk(w, p) \/ PrepareFails(w, p)
           \/ \E w \in Workers : Download(w) \/ DownloadFails(w) \/ DownloadRename(w)
                                   \/ DownloadAddToCache(w)
           \/ Restart
  <1>1. ASSUME NEW u \in Uploads,
               \/ TxStep(u) \/ SendFails(u) \/ UploadStep(u) \/ UploadTimeout(u)
               \/ \E o \in Objects, content \in {"good", "bad"} : UploadStart(u, o, content)
        PROVE  UNCHANGED <<sync, stack, worker>>
    BY <1>1 DEF TxStep, lockAndGetNonce, signAndSend, TxIncluded, SendFails, UploadStep,
       UploadVerify, UploadRename, UploadAnswered, UploadCleanup, UploadTimeout,
       UploadStart, syncVars
  <1>2. ASSUME NEW p \in Operators, ExpireIds(p) \/ ExpireBadUrl(p)
        PROVE  UNCHANGED <<sync, stack, worker>>
    BY <1>2 DEF ExpireIds, ExpireBadUrl
  <1>3. ASSUME NEW o \in Objects,
               (\E p \in Operators : OtherAccepts(o, p)) \/ ObjectDeleted(o) \/ BagRemoved(o)
        PROVE  UNCHANGED <<sync, stack, worker>>
    BY <1>3 DEF OtherAccepts, ObjectDeleted, BagRemoved, syncVars
  <1>4. ASSUME Index
        PROVE  UNCHANGED <<sync, stack, worker>>
    BY <1>4 DEF Index, syncVars
  <1>5. QED
    BY <1>1, <1>2, <1>3, <1>4 DEF Next, WorkerStep

(* The states a processor can be put in. *)
LEMMA WorkerFields ==
    ASSUME NEW wk \in WorkerStates
    PROVE  /\ Off.pc = "off" /\ NextTask.pc = "get"
           /\ Off.task = None /\ NextTask.task = None
           /\ \A S : LET new == [wk EXCEPT !.urls = S]
                     IN  new.pc = wk.pc /\ new.task = wk.task /\ new.content = wk.content
           /\ \A c : LET new == [wk EXCEPT !.pc = "rename", !.content = c]
                     IN  new.pc = "rename" /\ new.task = wk.task /\ new.content = c
           /\ LET new == [wk EXCEPT !.pc = "cache"]
              IN  new.pc = "cache" /\ new.task = wk.task
  BY DEF WorkerStates, Off, NextTask

(* An object that has been deleted stays so. *)
LEMMA DeletedForGood ==
    ASSUME TypeOK, UploadsSound, Next, NEW o \in Objects, chain[o] = "deleted"
    PROVE  chain'[o] = "deleted"
  <1>1. ASSUME NEW x \in Objects,
               (\E p \in Operators : OtherAccepts(x, p)) \/ ObjectDeleted(x) \/ BagRemoved(x)
        PROVE  chain'[o] = "deleted"
    BY <1>1 DEF TypeOK, OtherAccepts, ObjectDeleted, BagRemoved
  <1>2. ASSUME NEW u \in Uploads, TxIncluded(u)
        PROVE  chain'[o] = "deleted"
    BY <1>2 DEF TypeOK, TxIncluded
  <1>3. ASSUME NEW u \in Uploads,
               \/ lockAndGetNonce(u) \/ signAndSend(u)
               \/ SendFails(u) \/ UploadStep(u) \/ UploadTimeout(u)
               \/ \E x \in Objects, content \in {"good", "bad"} : UploadStart(u, x, content)
        PROVE  UNCHANGED chain
    BY <1>3 DEF lockAndGetNonce, signAndSend, SendFails, UploadStep, UploadVerify,
       UploadRename, UploadAnswered, UploadCleanup, UploadTimeout, UploadStart, envVars,
       chainVars
  <1>4. ASSUME Index \/ Restart \/ SyncStep \/ SyncFails
        PROVE  UNCHANGED chain
    BY <1>4 DEF Index, Restart, SyncStep, SyncStart, SyncBags, SyncTasks, SyncEnd,
       SyncFails, envVars, chainVars
  <1>5. ASSUME NEW w \in Workers,
               \/ WorkerStep(w) \/ DownloadFails(w)
               \/ \E p \in Operators : PrepareFails(w, p)
        PROVE  UNCHANGED chain
    BY <1>5 DEF WorkerStep, WorkerExit, WorkerGet, PrepareGivesUp, PrepareAsk, Download,
       DownloadRename, DownloadAddToCache, DownloadFails, PrepareFails, envVars, chainVars
  <1>6. ASSUME NEW p \in Operators, ExpireIds(p) \/ ExpireBadUrl(p)
        PROVE  UNCHANGED chain
    BY <1>6 DEF ExpireIds, ExpireBadUrl, envVars, chainVars
  <1>7. QED
    BY <1>1, <1>2, <1>3, <1>4, <1>5, <1>6 DEF Next, TxStep

(* Every step of a processor leaves it at the end of its task, or at a      *)
(* later point of it.                                                       *)
LEMMA WorkerMoves ==
    ASSUME TypeOK, WorkersSound, NEW w \in Workers,
           \/ WorkerExit(w) \/ PrepareGivesUp(w)
           \/ \E p \in Operators : PrepareAsk(w, p) \/ PrepareFails(w, p)
           \/ Download(w) \/ DownloadFails(w) \/ DownloadRename(w) \/ DownloadAddToCache(w)
    PROVE  /\ UNCHANGED sync
           /\ worker[w].pc # "off"
           /\ \A v \in Workers : v # w => worker'[v] = worker[v]
           /\ \/ /\ worker'[w].pc \in {"off", "get"} /\ worker'[w].task = None
                 /\ worker'[w].pc = "off" => stack' = <<>>
              \/ /\ worker'[w].task = worker[w].task
                 /\ \/ worker[w].pc = "prepare" /\ worker'[w].pc = "prepare"
                    \/ /\ worker[w].pc = "download" /\ worker'[w].pc = "rename"
                       /\ worker[w].task.expectedHash => worker'[w].content = "good"
                    \/ worker[w].pc = "rename" /\ worker'[w].pc = "cache"
  <1>1. worker[w] \in WorkerStates
    BY DEF TypeOK
  <1>2. /\ UNCHANGED sync
        /\ worker[w].pc # "off"
    BY DEF WorkerExit, PrepareGivesUp, PrepareAsk, PrepareFails, Download, DownloadFails,
       DownloadRename, DownloadAddToCache
  <1>3. CASE WorkerExit(w) \/ PrepareGivesUp(w) \/ DownloadAddToCache(w)
    <2>1. \/ worker' = [worker EXCEPT ![w] = Off] /\ stack' = <<>>
          \/ worker' = [worker EXCEPT ![w] = NextTask]
      BY <1>3 DEF WorkerExit, PrepareGivesUp, DownloadAddToCache
    <2>2. QED
      BY <1>1, <1>2, <2>1, WorkerFields DEF TypeOK
  <1>4. ASSUME NEW p \in Operators, NEW ids, worker[w].pc = "prepare",
               PrepareWith(w, p, ids)
        PROVE  /\ \A v \in Workers : v # w => worker'[v] = worker[v]
               /\ \/ worker'[w].pc = "get" /\ worker'[w].task = None
                  \/ /\ worker'[w].task = worker[w].task
                     /\ worker[w].pc = "prepare" /\ worker'[w].pc = "prepare"
    <2>1. \/ worker' = [worker EXCEPT ![w] = NextTask]
          \/ worker' = [worker EXCEPT ![w].urls = @ \ {p}]
      BY <1>4 DEF PrepareWith
    <2>2. CASE worker' = [worker EXCEPT ![w] = NextTask]
      BY <1>1, <2>2, WorkerFields DEF TypeOK
    <2>3. CASE worker' = [worker EXCEPT ![w].urls = @ \ {p}]
      <3>1. worker'[w] = [worker[w] EXCEPT !.urls = worker[w].urls \ {p}]
        BY <2>3 DEF TypeOK
      <3>2. /\ worker'[w].task = worker[w].task
            /\ worker'[w].pc = worker[w].pc
        BY <1>1, <3>1, WorkerFields
      <3>3. QED
        BY <1>4, <2>3, <3>2 DEF TypeOK
    <2>4. QED
      BY <2>1, <2>2, <2>3
  <1>5. CASE \E p \in Operators : PrepareAsk(w, p) \/ PrepareFails(w, p)
    BY <1>2, <1>4, <1>5 DEF PrepareAsk, PrepareFails
  <1>6. CASE Download(w) \/ DownloadFails(w)
    <2>1. ASSUME NEW c, DownloadWith(w, c)
          PROVE  /\ \A v \in Workers : v # w => worker'[v] = worker[v]
                 /\ \/ worker'[w].pc = "get" /\ worker'[w].task = None
                    \/ /\ worker'[w].task = worker[w].task /\ worker'[w].pc = "rename"
                       /\ worker[w].task.expectedHash => worker'[w].content = "good"
      <3>1. CASE verifyDownloadedFile(worker[w].task, c)
        <4>1. worker'[w] = [worker[w] EXCEPT !.pc = "rename", !.content = c]
          BY <2>1, <3>1 DEF DownloadWith, TypeOK
        <4>2. /\ worker'[w].task = worker[w].task /\ worker'[w].pc = "rename"
              /\ worker'[w].content = c
          BY <1>1, <4>1, WorkerFields
        <4>3. QED
          BY <2>1, <3>1, <4>2 DEF DownloadWith, TypeOK, verifyDownloadedFile
      <3>2. CASE ~ verifyDownloadedFile(worker[w].task, c)
        <4>1. worker'[w] = NextTask
          BY <2>1, <3>2 DEF DownloadWith, TypeOK
        <4>2. QED
          BY <1>1, <2>1, <4>1, WorkerFields DEF DownloadWith, TypeOK
      <3>3. QED
        BY <3>1, <3>2
    <2>2. CASE \E c : DownloadWith(w, c)
      <3>1. worker[w].pc = "download"
        BY <1>6 DEF Download, DownloadFails
      <3>2. QED
        BY <1>2, <2>1, <2>2, <3>1
    <2>3. CASE worker' = [worker EXCEPT ![w] = NextTask]
      BY <1>1, <1>2, <2>3, WorkerFields DEF TypeOK
    <2>4. QED
      BY <1>6, <2>2, <2>3 DEF Download, DownloadFails
  <1>7. CASE DownloadRename(w)
    <2>1. worker'[w] = [worker[w] EXCEPT !.pc = "cache"]
      BY <1>7 DEF DownloadRename, TypeOK
    <2>2. worker'[w].pc = "cache" /\ worker'[w].task = worker[w].task
      BY <1>1, <2>1, WorkerFields
    <2>3. QED
      BY <1>2, <1>7, <2>2 DEF DownloadRename, TypeOK
  <1>8. QED
    BY <1>3, <1>5, <1>6, <1>7

(* A processor runs only within a round, and has a task while it works. *)
LEMMA StepKeepsWorkersSound ==
    ASSUME TypeOK, WorkersSound, Next
    PROVE  WorkersSound'
  <1>1. CASE UNCHANGED <<sync, stack, worker>>
    BY <1>1 DEF WorkersSound
  <1>2. CASE SyncStep \/ SyncFails
    <2>1. CASE SyncTasks
      <3>1. sync'.pc = "processing" /\ \A w \in Workers : worker'[w].pc = "get"
        BY <2>1 DEF SyncTasks, Asleep, Off
      <3>2. QED
        BY <3>1 DEF WorkersSound, Running
    <2>2. CASE SyncStart \/ SyncBags \/ SyncEnd \/ SyncFails
      <3>1. \A w \in Workers : worker[w].pc = "off"
        BY <2>2 DEF WorkersSound, SyncStart, SyncBags, SyncEnd, SyncFails
      <3>2. UNCHANGED worker
        BY <2>2 DEF SyncStart, SyncBags, SyncEnd, SyncFails
      <3>3. QED
        BY <3>1, <3>2 DEF WorkersSound, Running
    <2>3. QED
      BY <1>2, <2>1, <2>2 DEF SyncStep
  <1>3. ASSUME NEW w \in Workers, WorkerGet(w)
        PROVE  WorkersSound'
    <2> DEFINE t == stack[Len(stack)]
    <2>1. t \in Tasks
      BY <1>3, StackTypes DEF TypeOK, WorkerGet
    <2>2. worker'[w].task = t /\ worker'[w].pc = t.kind /\ t.kind \in {"prepare", "download"}
      BY <1>3, <2>1 DEF TypeOK, WorkerGet, Tasks
    <2> HIDE DEF t
    <2>3. /\ \A v \in Workers : v # w => worker'[v] = worker[v]
          /\ UNCHANGED sync /\ worker[w].pc = "get"
      BY <1>3 DEF TypeOK, WorkerGet
    <2>4. QED
      BY <2>1, <2>2, <2>3 DEF WorkersSound, Running
  <1>4. ASSUME NEW w \in Workers,
               \/ WorkerExit(w) \/ PrepareGivesUp(w)
               \/ \E p \in Operators : PrepareAsk(w, p) \/ PrepareFails(w, p)
               \/ Download(w) \/ DownloadFails(w) \/ DownloadRename(w)
               \/ DownloadAddToCache(w)
        PROVE  WorkersSound'
    BY <1>4, WorkerMoves DEF WorkersSound, Running
  <1>5. CASE Restart
    BY <1>5 DEF Restart, WorkersSound, Running, Off
  <1>6. QED
    BY <1>1, <1>2, <1>3, <1>4, <1>5, WorkerSteps

(* A task that is verified, or whose object is deleted, remains so. *)
LEMMA VerifiedForGood ==
    ASSUME TypeOK, UploadsSound, Next, NEW t \in Tasks, Verified(t, chain)
    PROVE  Verified(t, chain')
  <1>1. t.obj \in Objects
    BY DEF Tasks
  <1>2. QED
    BY <1>1, DeletedForGood DEF Verified

(* No step skips the verification, but that of a deleted object. *)
LEMMA StepKeepsDownloadsVerified ==
    ASSUME TypeOK, UploadsSound, WorkersSound, DownloadsVerified, Next
    PROVE  DownloadsVerified'
  <1>1. \A i \in 1 .. Len(stack) : stack[i] \in Tasks /\ Verified(stack[i], chain')
    BY VerifiedForGood DEF TypeOK, DownloadsVerified
  <1>2. ASSUME NEW w \in Workers, worker'[w] = worker[w]
        PROVE  /\ worker'[w].pc = "download" => Verified(worker'[w].task, chain')
               /\ worker'[w].pc = "rename" => \/ worker'[w].content = "good"
                                              \/ chain'[worker'[w].task.obj] = "deleted"
    <2>1. CASE worker[w].pc = "download"
      BY <1>2, <2>1, VerifiedForGood DEF WorkersSound, Running, DownloadsVerified
    <2>2. CASE worker[w].pc = "rename"
      <3>1. worker[w].task.obj \in Objects
        BY <2>2 DEF WorkersSound, Running, Tasks
      <3>2. QED
        BY <1>2, <2>2, <3>1, DeletedForGood DEF DownloadsVerified
    <2>3. QED
      BY <1>2, <2>1, <2>2
  <1>3. CASE UNCHANGED <<sync, stack, worker>>
    BY <1>1, <1>2, <1>3 DEF DownloadsVerified
  <1>4. CASE SyncStep \/ SyncFails
    <2>1. CASE SyncTasks
      <3>1. \A w \in Workers : worker'[w].pc = "get"
        BY <2>1 DEF SyncTasks, Off
      <3>2. \A i \in 1 .. Len(stack') : stack'[i].kind = "prepare"
        <4>1. IsFiniteSet(Added)
          BY StorageAssumption, FS_Subset DEF Added, TypeOK
        <4>2. Cardinality(Added) \in Nat
          BY <4>1, FS_CardinalityType
        <4>3. stack' \in [1 .. Cardinality(Added) -> {PrepareTask(o) : o \in Added}]
          BY <2>1 DEF SyncTasks, TaskOrders
        <4>4. Len(stack') = Cardinality(Added)
          BY <4>2, <4>3
        <4>5. \A o : PrepareTask(o).kind = "prepare"
          BY DEF PrepareTask
        <4>6. QED
          BY <4>3, <4>4, <4>5
      <3>3. QED
        BY <3>1, <3>2 DEF DownloadsVerified, Verified
    <2>2. CASE SyncStart \/ SyncBags \/ SyncEnd \/ SyncFails
      BY <1>1, <1>2, <2>2 DEF SyncStart, SyncBags, SyncEnd, SyncFails, DownloadsVerified
    <2>3. QED
      BY <1>4, <2>1, <2>2 DEF SyncStep
  <1>5. ASSUME NEW w \in Workers, WorkerGet(w)
        PROVE  DownloadsVerified'
    <2> DEFINE t == stack[Len(stack)]
    <2>1. /\ Verified(t, chain')
          /\ \A i \in 1 .. Len(stack') : Verified(stack'[i], chain')
      BY <1>1, <1>5, StackTypes DEF TypeOK, WorkerGet
    <2>2. worker'[w].task = t /\ worker'[w].pc # "rename"
      <3>1. t.kind \in {"prepare", "download"}
        BY <1>5, StackTypes DEF TypeOK, WorkerGet, Tasks
      <3>2. QED
        BY <1>5, <3>1 DEF TypeOK, WorkerGet
    <2>3. \A v \in Workers : v # w => worker'[v] = worker[v]
      BY <1>5 DEF TypeOK, WorkerGet
    <2> HIDE DEF t
    <2>4. QED
      BY <1>2, <2>1, <2>2, <2>3 DEF DownloadsVerified
  <1>6. ASSUME NEW w \in Workers,
               \/ WorkerExit(w) \/ PrepareGivesUp(w)
               \/ \E p \in Operators : PrepareAsk(w, p) \/ PrepareFails(w, p)
               \/ Download(w) \/ DownloadFails(w) \/ DownloadRename(w)
               \/ DownloadAddToCache(w)
        PROVE  DownloadsVerified'
    <2>1. \A i \in 1 .. Len(stack') : Verified(stack'[i], chain')
      <3>1. CASE UNCHANGED stack
        BY <1>1, <3>1
      <3>2. ASSUME NEW p \in Operators, NEW ids, PrepareWith(w, p, ids),
                   worker[w].pc = "prepare", UNCHANGED chain
            PROVE  \A i \in 1 .. Len(stack') : Verified(stack'[i], chain')
        <4> DEFINE o == worker[w].task.obj
                   d == DownloadTask(o, p, chain[o] # "deleted")
        <4>1. CASE stack' = Append(stack, d)
          <5>1. o \in Objects
            BY <3>2 DEF WorkersSound, Running, Tasks
          <5>2. d \in Tasks
            BY <5>1 DEF DownloadTask, Tasks
          <5>3. Verified(d, chain')
            BY <3>2 DEF DownloadTask, Verified
          <5> HIDE DEF d
          <5>4. QED
            BY <1>1, <4>1, <5>2, <5>3, StackTypes DEF TypeOK
        <4>2. QED
          BY <1>1, <3>2, <4>1 DEF PrepareWith
      <3>3. CASE \E p \in Operators : PrepareAsk(w, p) \/ PrepareFails(w, p)
        BY <3>2, <3>3 DEF PrepareAsk, PrepareFails, envVars, chainVars
      <3>4. QED
        BY <1>6, <3>1, <3>3 DEF WorkerExit, PrepareGivesUp, Download, DownloadFails,
           DownloadRename, DownloadAddToCache
    <2>2. ASSUME worker[w].pc = "download", worker'[w].task = worker[w].task,
                 worker[w].task.expectedHash => worker'[w].content = "good"
          PROVE  worker'[w].content = "good" \/ chain'[worker'[w].task.obj] = "deleted"
      <3>1. worker[w].task.kind = "download" /\ Verified(worker[w].task, chain)
        BY <2>2 DEF WorkersSound, DownloadsVerified
      <3>2. worker[w].task.obj \in Objects
        BY <2>2 DEF WorkersSound, Running, Tasks
      <3>3. QED
        BY <2>2, <3>1, <3>2, DeletedForGood DEF Verified
    <2>3. /\ \A v \in Workers : v # w => worker'[v] = worker[v]
          /\ worker'[w].pc # "download"
          /\ worker'[w].pc = "rename" =>
                /\ worker[w].pc = "download" /\ worker'[w].task = worker[w].task
                /\ worker[w].task.expectedHash => worker'[w].content = "good"
      BY <1>6, WorkerMoves
    <2>4. QED
      BY <1>2, <2>1, <2>2, <2>3 DEF DownloadsVerified
  <1>7. CASE Restart
    <2>1. stack' = <<>> /\ \A w \in Workers : worker'[w].pc = "off"
      BY <1>7 DEF Restart, Off
    <2>2. Len(stack') = 0
      BY <2>1
    <2>3. QED
      BY <2>1, <2>2 DEF DownloadsVerified
  <1>8. QED
    BY <1>3, <1>4, <1>5, <1>6, <1>7, WorkerSteps

-----------------------------------------------------------------------------
(* The stored files.                                                       *)

(* Three steps touch the files: an upload and a download store one, a      *)
(* failed upload removes one.                                              *)
LEMMA FileSteps ==
    ASSUME TypeOK, UploadsSound, WorkersSound, DownloadsVerified, Next,
           NEW o \in Objects, files'[o] # files[o]
    PROVE  \/ /\ files'[o] = "good" /\ o \in idCache /\ UNCHANGED idCache
              /\ UNCHANGED worker
           \/ /\ files'[o] = None /\ UNCHANGED <<idCache, worker>>
              /\ UploadFailed(o)'
           \/ /\ files'[o] = "good" \/ chain'[o] = "deleted"
              /\ \E w \in Workers : /\ worker'[w].pc = "cache" /\ worker'[w].task.obj = o
                                    /\ \A v \in Workers : v # w => worker'[v] = worker[v]
              /\ UNCHANGED idCache
  <1>1. ASSUME NEW u \in Uploads, UploadRename(u)
        PROVE  /\ files'[o] = "good" /\ o \in idCache /\ UNCHANGED idCache
               /\ UNCHANGED worker
    <2>1. upload[u].obj = o /\ files'[o] = upload[u].content
      BY <1>1 DEF TypeOK, UploadRename
    <2>2. QED
      BY <1>1, <2>1 DEF UploadRename, UploadsSound, syncVars
  <1>2. ASSUME NEW u \in Uploads, UploadCleanup(u)
        PROVE  /\ files'[o] = None /\ UNCHANGED <<idCache, worker>>
               /\ UploadFailed(o)'
    <2>1. upload[u].obj = o /\ files'[o] = None
      BY <1>2 DEF TypeOK, UploadCleanup
    <2>2. upload'[u] = [upload[u] EXCEPT !.pc = "failed", !.content = None]
      BY <1>2 DEF TypeOK, UploadCleanup
    <2>3. upload'[u].pc = "failed" /\ upload'[u].obj = o
      BY <2>1, <2>2, UploadFields DEF TypeOK
    <2>4. QED
      BY <1>2, <2>1, <2>3 DEF UploadCleanup, UploadFailed, syncVars
  <1>3. ASSUME NEW w \in Workers, DownloadRename(w)
        PROVE  /\ files'[o] = "good" \/ chain'[o] = "deleted"
               /\ worker'[w].pc = "cache" /\ worker'[w].task.obj = o
               /\ \A v \in Workers : v # w => worker'[v] = worker[v]
               /\ UNCHANGED idCache
    <2>1. worker[w].task.obj = o /\ files'[o] = worker[w].content
      BY <1>3 DEF TypeOK, DownloadRename
    <2>2. worker'[w] = [worker[w] EXCEPT !.pc = "cache"]
      BY <1>3 DEF TypeOK, DownloadRename
    <2>3. worker'[w].pc = "cache" /\ worker'[w].task.obj = o
      BY <2>1, <2>2, WorkerFields DEF TypeOK
    <2>4. worker[w].content = "good" \/ chain[o] = "deleted"
      BY <1>3, <2>1 DEF DownloadRename, DownloadsVerified
    <2>5. QED
      BY <1>3, <2>1, <2>3, <2>4 DEF TypeOK, DownloadRename, envVars, chainVars
  <1>4. ASSUME NEW u \in Uploads,
               \/ TxStep(u) \/ SendFails(u) \/ UploadVerify(u) \/ UploadAnswered(u)
               \/ UploadTimeout(u)
               \/ \E x \in Objects, content \in {"good", "bad"} : UploadStart(u, x, content)
        PROVE  UNCHANGED files
    BY <1>4 DEF TxStep, lockAndGetNonce, signAndSend, TxIncluded, SendFails, UploadVerify,
       UploadAnswered, UploadTimeout, UploadStart, diskVars
  <1>5. ASSUME \/ Index \/ Restart \/ SyncStep \/ SyncFails
               \/ \E x \in Objects : ObjectDeleted(x) \/ BagRemoved(x)
               \/ \E x \in Objects, p \in Operators : OtherAccepts(x, p)
               \/ \E p \in Operators : ExpireIds(p) \/ ExpireBadUrl(p)
        PROVE  UNCHANGED files
    BY <1>5 DEF Index, Restart, SyncStep, SyncStart, SyncBags, SyncTasks, SyncEnd,
       SyncFails, ObjectDeleted, BagRemoved, OtherAccepts, ExpireIds, ExpireBadUrl, diskVars
  <1>6. ASSUME NEW w \in Workers,
               \/ WorkerExit(w) \/ WorkerGet(w) \/ PrepareGivesUp(w) \/ Download(w)
               \/ DownloadAddToCache(w) \/ DownloadFails(w)
               \/ \E p \in Operators : PrepareAsk(w, p) \/ PrepareFails(w, p)
        PROVE  UNCHANGED files
    BY <1>6 DEF WorkerExit, WorkerGet, PrepareGivesUp, PrepareAsk, Download,
       DownloadAddToCache, DownloadFails, PrepareFails, diskVars
  <1>7. \/ \E u \in Uploads : UploadRename(u) \/ UploadCleanup(u)
        \/ \E w \in Workers : DownloadRename(w)
    BY <1>4, <1>5, <1>6 DEF Next, UploadStep, WorkerStep
  <1>8. QED
    BY <1>1, <1>2, <1>3, <1>7

(* What is stored has been verified, by the upload or by the download. *)
LEMMA StepKeepsFilesVerified ==
    ASSUME TypeOK, UploadsSound, WorkersSound, DownloadsVerified, FilesVerified, Next
    PROVE  FilesVerified'
  <1> SUFFICES ASSUME NEW o \in Objects, chain'[o] # "deleted"
               PROVE  files'[o] # "bad"
    BY DEF FilesVerified
  <1>1. chain[o] # "deleted"
    BY DeletedForGood
  <1>2. CASE files'[o] = files[o]
    BY <1>1, <1>2 DEF FilesVerified
  <1>3. CASE files'[o] # files[o]
    BY <1>3, FileSteps, StorageAssumption
  <1>4. QED
    BY <1>2, <1>3

(* A file that is stored and not listed is in the hands of a processor,    *)
(* and the next step of that one lists it.                                 *)
LEMMA StepKeepsFilesListed ==
    ASSUME TypeOK, UploadsSound, WorkersSound, DownloadsVerified, FilesListed, Next
    PROVE  FilesListed'
  <1> SUFFICES ASSUME NEW o \in Objects, files'[o] # None
               PROVE  \/ o \in idCache'
                      \/ \E w \in Workers : worker'[w].pc = "cache" /\ worker'[w].task.obj = o
    BY DEF FilesListed
  <1>1. CASE files'[o] # files[o]
    BY <1>1, FileSteps
  <1>2. CASE files'[o] = files[o]
    <2>1. CASE Restart
      <3>1. files[o] # None /\ idCache' = loadDataObjectIdCache
        BY <1>2, <2>1 DEF Restart
      <3>2. QED
        BY <3>1 DEF loadDataObjectIdCache
    <2>2. CASE ~ Restart
      <3>1. idCache \subseteq idCache'
        <4>1. ASSUME NEW u \in Uploads,
                     \/ UploadStep(u) \/ UploadTimeout(u) \/ lockAndGetNonce(u)
                     \/ signAndSend(u) \/ TxIncluded(u) \/ SendFails(u)
                     \/ \E x \in Objects, content \in {"good", "bad"} :
                            UploadStart(u, x, content)
              PROVE  idCache \subseteq idCache'
          BY <4>1 DEF UploadStep, UploadVerify, UploadRename, UploadAnswered, UploadCleanup,
             UploadTimeout, UploadStart, lockAndGetNonce, signAndSend, TxIncluded,
             SendFails, diskVars
        <4>2. QED
          BY <2>2, <4>1, UploadSteps
      <3>2. CASE o \in idCache
        BY <3>1, <3>2
      <3>3. ASSUME NEW w \in Workers, worker[w].pc = "cache", worker[w].task.obj = o
            PROVE  worker'[w] = worker[w] \/ o \in idCache'
        <4>1. CASE UNCHANGED <<sync, stack, worker>>
          BY <4>1
        <4>2. CASE SyncStep \/ SyncFails
          BY <3>3, <4>2 DEF WorkersSound, SyncStep, SyncStart, SyncBags, SyncTasks, SyncEnd,
             SyncFails
        <4>3. ASSUME NEW v \in Workers,
                     \/ WorkerExit(v) \/ WorkerGet(v) \/ PrepareGivesUp(v)
                     \/ \E p \in Operators : PrepareAsk(v, p) \/ PrepareFails(v, p)
                     \/ Download(v) \/ DownloadFails(v) \/ DownloadRename(v)
                     \/ DownloadAddToCache(v)
              PROVE  worker'[w] = worker[w] \/ o \in idCache'
          <5>1. CASE v = w
            BY <3>3, <4>3, <5>1 DEF WorkerExit, WorkerGet, PrepareGivesUp, PrepareAsk,
               PrepareFails, Download, DownloadFails, DownloadRename, DownloadAddToCache
          <5>2. CASE v # w /\ WorkerGet(v)
            BY <5>2 DEF WorkerGet, TypeOK
          <5>3. CASE v # w /\ ~ WorkerGet(v)
            BY <4>3, <5>3, WorkerMoves
          <5>4. QED
            BY <5>1, <5>2, <5>3
        <4>4. QED
          BY <2>2, <4>1, <4>2, <4>3, WorkerSteps
      <3>4. QED
        BY <1>2, <3>2, <3>3 DEF FilesListed
    <2>3. QED
      BY <2>1, <2>2
  <1>3. QED
    BY <1>1, <1>2

-----------------------------------------------------------------------------
(* Accepted objects.                                                       *)

(* A request that has been received keeps its object, and one that has     *)
(* failed stays so.                                                        *)
LEMMA RequestsKept ==
    ASSUME TypeOK, Next, NEW u \in Uploads, upload[u].pc # "idle"
    PROVE  /\ upload'[u].obj = upload[u].obj
           /\ upload[u].pc = "failed" => upload'[u].pc = "failed"
  <1>0. upload[u] \in UploadStates
    BY DEF TypeOK
  <1>1. CASE UNCHANGED upload
    BY <1>1
  <1>2. ASSUME NEW v \in Uploads, NEW o \in Objects, NEW content \in {"good", "bad"},
               UploadStart(v, o, content)
        PROVE  upload'[u] = upload[u]
    BY <1>2 DEF UploadStart, TypeOK
  <1>3. ASSUME NEW v \in Uploads, UploadStep(v) \/ UploadTimeout(v)
        PROVE  \/ upload'[u] = upload[u]
               \/ upload[u].pc # "failed" /\ upload'[u].obj = upload[u].obj
    <2>1. CASE u # v
      BY <1>3, <2>1 DEF UploadStep, UploadVerify, UploadRename, UploadAnswered,
         UploadCleanup, UploadTimeout, TypeOK
    <2>2. CASE u = v
      <3>1. /\ upload[u].pc # "failed"
            /\ \/ upload'[u] = Ended(upload[u])
               \/ upload'[u] = [upload[u] EXCEPT !.pc = "failed", !.content = None]
               \/ \E pc \in {"cached", "accepting", "cleanup"} :
                      upload'[u] = [upload[u] EXCEPT !.pc = pc]
        BY <1>3, <2>2 DEF UploadStep, UploadVerify, UploadRename, UploadAnswered,
           UploadCleanup, UploadTimeout, TypeOK
      <3>2. CASE upload'[u] = Ended(upload[u])
        BY <1>0, <3>1, <3>2, UploadFields
      <3>3. CASE upload'[u] = [upload[u] EXCEPT !.pc = "failed", !.content = None]
        BY <1>0, <3>1, <3>3, UploadFields
      <3>4. ASSUME NEW pc, upload'[u] = [upload[u] EXCEPT !.pc = pc]
            PROVE  upload'[u].obj = upload[u].obj
        BY <1>0, <3>4, UploadFields
      <3>5. QED
        BY <3>1, <3>2, <3>3, <3>4
    <2>3. QED
      BY <2>1, <2>2
  <1>4. CASE Restart
    <2>1. \/ upload'[u] = upload[u]
          \/ upload[u].pc # "failed" /\ upload'[u] = Ended(upload[u])
      BY <1>4 DEF Restart, TypeOK
    <2>2. QED
      BY <1>0, <2>1, UploadFields
  <1>5. ASSUME NEW v \in Uploads,
               lockAndGetNonce(v) \/ signAndSend(v) \/ TxIncluded(v) \/ SendFails(v)
        PROVE  UNCHANGED upload
    BY <1>5 DEF lockAndGetNonce, signAndSend, TxIncluded, SendFails
  <1>6. QED
    BY <1>1, <1>2, <1>3, <1>4, <1>5, UploadSteps

(* A file that is held stays so: a failing upload says that it removed it. *)
LEMMA HeldForGood ==
    ASSUME TypeOK, UploadsSound, WorkersSound, DownloadsVerified, Next,
           NEW o \in Objects, Held(o)
    PROVE  Held(o)'
  <1>1. CASE chain[o] = "deleted"
    BY <1>1, DeletedForGood DEF Held
  <1>2. CASE UploadFailed(o)
    <2>1. PICK u \in Uploads : upload[u].obj = o /\ upload[u].pc = "failed"
      BY <1>2 DEF UploadFailed
    <2>2. upload'[u].obj = o /\ upload'[u].pc = "failed"
      BY <2>1, RequestsKept
    <2>3. QED
      BY <2>2 DEF Held, UploadFailed
  <1>3. CASE files[o] = "good"
    <2>1. CASE files'[o] = files[o]
      BY <1>3, <2>1 DEF Held
    <2>2. CASE files'[o] # files[o]
      BY <2>2, FileSteps DEF Held
    <2>3. QED
      BY <2>1, <2>2
  <1>4. QED
    BY <1>1, <1>2, <1>3 DEF Held

(* What a step may promise, and which extrinsics it lets go on. *)
LEMMA PromiseSteps ==
    ASSUME TypeOK, UploadsSound, Next
    PROVE  \/ \E u \in Uploads :
                 /\ tx[u] = "pending" /\ chain'[upload[u].obj] = "accepted"
                 /\ promised' \subseteq promised \cup {upload[u].obj}
                 /\ \A x \in Objects : chain'[x] = "deleted" => chain[x] = "deleted"
           \/ /\ promised' \subseteq promised
              /\ \A x \in promised' : chain'[x] = "deleted" => chain[x] = "deleted"
  <1>0. promised \subseteq Objects
    BY DEF TypeOK
  <1>1. ASSUME NEW o \in Objects,
               (\E p \in Operators : OtherAccepts(o, p)) \/ ObjectDeleted(o) \/ BagRemoved(o)
        PROVE  /\ promised' \subseteq promised
               /\ \A x \in promised' : chain'[x] = "deleted" => chain[x] = "deleted"
    BY <1>0, <1>1 DEF TypeOK, OtherAccepts, ObjectDeleted, BagRemoved
  <1>2. ASSUME NEW u \in Uploads, TxIncluded(u)
        PROVE  \/ /\ tx[u] = "pending" /\ chain'[upload[u].obj] = "accepted"
                  /\ promised' \subseteq promised \cup {upload[u].obj}
                  /\ \A x \in Objects : chain'[x] = "deleted" => chain[x] = "deleted"
               \/ UNCHANGED <<promised, chain>>
    <2>1. upload[u].obj \in Objects
      BY <1>2 DEF TxIncluded, UploadsSound, TypeOK
    <2>2. QED
      BY <1>2, <2>1 DEF TxIncluded, TypeOK
  <1>3. ASSUME NEW u \in Uploads,
               \/ lockAndGetNonce(u) \/ signAndSend(u)
               \/ SendFails(u) \/ UploadStep(u) \/ UploadTimeout(u)
               \/ \E x \in Objects, content \in {"good", "bad"} : UploadStart(u, x, content)
        PROVE  UNCHANGED <<promised, chain>>
    BY <1>3 DEF lockAndGetNonce, signAndSend, SendFails, UploadStep, UploadVerify,
       UploadRename, UploadAnswered, UploadCleanup, UploadTimeout, UploadStart, envVars,
       chainVars
  <1>4. ASSUME Index \/ Restart \/ SyncStep \/ SyncFails
        PROVE  UNCHANGED <<promised, chain>>
    BY <1>4 DEF Index, Restart, SyncStep, SyncStart, SyncBags, SyncTasks, SyncEnd,
       SyncFails, envVars, chainVars
  <1>5. ASSUME NEW w \in Workers,
               \/ WorkerStep(w) \/ DownloadFails(w)
               \/ \E p \in Operators : PrepareFails(w, p)
        PROVE  UNCHANGED <<promised, chain>>
    BY <1>5 DEF WorkerStep, WorkerExit, WorkerGet, PrepareGivesUp, PrepareAsk, Download,
       DownloadRename, DownloadAddToCache, DownloadFails, PrepareFails, envVars, chainVars
  <1>6. ASSUME NEW p \in Operators, ExpireIds(p) \/ ExpireBadUrl(p)
        PROVE  UNCHANGED <<promised, chain>>
    BY <1>6 DEF ExpireIds, ExpireBadUrl, envVars, chainVars
  <1>7. QED
    BY <1>1, <1>2, <1>3, <1>4, <1>5, <1>6 DEF Next, TxStep

(* An extrinsic is sent only for a stored file, and promises that one. *)
LEMMA StepKeepsObjectsHeld ==
    ASSUME TypeOK, UploadsSound, WorkersSound, DownloadsVerified, ObjectsHeld, Next
    PROVE  ObjectsHeld'
  <1> DEFINE Live == {"waiting", "signing", "pending", "ok"}
  <1>0. \A u \in Uploads : tx[u] # "none" => upload[u].obj \in Objects /\ upload[u].pc # "idle"
    BY DEF UploadsSound
  <1>1. ASSUME NEW o \in promised'
        PROVE  Held(o)' /\ chain'[o] # "deleted"
    <2>1. CASE \E u \in Uploads :
                 /\ tx[u] = "pending" /\ chain'[upload[u].obj] = "accepted"
                 /\ promised' \subseteq promised \cup {upload[u].obj}
                 /\ \A x \in Objects : chain'[x] = "deleted" => chain[x] = "deleted"
      <3>1. PICK u \in Uploads :
                 /\ tx[u] = "pending" /\ chain'[upload[u].obj] = "accepted"
                 /\ promised' \subseteq promised \cup {upload[u].obj}
                 /\ \A x \in Objects : chain'[x] = "deleted" => chain[x] = "deleted"
        BY <2>1
      <3>2. /\ o \in Objects /\ Held(o)
            /\ chain'[o] # "deleted"
        BY <1>0, <1>1, <3>1 DEF ObjectsHeld, TypeOK
      <3>3. QED
        BY <3>2, HeldForGood
    <2>2. CASE /\ promised' \subseteq promised
               /\ \A x \in promised' : chain'[x] = "deleted" => chain[x] = "deleted"
      <3>1. o \in Objects /\ Held(o) /\ chain'[o] # "deleted"
        BY <1>1, <2>2 DEF ObjectsHeld, TypeOK
      <3>2. QED
        BY <3>1, HeldForGood
    <2>3. QED
      BY <2>1, <2>2, PromiseSteps
  <1>2. ASSUME NEW u \in Uploads, tx'[u] \in Live
        PROVE  Held(upload[u].obj)'
    <2>1. CASE tx[u] \in Live
      <3>1. /\ upload[u].obj \in Objects /\ Held(upload[u].obj)
            /\ upload'[u].obj = upload[u].obj
        BY <1>0, <2>1, RequestsKept DEF ObjectsHeld
      <3>2. \A o \in Objects : Held(o) => Held(o)'
        BY HeldForGood
      <3>3. QED
        BY <3>1, <3>2 DEF Held, UploadFailed
    <2>2. CASE tx[u] \notin Live
      <3>1. ASSUME NEW v \in Uploads, UploadRename(v), u = v
            PROVE  Held(upload[u].obj)'
        <4>1. /\ upload[u].obj \in Objects /\ upload[u].content = "good"
              /\ upload[u].pc # "idle"
          BY <3>1 DEF UploadRename, UploadsSound
        <4>2. upload'[u].obj = upload[u].obj
          BY <4>1, RequestsKept
        <4>3. files'[upload[u].obj] = "good"
          BY <3>1, <4>1 DEF UploadRename, TypeOK
        <4>4. QED
          BY <4>2, <4>3 DEF Held
      <3>2. ASSUME NEW v \in Uploads,
                   \/ UploadVerify(v) \/ UploadAnswered(v) \/ UploadCleanup(v)
                   \/ UploadTimeout(v)
                   \/ \E o \in Objects, content \in {"good", "bad"} : UploadStart(v, o, content)
            PROVE  UNCHANGED tx
        BY <3>2 DEF UploadVerify, UploadAnswered, UploadCleanup, UploadTimeout, UploadStart,
           txVars
      <3>3. ASSUME NEW v \in Uploads,
                   lockAndGetNonce(v) \/ signAndSend(v) \/ TxIncluded(v) \/ SendFails(v)
            PROVE  FALSE
        BY <1>2, <2>2, <3>3 DEF lockAndGetNonce, signAndSend, TxIncluded, SendFails, TypeOK
      <3>4. ASSUME NEW v \in Uploads, UploadRename(v), u # v
            PROVE  tx'[u] = tx[u]
        BY <3>4 DEF UploadRename, TypeOK
      <3>5. CASE Restart
        BY <1>2, <2>2, <3>5 DEF Restart, TypeOK
      <3>6. QED
        BY <1>2, <2>2, <3>1, <3>2, <3>3, <3>4, <3>5, UploadSteps DEF UploadStep
    <2>3. QED
      BY <2>1, <2>2
  <1>3. QED
    BY <1>1, <1>2 DEF ObjectsHeld

-----------------------------------------------------------------------------
(* Nonces.                                                                 *)

(* A step sends at most the one extrinsic that is being signed, and the    *)
(* next nonce is given out only when none is.                              *)
LEMMA StepKeepsNoncesSound ==
    ASSUME TypeOK, UploadsSound, NoncesSound, Next
    PROVE  NoncesSound'
  <1>0. IsFiniteSet(Sent) /\ Cardinality(Sent) \in Nat
    BY StorageAssumption, FS_Subset, FS_CardinalityType DEF Sent
  <1>1. CASE UNCHANGED nonce /\ Sent' = Sent
             /\ \A v \in Uploads : tx'[v] = "signing" => tx[v] = "signing"
    BY <1>1 DEF NoncesSound, NoncesDistinct
  <1>2. ASSUME NEW u \in Uploads, tx[u] = "signing", UNCHANGED nonce,
               \A v \in Uploads : tx'[v] # "signing", Sent' = Sent \cup {u}
        PROVE  NoncesSound'
    <2>1. u \notin Sent
      BY <1>2 DEF Sent
    <2>2. Cardinality(Sent') = Cardinality(Sent) + 1
      BY <1>0, <1>2, <2>1, FS_AddElement
    <2>3. nonce[u] = Cardinality(Sent) /\ \A v \in Sent : nonce[v] < Cardinality(Sent)
      BY <1>2 DEF NoncesSound
    <2>4. \A v \in Sent : nonce[v] \in Nat
      BY DEF Sent, TypeOK
    <2>5. NoncesDistinct'
      BY <1>0, <1>2, <2>3, <2>4 DEF NoncesSound, NoncesDistinct
    <2>6. \A v \in Sent' : nonce'[v] < Cardinality(Sent')
      BY <1>0, <1>2, <2>2, <2>3, <2>4
    <2>7. QED
      BY <1>2, <2>5, <2>6 DEF NoncesSound
  <1>3. ASSUME NEW u \in Uploads, lockAndGetNonce(u)
        PROVE  NoncesSound'
    <2>1. Sent' = Sent /\ u \notin Sent
      BY <1>3 DEF lockAndGetNonce, Sent, TypeOK
    <2>2. /\ \A v \in Uploads : tx'[v] = "signing" => v = u
          /\ nonce'[u] = Cardinality(Sent)
          /\ \A v \in Uploads : v # u => nonce'[v] = nonce[v]
      BY <1>3 DEF lockAndGetNonce, TypeOK
    <2>3. Sent \subseteq Uploads
      BY DEF Sent
    <2>4. QED
      BY <2>1, <2>2, <2>3 DEF NoncesSound, NoncesDistinct
  <1>4. ASSUME NEW u \in Uploads, signAndSend(u)
        PROVE  NoncesSound'
    <2>1. /\ tx[u] = "signing" /\ UNCHANGED nonce /\ Sent' = Sent \cup {u}
          /\ \A v \in Uploads : v # u => tx'[v] = tx[v]
          /\ tx'[u] = "pending"
      BY <1>4 DEF signAndSend, Sent, TypeOK
    <2>2. \A v \in Uploads : tx'[v] # "signing"
      BY <2>1 DEF NoncesSound
    <2>3. QED
      BY <1>2, <2>1, <2>2
  <1>5. ASSUME NEW u \in Uploads, TxIncluded(u) \/ SendFails(u)
        PROVE  NoncesSound'
    <2>1. /\ UNCHANGED nonce /\ Sent' = Sent
          /\ \A v \in Uploads : tx'[v] = "signing" => tx[v] = "signing"
      BY <1>5 DEF TxIncluded, SendFails, Sent, TypeOK
    <2>2. QED
      BY <1>1, <2>1
  <1>6. ASSUME NEW u \in Uploads, UploadRename(u)
        PROVE  NoncesSound'
    <2>1. tx[u] \notin {"pending", "ok", "failed"}
      BY <1>6 DEF UploadRename, UploadsSound
    <2>2. /\ UNCHANGED nonce /\ Sent' = Sent
          /\ \A v \in Uploads : tx'[v] = "signing" => tx[v] = "signing"
      BY <1>6, <2>1 DEF UploadRename, Sent, TypeOK
    <2>3. QED
      BY <1>1, <2>2
  <1>7. CASE Restart
    <2>1. PICK sent \in SUBSET {u \in Uploads : tx[u] = "signing"} :
              tx' = [u \in Uploads |-> IF u \in sent THEN "pending"
                                       ELSE IF tx[u] \in {"waiting", "signing"} THEN "unsent"
                                       ELSE tx[u]]
      BY <1>7 DEF Restart
    <2>2. /\ UNCHANGED nonce /\ Sent' = Sent \cup sent
          /\ \A v \in Uploads : tx'[v] # "signing"
      BY <1>7, <2>1 DEF Restart, Sent
    <2>3. CASE sent = {}
      BY <1>1, <2>2, <2>3
    <2>4. CASE sent # {}
      <3>1. PICK u \in sent : u \in Uploads /\ tx[u] = "signing"
        BY <2>1, <2>4
      <3>2. sent = {u}
        BY <2>1, <3>1 DEF NoncesSound
      <3>3. QED
        BY <1>2, <2>2, <3>1, <3>2
    <2>5. QED
      BY <2>3, <2>4
  <1>8. CASE UNCHANGED <<tx, nonce>>
    BY <1>1, <1>8 DEF Sent
  <1>9. ASSUME NEW u \in Uploads,
               \/ UploadVerify(u) \/ UploadAnswered(u) \/ UploadCleanup(u) \/ UploadTimeout(u)
               \/ \E o \in Objects, content \in {"good", "bad"} : UploadStart(u, o, content)
        PROVE  UNCHANGED <<tx, nonce>>
    BY <1>9 DEF UploadVerify, UploadAnswered, UploadCleanup, UploadTimeout, UploadStart, txVars
  <1>10. ASSUME NEW w \in Workers,
                \/ WorkerStep(w) \/ DownloadFails(w)
                \/ \E p \in Operators : PrepareFails(w, p)
         PROVE  UNCHANGED <<tx, nonce>>
    BY <1>10 DEF WorkerStep, WorkerExit, WorkerGet, PrepareGivesUp, PrepareAsk, Download,
       DownloadRename, DownloadAddToCache, DownloadFails, PrepareFails, txVars
  <1>11. ASSUME \/ Index \/ SyncStep \/ SyncFails
                \/ \E x \in Objects : ObjectDeleted(x) \/ BagRemoved(x)
                \/ \E x \in Objects, p \in Operators : OtherAccepts(x, p)
                \/ \E p \in Operators : ExpireIds(p) \/ ExpireBadUrl(p)
         PROVE  UNCHANGED <<tx, nonce>>
    BY <1>11 DEF Index, SyncStep, SyncStart, SyncBags, SyncTasks, SyncEnd,
       SyncFails, ObjectDeleted, BagRemoved, OtherAccepts, ExpireIds, ExpireBadUrl, txVars
  <1>12. QED
    BY <1>3, <1>4, <1>5, <1>6, <1>7, <1>8, <1>9, <1>10, <1>11 DEF Next, TxStep, UploadStep

-----------------------------------------------------------------------------
(* The theorems.                                                           *)

(* A node that starts with an empty directory. *)
LEMMA InitIndInv == Init => IndInv
  <1> SUFFICES ASSUME Init PROVE IndInv
    OBVIOUS
  <1>1. TypeOK
    <2>1. Idle \in UploadStates /\ Off \in WorkerStates
      BY DEF Idle, Off, UploadStates, WorkerStates, Contents
    <2>2. /\ Asleep \in [pc : {"asleep", "buckets", "bags", "processing"},
                         files : SUBSET Objects, bags : SUBSET Objects]
          /\ stack \in Seq(Tasks)
          /\ indexed \in [accepted : SUBSET Objects, assigned : SUBSET Objects]
      BY DEF Asleep, Init
    <2>3. /\ files \in [Objects -> Contents]
          /\ remoteIds \in [Operators -> (SUBSET Objects) \cup {None}]
          /\ remote \in [Operators -> SUBSET Objects]
          /\ nonce \in [Uploads -> Nat]
      BY DEF Init, Contents
    <2>4. QED
      BY <2>1, <2>2, <2>3 DEF Init, TypeOK
  <1>2. Sent = {}
    BY DEF Init, Sent
  <1>3. UploadsSound /\ NoncesSound
    BY <1>2 DEF Init, UploadsSound, NoncesSound, NoncesDistinct, Idle
  <1>4. WorkersSound /\ DownloadsVerified
    <2>1. Len(stack) = 0 /\ \A w \in Workers : worker[w].pc = "off"
      BY DEF Init, Off
    <2>2. QED
      BY <2>1 DEF WorkersSound, DownloadsVerified, Running
  <1>5. FilesVerified /\ FilesListed /\ ObjectsHeld
    BY StorageAssumption DEF Init, FilesVerified, FilesListed, ObjectsHeld
  <1>6. QED
    BY <1>1, <1>3, <1>4, <1>5 DEF IndInv

(* The invariant is inductive. *)
LEMMA StepKeepsIndInv == IndInv /\ [Next]_vars => IndInv'
  <1>1. CASE UNCHANGED vars
    BY <1>1 DEF IndInv, vars, TypeOK, UploadsSound, WorkersSound, DownloadsVerified,
       NoncesSound, NoncesDistinct, Sent, FilesVerified, FilesListed, ObjectsHeld, Held,
       UploadFailed
  <1>2. CASE IndInv /\ Next
    <2>1. TypeOK'
      BY <1>2, ChainTypes, UploadTypes, SyncTypes, WorkerTypes DEF IndInv, Next
    <2>2. /\ UploadsSound' /\ WorkersSound' /\ DownloadsVerified'
          /\ NoncesSound' /\ FilesVerified' /\ FilesListed' /\ ObjectsHeld'
      BY <1>2, StepKeepsUploadsSound, StepKeepsWorkersSound, StepKeepsDownloadsVerified,
         StepKeepsNoncesSound, StepKeepsFilesVerified, StepKeepsFilesListed,
         StepKeepsObjectsHeld DEF IndInv
    <2>3. QED
      BY <2>1, <2>2 DEF IndInv
  <1>3. QED
    BY <1>1, <1>2

(* It holds in every state. *)
LEMMA StorageIndInv == Spec => []IndInv
  BY InitIndInv, StepKeepsIndInv, PTL DEF Spec

(* Every variable of the node and of its environment stays well typed. *)
THEOREM StorageTypes == Spec => []TypeOK
  <1>1. IndInv => TypeOK
    BY DEF IndInv
  <1>2. QED
    BY <1>1, StorageIndInv, PTL

(* The file of an object that exists has been verified, whoever stored it: *)
(* verifyDataObjectInfo and verifyDownloadedFile miss only deleted objects. *)
THEOREM StorageFilesVerified == Spec => []FilesVerified
  <1>1. IndInv => FilesVerified
    BY DEF IndInv
  <1>2. QED
    BY <1>1, StorageIndInv, PTL

(* However many uploads and workers there are and whenever the node is     *)
(* restarted, idCache misses no file but the one a worker is about to list. *)
THEOREM StorageFilesListed == Spec => []FilesListed
  <1>1. IndInv => FilesListed
    BY DEF IndInv
  <1>2. QED
    BY <1>1, StorageIndInv, PTL

(* The nonce lock of the runtime API keeps the extrinsics of any number of *)
(* uploads apart, those nobody waits for any more among them.              *)
THEOREM StorageNonces == Spec => []NoncesDistinct
  <1>1. IndInv => NoncesDistinct
    BY DEF IndInv, NoncesSound
  <1>2. QED
    BY <1>1, StorageIndInv, PTL

(* What the node has accepted it stores, unless an upload of the object    *)
(* failed after its file was stored: that is the only way to lose the       *)
(* file of an accepted object.                                             *)
THEOREM StorageAcceptedHeld == Spec => []AcceptedHeld
  <1>1. IndInv => AcceptedHeld
    BY DEF IndInv, ObjectsHeld, Held, AcceptedHeld
  <1>2. QED
    BY <1>1, StorageIndInv, PTL

-----------------------------------------------------------------------------
(* The rounds of a synchronization.                                        *)

(* A processor between tasks has none, and while there are tasks on the    *)
(* stack some processor of the round has not ended.                        *)
RoundInv ==
    /\ \A w \in Workers : worker[w].pc \in {"off", "get"} => worker[w].task = None
    /\ sync.pc # "processing" => stack = <<>>
    /\ stack # <<>> => \E w \in Workers : worker[w].pc # "off"

(* Only the last processor leaves, and only from an empty stack. *)
LEMMA StepKeepsRoundInv ==
    ASSUME TypeOK, WorkersSound, RoundInv, Next
    PROVE  RoundInv'
  <1>1. CASE UNCHANGED <<sync, stack, worker>>
    BY <1>1 DEF RoundInv
  <1>2. CASE SyncTasks
    <2>1. /\ sync'.pc = "processing"
          /\ \A w \in Workers : worker'[w].pc = "get" /\ worker'[w].task = None
      BY <1>2 DEF SyncTasks, Asleep, Off
    <2>2. QED
      BY <2>1, StorageAssumption DEF RoundInv
  <1>3. CASE SyncStart \/ SyncBags \/ SyncEnd \/ SyncFails
    <2>1. \A w \in Workers : worker[w].pc = "off"
      BY <1>3 DEF WorkersSound, SyncStart, SyncBags, SyncEnd, SyncFails
    <2>2. stack = <<>> /\ UNCHANGED <<stack, worker>>
      BY <1>3, <2>1 DEF RoundInv, SyncStart, SyncBags, SyncEnd, SyncFails
    <2>3. QED
      BY <2>2 DEF RoundInv
  <1>4. ASSUME NEW w \in Workers, WorkerGet(w)
        PROVE  RoundInv'
    <2> DEFINE t == stack[Len(stack)]
    <2>1. t.kind \in {"prepare", "download"}
      BY <1>4, StackTypes DEF TypeOK, WorkerGet, Tasks
    <2>2. worker'[w].pc = t.kind
      BY <1>4 DEF TypeOK, WorkerGet
    <2>3. worker[w].pc # "off" /\ UNCHANGED sync
      BY <1>4 DEF WorkerGet
    <2>4. \A v \in Workers : v # w => worker'[v] = worker[v]
      BY <1>4 DEF TypeOK, WorkerGet
    <2> HIDE DEF t
    <2>5. QED
      BY <2>1, <2>2, <2>3, <2>4 DEF RoundInv, WorkersSound
  <1>5. ASSUME NEW w \in Workers,
               \/ WorkerExit(w) \/ PrepareGivesUp(w)
               \/ \E p \in Operators : PrepareAsk(w, p) \/ PrepareFails(w, p)
               \/ Download(w) \/ DownloadFails(w) \/ DownloadRename(w)
               \/ DownloadAddToCache(w)
        PROVE  RoundInv'
    <2>1. /\ UNCHANGED sync /\ worker[w].pc # "off"
          /\ \A v \in Workers : v # w => worker'[v] = worker[v]
          /\ worker'[w].pc \in {"off", "get"} => worker'[w].task = None
          /\ worker'[w].pc = "off" => stack' = <<>>
      BY <1>5, WorkerMoves
    <2>2. QED
      BY <2>1 DEF RoundInv, WorkersSound
  <1>6. CASE Restart
    BY <1>6 DEF Restart, RoundInv, Off
  <1>7. QED
    BY <1>1, <1>2, <1>3, <1>4, <1>5, <1>6, WorkerSteps DEF SyncStep

(* The objects a round has not dealt with yet, and who has them. *)
RoundTodo == {task.obj : task \in Range(stack) \cup
                                    ({worker[w].task : w \in Workers} \ {None})}

OnStack(o, s) == \E i \in 1 .. Len(s) : s[i].obj = o
AtWorker(o, wk) == wk.task # None /\ wk.task.obj = o

(* An object of the round is on the stack or with a processor. *)
LEMMA TodoMembers ==
    ASSUME TypeOK
    PROVE  \A o : o \in RoundTodo <=> \/ OnStack(o, stack)
                                      \/ \E w \in Workers : AtWorker(o, worker[w])
  <1>1. Range(stack) = {stack[i] : i \in 1 .. Len(stack)}
    BY DEF TypeOK, Range
  <1>2. QED
    BY <1>1 DEF RoundTodo, OnStack, AtWorker

(* A processor that takes a task, or exchanges it for another one on the   *)
(* stack, keeps its object in the round; one that ends a task drops no     *)
(* other object.                                                           *)
LEMMA WorkersDealWithOne ==
    ASSUME TypeOK, TypeOK', WorkersSound, RoundInv, NEW w \in Workers,
           \/ WorkerExit(w) \/ WorkerGet(w) \/ PrepareGivesUp(w)
           \/ \E p \in Operators : PrepareAsk(w, p) \/ PrepareFails(w, p)
           \/ Download(w) \/ DownloadFails(w) \/ DownloadRename(w) \/ DownloadAddToCache(w)
    PROVE  RoundTodo' = RoundTodo \/ \E o \in RoundTodo : RoundTodo' = RoundTodo \ {o}
  <1>1. \A o : o \in RoundTodo' <=> \/ OnStack(o, stack')
                                    \/ \E v \in Workers : AtWorker(o, worker'[v])
    <2>1. Range(stack') = {stack'[i] : i \in 1 .. Len(stack')}
      BY DEF TypeOK, Range
    <2>2. QED
      BY <2>1 DEF RoundTodo, OnStack, AtWorker
  <1>2. \A o : o \in RoundTodo <=> \/ OnStack(o, stack)
                                   \/ \E v \in Workers : AtWorker(o, worker[v])
    BY TodoMembers
  <1>3. ASSUME \A v \in Workers : v # w => worker'[v] = worker[v],
               UNCHANGED stack, worker'[w].task = worker[w].task
        PROVE  RoundTodo' = RoundTodo
    <2>1. \A v \in Workers : worker'[v].task = worker[v].task
      BY <1>3
    <2>2. \A o : \A v \in Workers : AtWorker(o, worker'[v]) <=> AtWorker(o, worker[v])
      BY <2>1 DEF AtWorker
    <2>3. \A o : OnStack(o, stack') <=> OnStack(o, stack)
      BY <1>3 DEF OnStack
    <2>4. \A o : o \in RoundTodo' <=> o \in RoundTodo
      BY <1>1, <1>2, <2>2, <2>3
    <2>5. QED
      BY <2>4
  <1>4. ASSUME \A v \in Workers : v # w => worker'[v] = worker[v],
               UNCHANGED stack, worker'[w].task = None
        PROVE  RoundTodo' = RoundTodo \/ \E o \in RoundTodo : RoundTodo' = RoundTodo \ {o}
    <2>1. CASE worker[w].task = None
      BY <1>3, <1>4, <2>1
    <2>2. CASE worker[w].task # None
      <3> DEFINE o == worker[w].task.obj
      <3>1. o \in RoundTodo
        BY <1>2, <2>2 DEF AtWorker
      <3>2. \A x : x # o => (x \in RoundTodo' <=> x \in RoundTodo)
        BY <1>1, <1>2, <1>4 DEF AtWorker
      <3>3. QED
        BY <3>1, <3>2
    <2>3. QED
      BY <2>1, <2>2
  <1>5. CASE WorkerGet(w)
    <2> DEFINE n == Len(stack)
               t == stack[n]
    <2>1. /\ t \in Tasks /\ n \in 1 .. n /\ n \in Nat
          /\ Len(stack') = n - 1 /\ \A i \in 1 .. n - 1 : stack'[i] = stack[i]
      BY <1>5, StackTypes DEF TypeOK, WorkerGet
    <2>2. /\ worker'[w].task = t /\ worker[w].task = None
          /\ \A v \in Workers : v # w => worker'[v] = worker[v]
      BY <1>5 DEF TypeOK, WorkerGet, RoundInv
    <2>3. t # None
      BY <2>1, StorageAssumption
    <2> HIDE DEF n
    <2>4. \A o : OnStack(o, stack) <=> OnStack(o, stack') \/ t.obj = o
      BY <2>1 DEF OnStack, n
    <2> HIDE DEF t
    <2>5. \A o : AtWorker(o, worker'[w]) <=> t.obj = o
      BY <2>2, <2>3 DEF AtWorker
    <2>6. \A o : ~ AtWorker(o, worker[w])
      BY <2>2 DEF AtWorker
    <2>7. QED
      BY <1>1, <1>2, <2>2, <2>4, <2>5, <2>6
  <1>6. ASSUME NEW p \in Operators, NEW ids, PrepareWith(w, p, ids), worker[w].pc = "prepare"
        PROVE  RoundTodo' = RoundTodo
    <2>1. worker[w] \in WorkerStates /\ worker[w].task \in Tasks /\ worker[w].task # None
      BY <1>6, StorageAssumption DEF TypeOK, WorkersSound, Running
    <2> DEFINE o == worker[w].task.obj
               d == DownloadTask(o, p, chain[o] # "deleted")
    <2>2. d \in Tasks /\ d.obj = o
      BY <2>1 DEF DownloadTask, Tasks
    <2>3. CASE o \in ids
      <3>1. stack' = Append(stack, d) /\ worker' = [worker EXCEPT ![w] = NextTask]
        BY <1>6, <2>3 DEF PrepareWith
      <3>2. /\ worker'[w].task = None
            /\ \A v \in Workers : v # w => worker'[v] = worker[v]
        BY <2>1, <3>1, WorkerFields DEF TypeOK
      <3> HIDE DEF d
      <3>3. /\ Len(stack') = Len(stack) + 1 /\ Len(stack) \in Nat
            /\ \A i \in 1 .. Len(stack) : stack'[i] = stack[i]
            /\ stack'[Len(stack) + 1] = d
        BY <2>2, <3>1, StackTypes DEF TypeOK
      <3>4. \A x : OnStack(x, stack') <=> OnStack(x, stack) \/ x = o
        BY <2>2, <3>3 DEF OnStack
      <3>5. \A x : AtWorker(x, worker[w]) <=> x = o
        BY <2>1 DEF AtWorker
      <3>6. \A x : ~ AtWorker(x, worker'[w])
        BY <3>2 DEF AtWorker
      <3> HIDE DEF o
      <3>7. QED
        BY <1>1, <1>2, <3>2, <3>4, <3>5, <3>6
    <2>4. CASE o \notin ids
      <3>1. worker' = [worker EXCEPT ![w].urls = @ \ {p}] /\ UNCHANGED stack
        BY <1>6, <2>4 DEF PrepareWith
      <3>2. worker'[w] = [worker[w] EXCEPT !.urls = worker[w].urls \ {p}]
        BY <3>1 DEF TypeOK
      <3>3. worker'[w].task = worker[w].task
        BY <2>1, <3>2, WorkerFields
      <3>4. QED
        BY <1>3, <3>1, <3>3 DEF TypeOK
    <2>5. QED
      BY <2>3, <2>4
  <1>7. CASE \E p \in Operators : PrepareAsk(w, p) \/ PrepareFails(w, p)
    BY <1>6, <1>7 DEF PrepareAsk, PrepareFails
  <1>8. CASE \/ WorkerExit(w) \/ PrepareGivesUp(w)
             \/ Download(w) \/ DownloadFails(w) \/ DownloadRename(w) \/ DownloadAddToCache(w)
    <2>1. UNCHANGED stack
      BY <1>8 DEF WorkerExit, PrepareGivesUp, Download, DownloadFails, DownloadRename,
         DownloadAddToCache
    <2>2. /\ \A v \in Workers : v # w => worker'[v] = worker[v]
          /\ worker'[w].task = None \/ worker'[w].task = worker[w].task
      BY <1>8, WorkerMoves
    <2>3. QED
      BY <1>3, <1>4, <2>1, <2>2
  <1>9. QED
    BY <1>5, <1>7, <1>8

(* Every step of the node is a step of SyncRound, or none. *)
LEMMA StepIsRoundStep ==
    ASSUME IndInv, RoundInv, Next
    PROVE  [Round!Next]_(Round!vars)
  <1>1. TypeOK /\ WorkersSound /\ TypeOK' /\ RoundInv'
    <2>1. IndInv'
      BY StepKeepsIndInv
    <2>2. QED
      BY <2>1, StepKeepsRoundInv DEF IndInv
  <1>2. CASE UNCHANGED <<sync, stack, worker>>
    BY <1>2 DEF Round!vars
  <1>3. ASSUME NEW w \in Workers,
               \/ WorkerExit(w) \/ WorkerGet(w) \/ PrepareGivesUp(w)
               \/ \E p \in Operators : PrepareAsk(w, p) \/ PrepareFails(w, p)
               \/ Download(w) \/ DownloadFails(w) \/ DownloadRename(w)
               \/ DownloadAddToCache(w)
        PROVE  Round!Finish \/ UNCHANGED Round!vars
    <2>1. RoundTodo' = RoundTodo \/ \E o \in RoundTodo : RoundTodo' = RoundTodo \ {o}
      BY <1>1, <1>3, WorkersDealWithOne
    <2>2. UNCHANGED sync /\ worker[w].pc # "off"
      BY <1>3 DEF WorkerExit, WorkerGet, PrepareGivesUp, PrepareAsk, PrepareFails, Download,
         DownloadFails, DownloadRename, DownloadAddToCache
    <2>3. sync.pc = "processing" /\ sync'.pc = "processing"
      BY <1>1, <2>2 DEF WorkersSound
    <2>4. QED
      BY <2>1, <2>3 DEF Round!Finish, Round!vars, RoundTodo
  <1>4. CASE SyncStart \/ SyncBags \/ SyncFails
    <2>1. UNCHANGED <<stack, worker>> /\ sync.pc # "processing"
      BY <1>4 DEF SyncStart, SyncBags, SyncFails
    <2>2. SyncStart => sync'.pc # "processing"
      BY <1>1 DEF TypeOK, SyncStart
    <2>3. SyncBags => sync'.pc # "processing"
      BY <1>1 DEF TypeOK, SyncBags
    <2>4. SyncFails => sync'.pc # "processing"
      BY DEF SyncFails, Asleep
    <2>5. QED
      BY <1>4, <2>1, <2>2, <2>3, <2>4 DEF Round!vars
  <1>5. CASE SyncTasks
    <2>1. sync.pc # "processing" /\ sync'.pc = "processing"
      BY <1>5 DEF SyncTasks, Asleep
    <2>2. RoundTodo' \subseteq Objects
      <3>1. \A t \in Tasks : t.obj \in Objects
        BY DEF Tasks
      <3>2. Range(stack') \subseteq Tasks
        BY <1>1 DEF TypeOK, Range
      <3>3. \A v \in Workers : worker'[v].task \in Tasks \cup {None}
        BY <1>1 DEF TypeOK, WorkerStates
      <3>4. QED
        BY <3>1, <3>2, <3>3 DEF RoundTodo
    <2>3. Round!Begin
      BY <2>1, <2>2 DEF Round!Begin, RoundTodo
    <2>4. QED
      BY <2>3 DEF Round!Next
  <1>6. CASE SyncEnd
    <2>1. sync.pc = "processing" /\ sync'.pc # "processing" /\ UNCHANGED <<stack, worker>>
      BY <1>6 DEF SyncEnd, Asleep
    <2>2. stack = <<>> /\ \A v \in Workers : worker[v].task = None
      BY <1>6 DEF SyncEnd, RoundInv
    <2>3. RoundTodo = {}
      BY <1>1, <2>2, TodoMembers DEF OnStack, AtWorker
    <2>4. Round!End
      BY <2>1, <2>3 DEF Round!End, RoundTodo
    <2>5. QED
      BY <2>4 DEF Round!Next
  <1>7. CASE Restart
    <2>1. sync'.pc # "processing" /\ stack' = <<>> /\ \A v \in Workers : worker'[v].task = None
      BY <1>7 DEF Restart, Asleep, Off
    <2>2. Range(stack') = {}
      BY <2>1 DEF Range
    <2>3. RoundTodo' = {}
      BY <2>1, <2>2 DEF RoundTodo
    <2>4. Round!Abandon
      BY <2>1, <2>3 DEF Round!Abandon, RoundTodo
    <2>5. QED
      BY <2>4 DEF Round!Next
  <1>8. QED
    BY <1>2, <1>3, <1>4, <1>5, <1>6, <1>7, WorkerSteps DEF SyncStep, Round!Next

(* A node that starts has no round. *)
LEMMA InitIsRoundInit == Init => RoundInv /\ Round!Init
  <1> SUFFICES ASSUME Init
               PROVE  RoundInv /\ Round!Init
    OBVIOUS
  <1>1. /\ stack = <<>> /\ sync.pc = "asleep"
        /\ \A w \in Workers : worker[w].task = None
    BY DEF Init, Asleep, Off
  <1>2. RoundInv
    BY <1>1 DEF RoundInv
  <1>3. Range(stack) = {}
    BY <1>1 DEF Range
  <1>4. RoundTodo = {}
    BY <1>1, <1>3 DEF RoundTodo
  <1>5. QED
    BY <1>1, <1>2, <1>4 DEF Round!Init, RoundTodo

(* The safety part of SyncIsRound, for any number of objects, workers and   *)
(* providers: a round ends only when each of its objects has been dealt     *)
(* with, and no step deals with two of them or puts one back.               *)
THEOREM StorageSyncRefines == Spec => Round!Init /\ [][Round!Next]_(Round!vars)
  <1>1. RoundInv /\ UNCHANGED vars => RoundInv' /\ UNCHANGED Round!vars
    BY DEF RoundInv, vars, Round!vars
  <1>2. IndInv /\ RoundInv /\ [Next]_vars => RoundInv'
    BY <1>1, StepKeepsRoundInv DEF IndInv
  <1>3. IndInv /\ RoundInv /\ [Next]_vars => [Round!Next]_(Round!vars)
    BY <1>1, StepIsRoundStep
  <1>4. QED
    BY <1>2, <1>3, InitIsRoundInit, StorageIndInv, PTL DEF Spec
=============================================================================
