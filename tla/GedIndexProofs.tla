--------------------------- MODULE GedIndexProofs ---------------------------
(* The document index: types and locks.  TypeOK is not inductive: a pass's *)
(* stage must tell that its path, its text and the collection it writes    *)
(* next are there.  JobFits says so, stage by stage.  Then each step of a  *)
(* coroutine is classified by what it does to the lock table: no lock      *)
(* leaks, and with one worker a pass never meets another's registry row.   *)
EXTENDS GedIndex, TLAPS

Parsed == {"reject", "purge", "embed", "bm25", "save", "register", "clear",
           "extract"}
OnPath == Locked \cup Removal \cup {"wait", "dequarantine"}

JobFits(stage, j) ==
  /\ stage \in OnPath => j.path \in Paths
  /\ stage \in Parsed => j.text \in Contents
  /\ stage \in {"wait", "hash", "look", "parse", "purge"} => j.k = 1
  /\ stage = "embed" => j.k \in Targets

TypeInv == TypeOK /\ \A t \in Tasks : JobFits(pc[t], job[t])

\* The state of the coroutines is well typed after a step.
TasksFit ==
  /\ pc \in [Tasks -> Stages] /\ job \in [Tasks -> Jobs]
  /\ \A t \in Tasks : JobFits(pc[t], job[t])

\* Every job a request, a watcher or a loop starts with.
LEMMA JobTypes ==
  /\ NoJob \in Jobs
  /\ \A o \in Origins, todo \in SUBSET Paths : MaintenanceJob(o, todo) \in Jobs
  /\ \A o \in Origins, p \in Paths, f \in BOOLEAN, b \in BOOLEAN :
       LET j == IndexJob(o, p, f, b) IN j \in Jobs /\ j.path = p /\ j.k = 1
  /\ \A o \in Origins, p \in Paths, h \in BOOLEAN :
       LET j == RemoveJob(o, p, h) IN j \in Jobs /\ j.path = p
  /\ \A p \in Paths, todo \in SUBSET Paths :
       LET j == RebuildJob(p, todo) IN j \in Jobs /\ j.path = p /\ j.k = 1
<1>1. NoRow \in Rows
  BY ConstantsAssumption DEF NoRow, Rows
<1>2. /\ 0 \in 0..MaxContent /\ 0 \in 0..MaxDocs /\ 1 \in 1..(NTargets + 1)
      /\ "none" \in Origins /\ "rebuild" \in Origins
  BY ConstantsAssumption DEF Origins
<1> QED
  BY <1>1, <1>2
  DEF NoJob, NewJob, IndexJob, RemoveJob, MaintenanceJob, RebuildJob, Jobs

\* A coroutine that moves to a stage its local variables fit.
LEMMA MoveFits ==
  ASSUME TypeInv, NEW t \in Tasks, NEW stage \in Stages, NEW j \in Jobs,
         JobFits(stage, j), Goto(t, stage), job' = [job EXCEPT ![t] = j]
  PROVE  TasksFit'
<1>1. pc' \in [Tasks -> Stages] /\ job' \in [Tasks -> Jobs]
  BY DEF TypeInv, TypeOK, Goto
<1>2. ASSUME NEW u \in Tasks PROVE JobFits(pc'[u], job'[u])
  <2>1. CASE u = t
    <3>1. pc'[u] = stage /\ job'[u] = j
      BY <2>1 DEF Goto, TypeInv, TypeOK
    <3> QED BY <3>1
  <2>2. CASE u # t
    <3>1. pc'[u] = pc[u] /\ job'[u] = job[u]
      BY <2>2 DEF Goto, TypeInv, TypeOK
    <3> QED BY <3>1 DEF TypeInv
  <2> QED BY <2>1, <2>2
<1>3. \A u \in Tasks : JobFits(pc[u], job[u])'
  BY <1>2 DEF JobFits
<1> QED BY <1>1, <1>3 DEF TasksFit

\* A coroutine that ends, or goes on with the next file of a rebuild.
LEMMA EndFits ==
  ASSUME TypeInv, NEW t \in Tasks, End(t)
  PROVE  TasksFit'
<1>1. CASE job[t].todo = {} /\ Goto(t, "idle") /\ job' = [job EXCEPT ![t] = NoJob]
  <2>1. JobFits("idle", NoJob) /\ "idle" \in Stages
    BY DEF JobFits, OnPath, Locked, Removal, Parsed, Stages
  <2> QED BY <1>1, <2>1, JobTypes, MoveFits
<1>2. ASSUME NEW p \in job[t].todo, Goto(t, "wait"),
             job' = [job EXCEPT ![t] = RebuildJob(p, job[t].todo \ {p})]
      PROVE  TasksFit'
  <2>1. job[t].todo \in SUBSET Paths
    BY DEF TypeInv, TypeOK, Jobs
  <2>2. p \in Paths
    BY <2>1
  <2> DEFINE j == RebuildJob(p, job[t].todo \ {p})
  <2>3. j \in Jobs /\ j.path = p /\ j.k = 1
    BY <2>1, <2>2, JobTypes
  <2>4. JobFits("wait", j) /\ "wait" \in Stages
    BY <2>2, <2>3 DEF JobFits, OnPath, Locked, Removal, Parsed, Stages
  <2> HIDE DEF j
  <2> QED BY <1>2, <2>3, <2>4, MoveFits DEF j
<1> QED BY <1>1, <1>2 DEF End

-----------------------------------------------------------------------------
(* Type correctness.                                                       *)

DiskType ==
  /\ disk \in [Paths -> 0..MaxContent] /\ version \in [Paths -> 0..MaxContent]
  /\ pending \in [Workers -> SUBSET Paths] /\ gone \in [Workers -> SUBSET Paths]

StoreType ==
  /\ vec \in [Targets -> [Docs -> Chunks]]
  /\ bm25 \in [Workers -> [Docs -> Chunks]] /\ bm25File \in [Docs -> Chunks]
  /\ kb \in [Docs -> 0..MaxContent] /\ abandoned \subseteq 0..MaxDocs

RowType ==
  /\ registry \in [Paths -> Rows] /\ quarantine \subseteq Paths
  /\ lock \in [Workers -> [Paths -> Tasks \cup {NoTask}]]
  /\ nextDoc \in 0..MaxDocs /\ fails \in 0..MaxFails

\* The type invariant, cut into the groups of variables an action disturbs.
LEMMA TypeParts == TypeInv <=> DiskType /\ StoreType /\ RowType /\ TasksFit
BY DEF TypeInv, TypeOK, DiskType, StoreType, RowType, TasksFit

\* The same after a step.
LEMMA TypePartsNext ==
  ASSUME DiskType', StoreType', RowType', TasksFit'
  PROVE  TypeInv'
BY DEF TypeInv, TypeOK, DiskType, StoreType, RowType, TasksFit

\* The initial state is well typed.
LEMMA InitType == Init => TypeInv
<1> SUFFICES ASSUME Init PROVE TypeInv
  OBVIOUS
<1>1. NoRow \in Rows
  BY ConstantsAssumption DEF NoRow, Rows
<1>2. NoChunks \in Chunks /\ 0 \in 0..MaxContent
  BY ConstantsAssumption DEF NoChunks, Chunks
<1>3. DiskType
  BY <1>2 DEF Init, DiskType
<1>4. StoreType
  BY <1>2 DEF Init, StoreType
<1>5. RowType
  BY <1>1, ConstantsAssumption DEF Init, RowType
<1>6. TasksFit
  <2>1. pc \in [Tasks -> Stages] /\ job \in [Tasks -> Jobs]
    BY JobTypes DEF Init, Stages
  <2>2. \A t \in Tasks : JobFits(pc[t], job[t])
    BY DEF Init, JobFits, OnPath, Locked, Removal, Parsed
  <2> QED BY <2>1, <2>2 DEF TasksFit
<1> QED BY <1>3, <1>4, <1>5, <1>6, TypeParts

\* Writing a file keeps the types of the disk and of the watchers.
LEMMA WriteFileType ==
  ASSUME TypeInv, NEW p \in Paths, NEW c \in Contents, WriteFile(p, c)
  PROVE  DiskType'
<1>1. DiskType /\ c \in 0..MaxContent
  BY TypeParts, ConstantsAssumption DEF Contents
<1>2. disk' \in [Paths -> 0..MaxContent]
  BY <1>1 DEF WriteFile, DiskType
<1>3. version' \in [Paths -> 0..MaxContent]
  BY <1>1 DEF WriteFile, DiskType
<1>4. pending' \in [Workers -> SUBSET Paths]
  BY <1>1 DEF WriteFile, DiskType
<1> QED BY <1>1, <1>2, <1>3, <1>4 DEF WriteFile, DiskType

\* So does deleting one.
LEMMA UnlinkType ==
  ASSUME TypeInv, NEW p \in Paths, Unlink(p)
  PROVE  DiskType'
<1>1. DiskType /\ 0 \in 0..MaxContent
  BY TypeParts, ConstantsAssumption
<1>2. disk' \in [Paths -> 0..MaxContent]
  BY <1>1 DEF Unlink, DiskType
<1>3. pending' \in [Workers -> SUBSET Paths]
  BY <1>1 DEF Unlink, DiskType
<1>4. gone' \in [Workers -> SUBSET Paths]
  BY <1>1 DEF Unlink, DiskType
<1> QED BY <1>1, <1>2, <1>3, <1>4 DEF Unlink, DiskType

\* A coroutine starts.
LEMMA StartFits ==
  ASSUME TypeInv, NEW t \in Tasks,
         NEW stage \in {"wait", "rmLook", "unlink", "dequarantine", "cuList",
                        "reset", "unlinkAll"},
         NEW j \in Jobs, Start(t, stage, j),
         stage \in {"wait", "rmLook", "unlink", "dequarantine"} =>
           j.path \in Paths,
         stage = "wait" => j.k = 1
  PROVE  TasksFit'
<1>1. stage \in Stages
  BY DEF Stages, Removal
<1>2. JobFits(stage, j)
  BY DEF JobFits, OnPath, Locked, Removal, Parsed
<1> QED BY <1>1, <1>2, MoveFits DEF Start

\* A request that starts an indexing pass.
LEMMA StartIndexFits ==
  ASSUME TypeInv, NEW t \in Tasks, NEW o \in Origins, NEW p \in Paths,
         NEW f \in BOOLEAN, NEW b \in BOOLEAN,
         Start(t, "wait", IndexJob(o, p, f, b))
  PROVE  TasksFit'
<1> DEFINE j == IndexJob(o, p, f, b)
<1>1. j \in Jobs /\ j.path = p /\ j.k = 1
  BY JobTypes
<1> HIDE DEF j
<1> QED BY <1>1, StartFits DEF j

\* A request that starts a removal.
LEMMA StartRemoveFits ==
  ASSUME TypeInv, NEW t \in Tasks, NEW o \in Origins, NEW p \in Paths,
         NEW h \in BOOLEAN, NEW stage \in {"rmLook", "unlink", "dequarantine"},
         Start(t, stage, RemoveJob(o, p, h))
  PROVE  TasksFit'
<1> DEFINE j == RemoveJob(o, p, h)
<1>1. j \in Jobs /\ j.path = p
  BY JobTypes
<1> HIDE DEF j
<1> QED BY <1>1, StartFits DEF j

\* Edits and deletions in the shared folder.
LEMMA EnvironmentType ==
  ASSUME TypeInv, NEW p \in Paths,
         EraseFile(p) \/ \E c \in Contents : EditFile(p, c)
  PROVE  TypeInv'
<1> USE DEF indexVars, kbVars
<1>1. DiskType'
  BY WriteFileType, UnlinkType DEF EraseFile, EditFile
<1>2. StoreType' /\ RowType' /\ TasksFit'
  BY TypeParts DEF EraseFile, EditFile, StoreType, RowType, TasksFit
<1> QED BY <1>1, <1>2, TypePartsNext

\* The watcher's timers and its scheduled removals.
LEMMA WatcherType ==
  ASSUME TypeInv, NEW t \in Tasks, NEW p \in Paths,
         WatcherFire(t, p) \/ WatcherRemove(t, p)
  PROVE  TypeInv'
<1> USE DEF diskVars, indexVars, kbVars
<1>1. CASE WatcherFire(t, p)
  <2>1. DiskType'
    BY <1>1, TypeParts DEF WatcherFire, DiskType
  <2>2. StoreType' /\ RowType'
    BY <1>1, TypeParts DEF WatcherFire, StoreType, RowType
  <2>3. TasksFit'
    <3>1. CASE UNCHANGED <<pc, job>>
      BY <3>1, TypeParts DEF TasksFit
    <3>2. CASE Start(t, "wait", IndexJob("watcher", p, FALSE, FALSE))
      BY <3>2, StartIndexFits DEF Origins
    <3> QED BY <1>1, <3>1, <3>2 DEF WatcherFire
  <2> QED BY <2>1, <2>2, <2>3, TypePartsNext
<1>2. CASE WatcherRemove(t, p)
  <2>1. DiskType'
    BY <1>2, TypeParts DEF WatcherRemove, DiskType
  <2>2. StoreType' /\ RowType'
    BY <1>2, TypeParts DEF WatcherRemove, StoreType, RowType
  <2>3. TasksFit'
    BY <1>2, StartRemoveFits DEF WatcherRemove, Origins
  <2> QED BY <2>1, <2>2, <2>3, TypePartsNext
<1> QED BY <1>1, <1>2

\* The HTTP routes and the nightly jobs.
LEMMA RequestType ==
  ASSUME TypeInv, NEW t \in Tasks, Request(t)
  PROVE  TypeInv'
<1> USE DEF diskVars, indexVars, kbVars, watchVars
<1>1. CASE CleanupOrphans(t)
  <2>1. TasksFit'
    BY <1>1, JobTypes, StartFits DEF CleanupOrphans, Origins
  <2> QED BY <1>1, <2>1, TypeParts, TypePartsNext
          DEF CleanupOrphans, DiskType, StoreType, RowType
<1>2. CASE RebuildIndex(t)
  <2>1. TasksFit'
    BY <1>2, JobTypes, StartFits DEF RebuildIndex, Origins
  <2> QED BY <1>2, <2>1, TypeParts, TypePartsNext
          DEF RebuildIndex, DiskType, StoreType, RowType
<1>3. CASE PurgeQuarantine(t)
  <2>1. PICK expired \in (SUBSET quarantine) \ {{}} :
          /\ quarantine' = quarantine \ expired
          /\ Start(t, "unlinkAll", MaintenanceJob("purge", expired))
    BY <1>3 DEF PurgeQuarantine
  <2>2. expired \in SUBSET Paths /\ quarantine' \subseteq Paths
    BY <2>1, TypeParts DEF RowType
  <2>3. TasksFit'
    BY <2>1, <2>2, JobTypes, StartFits DEF Origins
  <2> QED BY <1>3, <2>2, <2>3, TypeParts, TypePartsNext
          DEF PurgeQuarantine, DiskType, StoreType, RowType
<1>4. ASSUME NEW p \in Paths, ScanFile(t, p) PROVE TypeInv'
  <2>1. TasksFit'
    BY <1>4, StartIndexFits DEF ScanFile, Origins
  <2> QED BY <1>4, <2>1, TypeParts, TypePartsNext
          DEF ScanFile, DiskType, StoreType, RowType
<1>5. ASSUME NEW p \in Paths, DeleteFile(t, p) PROVE TypeInv'
  <2>1. TasksFit'
    <3> DEFINE h == p \in CvPaths
    <3>1. h \in BOOLEAN
      OBVIOUS
    <3>2. Start(t, "rmLook", RemoveJob("file", p, h))
      BY <1>5 DEF DeleteFile
    <3> HIDE DEF h
    <3> QED BY <3>1, <3>2, StartRemoveFits DEF Origins
  <2> QED BY <1>5, <2>1, TypeParts, TypePartsNext
          DEF DeleteFile, DiskType, StoreType, RowType
<1>6. ASSUME NEW p \in Paths, DeleteFolder(t, p) PROVE TypeInv'
  <2>1. TasksFit'
    BY <1>6, StartRemoveFits DEF DeleteFolder, Origins
  <2> QED BY <1>6, <2>1, TypeParts, TypePartsNext
          DEF DeleteFolder, DiskType, StoreType, RowType
<1>7. ASSUME NEW p \in Paths, DeleteQuarantine(t, p) PROVE TypeInv'
  <2>1. TasksFit'
    BY <1>7, StartRemoveFits DEF DeleteQuarantine, Origins
  <2>2. DiskType'
    BY <1>7, UnlinkType DEF DeleteQuarantine
  <2> QED BY <1>7, <2>1, <2>2, TypeParts, TypePartsNext
          DEF DeleteQuarantine, StoreType, RowType
<1>8. ASSUME NEW p \in Paths, NEW b \in BOOLEAN, Reindex(t, p, b)
      PROVE  TypeInv'
  <2>1. TasksFit'
    BY <1>8, StartIndexFits DEF Reindex, Origins
  <2> QED BY <1>8, <2>1, TypeParts, TypePartsNext
          DEF Reindex, DiskType, StoreType, RowType
<1>9. ASSUME NEW p \in Paths, NEW b \in BOOLEAN, RetryQuarantine(t, p, b)
      PROVE  TypeInv'
  <2>1. TasksFit'
    BY <1>9, StartIndexFits DEF RetryQuarantine, Origins
  <2> QED BY <1>9, <2>1, TypeParts, TypePartsNext
          DEF RetryQuarantine, DiskType, StoreType, RowType
<1>10. ASSUME NEW p \in Paths, NEW c \in Contents, Upload(t, p, c)
       PROVE  TypeInv'
  <2>1. TasksFit'
    BY <1>10, StartIndexFits DEF Upload, Origins
  <2>2. DiskType'
    BY <1>10, WriteFileType DEF Upload
  <2> QED BY <1>10, <2>1, <2>2, TypeParts, TypePartsNext
          DEF Upload, StoreType, RowType
<1> QED BY <1>1, <1>2, <1>3, <1>4, <1>5, <1>6, <1>7, <1>8, <1>9, <1>10
        DEF Request

\* The value BM25, the collections and the registry are given.
LEMMA StoreOperators ==
  ASSUME NEW old \in Chunks, NEW c \in 0..MaxContent, NEW n
  PROVE  /\ Upserted(old, c) \in Chunks /\ Added(old, c) \in Chunks
         /\ Removed(old, n) \in Chunks /\ NoChunks \in Chunks
BY ConstantsAssumption DEF Upserted, Added, Removed, NoChunks, Chunks

\* The purge of a document's chunks keeps the stores well typed.
LEMMA DeleteChunksType ==
  ASSUME StoreType, NEW w \in Workers, NEW row \in Rows, DeleteChunks(w, row)
  PROVE  /\ vec' \in [Targets -> [Docs -> Chunks]]
         /\ bm25' \in [Workers -> [Docs -> Chunks]]
<1>0. NoChunks \in Chunks
  BY ConstantsAssumption DEF NoChunks, Chunks
<1>1. vec' \in [Targets -> [Docs -> Chunks]]
  BY <1>0 DEF DeleteChunks, StoreType
<1>2. bm25' \in [Workers -> [Docs -> Chunks]]
  BY StoreOperators DEF DeleteChunks, StoreType
<1> QED BY <1>1, <1>2

\* Releasing a lock keeps the lock table well typed.
LEMMA UnlockType ==
  ASSUME RowType, NEW t \in Tasks, Unlock(t)
  PROVE  lock' \in [Workers -> [Paths -> Tasks \cup {NoTask}]]
BY DEF Unlock, RowType

\* Stages whose coroutine works on a path.
LEMMA MoveOnPathFits ==
  ASSUME TypeInv, NEW t \in Tasks, NEW stage \in OnPath, NEW j \in Jobs,
         pc[t] \in OnPath, j.path = job[t].path,
         Goto(t, stage), job' = [job EXCEPT ![t] = j],
         stage \in Parsed =>
           j.text \in Contents \/ (pc[t] \in Parsed /\ j.text = job[t].text),
         stage \in {"wait", "hash", "look", "parse", "purge"} => j.k = 1,
         stage = "embed" => j.k \in Targets
  PROVE  TasksFit'
<1>1. stage \in Stages
  BY DEF Stages, OnPath
<1>2. JobFits(stage, j)
  BY DEF TypeInv, JobFits
<1> QED BY <1>1, <1>2, MoveFits

\* The steps of GEDIndexer.process keep the type invariant.
LEMMA ProcessType ==
  ASSUME TypeInv, NEW t \in Tasks, ProcessStep(t)
  PROVE  TypeInv'
<1> USE DEF diskVars, indexVars, kbVars, watchVars
<1> DEFINE j == job[t]
<1>0. /\ WorkerOf[t] \in Workers /\ j \in Jobs /\ pc[t] \in Stages
      /\ DiskType /\ StoreType /\ RowType /\ TasksFit /\ JobFits(pc[t], j)
  BY TypeParts, ConstantsAssumption DEF TasksFit
<1>1. CASE AcquireLock(t)
  <2>1. j.path \in Paths /\ j.k = 1
    BY <1>0, <1>1 DEF AcquireLock, JobFits, OnPath
  <2>2. JobFits("hash", j) /\ "hash" \in Stages
    BY <2>1 DEF JobFits, Stages, Locked, Parsed
  <2>3. job' = [job EXCEPT ![t] = j]
    BY <1>0, <1>1 DEF AcquireLock, TasksFit
  <2>4. TasksFit'
    BY <1>0, <1>1, <2>2, <2>3, MoveFits DEF AcquireLock
  <2>5. RowType'
    BY <1>0, <1>1, <2>1 DEF AcquireLock, RowType
  <2> QED BY <1>0, <1>1, <2>4, <2>5, TypePartsNext
          DEF AcquireLock, DiskType, StoreType
<1>2. CASE HashFile(t)
  <2> DEFINE j1 == [j EXCEPT !.hash = disk[j.path]]
  <2>1. j.path \in Paths /\ j.k = 1
    BY <1>0, <1>2 DEF HashFile, JobFits, OnPath, Locked
  <2>2. disk[j.path] \in 0..MaxContent
    BY <1>0, <2>1 DEF DiskType
  <2>3. j1 \in Jobs /\ j1.path = j.path /\ j1.k = 1
    BY <1>0, <2>1, <2>2 DEF Jobs
  <2>4. job' = [job EXCEPT ![t] = j1]
    BY <1>0, <1>2 DEF HashFile, TasksFit
  <2> HIDE DEF j1
  <2>5. TasksFit'
    BY <1>2, <2>3, <2>4, MoveOnPathFits
    DEF HashFile, OnPath, Locked, Removal, Parsed
  <2> QED BY <1>0, <1>2, <2>5, TypePartsNext
          DEF HashFile, DiskType, StoreType, RowType
<1>3. CASE LookUp(t)
  <2>1. j.path \in Paths /\ j.k = 1
    BY <1>0, <1>3 DEF LookUp, JobFits, OnPath, Locked
  <2>2. CASE End(t) /\ Unlock(t)
    <3>1. TasksFit'
      BY <2>2, EndFits
    <3> QED BY <1>0, <1>3, <2>2, <3>1, UnlockType, TypePartsNext
            DEF LookUp, DiskType, StoreType, RowType
  <2>3. CASE /\ job' = [job EXCEPT ![t].row = registry[j.path]]
             /\ Goto(t, "parse") /\ UNCHANGED lock
    <3> DEFINE j1 == [j EXCEPT !.row = registry[j.path]]
    <3>1. registry[j.path] \in Rows
      BY <1>0, <2>1 DEF RowType
    <3>2. j1 \in Jobs /\ j1.path = j.path /\ j1.k = 1
      BY <1>0, <2>1, <3>1 DEF Jobs
    <3>3. job' = [job EXCEPT ![t] = j1]
      BY <1>0, <2>3 DEF TasksFit
    <3> HIDE DEF j1
    <3>4. TasksFit'
      BY <1>3, <2>3, <3>2, <3>3, MoveOnPathFits
      DEF LookUp, OnPath, Locked, Removal, Parsed
    <3> QED BY <1>0, <1>3, <2>3, <3>4, TypePartsNext
            DEF LookUp, DiskType, StoreType, RowType
  <2> QED BY <1>3, <2>2, <2>3 DEF LookUp
<1>4. CASE ParseAndValidate(t)
  <2> DEFINE j1 == [j EXCEPT !.text = disk[j.path]]
  <2>1. j.path \in Paths /\ j.k = 1
    BY <1>0, <1>4 DEF ParseAndValidate, JobFits, OnPath, Locked
  <2>2. disk[j.path] \in Contents /\ disk[j.path] \in 0..MaxContent
    BY <1>0, <1>4, <2>1, ConstantsAssumption
    DEF ParseAndValidate, DiskType, Contents
  <2>3. j1 \in Jobs /\ j1.path = j.path /\ j1.k = 1 /\ j1.text \in Contents
    BY <1>0, <2>1, <2>2 DEF Jobs
  <2>4. job' = [job EXCEPT ![t] = j1]
    BY <1>0, <1>4 DEF ParseAndValidate, TasksFit
  <2> HIDE DEF j1
  <2>5. TasksFit'
    BY <1>4, <2>3, <2>4, MoveOnPathFits
    DEF ParseAndValidate, OnPath, Locked, Removal, Parsed
  <2> QED BY <1>0, <1>4, <2>5, TypePartsNext
          DEF ParseAndValidate, DiskType, StoreType, RowType
<1>5. CASE Reject(t)
  <2>1. j.path \in Paths
    BY <1>0, <1>5 DEF Reject, JobFits, OnPath, Locked
  <2>2. TasksFit'
    BY <1>5, EndFits DEF Reject
  <2> QED BY <1>0, <1>5, <2>1, <2>2, UnlockType, TypePartsNext
          DEF Reject, DiskType, StoreType, RowType
<1>6. CASE DropOldChunks(t)
  <2> DEFINE doc == DocIdFor(j.row)
  <2> DEFINE j1 == [j EXCEPT !.doc = doc]
  <2>1. /\ j.path \in Paths /\ j.k = 1 /\ j.text \in Contents /\ j.row \in Rows
    BY <1>0, <1>6 DEF DropOldChunks, JobFits, OnPath, Locked, Parsed, Jobs
  <2>2. /\ vec' \in [Targets -> [Docs -> Chunks]]
        /\ bm25' \in [Workers -> [Docs -> Chunks]]
    <3>1. CASE DeleteChunks(WorkerOf[t], j.row)
      BY <1>0, <2>1, <3>1, DeleteChunksType
    <3>2. CASE UNCHANGED <<vec, bm25>>
      BY <1>0, <3>2 DEF StoreType
    <3> QED BY <1>6, <3>1, <3>2 DEF DropOldChunks
  <2>3. StoreType' /\ DiskType'
    BY <1>0, <1>6, <2>2 DEF DropOldChunks, StoreType, DiskType
  <2>4. CASE End(t) /\ Unlock(t) /\ UNCHANGED nextDoc
    <3>1. TasksFit'
      BY <2>4, EndFits
    <3> QED BY <1>0, <1>6, <2>3, <2>4, <3>1, UnlockType, TypePartsNext
            DEF DropOldChunks, RowType
  <2>5. CASE /\ doc <= MaxDocs
             /\ nextDoc' = IF doc > nextDoc THEN doc ELSE nextDoc
             /\ job' = [job EXCEPT ![t].doc = doc]
             /\ Goto(t, "embed") /\ UNCHANGED lock
    <3>1. doc \in 0..MaxDocs
      BY <1>0, <2>1, <2>5, ConstantsAssumption DEF DocIdFor, Rows, RowType
    <3>2. /\ j1 \in Jobs /\ j1.path = j.path /\ j1.k = 1 /\ j1.text = j.text
      BY <1>0, <2>1, <3>1 DEF Jobs
    <3>3. job' = [job EXCEPT ![t] = j1]
      BY <1>0, <2>5 DEF TasksFit
    <3>4. 1 \in Targets
      BY ConstantsAssumption DEF Targets
    <3> HIDE DEF j1, doc
    <3>5. TasksFit'
      BY <1>6, <2>1, <2>5, <3>2, <3>3, <3>4, MoveOnPathFits
      DEF DropOldChunks, OnPath, Locked, Removal, Parsed
    <3>6. RowType'
      BY <1>0, <1>6, <2>5, <3>1 DEF DropOldChunks, RowType
    <3> QED BY <2>3, <3>5, <3>6, TypePartsNext
  <2> QED BY <1>6, <2>4, <2>5 DEF DropOldChunks
<1>7. CASE EmbedAndUpsert(t)
  <2> DEFINE j1 == [j EXCEPT !.k = j.k + 1]
  <2>1. /\ j.path \in Paths /\ j.k \in Targets /\ j.text \in Contents
    BY <1>0, <1>7 DEF EmbedAndUpsert, JobFits, OnPath, Locked, Parsed
  <2>2. j.k + 1 \in 1..(NTargets + 1) /\ (j.k < NTargets => j.k + 1 \in Targets)
    BY <2>1, ConstantsAssumption DEF Targets
  <2>3. j1 \in Jobs /\ j1.path = j.path /\ j1.k = j.k + 1 /\ j1.text = j.text
    BY <1>0, <2>1, <2>2 DEF Jobs
  <2>4. job' = [job EXCEPT ![t] = j1]
    BY <1>0, <1>7 DEF EmbedAndUpsert, TasksFit
  <2> HIDE DEF j1
  <2>5. TasksFit'
    BY <1>7, <2>1, <2>2, <2>3, <2>4, MoveOnPathFits
    DEF EmbedAndUpsert, MoreTargets, OnPath, Locked, Removal, Parsed
  <2>6. vec' \in [Targets -> [Docs -> Chunks]]
    <3>1. j.text \in 0..MaxContent
      BY <1>0 DEF Jobs
    <3> QED BY <1>0, <1>7, <3>1, StoreOperators DEF EmbedAndUpsert, StoreType
  <2> QED BY <1>0, <1>7, <2>5, <2>6, TypePartsNext
          DEF EmbedAndUpsert, DiskType, StoreType, RowType
<1>8. CASE IndexBm25(t)
  <2>1. job' = [job EXCEPT ![t] = j] /\ j.text \in Contents
    BY <1>0, <1>8 DEF IndexBm25, TasksFit, JobFits, Parsed
  <2>2. TasksFit'
    BY <1>0, <1>8, <2>1, MoveOnPathFits
    DEF IndexBm25, OnPath, Locked, Removal, Parsed
  <2>3. bm25' \in [Workers -> [Docs -> Chunks]]
    <3>1. j.text \in 0..MaxContent
      BY <1>0 DEF Jobs
    <3> QED BY <1>0, <1>8, <3>1, StoreOperators DEF IndexBm25, StoreType
  <2> QED BY <1>0, <1>8, <2>2, <2>3, TypePartsNext
          DEF IndexBm25, DiskType, StoreType, RowType
<1>9. CASE SaveBm25(t)
  <2>1. TasksFit'
    <3>1. CASE pc[t] = "save" /\ Goto(t, "register") /\ UNCHANGED job
      <4>1. job' = [job EXCEPT ![t] = j]
        BY <1>0, <3>1 DEF TasksFit
      <4> QED BY <1>0, <3>1, <4>1, MoveOnPathFits
              DEF OnPath, Locked, Removal, Parsed
    <3>2. CASE pc[t] = "rmSave" /\ Goto(t, "rmKb") /\ UNCHANGED job
      <4>1. job' = [job EXCEPT ![t] = j]
        BY <1>0, <3>2 DEF TasksFit
      <4> QED BY <1>0, <3>2, <4>1, MoveOnPathFits
              DEF OnPath, Locked, Removal, Parsed
    <3>3. CASE End(t)
      BY <3>3, EndFits
    <3> QED BY <1>9, <3>1, <3>2, <3>3 DEF SaveBm25
  <2> QED BY <1>0, <1>9, <2>1, TypePartsNext
          DEF SaveBm25, DiskType, StoreType, RowType
<1>10. CASE Register(t)
  <2> DEFINE row == [doc |-> j.doc, hash |-> j.hash, ids |-> NChunks[j.text],
                     active |-> TRUE]
  <2>1. job' = [job EXCEPT ![t] = j] /\ j.text \in Contents /\ j.path \in Paths
    BY <1>0, <1>10
    DEF Register, TasksFit, JobFits, OnPath, Locked, Removal, Parsed
  <2>2. row \in Rows
    BY <1>0, <2>1, ConstantsAssumption DEF Rows, Jobs
  <2>3. registry' \in [Paths -> Rows]
    BY <1>0, <1>10, <2>1, <2>2 DEF Register, RowType
  <2>4. TasksFit'
    BY <1>0, <1>10, <2>1, MoveOnPathFits
    DEF Register, OnPath, Locked, Removal, Parsed
  <2> QED BY <1>0, <1>10, <2>3, <2>4, TypePartsNext
          DEF Register, DiskType, StoreType, RowType
<1>11. CASE RegisterConflict(t)
  <2>1. TasksFit'
    BY <1>11, EndFits DEF RegisterConflict
  <2> QED BY <1>0, <1>11, <2>1, UnlockType, TypePartsNext
          DEF RegisterConflict, DiskType, StoreType, RowType
<1>12. CASE ClearQuarantine(t)
  <2>1. job' = [job EXCEPT ![t] = j] /\ j.text \in Contents
    BY <1>0, <1>12 DEF ClearQuarantine, TasksFit, JobFits, Parsed
  <2>2. TasksFit'
    BY <1>0, <1>12, <2>1, MoveOnPathFits
    DEF ClearQuarantine, OnPath, Locked, Removal, Parsed
  <2> QED BY <1>0, <1>12, <2>2, TypePartsNext
          DEF ClearQuarantine, DiskType, StoreType, RowType
<1>13. CASE ExtractStructured(t)
  <2>1. TasksFit'
    BY <1>13, EndFits DEF ExtractStructured
  <2>2. kb' \in [Docs -> 0..MaxContent]
    <3>1. j.text \in 0..MaxContent
      BY <1>0 DEF Jobs
    <3> QED BY <1>0, <1>13, <3>1 DEF ExtractStructured, StoreType
  <2> QED BY <1>0, <1>13, <2>1, <2>2, UnlockType, TypePartsNext
          DEF ExtractStructured, DiskType, StoreType, RowType
<1>14. CASE FileVanished(t)
  <2>1. TasksFit'
    BY <1>14, EndFits DEF FileVanished
  <2> QED BY <1>0, <1>14, <2>1, UnlockType, TypePartsNext
          DEF FileVanished, UnlockOnError, DiskType, StoreType, RowType
<1> QED BY <1>1, <1>2, <1>3, <1>4, <1>5, <1>6, <1>7, <1>8, <1>9, <1>10, <1>11,
           <1>12, <1>13, <1>14 DEF ProcessStep

\* The steps of GEDIndexer.remove keep the type invariant.
LEMMA RemoveType ==
  ASSUME TypeInv, NEW t \in Tasks, RemoveStep(t)
  PROVE  TypeInv'
<1> USE DEF diskVars, indexVars, kbVars, watchVars
<1> DEFINE j == job[t]
<1>0. /\ WorkerOf[t] \in Workers /\ j \in Jobs /\ pc[t] \in Stages
      /\ DiskType /\ StoreType /\ RowType /\ TasksFit /\ JobFits(pc[t], j)
  BY TypeParts, ConstantsAssumption DEF TasksFit
<1>1. CASE RmLook(t)
  <2> DEFINE j1 == [j EXCEPT !.row = registry[j.path]]
  <2>1. j.path \in Paths
    BY <1>0, <1>1 DEF RmLook, JobFits, OnPath, Removal
  <2>2. registry[j.path] \in Rows
    BY <1>0, <2>1 DEF RowType
  <2>3. j1 \in Jobs /\ j1.path = j.path
    BY <1>0, <2>1, <2>2 DEF Jobs
  <2>4. job' = [job EXCEPT ![t] = j1]
    BY <1>0, <1>1 DEF RmLook, TasksFit
  <2> HIDE DEF j1
  <2>5. TasksFit'
    BY <1>1, <2>3, <2>4, MoveOnPathFits
    DEF RmLook, OnPath, Locked, Removal, Parsed
  <2> QED BY <1>0, <1>1, <2>5, TypePartsNext
          DEF RmLook, DiskType, StoreType, RowType
<1>2. CASE RmPurge(t)
  <2>1. job' = [job EXCEPT ![t] = j] /\ j.row \in Rows
    BY <1>0, <1>2 DEF RmPurge, TasksFit, Jobs
  <2>2. TasksFit'
    BY <1>0, <1>2, <2>1, MoveOnPathFits
    DEF RmPurge, OnPath, Locked, Removal, Parsed
  <2>3. /\ vec' \in [Targets -> [Docs -> Chunks]]
        /\ bm25' \in [Workers -> [Docs -> Chunks]]
    BY <1>0, <1>2, <2>1, DeleteChunksType DEF RmPurge
  <2> QED BY <1>0, <1>2, <2>2, <2>3, TypePartsNext
          DEF RmPurge, DiskType, StoreType, RowType
<1>3. CASE RmKb(t)
  <2>1. job' = [job EXCEPT ![t] = j]
    BY <1>0, <1>3 DEF RmKb, TasksFit
  <2>2. TasksFit'
    BY <1>0, <1>3, <2>1, MoveOnPathFits
    DEF RmKb, OnPath, Locked, Removal, Parsed
  <2>3. kb' \in [Docs -> 0..MaxContent] /\ fails' \in 0..MaxFails
    BY <1>0, <1>3, ConstantsAssumption DEF RmKb, StoreType, RowType
  <2> QED BY <1>0, <1>3, <2>2, <2>3, TypePartsNext
          DEF RmKb, DiskType, StoreType, RowType
<1>4. CASE RmRow(t)
  <2>1. job' = [job EXCEPT ![t] = j] /\ j.path \in Paths
    BY <1>0, <1>4 DEF RmRow, TasksFit, JobFits, OnPath, Removal
  <2>2. TasksFit'
    BY <1>0, <1>4, <2>1, MoveOnPathFits
    DEF RmRow, OnPath, Locked, Removal, Parsed
  <2>3. registry' \in [Paths -> Rows]
    <3>1. NoRow \in Rows
      BY ConstantsAssumption DEF NoRow, Rows
    <3>2. registry[j.path] \in Rows
      BY <1>0, <2>1 DEF RowType
    <3>3. [registry[j.path] EXCEPT !.active = FALSE] \in Rows
      BY <3>2 DEF Rows
    <3> QED BY <1>0, <1>4, <2>1, <3>1, <3>3 DEF RmRow, RowType
  <2> QED BY <1>0, <1>4, <2>2, <2>3, TypePartsNext
          DEF RmRow, DiskType, StoreType, RowType
<1>5. CASE RmQuar(t)
  <2>1. TasksFit'
    <3>1. CASE End(t)
      BY <3>1, EndFits
    <3>2. CASE Goto(t, "unlink") /\ UNCHANGED job
      <4>1. job' = [job EXCEPT ![t] = j]
        BY <1>0, <3>2 DEF TasksFit
      <4> QED BY <1>0, <1>5, <3>2, <4>1, MoveOnPathFits
              DEF RmQuar, OnPath, Locked, Removal, Parsed
    <3> QED BY <1>5, <3>1, <3>2 DEF RmQuar
  <2> QED BY <1>0, <1>5, <2>1, TypePartsNext
          DEF RmQuar, DiskType, StoreType, RowType
<1>6. CASE UnlinkFile(t)
  <2>1. j.path \in Paths
    BY <1>0, <1>6 DEF UnlinkFile, JobFits, OnPath, Removal
  <2>2. TasksFit' /\ DiskType'
    BY <1>6, <2>1, EndFits, UnlinkType DEF UnlinkFile
  <2> QED BY <1>0, <1>6, <2>2, TypePartsNext
          DEF UnlinkFile, StoreType, RowType
<1> QED BY <1>1, <1>2, <1>3, <1>4, <1>5, <1>6
        DEF RemoveStep

\* cleanup_orphans, rebuild and the deletions of the quarantine keep it.
LEMMA MaintenanceType ==
  ASSUME TypeInv, NEW t \in Tasks, MaintenanceStep(t)
  PROVE  TypeInv'
<1> USE DEF diskVars, indexVars, kbVars, watchVars
<1> DEFINE j == job[t]
<1>0. /\ WorkerOf[t] \in Workers /\ j \in Jobs /\ pc[t] \in Stages
      /\ DiskType /\ StoreType /\ RowType /\ TasksFit /\ JobFits(pc[t], j)
  BY TypeParts, ConstantsAssumption DEF TasksFit
<1>9. \A s \in Stages \ (OnPath \cup Parsed) : \A j1 : JobFits(s, j1)
  BY DEF JobFits, OnPath, Locked, Parsed
<1>1. CASE ListActive(t)
  <2> DEFINE listed == {registry[p].doc : p \in {q \in Paths : registry[q].active}}
             j1 == [j EXCEPT !.docs = listed]
  <2>1. listed \in SUBSET (0..MaxDocs)
    BY <1>0 DEF RowType, Rows
  <2> HIDE DEF listed
  <2>2. j1 \in Jobs
    BY <1>0, <2>1 DEF Jobs
  <2>3. job' = [job EXCEPT ![t] = j1]
    BY <1>0, <1>1 DEF ListActive, TasksFit, listed
  <2>4. "cuPurge" \in Stages /\ JobFits("cuPurge", j1)
    BY <1>9 DEF Stages, OnPath, Locked, Removal, Parsed
  <2> HIDE DEF j1
  <2>5. TasksFit'
    BY <1>1, <2>2, <2>3, <2>4, MoveFits DEF ListActive
  <2> QED BY <1>0, <1>1, <2>5, TypePartsNext
          DEF ListActive, DiskType, StoreType, RowType
<1>2. CASE DeleteOrphans(t)
  <2>1. TasksFit'
    <3>1. CASE End(t)
      BY <3>1, EndFits
    <3>2. CASE Goto(t, "cuSave") /\ UNCHANGED job
      <4>1. job' = [job EXCEPT ![t] = j]
        BY <1>0, <3>2 DEF TasksFit
      <4>2. "cuSave" \in Stages /\ JobFits("cuSave", j)
        BY <1>9 DEF Stages, OnPath, Locked, Removal, Parsed
      <4> QED BY <1>0, <3>2, <4>1, <4>2, MoveFits
    <3> QED BY <1>2, <3>1, <3>2 DEF DeleteOrphans
  <2>2. vec' \in [Targets -> [Docs -> Chunks]]
    BY <1>0, <1>2, ConstantsAssumption
    DEF DeleteOrphans, StoreType, NoChunks, Chunks
  <2>3. bm25' \in [Workers -> [Docs -> Chunks]]
    <3> DEFINE left == [d \in Docs |-> [i \in Index |->
                 IF <<d, i>> \in Orphans(t) THEN 0 ELSE bm25[WorkerOf[t]][d][i]]]
    <3>1. left \in [Docs -> Chunks]
      BY <1>0, ConstantsAssumption DEF StoreType, Chunks
    <3>2. bm25' = [bm25 EXCEPT ![WorkerOf[t]] = left]
      BY <1>2 DEF DeleteOrphans
    <3> HIDE DEF left
    <3> QED BY <1>0, <3>1, <3>2 DEF StoreType
  <2> QED BY <1>0, <1>2, <2>1, <2>2, <2>3, TypePartsNext
          DEF DeleteOrphans, DiskType, StoreType, RowType
<1>3. CASE ResetStores(t)
  <2>1. job' = [job EXCEPT ![t] = j]
    BY <1>0, <1>3 DEF ResetStores, TasksFit
  <2>2. "clearAll" \in Stages /\ JobFits("clearAll", j)
    BY <1>9 DEF Stages, OnPath, Locked, Removal, Parsed
  <2>3. TasksFit'
    BY <1>0, <1>3, <2>1, <2>2, MoveFits DEF ResetStores
  <2>4. NoChunks \in Chunks
    BY ConstantsAssumption DEF NoChunks, Chunks
  <2>5. StoreType'
    BY <1>0, <1>3, <2>4 DEF ResetStores, EmptiedStores, StoreType
  <2> QED BY <1>0, <1>3, <2>3, <2>5, TypePartsNext
          DEF ResetStores, DiskType, RowType
<1>4. CASE ClearRegistry(t)
  <2>1. TasksFit'
    <3>1. CASE Goto(t, "idle") /\ job' = [job EXCEPT ![t] = NoJob]
      <4>1. "idle" \in Stages /\ JobFits("idle", NoJob)
        BY <1>9 DEF Stages, OnPath, Locked, Removal, Parsed
      <4> QED BY <3>1, <4>1, JobTypes, MoveFits
    <3>2. ASSUME NEW p \in Paths, NEW todo \in SUBSET Paths, Goto(t, "wait"),
                 job' = [job EXCEPT ![t] = RebuildJob(p, todo)]
          PROVE  TasksFit'
      <4> DEFINE j1 == RebuildJob(p, todo)
      <4>1. j1 \in Jobs /\ j1.path = p /\ j1.k = 1
        BY JobTypes
      <4>2. JobFits("wait", j1) /\ "wait" \in Stages
        BY <4>1 DEF JobFits, OnPath, Locked, Removal, Parsed, Stages
      <4> HIDE DEF j1
      <4> QED BY <3>2, <4>1, <4>2, MoveFits DEF j1
    <3> QED BY <1>4, <3>1, <3>2 DEF ClearRegistry
  <2>2. registry' \in [Paths -> Rows]
    BY <1>4, ConstantsAssumption DEF ClearRegistry, NoRow, Rows
  <2>3. abandoned' \subseteq 0..MaxDocs
    BY <1>0, <1>4 DEF ClearRegistry, StoreType, RowType, Rows
  <2> QED BY <1>0, <1>4, <2>1, <2>2, <2>3, TypePartsNext
          DEF ClearRegistry, DiskType, StoreType, RowType
<1>5. CASE RemoveResolved(t)
  <2>1. TasksFit'
    BY <1>5, EndFits DEF RemoveResolved
  <2> QED BY <1>0, <1>5, <2>1, TypePartsNext
          DEF RemoveResolved, DiskType, StoreType, RowType
<1>6. CASE UnlinkExpired(t)
  <2>1. PICK p \in j.todo :
          /\ Unlink(p)
          /\ \/ /\ j.todo = {p}
                /\ Goto(t, "idle") /\ job' = [job EXCEPT ![t] = NoJob]
             \/ /\ j.todo # {p}
                /\ job' = [job EXCEPT ![t].todo = j.todo \ {p}] /\ UNCHANGED pc
    BY <1>0, <1>6 DEF UnlinkExpired, TasksFit
  <2>2. p \in Paths /\ j.todo \in SUBSET Paths
    BY <1>0, <2>1 DEF Jobs
  <2>3. TasksFit'
    <3>1. CASE Goto(t, "idle") /\ job' = [job EXCEPT ![t] = NoJob]
      <4>1. "idle" \in Stages /\ JobFits("idle", NoJob)
        BY <1>9 DEF Stages, OnPath, Locked, Removal, Parsed
      <4> QED BY <3>1, <4>1, JobTypes, MoveFits
    <3>2. CASE job' = [job EXCEPT ![t].todo = j.todo \ {p}] /\ UNCHANGED pc
      <4> DEFINE j1 == [j EXCEPT !.todo = j.todo \ {p}]
      <4>1. j1 \in Jobs
        BY <1>0, <2>2 DEF Jobs
      <4>2. job' = [job EXCEPT ![t] = j1] /\ Goto(t, "unlinkAll")
        BY <1>0, <1>6, <3>2 DEF TasksFit, Goto, UnlinkExpired
      <4>3. "unlinkAll" \in Stages /\ JobFits("unlinkAll", j1)
        BY <1>9 DEF Stages, OnPath, Locked, Removal, Parsed
      <4> HIDE DEF j1
      <4> QED BY <4>1, <4>2, <4>3, MoveFits
    <3> QED BY <2>1, <3>1, <3>2
  <2>4. DiskType'
    BY <2>1, <2>2, UnlinkType
  <2> QED BY <1>0, <1>6, <2>3, <2>4, TypePartsNext
          DEF UnlinkExpired, StoreType, RowType
<1> QED BY <1>1, <1>2, <1>3, <1>4, <1>5, <1>6 DEF MaintenanceStep

\* Exceptions and crashes keep it.
LEMMA FaultType ==
  ASSUME TypeInv,
         \/ \E t \in Tasks : ProcessRaises(t) \/ RemoveRaises(t)
         \/ \E w \in Workers : Crash(w)
  PROVE  TypeInv'
<1> USE DEF diskVars, indexVars, kbVars, watchVars
<1>0. DiskType /\ StoreType /\ RowType /\ TasksFit
  BY TypeParts
<1>1. ASSUME NEW t \in Tasks, ProcessRaises(t) PROVE TypeInv'
  <2>1. TasksFit'
    BY <1>1, EndFits DEF ProcessRaises
  <2>2. fails' \in 0..MaxFails
    BY <1>0, <1>1, ConstantsAssumption DEF ProcessRaises, RowType
  <2> QED BY <1>0, <1>1, <2>1, <2>2, UnlockType, TypePartsNext
          DEF ProcessRaises, UnlockOnError, DiskType, StoreType, RowType
<1>2. ASSUME NEW t \in Tasks, RemoveRaises(t) PROVE TypeInv'
  <2>1. TasksFit'
    <3>1. CASE End(t)
      BY <3>1, EndFits
    <3>2. CASE Goto(t, "unlink") /\ UNCHANGED job
      <4>1. job' = [job EXCEPT ![t] = job[t]] /\ job[t] \in Jobs
        BY <1>0, <3>2 DEF TasksFit
      <4> QED BY <1>0, <1>2, <3>2, <4>1, MoveOnPathFits
              DEF RemoveRaises, OnPath, Locked, Removal, Parsed
    <3> QED BY <1>2, <3>1, <3>2 DEF RemoveRaises
  <2>2. fails' \in 0..MaxFails
    BY <1>0, <1>2, ConstantsAssumption DEF RemoveRaises, RowType
  <2> QED BY <1>0, <1>2, <2>1, <2>2, TypePartsNext
          DEF RemoveRaises, DiskType, StoreType, RowType
<1>3. ASSUME NEW w \in Workers, Crash(w) PROVE TypeInv'
  <2>1. NoChunks \in Chunks
    BY ConstantsAssumption DEF NoChunks, Chunks
  <2>2. PICK file : /\ file = bm25File \/ file = [d \in Docs |-> NoChunks]
                    /\ bm25File' = file /\ bm25' = [bm25 EXCEPT ![w] = file]
    BY <1>3 DEF Crash
  <2>3. StoreType'
    BY <1>0, <1>3, <2>1, <2>2 DEF Crash, StoreType
  <2>4. DiskType'
    BY <1>0, <1>3 DEF Crash, DiskType
  <2>5. RowType'
    BY <1>0, <1>3, ConstantsAssumption DEF Crash, RowType
  <2>6. TasksFit'
    <3>1. pc' \in [Tasks -> Stages] /\ job' \in [Tasks -> Jobs]
      BY <1>0, <1>3, JobTypes DEF Crash, TasksFit, Stages
    <3>2. ASSUME NEW t \in Tasks PROVE JobFits(pc[t], job[t])'
      <4>1. CASE pc'[t] = "idle"
        BY <4>1 DEF JobFits, OnPath, Locked, Removal, Parsed
      <4>2. CASE pc'[t] = pc[t] /\ job'[t] = job[t]
        BY <1>0, <4>2 DEF JobFits, TasksFit
      <4> QED BY <1>3, <4>1, <4>2 DEF Crash
    <3> QED BY <3>1, <3>2 DEF TasksFit
  <2> QED BY <2>3, <2>4, <2>5, <2>6, TypePartsNext
<1> QED BY <1>1, <1>2, <1>3

\* Every step keeps the type invariant.
LEMMA TypeStep == TypeInv /\ [Next]_vars => TypeInv'
<1> SUFFICES ASSUME TypeInv, [Next]_vars PROVE TypeInv'
  OBVIOUS
<1>1. CASE \E t \in Tasks : TaskStep(t)
  BY <1>1, ProcessType, RemoveType, MaintenanceType DEF TaskStep
<1>2. CASE \E t \in Tasks : WatcherStep(t)
  BY <1>2, WatcherType DEF WatcherStep
<1>3. CASE \E t \in Tasks : Request(t)
  BY <1>3, RequestType
<1>4. CASE \/ \E t \in Tasks : ProcessRaises(t) \/ RemoveRaises(t)
           \/ \E w \in Workers : Crash(w)
  BY <1>4, FaultType
<1>5. CASE \E p \in Paths : EraseFile(p) \/ \E c \in Contents : EditFile(p, c)
  BY <1>5, EnvironmentType
<1>6. CASE UNCHANGED vars
  BY <1>6, TypeParts, TypePartsNext
  DEF vars, DiskType, StoreType, RowType, TasksFit
<1> QED BY <1>1, <1>2, <1>3, <1>4, <1>5, <1>6 DEF Next, Idle

\* Every variable keeps its type.
THEOREM TypeCorrect == Spec => []TypeOK
<1>1. Spec => []TypeInv
  BY InitType, TypeStep, PTL DEF Spec
<1>2. TypeInv => TypeOK
  BY DEF TypeInv
<1> QED BY <1>1, <1>2, PTL

-----------------------------------------------------------------------------
(* The per-path locks.  The invariants are proved for the kinds of steps,  *)
(* then for the actions.                                                   *)

\* The lock table and the stages of the passes agree in both directions.
LockInv ==
  /\ LockHeldByPass
  /\ \A t \in Tasks : pc[t] \in Locked => lock[WorkerOf[t]][job[t].path] = t

\* What a step may do to the locks: t runs alone, and it ...
Alone(t) == \A u \in Tasks \ {t} : pc'[u] = pc[u] /\ job'[u] = job[u]
Holds(t) ==      \* ... keeps the lock it holds,
  /\ pc[t] \in Locked /\ pc'[t] \in Locked /\ job'[t].path = job[t].path
  /\ UNCHANGED lock /\ Alone(t)
Leaves(t) ==     \* gives it back,
  pc[t] \in Locked /\ pc'[t] \notin Locked /\ Unlock(t) /\ Alone(t)
Outside(t) ==    \* or has none and takes none.
  pc[t] \notin Locked /\ pc'[t] \notin Locked /\ UNCHANGED lock /\ Alone(t)

\* A coroutine that changes stage and local variables runs alone.
LEMMA GotoMoves ==
  ASSUME TypeInv, NEW t \in Tasks, NEW stage, Goto(t, stage), NEW j,
         job' = [job EXCEPT ![t] = j]
  PROVE  Alone(t) /\ pc'[t] = stage /\ job'[t] = j
BY DEF TypeInv, TypeOK, Goto, Alone

\* One that changes stage only.
LEMMA GotoStays ==
  ASSUME TypeInv, NEW t \in Tasks, NEW stage, Goto(t, stage), UNCHANGED job
  PROVE  Alone(t) /\ pc'[t] = stage /\ job'[t] = job[t]
BY DEF TypeInv, TypeOK, Goto, Alone

\* A coroutine that ends is idle, or waits for the next file's lock.
LEMMA EndMoves ==
  ASSUME TypeInv, NEW t \in Tasks, End(t)
  PROVE  Alone(t) /\ pc'[t] \in {"idle", "wait"}
BY GotoMoves DEF End

\* A coroutine that starts was idle.
LEMMA StartMoves ==
  ASSUME TypeInv, NEW t \in Tasks, NEW stage, NEW j, Start(t, stage, j)
  PROVE  Alone(t) /\ pc[t] = "idle" /\ pc'[t] = stage
BY GotoMoves DEF Start

\* A pass that goes on keeps the lock table right.
LEMMA HoldsLock ==
  ASSUME TypeInv, LockInv, NEW t \in Tasks, Holds(t)
  PROVE  LockInv'
<1>1. \A u \in Tasks : /\ (pc[u] \in Locked)' <=> pc[u] \in Locked
                       /\ pc[u] \in Locked => job'[u].path = job[u].path
  BY DEF Holds, Alone
<1>2. LockHeldByPass'
  <2> SUFFICES ASSUME NEW w \in Workers, NEW p \in Paths, lock'[w][p] # NoTask
               PROVE  /\ pc'[lock'[w][p]] \in Locked
                      /\ job'[lock'[w][p]].path = p
                      /\ WorkerOf[lock'[w][p]] = w
    BY DEF LockHeldByPass
  <2>1. lock'[w][p] = lock[w][p] /\ lock[w][p] \in Tasks
    BY DEF Holds, TypeInv, TypeOK
  <2> QED BY <1>1, <2>1 DEF LockInv, LockHeldByPass
<1>3. \A u \in Tasks : pc'[u] \in Locked => lock'[WorkerOf[u]][job'[u].path] = u
  BY <1>1 DEF LockInv, Holds
<1> QED BY <1>2, <1>3 DEF LockInv

\* So does a coroutine that has no lock,
LEMMA OutsideLock ==
  ASSUME TypeInv, LockInv, NEW t \in Tasks, Outside(t)
  PROVE  LockInv'
<1>1. \A u \in Tasks : /\ (pc[u] \in Locked)' <=> pc[u] \in Locked
                       /\ pc[u] \in Locked => job'[u].path = job[u].path
  BY DEF Outside, Alone
<1>2. LockHeldByPass'
  <2> SUFFICES ASSUME NEW w \in Workers, NEW p \in Paths, lock'[w][p] # NoTask
               PROVE  /\ pc'[lock'[w][p]] \in Locked
                      /\ job'[lock'[w][p]].path = p
                      /\ WorkerOf[lock'[w][p]] = w
    BY DEF LockHeldByPass
  <2>1. lock'[w][p] = lock[w][p] /\ lock[w][p] \in Tasks
    BY DEF Outside, TypeInv, TypeOK
  <2> QED BY <1>1, <2>1 DEF LockInv, LockHeldByPass
<1>3. \A u \in Tasks : pc'[u] \in Locked => lock'[WorkerOf[u]][job'[u].path] = u
  BY <1>1 DEF LockInv, Outside
<1> QED BY <1>2, <1>3 DEF LockInv

\* a pass that ends,
LEMMA LeavesLock ==
  ASSUME TypeInv, LockInv, NEW t \in Tasks, Leaves(t)
  PROVE  LockInv'
<1> DEFINE w0 == WorkerOf[t]
           p0 == job[t].path
<1>1. lock[w0][p0] = t
  BY DEF LockInv, Leaves
<1>2. \A w \in Workers, p \in Paths :
        lock'[w][p] = IF w = w0 /\ p = p0 THEN NoTask ELSE lock[w][p]
  BY DEF Leaves, Unlock, TypeInv, TypeOK
<1>3. LockHeldByPass'
  <2> SUFFICES ASSUME NEW w \in Workers, NEW p \in Paths, lock'[w][p] # NoTask
               PROVE  /\ pc'[lock'[w][p]] \in Locked
                      /\ job'[lock'[w][p]].path = p
                      /\ WorkerOf[lock'[w][p]] = w
    BY DEF LockHeldByPass
  <2> DEFINE u == lock[w][p]
  <2>1. lock'[w][p] = u /\ u \in Tasks /\ ~(w = w0 /\ p = p0)
    BY <1>2 DEF TypeInv, TypeOK
  <2>2. pc[u] \in Locked /\ job[u].path = p /\ WorkerOf[u] = w
    BY <2>1 DEF LockInv, LockHeldByPass
  <2>3. u # t
    BY <2>1, <2>2
  <2> QED BY <2>1, <2>2, <2>3 DEF Leaves, Alone
<1>4. ASSUME NEW u \in Tasks, pc'[u] \in Locked
      PROVE  lock'[WorkerOf[u]][job'[u].path] = u
  <2>1. u # t /\ pc[u] \in Locked /\ job'[u] = job[u]
    BY <1>4 DEF Leaves, Alone
  <2>2. lock[WorkerOf[u]][job[u].path] = u
    BY <2>1 DEF LockInv
  <2>3. WorkerOf[u] \in Workers /\ job[u].path \in Paths
    BY <2>1, ConstantsAssumption DEF TypeInv, JobFits, OnPath
  <2> QED BY <1>1, <1>2, <2>1, <2>2, <2>3
<1> QED BY <1>3, <1>4 DEF LockInv

\* one that takes the lock,
LEMMA AcquireLockLock ==
  ASSUME TypeInv, LockInv, NEW t \in Tasks, AcquireLock(t)
  PROVE  LockInv'
<1> DEFINE w0 == WorkerOf[t]
           p0 == job[t].path
<1>0. /\ w0 \in Workers /\ p0 \in Paths /\ lock[w0][p0] = NoTask
      /\ Alone(t) /\ pc'[t] = "hash" /\ job'[t] = job[t]
  BY ConstantsAssumption, GotoStays
  DEF AcquireLock, LockFree, TypeInv, JobFits, OnPath
<1>2. \A w \in Workers, p \in Paths :
        lock'[w][p] = IF w = w0 /\ p = p0 THEN t ELSE lock[w][p]
  BY DEF AcquireLock, TypeInv, TypeOK
<1>3. LockHeldByPass'
  <2> SUFFICES ASSUME NEW w \in Workers, NEW p \in Paths, lock'[w][p] # NoTask
               PROVE  /\ pc'[lock'[w][p]] \in Locked
                      /\ job'[lock'[w][p]].path = p
                      /\ WorkerOf[lock'[w][p]] = w
    BY DEF LockHeldByPass
  <2>1. CASE w = w0 /\ p = p0
    BY <1>0, <1>2, <2>1 DEF Locked
  <2>2. CASE ~(w = w0 /\ p = p0)
    <3> DEFINE u == lock[w][p]
    <3>1. lock'[w][p] = u /\ u \in Tasks
      BY <1>2, <2>2 DEF TypeInv, TypeOK
    <3>2. pc[u] \in Locked /\ job[u].path = p /\ WorkerOf[u] = w
      BY <3>1 DEF LockInv, LockHeldByPass
    <3>3. u # t
      BY <3>2 DEF AcquireLock, Locked
    <3> QED BY <1>0, <3>1, <3>2, <3>3 DEF Alone
  <2> QED BY <2>1, <2>2
<1>4. ASSUME NEW u \in Tasks, pc'[u] \in Locked
      PROVE  lock'[WorkerOf[u]][job'[u].path] = u
  <2>1. CASE u = t
    BY <1>0, <1>2, <2>1
  <2>2. CASE u # t
    <3>1. pc[u] \in Locked /\ job'[u] = job[u]
      BY <1>0, <1>4, <2>2 DEF Alone
    <3>2. lock[WorkerOf[u]][job[u].path] = u /\ u # NoTask
      BY <3>1, ConstantsAssumption DEF LockInv
    <3>3. WorkerOf[u] \in Workers /\ job[u].path \in Paths
      BY <3>1, ConstantsAssumption DEF TypeInv, JobFits, OnPath
    <3> QED BY <1>0, <1>2, <3>1, <3>2, <3>3
  <2> QED BY <2>1, <2>2
<1> QED BY <1>3, <1>4 DEF LockInv

\* and a crash, which empties the table of its worker.
LEMMA CrashLock ==
  ASSUME TypeInv, LockInv, NEW w0 \in Workers, Crash(w0)
  PROVE  LockInv'
<1>1. \A w \in Workers, p \in Paths :
        lock'[w][p] = IF w = w0 THEN NoTask ELSE lock[w][p]
  BY DEF Crash, TypeInv, TypeOK
<1>2. \A u \in Tasks :
        IF WorkerOf[u] = w0 THEN pc'[u] = "idle"
                            ELSE pc'[u] = pc[u] /\ job'[u] = job[u]
  BY DEF Crash
<1>3. LockHeldByPass'
  <2> SUFFICES ASSUME NEW w \in Workers, NEW p \in Paths, lock'[w][p] # NoTask
               PROVE  /\ pc'[lock'[w][p]] \in Locked
                      /\ job'[lock'[w][p]].path = p
                      /\ WorkerOf[lock'[w][p]] = w
    BY DEF LockHeldByPass
  <2>1. w # w0 /\ lock'[w][p] = lock[w][p] /\ lock[w][p] \in Tasks
    BY <1>1 DEF TypeInv, TypeOK
  <2> QED BY <1>2, <2>1 DEF LockInv, LockHeldByPass
<1>4. ASSUME NEW u \in Tasks, pc'[u] \in Locked
      PROVE  lock'[WorkerOf[u]][job'[u].path] = u
  <2>1. WorkerOf[u] # w0 /\ pc[u] \in Locked /\ job'[u] = job[u]
    BY <1>2, <1>4 DEF Locked
  <2>2. WorkerOf[u] \in Workers /\ job[u].path \in Paths
    BY <2>1, ConstantsAssumption DEF TypeInv, JobFits, OnPath
  <2> QED BY <1>1, <2>1, <2>2 DEF LockInv
<1> QED BY <1>3, <1>4 DEF LockInv

-----------------------------------------------------------------------------
(* Every step of a coroutine is of one of the kinds above.                 *)

\* A start is outside the lock.
LEMMA StartOutside ==
  ASSUME TypeInv, NEW t \in Tasks, NEW stage, NEW j, Start(t, stage, j),
         stage \notin Locked, UNCHANGED lock
  PROVE  Outside(t)
BY StartMoves DEF Outside, Locked

\* The end of a removal or of a maintenance job is outside it.
LEMMA EndOutside ==
  ASSUME TypeInv, NEW t \in Tasks, End(t), pc[t] \notin Locked, UNCHANGED lock
  PROVE  Outside(t)
BY EndMoves DEF Outside, Locked

\* The end of a pass gives the lock back.
LEMMA EndLeaves ==
  ASSUME TypeInv, NEW t \in Tasks, End(t), pc[t] \in Locked, Unlock(t)
  PROVE  Leaves(t)
BY EndMoves DEF Leaves, Locked

\* The steps of process, after the lock is taken.
LEMMA ProcessKinds ==
  ASSUME TypeInv, NEW t \in Tasks, ProcessStep(t)
  PROVE  Holds(t) \/ Leaves(t) \/ Outside(t) \/ AcquireLock(t)
<1>1. CASE HashFile(t)
  <2> DEFINE j == [job[t] EXCEPT !.hash = disk[job[t].path]]
  <2>1. job' = [job EXCEPT ![t] = j] /\ j.path = job[t].path
    BY <1>1 DEF HashFile, TypeInv, TypeOK, Jobs
  <2> HIDE DEF j
  <2>2. pc[t] = "hash" /\ Goto(t, "look") /\ UNCHANGED lock
    BY <1>1 DEF HashFile
  <2> QED BY <2>1, <2>2
        DEF Goto, Holds, Alone, Locked, TypeInv, TypeOK
<1>2. CASE LookUp(t)
  <2>1. CASE End(t) /\ Unlock(t)
    BY <1>2, <2>1, EndLeaves DEF LookUp, Locked
  <2>2. CASE /\ job' = [job EXCEPT ![t].row = registry[job[t].path]]
             /\ Goto(t, "parse") /\ UNCHANGED lock
    <3> DEFINE j == [job[t] EXCEPT !.row = registry[job[t].path]]
    <3>1. job' = [job EXCEPT ![t] = j] /\ j.path = job[t].path
      BY <2>2 DEF TypeInv, TypeOK, Jobs
    <3> HIDE DEF j
    <3>2. pc[t] = "look" /\ Goto(t, "parse") /\ UNCHANGED lock
      BY <1>2, <2>2 DEF LookUp
    <3> QED BY <3>1, <3>2
        DEF Goto, Holds, Alone, Locked, TypeInv, TypeOK
  <2> QED BY <1>2, <2>1, <2>2 DEF LookUp
<1>3. CASE ParseAndValidate(t)
  <2> DEFINE j == [job[t] EXCEPT !.text = disk[job[t].path]]
  <2>1. job' = [job EXCEPT ![t] = j] /\ j.path = job[t].path
    BY <1>3 DEF ParseAndValidate, TypeInv, TypeOK, Jobs
  <2> HIDE DEF j
  <2>2. PICK stage \in {"purge", "reject"} :
          pc[t] = "parse" /\ Goto(t, stage) /\ UNCHANGED lock
    BY <1>3 DEF ParseAndValidate
  <2> QED BY <2>1, <2>2
        DEF Goto, Holds, Alone, Locked, TypeInv, TypeOK
<1>4. CASE Reject(t)
  BY <1>4, EndLeaves DEF Reject, Locked
<1>5. CASE DropOldChunks(t)
  <2>1. CASE End(t) /\ Unlock(t)
    BY <1>5, <2>1, EndLeaves DEF DropOldChunks, Locked
  <2>2. CASE /\ job' = [job EXCEPT ![t].doc = DocIdFor(job[t].row)]
             /\ Goto(t, "embed") /\ UNCHANGED lock
    <3> DEFINE j == [job[t] EXCEPT !.doc = DocIdFor(job[t].row)]
    <3>1. job' = [job EXCEPT ![t] = j] /\ j.path = job[t].path
      BY <2>2 DEF TypeInv, TypeOK, Jobs
    <3> HIDE DEF j
    <3>2. pc[t] = "purge" /\ Goto(t, "embed") /\ UNCHANGED lock
      BY <1>5, <2>2 DEF DropOldChunks
    <3> QED BY <3>1, <3>2
        DEF Goto, Holds, Alone, Locked, TypeInv, TypeOK
  <2> QED BY <1>5, <2>1, <2>2 DEF DropOldChunks
<1>6. CASE EmbedAndUpsert(t)
  <2> DEFINE j == [job[t] EXCEPT !.k = job[t].k + 1]
  <2>1. job' = [job EXCEPT ![t] = j] /\ j.path = job[t].path
    BY <1>6 DEF EmbedAndUpsert, TypeInv, TypeOK, Jobs
  <2> HIDE DEF j
  <2>2. PICK stage \in {"embed", "bm25"} :
          pc[t] = "embed" /\ Goto(t, stage) /\ UNCHANGED lock
    BY <1>6 DEF EmbedAndUpsert
  <2> QED BY <2>1, <2>2
        DEF Goto, Holds, Alone, Locked, TypeInv, TypeOK
<1>7. CASE IndexBm25(t)
  BY <1>7, GotoStays DEF IndexBm25, Holds, Locked
<1>8. CASE SaveBm25(t)
  BY <1>8, GotoStays, EndOutside DEF SaveBm25, Holds, Outside, Locked
<1>9. CASE Register(t)
  BY <1>9, GotoStays DEF Register, Holds, Locked
<1>10. CASE RegisterConflict(t)
  BY <1>10, EndLeaves DEF RegisterConflict, Locked
<1>11. CASE ClearQuarantine(t)
  BY <1>11, GotoStays DEF ClearQuarantine, Holds, Locked
<1>12. CASE ExtractStructured(t)
  BY <1>12, EndLeaves DEF ExtractStructured, Locked
<1>13. CASE FileVanished(t)
  BY <1>13, EndLeaves DEF FileVanished, UnlockOnError, Locked
<1> QED BY <1>1, <1>2, <1>3, <1>4, <1>5, <1>6, <1>7, <1>8, <1>9, <1>10, <1>11,
           <1>12, <1>13 DEF ProcessStep

\* remove takes no lock.
LEMMA RemoveKinds ==
  ASSUME TypeInv, NEW t \in Tasks, RemoveStep(t)
  PROVE  Outside(t)
<1>1. CASE RmLook(t)
  <2> DEFINE j == [job[t] EXCEPT !.row = registry[job[t].path]]
  <2>1. job' = [job EXCEPT ![t] = j]
    BY <1>1 DEF RmLook, TypeInv, TypeOK
  <2> HIDE DEF j
  <2>2. PICK stage \in {"rmPurge", "rmQuar"} :
          pc[t] = "rmLook" /\ Goto(t, stage) /\ UNCHANGED lock
    BY <1>1 DEF RmLook
  <2> QED BY <2>1, <2>2, GotoMoves DEF Outside, Locked
<1>2. CASE RmPurge(t)
  BY <1>2, GotoStays DEF RmPurge, Outside, Locked
<1>3. CASE RmKb(t)
  BY <1>3, GotoStays DEF RmKb, Outside, Locked
<1>4. CASE RmRow(t)
  BY <1>4, GotoStays DEF RmRow, Outside, Locked
<1>5. CASE RmQuar(t)
  BY <1>5, GotoStays, EndOutside DEF RmQuar, Outside, Locked
<1>6. CASE UnlinkFile(t)
  BY <1>6, EndOutside DEF UnlinkFile, Locked
<1> QED BY <1>1, <1>2, <1>3, <1>4, <1>5, <1>6 DEF RemoveStep

\* Neither do the maintenance jobs,
LEMMA MaintenanceKinds ==
  ASSUME TypeInv, NEW t \in Tasks, MaintenanceStep(t)
  PROVE  Outside(t)
<1>1. CASE ListActive(t)
  <2> DEFINE j == [job[t] EXCEPT !.docs =
                    {registry[p].doc : p \in {q \in Paths : registry[q].active}}]
  <2>1. job' = [job EXCEPT ![t] = j]
    BY <1>1 DEF ListActive, TypeInv, TypeOK
  <2> HIDE DEF j
  <2> QED BY <1>1, <2>1, GotoMoves DEF ListActive, Outside, Locked
<1>2. CASE DeleteOrphans(t)
  BY <1>2, GotoStays, EndOutside DEF DeleteOrphans, Outside, Locked
<1>3. CASE ResetStores(t)
  BY <1>3, GotoStays DEF ResetStores, Outside, Locked
<1>4. CASE ClearRegistry(t)
  <2>1. pc'[t] \in {"idle", "wait"} /\ Alone(t)
    BY <1>4 DEF ClearRegistry, Goto, Alone, TypeInv, TypeOK
  <2> QED BY <1>4, <2>1 DEF ClearRegistry, Outside, Locked
<1>5. CASE RemoveResolved(t)
  BY <1>5, EndOutside DEF RemoveResolved, Locked
<1>6. CASE UnlinkExpired(t)
  <2>1. PICK p \in job[t].todo :
          \/ Goto(t, "idle") /\ job' = [job EXCEPT ![t] = NoJob]
          \/ job' = [job EXCEPT ![t].todo = job[t].todo \ {p}] /\ UNCHANGED pc
    BY <1>6 DEF UnlinkExpired, TypeInv, TypeOK
  <2>2. pc[t] = "unlinkAll" /\ UNCHANGED lock
    BY <1>6 DEF UnlinkExpired
  <2>3. CASE Goto(t, "idle") /\ job' = [job EXCEPT ![t] = NoJob]
    BY <2>2, <2>3 DEF Goto, Alone, Outside, Locked, TypeInv, TypeOK
  <2>4. CASE job' = [job EXCEPT ![t].todo = job[t].todo \ {p}] /\ UNCHANGED pc
    BY <2>2, <2>4 DEF Outside, Alone, Locked, TypeInv, TypeOK
  <2> QED BY <2>1, <2>3, <2>4
<1> QED BY <1>1, <1>2, <1>3, <1>4, <1>5, <1>6 DEF MaintenanceStep

\* nor the starts of coroutines.
LEMMA RequestKinds ==
  ASSUME TypeInv, NEW t \in Tasks, Request(t) \/ WatcherStep(t)
  PROVE  Outside(t) \/ UNCHANGED <<pc, job, lock>>
<1>1. CASE Request(t)
  <2>1. UNCHANGED lock
    BY <1>1 DEF Request, CleanupOrphans, RebuildIndex, PurgeQuarantine, ScanFile,
                DeleteFile, DeleteFolder, DeleteQuarantine, Reindex,
                RetryQuarantine, Upload
  <2>2. PICK stage \in {"wait", "rmLook", "unlink", "cuList", "reset",
                        "dequarantine", "unlinkAll"} :
          \E j : Start(t, stage, j)
    BY <1>1, Zenon
    DEF Request, CleanupOrphans, RebuildIndex, PurgeQuarantine, ScanFile,
        DeleteFile, DeleteFolder, DeleteQuarantine, Reindex, RetryQuarantine,
        Upload
  <2>3. PICK j : Start(t, stage, j)
    BY <2>2
  <2> QED BY <2>1, <2>2, <2>3, StartOutside DEF Locked
<1>2. CASE WatcherStep(t)
  <2>1. PICK p \in Paths : WatcherFire(t, p) \/ WatcherRemove(t, p)
    BY <1>2 DEF WatcherStep
  <2>2. CASE WatcherFire(t, p) /\ UNCHANGED <<pc, job>>
    BY <2>2 DEF WatcherFire
  <2>3. CASE /\ UNCHANGED lock
             /\ Start(t, "wait", IndexJob("watcher", p, FALSE, FALSE))
    BY <2>3, StartOutside DEF Locked
  <2>4. CASE WatcherRemove(t, p)
    BY <2>4, StartOutside DEF WatcherRemove, Locked
  <2> QED BY <2>1, <2>2, <2>3, <2>4 DEF WatcherFire
<1> QED BY <1>1, <1>2

\* Every step keeps the lock invariant.
LEMMA LockStep == TypeInv /\ LockInv /\ [Next]_vars => LockInv'
<1> SUFFICES ASSUME TypeInv, LockInv, [Next]_vars PROVE LockInv'
  OBVIOUS
<1>1. ASSUME NEW t \in Tasks,
             Holds(t) \/ Leaves(t) \/ Outside(t) \/ AcquireLock(t)
      PROVE  LockInv'
  BY <1>1, HoldsLock, LeavesLock, OutsideLock, AcquireLockLock
<1>2. ASSUME UNCHANGED <<pc, job, lock>> PROVE LockInv'
  BY <1>2 DEF LockInv, LockHeldByPass
<1>3. ASSUME NEW t \in Tasks, TaskStep(t) PROVE LockInv'
  BY <1>1, <1>3, ProcessKinds, RemoveKinds, MaintenanceKinds DEF TaskStep
<1>4. ASSUME NEW t \in Tasks, Request(t) \/ WatcherStep(t) PROVE LockInv'
  BY <1>1, <1>2, <1>4, RequestKinds
<1>5. ASSUME NEW t \in Tasks, ProcessRaises(t) PROVE LockInv'
  <2>1. Leaves(t)
    BY <1>5, EndLeaves DEF ProcessRaises, UnlockOnError
  <2> QED BY <1>1, <2>1
<1>6. ASSUME NEW t \in Tasks, RemoveRaises(t) PROVE LockInv'
  <2>1. Outside(t)
    BY <1>6, EndOutside, GotoStays DEF RemoveRaises, Outside, Locked, Removal
  <2> QED BY <1>1, <2>1
<1>7. ASSUME NEW p \in Paths,
             EraseFile(p) \/ \E c \in Contents : EditFile(p, c)
      PROVE  LockInv'
  BY <1>2, <1>7 DEF EraseFile, EditFile
<1>8. ASSUME NEW w \in Workers, Crash(w) PROVE LockInv'
  BY <1>8, CrashLock
<1>9. CASE UNCHANGED vars
  BY <1>2, <1>9 DEF vars
<1> QED BY <1>3, <1>4, <1>5, <1>6, <1>7, <1>8, <1>9 DEF Next, Idle

\* No lock is held at the start.
LEMMA InitLock == Init => LockInv
BY DEF Init, LockInv, LockHeldByPass, Locked

\* No exception, early return or crash leaves a path locked: a lock that is
\* held is held by a pass of its path, in its worker, that is still running.
THEOREM LocksNeverLeak == Spec => []LockHeldByPass
<1>1. Init => TypeInv /\ LockInv
  BY InitType, InitLock
<1>2. TypeInv /\ LockInv /\ [Next]_vars => (TypeInv /\ LockInv)'
  BY TypeStep, LockStep
<1>3. TypeInv /\ LockInv => LockHeldByPass
  BY DEF LockInv
<1> QED BY <1>1, <1>2, <1>3, PTL DEF Spec

-----------------------------------------------------------------------------
(* One worker: the registry row a pass read is still the path's row, or     *)
(* there is none, when the pass writes it.                                 *)

SingleWorker == \A t, u \in Tasks : WorkerOf[t] = WorkerOf[u]

RowRead(t) ==
  /\ pc[t] \in {"parse", "reject", "purge"} =>
       registry[job[t].path].doc \in {0, job[t].row.doc}
  /\ pc[t] \in {"embed", "bm25", "save", "register"} =>
       registry[job[t].path].doc \in {0, job[t].doc}

RowInv == \A t \in Tasks : RowRead(t)

\* A step leaves the document of each row alone or drops it.
RowsShrink == \A p \in Paths : registry'[p].doc \in {0, registry[p].doc}

\* A step of t that drops rows at most disturbs no other pass's row.
LEMMA OthersKeepRow ==
  ASSUME TypeInv, RowInv, RowsShrink, NEW u \in Tasks,
         pc'[u] = pc[u], job'[u] = job[u]
  PROVE  RowRead(u)'
<1>1. CASE pc[u] \notin Locked
  BY <1>1 DEF RowRead, Locked
<1>2. CASE pc[u] \in Locked
  <2>1. job[u].path \in Paths
    BY <1>2 DEF TypeInv, JobFits, OnPath
  <2>2. registry'[job[u].path].doc \in {0, registry[job[u].path].doc}
    BY <2>1 DEF RowsShrink
  <2> QED BY <2>2 DEF RowInv, RowRead
<1> QED BY <1>1, <1>2

\* A step that drops rows at most, and keeps t's own row right.
LEMMA ShrinkStep ==
  ASSUME TypeInv, RowInv, RowsShrink, NEW t \in Tasks, Alone(t), RowRead(t)'
  PROVE  RowInv'
BY OthersKeepRow DEF Alone, RowInv

\* Two passes of one path never run at once in one worker.
LEMMA OnePass ==
  ASSUME SingleWorker, LockInv, NEW t \in Tasks, NEW u \in Tasks,
         pc[t] \in Locked, pc[u] \in Locked, job[t].path = job[u].path
  PROVE  t = u
BY DEF SingleWorker, LockInv

\* Register writes the row of its path, which no other pass of it relies on.
LEMMA RegisterRow ==
  ASSUME SingleWorker, TypeInv, LockInv, RowInv, NEW t \in Tasks, Register(t)
  PROVE  RowInv'
<1>1. pc[t] \in Locked /\ pc'[t] = "clear" /\ Alone(t)
  BY GotoStays DEF Register, Locked
<1>2. ASSUME NEW u \in Tasks PROVE RowRead(u)'
  <2>1. CASE pc'[u] \notin Locked \/ u = t
    BY <1>1, <2>1 DEF RowRead, Locked
  <2>2. CASE pc'[u] \in Locked /\ u # t
    <3>1. pc[u] \in Locked /\ pc'[u] = pc[u] /\ job'[u] = job[u]
      BY <1>1, <2>2 DEF Alone
    <3>2. job[u].path # job[t].path
      BY <1>1, <2>2, <3>1, OnePass
    <3>3. registry'[job[u].path] = registry[job[u].path]
      <4>1. job[u].path \in Paths
        BY <3>1 DEF TypeInv, JobFits, OnPath
      <4> QED BY <3>2, <4>1 DEF Register, TypeInv, TypeOK
    <3> QED BY <3>1, <3>3 DEF RowInv, RowRead
  <2> QED BY <2>1, <2>2
<1> QED BY <1>2 DEF RowInv

\* The steps of process keep the row invariant.
LEMMA ProcessRow ==
  ASSUME SingleWorker, TypeInv, LockInv, RowInv, NEW t \in Tasks, ProcessStep(t)
  PROVE  RowInv'
<1> DEFINE Rest == {"idle", "wait", "hash", "look", "clear", "extract", "rmKb"}
<1>0. ASSUME UNCHANGED registry, Alone(t), pc'[t] \in Rest PROVE RowInv'
  <2>1. RowsShrink
    BY <1>0 DEF RowsShrink
  <2>2. RowRead(t)'
    BY <1>0 DEF RowRead
  <2> QED BY <1>0, <2>1, <2>2, ShrinkStep
<1>00. ASSUME UNCHANGED registry, Alone(t), RowRead(t)' PROVE RowInv'
  <2>1. RowsShrink
    BY <1>00 DEF RowsShrink
  <2> QED BY <1>00, <2>1, ShrinkStep
<1>1. ASSUME End(t), UNCHANGED registry PROVE RowInv'
  BY <1>0, <1>1, EndMoves
<1>2. CASE AcquireLock(t) \/ ClearQuarantine(t)
  BY <1>0, <1>2, GotoStays DEF AcquireLock, ClearQuarantine
<1>3. CASE HashFile(t)
  <2>1. Alone(t) /\ pc'[t] = "look" /\ UNCHANGED registry
    BY <1>3 DEF HashFile, Goto, Alone, TypeInv, TypeOK
  <2> QED BY <1>0, <2>1
<1>4. CASE LookUp(t)
  <2>1. CASE End(t)
    BY <1>1, <1>4, <2>1 DEF LookUp
  <2>2. CASE /\ job' = [job EXCEPT ![t].row = registry[job[t].path]]
             /\ Goto(t, "parse")
    <3>1. /\ Alone(t) /\ pc'[t] = "parse" /\ UNCHANGED registry
          /\ job'[t].path = job[t].path
          /\ job'[t].row = registry[job[t].path]
      BY <1>4, <2>2 DEF LookUp, Goto, Alone, TypeInv, TypeOK, Jobs
    <3>2. RowRead(t)'
      BY <3>1 DEF RowRead
    <3> QED BY <1>00, <3>1, <3>2
  <2> QED BY <1>4, <2>1, <2>2 DEF LookUp
<1>5. CASE ParseAndValidate(t)
  <2>1. /\ Alone(t) /\ pc[t] = "parse" /\ pc'[t] \in {"purge", "reject"}
        /\ UNCHANGED registry
        /\ job'[t].path = job[t].path /\ job'[t].row = job[t].row
    BY <1>5 DEF ParseAndValidate, Goto, Alone, TypeInv, TypeOK, Jobs
  <2>2. RowRead(t)'
    BY <2>1 DEF RowInv, RowRead
  <2> QED BY <1>00, <2>1, <2>2
<1>6. CASE DropOldChunks(t)
  <2>1. CASE End(t)
    BY <1>1, <1>6, <2>1 DEF DropOldChunks
  <2>2. CASE /\ job' = [job EXCEPT ![t].doc = DocIdFor(job[t].row)]
             /\ Goto(t, "embed")
    <3>1. /\ Alone(t) /\ pc[t] = "purge" /\ pc'[t] = "embed"
          /\ UNCHANGED registry
          /\ job'[t].path = job[t].path
          /\ job'[t].doc = DocIdFor(job[t].row)
      BY <1>6, <2>2 DEF DropOldChunks, Goto, Alone, TypeInv, TypeOK, Jobs
    <3>2. RowRead(t)'
      BY <3>1 DEF RowInv, RowRead, DocIdFor
    <3> QED BY <1>00, <3>1, <3>2
  <2> QED BY <1>6, <2>1, <2>2 DEF DropOldChunks
<1>7. CASE EmbedAndUpsert(t)
  <2>1. /\ Alone(t) /\ pc[t] = "embed" /\ pc'[t] \in {"embed", "bm25"}
        /\ UNCHANGED registry
        /\ job'[t].path = job[t].path /\ job'[t].doc = job[t].doc
    BY <1>7 DEF EmbedAndUpsert, Goto, Alone, TypeInv, TypeOK, Jobs
  <2>2. RowRead(t)'
    BY <2>1 DEF RowInv, RowRead
  <2> QED BY <1>00, <2>1, <2>2
<1>8. CASE IndexBm25(t)
  <2>1. /\ Alone(t) /\ pc[t] = "bm25" /\ pc'[t] = "save"
        /\ UNCHANGED registry /\ job'[t] = job[t]
    BY <1>8, GotoStays DEF IndexBm25
  <2>2. RowRead(t)'
    BY <2>1 DEF RowInv, RowRead
  <2> QED BY <1>00, <2>1, <2>2
<1>9. CASE SaveBm25(t)
  <2>1. CASE End(t)
    BY <1>1, <1>9, <2>1 DEF SaveBm25
  <2>2. CASE pc[t] = "rmSave" /\ Goto(t, "rmKb") /\ UNCHANGED job
    BY <1>0, <1>9, <2>2, GotoStays DEF SaveBm25
  <2>3. CASE pc[t] = "save" /\ Goto(t, "register") /\ UNCHANGED job
    <3>1. /\ Alone(t) /\ pc'[t] = "register"
          /\ UNCHANGED registry /\ job'[t] = job[t]
      BY <1>9, <2>3, GotoStays DEF SaveBm25
    <3>2. RowRead(t)'
      BY <2>3, <3>1 DEF RowInv, RowRead
    <3> QED BY <1>00, <3>1, <3>2
  <2> QED BY <1>9, <2>1, <2>2, <2>3 DEF SaveBm25
<1>10. CASE Register(t)
  BY <1>10, RegisterRow
<1>11. CASE Reject(t) \/ RegisterConflict(t) \/ ExtractStructured(t)
            \/ FileVanished(t)
  BY <1>1, <1>11 DEF Reject, RegisterConflict, ExtractStructured, FileVanished
<1> QED BY <1>2, <1>3, <1>4, <1>5, <1>6, <1>7, <1>8, <1>9, <1>10, <1>11
        DEF ProcessStep

\* Outside the lock no coroutine reads or relies on a row; it may drop some.
LEMMA OutsideRow ==
  ASSUME TypeInv, RowInv, NEW t \in Tasks, Outside(t), RowsShrink
  PROVE  RowInv'
<1>1. RowRead(t)'
  BY DEF Outside, RowRead, Locked
<1> QED BY <1>1, ShrinkStep DEF Outside

\* Removals and maintenance add no row.
LEMMA RemovalShrinks ==
  ASSUME TypeInv, NEW t \in Tasks, RemoveStep(t) \/ MaintenanceStep(t)
  PROVE  RowsShrink
<1>1. CASE UNCHANGED registry
  BY <1>1 DEF RowsShrink
<1>2. CASE RmRow(t)
  BY <1>2 DEF RmRow, RowsShrink, NoRow, TypeInv, TypeOK, Rows
<1>3. CASE ClearRegistry(t)
  BY <1>3 DEF ClearRegistry, RowsShrink, NoRow
<1> QED BY <1>1, <1>2, <1>3
        DEF RemoveStep, RmLook, RmPurge, RmKb, RmQuar, UnlinkFile,
            MaintenanceStep, ListActive, DeleteOrphans, ResetStores,
            RemoveResolved, UnlinkExpired

\* Every step keeps the row invariant.
LEMMA RowStep ==
  ASSUME SingleWorker, TypeInv, LockInv, RowInv, [Next]_vars
  PROVE  RowInv'
<1>1. ASSUME NEW t \in Tasks, TaskStep(t) PROVE RowInv'
  <2>1. CASE ProcessStep(t)
    BY <2>1, ProcessRow
  <2>2. CASE RemoveStep(t) \/ MaintenanceStep(t)
    BY <2>2, RemovalShrinks, RemoveKinds, MaintenanceKinds, OutsideRow
  <2> QED BY <1>1, <2>1, <2>2 DEF TaskStep
<1>2. ASSUME UNCHANGED <<pc, job, registry>> PROVE RowInv'
  BY <1>2 DEF RowInv, RowRead
<1>3. ASSUME NEW t \in Tasks, Request(t) \/ WatcherStep(t) PROVE RowInv'
  <2>1. UNCHANGED registry
    BY <1>3 DEF Request, CleanupOrphans, RebuildIndex, PurgeQuarantine, ScanFile,
                DeleteFile, DeleteFolder, DeleteQuarantine, Reindex,
                RetryQuarantine, Upload, WatcherStep, WatcherFire, WatcherRemove
  <2>2. RowsShrink
    BY <2>1 DEF RowsShrink
  <2> QED BY <1>2, <1>3, <2>1, <2>2, RequestKinds, OutsideRow
<1>4. ASSUME NEW t \in Tasks, ProcessRaises(t) \/ RemoveRaises(t) PROVE RowInv'
  <2>1. UNCHANGED registry /\ Alone(t) /\ pc'[t] \in {"idle", "wait", "unlink"}
    BY <1>4, EndMoves, GotoStays DEF ProcessRaises, RemoveRaises
  <2>2. RowsShrink /\ RowRead(t)'
    BY <2>1 DEF RowsShrink, RowRead
  <2> QED BY <2>1, <2>2, ShrinkStep
<1>5. ASSUME NEW p \in Paths,
             EraseFile(p) \/ \E c \in Contents : EditFile(p, c)
      PROVE  RowInv'
  BY <1>2, <1>5 DEF EraseFile, EditFile
<1>6. ASSUME NEW w \in Workers, Crash(w) PROVE RowInv'
  <2>1. ASSUME NEW u \in Tasks PROVE RowRead(u)'
    <3>1. RowsShrink
      BY <1>6 DEF Crash, RowsShrink
    <3>2. CASE pc'[u] = "idle"
      BY <3>2 DEF RowRead
    <3>3. CASE pc'[u] = pc[u] /\ job'[u] = job[u]
      BY <3>1, <3>3, OthersKeepRow
    <3> QED BY <1>6, <3>2, <3>3 DEF Crash
  <2> QED BY <2>1 DEF RowInv
<1>7. CASE UNCHANGED vars
  BY <1>2, <1>7 DEF vars
<1> QED BY <1>1, <1>3, <1>4, <1>5, <1>6, <1>7 DEF Next, Idle

\* In one worker process the per-path lock does what GEDIndexer.__init__ says:
\* no pass meets another's row when it registers its document.
THEOREM SingleInsert ==
  ASSUME SingleWorker
  PROVE  Spec => []NoDoubleInsert
<1> DEFINE IInv == TypeInv /\ LockInv /\ RowInv
<1>1. Init => IInv
  <2>1. Init => RowInv
    BY DEF Init, RowInv, RowRead
  <2> QED BY <2>1, InitType, InitLock
<1>2. IInv /\ [Next]_vars => IInv'
  BY TypeStep, LockStep, RowStep
<1>3. IInv => NoDoubleInsert
  BY DEF RowInv, RowRead, NoDoubleInsert, CanRegister
<1> QED BY <1>1, <1>2, <1>3, PTL DEF Spec
=============================================================================
