------------------------------ MODULE GedIndex ------------------------------
(***************************************************************************)
(* The document index of NEURONESIA (the "GED"): GEDIndexer.process,       *)
(* remove, cleanup_orphans and reset_index, the filesystem watcher, the    *)
(* HTTP routes of api/v1/ged.py and the two nightly jobs, interleaved at   *)
(* the awaits of the code.                                                 *)
(*                                                                         *)
(* A task is a coroutine; it lives in one uvicorn worker.  A worker has its*)
(* own locks, watcher and BM25 index in memory; disk, registry, vector     *)
(* stores, BM25 file, kb_* tables and quarantine are shared.  Between two  *)
(* awaits a coroutine runs alone in its worker, so one action is the code  *)
(* from one await to the next.                                             *)
(*                                                                         *)
(* A file's bytes, their SHA-256 and the text extracted from them are one  *)
(* content number.  The chunks of a document are numbered 1..MaxChunks     *)
(* because the chunk ids of the code are derived from doc_id and position. *)
(***************************************************************************)
EXTENDS Naturals, FiniteSets

CONSTANTS
  Paths,        \* resolved file paths under the GED root
  CvPaths,      \* those of the cvs/ folder (doc_type CV)
  Workers,      \* uvicorn worker processes
  Tasks,        \* coroutine slots; bounds how many operations overlap
  WorkerOf,     \* the worker a slot belongs to
  MaxContent,   \* contents are 1..MaxContent; 0 is "no file"
  Valid,        \* contents whose text passes QualityValidator.validate
  NChunks,      \* how many chunks the chunker makes of a content
  MaxChunks,    \* bound on NChunks
  NTargets,     \* vector collections: the historical one, then the FR one
  MaxDocs,      \* bound on the doc ids ever drawn (uuid4)
  MaxFails,     \* bound on exceptions and crashes
  FreshOnly,    \* TRUE: a path never receives a content it has had before
  Ops,          \* which requests, jobs and faults the environment performs
  NoTask, NoPath

Contents == 1..MaxContent
Docs     == 1..MaxDocs
Targets  == 1..NTargets
Index    == 1..MaxChunks
Chunks   == [Index -> 0..MaxContent]   \* 0: no chunk with this id

ASSUME ConstantsAssumption ==
  /\ CvPaths \subseteq Paths /\ NoPath \notin Paths /\ NoTask \notin Tasks
  /\ WorkerOf \in [Tasks -> Workers]
  /\ MaxContent \in Nat /\ MaxDocs \in Nat /\ MaxFails \in Nat
  /\ MaxChunks \in Nat /\ NTargets \in Nat \ {0}
  /\ Valid \subseteq Contents /\ NChunks \in [Contents -> 0..MaxChunks]
  /\ FreshOnly \in BOOLEAN

VARIABLES
  disk,         \* content of each file
  version,      \* highest content a path has had (for FreshOnly)
  registry,     \* ged_entries, one row per path (file_path is UNIQUE)
  vec,          \* the chunks of each document in each vector collection
  bm25,         \* BM25Adapter in the memory of each worker
  bm25File,     \* bm25.pkl
  kb,           \* kb_* rows extracted from each document
  abandoned,    \* history: documents whose row a rebuild dropped
  quarantine,   \* paths with a quarantine row
  pending,      \* watcher: paths whose debounce timer is live
  gone,         \* watcher: removals scheduled and not started
  lock,         \* GEDIndexer._locks of each worker
  pc, job,      \* where each coroutine is, and its local variables
  nextDoc, fails

diskVars  == <<disk, version>>
indexVars == <<vec, bm25, bm25File>>
kbVars    == <<kb, abandoned>>
watchVars == <<pending, gone>>
vars == <<disk, version, registry, vec, bm25, bm25File, kb, abandoned,
          quarantine, pending, gone, lock, pc, job, nextDoc, fails>>

NoChunks == [i \in Index |-> 0]
NoRow    == [doc |-> 0, hash |-> 0, ids |-> 0, active |-> FALSE]
Rows     == [doc : 0..MaxDocs, hash : 0..MaxContent, ids : 0..MaxChunks,
             active : BOOLEAN]

\* Local variables of a coroutine.  origin is what started it, row the
\* registry entry it read (existing), k the collection it writes next, docs
\* the doc ids cleanup_orphans read, todo the paths still queued behind it.
NewJob(origin, p, force, bypass, hard, todo) ==
  [origin |-> origin, path |-> p, force |-> force, bypass |-> bypass,
   hard |-> hard, hash |-> 0, text |-> 0, row |-> NoRow, doc |-> 0, k |-> 1,
   docs |-> {}, todo |-> todo]
NoJob == NewJob("none", NoPath, FALSE, FALSE, FALSE, {})
Origins == {"none", "upload", "watcher", "scan", "reindex", "retry",
            "rebuild", "file", "folder", "cleanup", "quarantine", "purge"}
Jobs == [origin : Origins, path : Paths \cup {NoPath}, force : BOOLEAN,
         bypass : BOOLEAN, hard : BOOLEAN, hash : 0..MaxContent,
         text : 0..MaxContent, row : Rows, doc : 0..MaxDocs,
         k : 1..(NTargets + 1), docs : SUBSET (0..MaxDocs),
         todo : SUBSET Paths]

Locked  == {"hash", "look", "parse", "reject", "purge", "embed", "bm25",
            "save", "register", "clear", "extract"}
Removal == {"rmLook", "rmPurge", "rmSave", "rmKb", "rmRow", "rmQuar", "unlink"}
Stages  == {"idle", "wait", "cuList", "cuPurge", "cuSave", "reset", "clearAll",
            "dequarantine", "unlinkAll"} \cup Locked \cup Removal

TypeOK ==
  /\ disk \in [Paths -> 0..MaxContent] /\ version \in [Paths -> 0..MaxContent]
  /\ registry \in [Paths -> Rows]
  /\ vec \in [Targets -> [Docs -> Chunks]]
  /\ bm25 \in [Workers -> [Docs -> Chunks]] /\ bm25File \in [Docs -> Chunks]
  /\ kb \in [Docs -> 0..MaxContent] /\ abandoned \subseteq 0..MaxDocs
  /\ quarantine \subseteq Paths
  /\ pending \in [Workers -> SUBSET Paths] /\ gone \in [Workers -> SUBSET Paths]
  /\ lock \in [Workers -> [Paths -> Tasks \cup {NoTask}]]
  /\ pc \in [Tasks -> Stages] /\ job \in [Tasks -> Jobs]
  /\ nextDoc \in 0..MaxDocs /\ fails \in 0..MaxFails

Init ==
  /\ disk = [p \in Paths |-> 0] /\ version = [p \in Paths |-> 0]
  /\ registry = [p \in Paths |-> NoRow]
  /\ vec = [s \in Targets |-> [d \in Docs |-> NoChunks]]
  /\ bm25 = [w \in Workers |-> [d \in Docs |-> NoChunks]]
  /\ bm25File = [d \in Docs |-> NoChunks]
  /\ kb = [d \in Docs |-> 0] /\ abandoned = {}
  /\ quarantine = {}
  /\ pending = [w \in Workers |-> {}] /\ gone = [w \in Workers |-> {}]
  /\ lock = [w \in Workers |-> [p \in Paths |-> NoTask]]
  /\ pc = [t \in Tasks |-> "idle"] /\ job = [t \in Tasks |-> NoJob]
  /\ nextDoc = 0 /\ fails = 0

-----------------------------------------------------------------------------
(* The stores.                                                             *)

\* VectorStore.upsert: chunk ids are overwritten, a longer tail stays.
Upserted(old, c) == [i \in Index |-> IF i <= NChunks[c] THEN c ELSE old[i]]

\* BM25Adapter.index: a chunk id already known is skipped, its text kept.
Added(old, c) ==
  [i \in Index |-> IF i <= NChunks[c] /\ old[i] = 0 THEN c ELSE old[i]]

\* BM25Adapter.remove(row.vector_ids).  Mutant: the ids are not removed.
Removed_Skipped(old, n) == old
Removed(old, n) == [i \in Index |-> IF i <= n THEN 0 ELSE old[i]]

\* delete_by_doc_id on every collection, then remove from this worker's BM25.
\* Mutant: only the historical collection is purged.
DeleteChunks_PrimaryOnly(w, row) ==
  /\ vec' = [vec EXCEPT ![1][row.doc] = NoChunks]
  /\ bm25' = [bm25 EXCEPT ![w][row.doc] = Removed(@, row.ids)]
DeleteChunks(w, row) ==
  /\ vec' = [s \in Targets |-> [vec[s] EXCEPT ![row.doc] = NoChunks]]
  /\ bm25' = [bm25 EXCEPT ![w][row.doc] = Removed(@, row.ids)]

\* reset of every collection.  Mutant: of the historical one only.
EmptiedStores_PrimaryOnly == [vec EXCEPT ![1] = [d \in Docs |-> NoChunks]]
EmptiedStores == [s \in Targets |-> [d \in Docs |-> NoChunks]]

-----------------------------------------------------------------------------
(* Coroutines.                                                             *)

Goto(t, stage) == pc' = [pc EXCEPT ![t] = stage]

IndexJob(origin, p, force, bypass) ==
  NewJob(origin, p, force, bypass, FALSE, {})
RemoveJob(origin, p, hard) == NewJob(origin, p, FALSE, FALSE, hard, {})
MaintenanceJob(origin, todo) ==
  NewJob(origin, NoPath, FALSE, FALSE, FALSE, todo)

\* rebuild_index's loop over the files: index p, then the others.
RebuildJob(p, others) == NewJob("rebuild", p, TRUE, FALSE, FALSE, others)

Start(t, stage, j) ==
  /\ pc[t] = "idle"
  /\ Goto(t, stage)
  /\ job' = [job EXCEPT ![t] = j]

\* The coroutine ends; a background task of rebuild goes on with the next file.
End(t) ==
  \/ /\ job[t].todo = {}
     /\ Goto(t, "idle")
     /\ job' = [job EXCEPT ![t] = NoJob]
  \/ \E p \in job[t].todo :
       /\ Goto(t, "wait")
       /\ job' = [job EXCEPT ![t] = RebuildJob(p, job[t].todo \ {p})]

Unlock(t) == lock' = [lock EXCEPT ![WorkerOf[t]][job[t].path] = NoTask]

\* "async with" releases the lock on exceptions too.  Mutant: it does not.
UnlockOnError_Leak(t) == UNCHANGED lock
UnlockOnError(t) == Unlock(t)

-----------------------------------------------------------------------------
(* The disk and the watchers.                                              *)

\* The workers whose watcher sees an event: all of them, unless events get lost.
Watching == IF "loss" \in Ops THEN SUBSET Workers ELSE {Workers}

WriteFile(p, c) ==
  /\ c # disk[p]
  /\ FreshOnly => c > version[p]
  /\ disk' = [disk EXCEPT ![p] = c]
  /\ version' = [version EXCEPT ![p] = IF c > @ THEN c ELSE @]
  /\ \E ws \in Watching :
       pending' = [w \in Workers |->
                     IF w \in ws THEN pending[w] \cup {p} ELSE pending[w]]
  /\ UNCHANGED gone

\* Unlinking a missing file changes nothing and raises no event.
Unlink(p) ==
  /\ disk' = [disk EXCEPT ![p] = 0]
  /\ \E ws \in Watching :
       LET told == IF disk[p] = 0 THEN {} ELSE ws IN
       /\ pending' = [w \in Workers |->
                        IF w \in told THEN pending[w] \ {p} ELSE pending[w]]
       /\ gone' = [w \in Workers |->
                     IF w \in told THEN gone[w] \cup {p} ELSE gone[w]]
  /\ UNCHANGED version

\* Someone edits or drops a file in the shared folder.
EditFile(p, c) ==
  /\ "edit" \in Ops
  /\ WriteFile(p, c)
  /\ UNCHANGED <<registry, indexVars, kbVars, quarantine, lock, pc, job, nextDoc,
                 fails>>

\* Someone deletes a file from the shared folder.
EraseFile(p) ==
  /\ "erase" \in Ops
  /\ disk[p] # 0
  /\ Unlink(p)
  /\ UNCHANGED <<registry, indexVars, kbVars, quarantine, lock, pc, job, nextDoc,
                 fails>>

\* _fire: the last event of the path is 3 s old.  A removal scheduled for the
\* path earlier has started by then.
WatcherFire(t, p) ==
  LET w == WorkerOf[t] IN
  /\ p \in pending[w] /\ p \notin gone[w]
  /\ pending' = [pending EXCEPT ![w] = @ \ {p}]
  /\ \/ disk[p] = 0 /\ UNCHANGED <<pc, job>>
     \/ disk[p] # 0 /\ Start(t, "wait", IndexJob("watcher", p, FALSE, FALSE))
  /\ UNCHANGED <<diskVars, registry, indexVars, kbVars, quarantine, gone, lock,
                 nextDoc, fails>>

\* on_deleted: the scheduled removal starts.
WatcherRemove(t, p) ==
  LET w == WorkerOf[t] IN
  /\ p \in gone[w]
  /\ gone' = [gone EXCEPT ![w] = @ \ {p}]
  /\ Start(t, "rmLook", RemoveJob("watcher", p, FALSE))
  /\ UNCHANGED <<diskVars, registry, indexVars, kbVars, quarantine, pending, lock,
                 nextDoc, fails>>

-----------------------------------------------------------------------------
(* Requests and jobs: each starts a coroutine.                             *)

\* POST /ged/upload: the file is written, its indexing runs in the background.
Upload(t, p, c) ==
  /\ "upload" \in Ops
  /\ WriteFile(p, c)
  /\ Start(t, "wait", IndexJob("upload", p, FALSE, FALSE))
  /\ UNCHANGED <<registry, indexVars, kbVars, quarantine, lock, nextDoc, fails>>

\* run_ged_scan reaches a file.
ScanFile(t, p) ==
  /\ "scan" \in Ops
  /\ disk[p] # 0
  /\ Start(t, "wait", IndexJob("scan", p, FALSE, FALSE))
  /\ UNCHANGED <<diskVars, registry, indexVars, kbVars, quarantine, watchVars,
                 lock, nextDoc, fails>>

\* POST /ged/reindex: by default the files that have no active row, with
\* force=true (or path=...) whatever the registry says.
Reindex(t, p, force) ==
  /\ (IF force THEN "force" ELSE "reindex") \in Ops
  /\ disk[p] # 0
  /\ force \/ ~registry[p].active
  /\ Start(t, "wait", IndexJob("reindex", p, force, FALSE))
  /\ UNCHANGED <<diskVars, registry, indexVars, kbVars, quarantine, watchVars,
                 lock, nextDoc, fails>>

\* POST /ged/quarantine/retry, with force_index the human acceptance.
RetryQuarantine(t, p, forceIndex) ==
  /\ "retry" \in Ops
  /\ disk[p] # 0
  /\ p \in quarantine
  /\ Start(t, "wait", IndexJob("retry", p, forceIndex, forceIndex))
  /\ UNCHANGED <<diskVars, registry, indexVars, kbVars, quarantine, watchVars,
                 lock, nextDoc, fails>>

\* DELETE /ged/files/{doc_id}: a CV is purged from the registry.
DeleteFile(t, p) ==
  /\ "deleteFile" \in Ops
  /\ registry[p].active
  /\ Start(t, "rmLook", RemoveJob("file", p, p \in CvPaths))
  /\ UNCHANGED <<diskVars, registry, indexVars, kbVars, quarantine, watchVars,
                 lock, nextDoc, fails>>

\* DELETE /ged/folders, for a folder that holds one file: remove without
\* hard_delete when the file has an active row, then rmtree.
DeleteFolder(t, p) ==
  /\ "deleteFolder" \in Ops
  /\ disk[p] # 0
  /\ Start(t, IF registry[p].active THEN "rmLook" ELSE "unlink",
           RemoveJob("folder", p, FALSE))
  /\ UNCHANGED <<diskVars, registry, indexVars, kbVars, quarantine, watchVars,
                 lock, nextDoc, fails>>

CleanupOrphans(t) ==
  /\ "cleanup" \in Ops
  /\ Start(t, "cuList", MaintenanceJob("cleanup", {}))
  /\ UNCHANGED <<diskVars, registry, indexVars, kbVars, quarantine, watchVars,
                 lock, nextDoc, fails>>

RebuildIndex(t) ==
  /\ "rebuild" \in Ops
  /\ Start(t, "reset", MaintenanceJob("rebuild", {}))
  /\ UNCHANGED <<diskVars, registry, indexVars, kbVars, quarantine, watchVars,
                 lock, nextDoc, fails>>

\* DELETE /ged/quarantine: the file goes, then its quarantine row.
DeleteQuarantine(t, p) ==
  /\ "dequarantine" \in Ops
  /\ p \in quarantine
  /\ Unlink(p)
  /\ Start(t, "dequarantine", RemoveJob("quarantine", p, FALSE))
  /\ UNCHANGED <<registry, indexVars, kbVars, quarantine, lock, nextDoc, fails>>

\* _quarantine_purge_job: the expired rows go (purge_expired), then the files.
PurgeQuarantine(t) ==
  /\ "purge" \in Ops
  /\ \E expired \in (SUBSET quarantine) \ {{}} :
       /\ quarantine' = quarantine \ expired
       /\ Start(t, "unlinkAll", MaintenanceJob("purge", expired))
  /\ UNCHANGED <<diskVars, registry, indexVars, kbVars, watchVars, lock, nextDoc,
                 fails>>

-----------------------------------------------------------------------------
(* GEDIndexer.process.                                                     *)

\* Mutant: the passes of a path are not serialised.
LockFree_Always(t) == TRUE
LockFree(t) == lock[WorkerOf[t]][job[t].path] = NoTask

AcquireLock(t) ==
  LET w == WorkerOf[t]  p == job[t].path IN
  /\ pc[t] = "wait"
  /\ LockFree(t)
  /\ lock' = [lock EXCEPT ![w][p] = t]
  /\ Goto(t, "hash")
  /\ UNCHANGED <<diskVars, registry, indexVars, kbVars, quarantine, watchVars, job,
                 nextDoc, fails>>

HashFile(t) ==
  LET p == job[t].path IN
  /\ pc[t] = "hash"
  /\ disk[p] # 0
  /\ job' = [job EXCEPT ![t].hash = disk[p]]
  /\ Goto(t, "look")
  /\ UNCHANGED <<diskVars, registry, indexVars, kbVars, quarantine, watchVars,
                 lock, nextDoc, fails>>

\* Mutant: a file that has a row is never read again.
Unchanged_AnyRow(t) == registry[job[t].path].doc # 0 /\ ~job[t].force
Unchanged(t) ==
  LET row == registry[job[t].path] IN
  row.doc # 0 /\ row.hash = job[t].hash /\ ~job[t].force

\* get_entry: an inactive row counts as well.
LookUp(t) ==
  /\ pc[t] = "look"
  /\ \/ /\ Unchanged(t)
        /\ End(t) /\ Unlock(t)
     \/ /\ ~Unchanged(t)
        /\ job' = [job EXCEPT ![t].row = registry[job[t].path]]
        /\ Goto(t, "parse") /\ UNCHANGED lock
  /\ UNCHANGED <<diskVars, registry, indexVars, kbVars, quarantine, watchVars,
                 nextDoc, fails>>

\* _parse reads the file a second time; validation decides.
ParseAndValidate(t) ==
  LET c == disk[job[t].path] IN
  /\ pc[t] = "parse"
  /\ c # 0
  /\ job' = [job EXCEPT ![t].text = c]
  /\ Goto(t, IF c \in Valid \/ job[t].bypass THEN "purge" ELSE "reject")
  /\ UNCHANGED <<diskVars, registry, indexVars, kbVars, quarantine, watchVars,
                 lock, nextDoc, fails>>

Reject(t) ==
  /\ pc[t] = "reject"
  /\ quarantine' = quarantine \cup {job[t].path}
  /\ End(t) /\ Unlock(t)
  /\ UNCHANGED <<diskVars, registry, indexVars, kbVars, watchVars, nextDoc, fails>>

\* existing.doc_id, or a new uuid.  Mutant: always a new one.
DocIdFor_AlwaysNew(row) == nextDoc + 1
DocIdFor(row) == IF row.doc # 0 THEN row.doc ELSE nextDoc + 1

\* Steps 6 and 7: the old chunks go before it is known that there are new ones.
\* A new doc id counts once a chunk carries it.
DropOldChunks(t) ==
  LET row == job[t].row  doc == DocIdFor(row) IN
  /\ pc[t] = "purge"
  /\ IF row.doc # 0 THEN DeleteChunks(WorkerOf[t], row)
                    ELSE UNCHANGED <<vec, bm25>>
  /\ \/ /\ NChunks[job[t].text] = 0
        /\ End(t) /\ Unlock(t) /\ UNCHANGED nextDoc
     \/ /\ NChunks[job[t].text] # 0
        /\ doc <= MaxDocs
        /\ nextDoc' = IF doc > nextDoc THEN doc ELSE nextDoc
        /\ job' = [job EXCEPT ![t].doc = doc]
        /\ Goto(t, "embed") /\ UNCHANGED lock
  /\ UNCHANGED <<diskVars, registry, bm25File, kbVars, quarantine, watchVars,
                 fails>>

\* Another collection follows.  Mutant: off by one.
MoreTargets_OffByOne(k) == k <= NTargets
MoreTargets(k) == k < NTargets

\* Step 8, one collection: the await of embed_texts, then upsert.
EmbedAndUpsert(t) ==
  LET k == job[t].k IN
  /\ pc[t] = "embed"
  /\ vec' = [vec EXCEPT ![k][job[t].doc] = Upserted(@, job[t].text)]
  /\ job' = [job EXCEPT ![t].k = k + 1]
  /\ Goto(t, IF MoreTargets(k) THEN "embed" ELSE "bm25")
  /\ UNCHANGED <<diskVars, registry, bm25, bm25File, kbVars, quarantine, watchVars,
                 lock, nextDoc, fails>>

IndexBm25(t) ==
  /\ pc[t] = "bm25"
  /\ bm25' = [bm25 EXCEPT ![WorkerOf[t]][job[t].doc] = Added(@, job[t].text)]
  /\ Goto(t, "save")
  /\ UNCHANGED <<diskVars, registry, vec, bm25File, kbVars, quarantine, watchVars,
                 lock, job, nextDoc, fails>>

\* BM25Adapter.save writes this worker's whole memory, for an indexing pass,
\* a removal or a cleanup.
SaveBm25(t) ==
  /\ pc[t] \in {"save", "rmSave", "cuSave"}
  /\ bm25File' = bm25[WorkerOf[t]]
  /\ \/ pc[t] = "save" /\ Goto(t, "register") /\ UNCHANGED job
     \/ pc[t] = "rmSave" /\ Goto(t, "rmKb") /\ UNCHANGED job
     \/ pc[t] = "cuSave" /\ End(t)
  /\ UNCHANGED <<diskVars, registry, vec, bm25, kbVars, quarantine, watchVars,
                 lock, nextDoc, fails>>

\* The path is free or held by this very document: no UNIQUE violation.
CanRegister(t) ==
  LET row == registry[job[t].path] IN row.doc = 0 \/ row.doc = job[t].doc

\* SQLiteRegistryAdapter.upsert_entry.
Register(t) ==
  /\ pc[t] = "register"
  /\ CanRegister(t)
  /\ registry' = [registry EXCEPT ![job[t].path] =
       [doc |-> job[t].doc, hash |-> job[t].hash,
        ids |-> NChunks[job[t].text], active |-> TRUE]]
  /\ Goto(t, "clear")
  /\ UNCHANGED <<diskVars, indexVars, kbVars, quarantine, watchVars, lock, job,
                 nextDoc, fails>>

\* IntegrityError: another row holds the path.
RegisterConflict(t) ==
  /\ pc[t] = "register"
  /\ ~CanRegister(t)
  /\ End(t) /\ Unlock(t)
  /\ UNCHANGED <<diskVars, registry, indexVars, kbVars, quarantine, watchVars,
                 nextDoc, fails>>

\* Mutant: an indexed file stays in quarantine.
ClearQuarantine_Kept(t) ==
  /\ pc[t] = "clear"
  /\ Goto(t, "extract")
  /\ UNCHANGED <<diskVars, registry, indexVars, kbVars, quarantine, watchVars,
                 lock, job, nextDoc, fails>>
ClearQuarantine(t) ==
  /\ pc[t] = "clear"
  /\ quarantine' = quarantine \ {job[t].path}
  /\ Goto(t, "extract")
  /\ UNCHANGED <<diskVars, registry, indexVars, kbVars, watchVars, lock, job,
                 nextDoc, fails>>

\* _extract_structured, best effort: when the extractor gives None (a type it
\* has no model of, no answer, an answer that does not validate) or something
\* raises, the facts stay as they were, those of an older content included.
ExtractStructured(t) ==
  /\ pc[t] = "extract"
  /\ kb' \in {kb, [kb EXCEPT ![job[t].doc] = job[t].text]}
  /\ End(t) /\ Unlock(t)
  /\ UNCHANGED <<diskVars, registry, indexVars, abandoned, quarantine, watchVars,
                 nextDoc, fails>>

-----------------------------------------------------------------------------
(* GEDIndexer.remove, which takes no lock.                                 *)

RmLook(t) ==
  LET row == registry[job[t].path] IN
  /\ pc[t] = "rmLook"
  /\ job' = [job EXCEPT ![t].row = row]
  /\ Goto(t, IF row.doc # 0 THEN "rmPurge" ELSE "rmQuar")
  /\ UNCHANGED <<diskVars, registry, indexVars, kbVars, quarantine, watchVars,
                 lock, nextDoc, fails>>

RmPurge(t) ==
  /\ pc[t] = "rmPurge"
  /\ DeleteChunks(WorkerOf[t], job[t].row)
  /\ Goto(t, "rmSave")
  /\ UNCHANGED <<diskVars, registry, bm25File, kbVars, quarantine, watchVars, lock,
                 job, nextDoc, fails>>

\* Mutant: the facts are not deleted.
RmKb_Kept(t) ==
  /\ pc[t] = "rmKb"
  /\ Goto(t, "rmRow")
  /\ UNCHANGED <<diskVars, registry, indexVars, kbVars, quarantine, watchVars,
                 lock, job, nextDoc, fails>>
RmKb(t) ==
  /\ pc[t] = "rmKb"
  /\ \/ kb' = [kb EXCEPT ![job[t].row.doc] = 0] /\ UNCHANGED fails
     \/ /\ "fail" \in Ops /\ fails < MaxFails
        /\ fails' = fails + 1 /\ UNCHANGED kb
  /\ Goto(t, "rmRow")
  /\ UNCHANGED <<diskVars, registry, indexVars, abandoned, quarantine, watchVars,
                 lock, job, nextDoc>>

\* hard_delete or mark_deleted, both by path.
RmRow(t) ==
  LET p == job[t].path IN
  /\ pc[t] = "rmRow"
  /\ registry' = [registry EXCEPT ![p] =
                    IF job[t].hard THEN NoRow ELSE [@ EXCEPT !.active = FALSE]]
  /\ Goto(t, "rmQuar")
  /\ UNCHANGED <<diskVars, indexVars, kbVars, quarantine, watchVars, lock, job,
                 nextDoc, fails>>

\* The watcher's removal ends here; the routes go on to the file.
RmQuar(t) ==
  /\ pc[t] = "rmQuar"
  /\ quarantine' = quarantine \ {job[t].path}
  /\ \/ job[t].origin = "watcher" /\ End(t)
     \/ job[t].origin # "watcher" /\ Goto(t, "unlink") /\ UNCHANGED job
  /\ UNCHANGED <<diskVars, registry, indexVars, kbVars, watchVars, lock, nextDoc,
                 fails>>

UnlinkFile(t) ==
  /\ pc[t] = "unlink"
  /\ Unlink(job[t].path)
  /\ End(t)
  /\ UNCHANGED <<registry, indexVars, kbVars, quarantine, lock, nextDoc, fails>>

-----------------------------------------------------------------------------
(* cleanup_orphans, reset_index, and the quarantine's deletions.           *)

ListActive(t) ==
  /\ pc[t] = "cuList"
  /\ job' = [job EXCEPT ![t].docs =
               {registry[p].doc : p \in {q \in Paths : registry[q].active}}]
  /\ Goto(t, "cuPurge")
  /\ UNCHANGED <<diskVars, registry, indexVars, kbVars, quarantine, watchVars,
                 lock, nextDoc, fails>>

\* The chunk ids some collection holds for a document that is not listed.
Orphans(t) ==
  {id \in (Docs \ job[t].docs) \X Index :
     \E s \in Targets : vec[s][id[1]][id[2]] # 0}

DeleteOrphans(t) ==
  LET w == WorkerOf[t]  orphans == Orphans(t) IN
  /\ pc[t] = "cuPurge"
  /\ vec' = [s \in Targets |-> [d \in Docs |->
               IF d \in job[t].docs THEN vec[s][d] ELSE NoChunks]]
  /\ bm25' = [bm25 EXCEPT ![w] = [d \in Docs |-> [i \in Index |->
                IF <<d, i>> \in orphans THEN 0 ELSE bm25[w][d][i]]]]
  /\ \/ orphans = {} /\ End(t)
     \/ orphans # {} /\ Goto(t, "cuSave") /\ UNCHANGED job
  /\ UNCHANGED <<diskVars, registry, bm25File, kbVars, quarantine, watchVars, lock,
                 nextDoc, fails>>

ResetStores(t) ==
  /\ pc[t] = "reset"
  /\ vec' = EmptiedStores
  /\ bm25' = [bm25 EXCEPT ![WorkerOf[t]] = [d \in Docs |-> NoChunks]]
  /\ bm25File' = [d \in Docs |-> NoChunks]
  /\ Goto(t, "clearAll")
  /\ UNCHANGED <<diskVars, registry, kbVars, quarantine, watchVars, lock, job,
                 nextDoc, fails>>

\* clear_all, then every file of the disk is queued with force.
ClearRegistry(t) ==
  LET files == {p \in Paths : disk[p] # 0} IN
  /\ pc[t] = "clearAll"
  /\ registry' = [p \in Paths |-> NoRow]
  /\ abandoned' = abandoned \cup {registry[p].doc : p \in Paths}
  /\ \/ files = {} /\ Goto(t, "idle") /\ job' = [job EXCEPT ![t] = NoJob]
     \/ \E p \in files :
          /\ Goto(t, "wait")
          /\ job' = [job EXCEPT ![t] = RebuildJob(p, files \ {p})]
  /\ UNCHANGED <<diskVars, indexVars, kb, quarantine, watchVars, lock, nextDoc,
                 fails>>

RemoveResolved(t) ==
  /\ pc[t] = "dequarantine"
  /\ quarantine' = quarantine \ {job[t].path}
  /\ End(t)
  /\ UNCHANGED <<diskVars, registry, indexVars, kbVars, watchVars, lock, nextDoc,
                 fails>>

\* The loop over the expired paths has no await: one file per step only
\* because another process may run in between.
UnlinkExpired(t) ==
  /\ pc[t] = "unlinkAll"
  /\ \E p \in job[t].todo :
       /\ Unlink(p)
       /\ \/ /\ job[t].todo = {p}
             /\ Goto(t, "idle") /\ job' = [job EXCEPT ![t] = NoJob]
          \/ /\ job[t].todo # {p}
             /\ job' = [job EXCEPT ![t].todo = @ \ {p}] /\ UNCHANGED pc
  /\ UNCHANGED <<registry, indexVars, kbVars, quarantine, lock, nextDoc, fails>>

-----------------------------------------------------------------------------
(* Faults.                                                                 *)

\* The file disappeared before it was hashed or parsed: FileNotFoundError.
FileVanished(t) ==
  /\ pc[t] \in {"hash", "parse"}
  /\ disk[job[t].path] = 0
  /\ End(t) /\ UnlockOnError(t)
  /\ UNCHANGED <<diskVars, registry, indexVars, kbVars, quarantine, watchVars,
                 nextDoc, fails>>

\* An exception leaves process: the lock is released, what was done stays.
ProcessRaises(t) ==
  /\ "fail" \in Ops /\ fails < MaxFails
  /\ pc[t] \in Locked \ {"extract"}
  /\ fails' = fails + 1
  /\ End(t) /\ UnlockOnError(t)
  /\ UNCHANGED <<diskVars, registry, indexVars, kbVars, quarantine, watchVars,
                 nextDoc>>

\* An exception leaves remove: delete_folder logs it and deletes the folder,
\* delete_file and the watcher stop.
RemoveRaises(t) ==
  /\ "fail" \in Ops /\ fails < MaxFails
  /\ pc[t] \in Removal \ {"rmKb", "unlink"}
  /\ fails' = fails + 1
  /\ \/ job[t].origin = "folder" /\ Goto(t, "unlink") /\ UNCHANGED job
     \/ job[t].origin # "folder" /\ End(t)
  /\ UNCHANGED <<diskVars, registry, indexVars, kbVars, quarantine, watchVars,
                 lock, nextDoc>>

\* A worker dies and is respawned: its coroutines, locks, timers and BM25
\* memory are lost, BM25 is loaded from the file.  A pickle cut short by the
\* crash is unreadable, and load() then starts empty.
Crash(w) ==
  LET dead == {t \in Tasks : WorkerOf[t] = w}
      torn == {f \in {[d \in Docs |-> NoChunks]} :
                 \E t \in dead : pc[t] \in {"save", "rmSave", "cuSave"}} IN
  /\ "crash" \in Ops /\ fails < MaxFails
  /\ fails' = fails + 1
  /\ pc' = [t \in Tasks |-> IF t \in dead THEN "idle" ELSE pc[t]]
  /\ job' = [t \in Tasks |-> IF t \in dead THEN NoJob ELSE job[t]]
  /\ lock' = [lock EXCEPT ![w] = [p \in Paths |-> NoTask]]
  /\ pending' = [pending EXCEPT ![w] = {}]
  /\ gone' = [gone EXCEPT ![w] = {}]
  /\ \E file \in {bm25File} \cup torn :
       /\ bm25File' = file
       /\ bm25' = [bm25 EXCEPT ![w] = file]
  /\ UNCHANGED <<diskVars, registry, vec, kbVars, quarantine, nextDoc>>

\* Nothing runs and nothing is scheduled: the event loop waits.
Quiet ==
  /\ \A t \in Tasks : pc[t] = "idle"
  /\ \A w \in Workers : pending[w] = {} /\ gone[w] = {}

Idle == Quiet /\ UNCHANGED vars

-----------------------------------------------------------------------------

ProcessStep(t) ==
  \/ AcquireLock(t) \/ HashFile(t) \/ LookUp(t) \/ ParseAndValidate(t)
  \/ Reject(t) \/ DropOldChunks(t) \/ EmbedAndUpsert(t) \/ IndexBm25(t)
  \/ SaveBm25(t) \/ Register(t) \/ RegisterConflict(t) \/ ClearQuarantine(t)
  \/ ExtractStructured(t) \/ FileVanished(t)

RemoveStep(t) ==
  \/ RmLook(t) \/ RmPurge(t) \/ RmKb(t) \/ RmRow(t) \/ RmQuar(t)
  \/ UnlinkFile(t)

MaintenanceStep(t) ==
  \/ ListActive(t) \/ DeleteOrphans(t) \/ ResetStores(t) \/ ClearRegistry(t)
  \/ RemoveResolved(t) \/ UnlinkExpired(t)

TaskStep(t) == ProcessStep(t) \/ RemoveStep(t) \/ MaintenanceStep(t)

WatcherStep(t) == \E p \in Paths : WatcherFire(t, p) \/ WatcherRemove(t, p)

Request(t) ==
  \/ CleanupOrphans(t) \/ RebuildIndex(t) \/ PurgeQuarantine(t)
  \/ \E p \in Paths :
       \/ ScanFile(t, p) \/ DeleteFile(t, p) \/ DeleteFolder(t, p)
       \/ DeleteQuarantine(t, p)
       \/ \E b \in BOOLEAN : Reindex(t, p, b) \/ RetryQuarantine(t, p, b)
       \/ \E c \in Contents : Upload(t, p, c)

Next ==
  \/ \E t \in Tasks : TaskStep(t) \/ WatcherStep(t) \/ Request(t)
                      \/ ProcessRaises(t) \/ RemoveRaises(t)
  \/ \E p \in Paths : EraseFile(p) \/ \E c \in Contents : EditFile(p, c)
  \/ \E w \in Workers : Crash(w)
  \/ Idle

Spec == Init /\ [][Next]_vars

-----------------------------------------------------------------------------
(* Properties.                                                             *)

\* The lock of GEDIndexer.__init__ is there so that two passes on a file never
\* both insert its registry row: a pass about to write the row finds the path
\* free or held by its own document, hence no IntegrityError on file_path.
NoDoubleInsert == \A t \in Tasks : pc[t] = "register" => CanRegister(t)

\* A path is locked by a running pass of that path and by nothing else: no
\* exception, crash or early return leaves a file locked for ever.
LockHeldByPass ==
  \A w \in Workers : \A p \in Paths :
    lock[w][p] # NoTask =>
      /\ pc[lock[w][p]] \in Locked
      /\ job[lock[w][p]].path = p /\ WorkerOf[lock[w][p]] = w

\* The chunks indexing a content leaves behind, no more and no less.
Exactly(c) == [i \in Index |-> IF i <= NChunks[c] THEN c ELSE 0]

\* Once nothing runs, a file whose registered hash is that of the disk has
\* exactly its chunks in every collection and in BM25: nothing of an older
\* version remains and nothing is missing, although the hash and the text come
\* from two reads of the file and old chunks are deleted long before new ones
\* are written.  Nothing of the sort holds of the kb_* facts: ExtractStructured
\* may leave those of an older version, or none.
IndexFaithful ==
  Quiet => \A p \in Paths :
    LET row == registry[p] IN
    row.active /\ row.hash = disk[p] =>
      /\ \A s \in Targets : vec[s][row.doc] = Exactly(disk[p])
      /\ \A w \in Workers : bm25[w][row.doc] = Exactly(disk[p])

\* Some collection or some BM25 index has a chunk of the document.
Searchable(d) ==
  \/ \E s \in Targets : vec[s][d] # NoChunks
  \/ \E w \in Workers : bm25[w][d] # NoChunks

\* Once nothing runs, every chunk a search can return, by vectors or by words,
\* belongs to a document with an active row (in the vector index, the anomaly
\* in_vector_without_registry of index_health).
NoOrphanChunks ==
  Quiet => \A d \in Docs :
    Searchable(d) => \E p \in Paths : registry[p].active /\ registry[p].doc = d

\* Once nothing runs, and no event was lost, a file is either indexed with the
\* content it has or in quarantine with a content that is not valid; and no
\* valid file is left in quarantine.  A verdict on an older content never
\* survives the pass on the newer one.
AccountedFor ==
  Quiet => \A p \in Paths :
    /\ disk[p] # 0 /\ ~(registry[p].active /\ registry[p].hash = disk[p]) =>
         p \in quarantine
    /\ p \in quarantine => disk[p] \notin Valid

\* Once nothing runs, all that is left anywhere is of a file that is there:
\* whatever the way a file went, its row kept, soft-deleted or purged, a
\* document with a chunk in a collection or in BM25, or with kb_* facts, has an
\* active row whose file is on the disk.  Only the facts of the documents that a
\* rebuild abandoned stay: reset_index does not know the kb_* tables.
DeletedIsForgotten ==
  Quiet =>
    /\ \A p \in Paths : registry[p].active => disk[p] # 0
    /\ \A d \in Docs :
         Searchable(d) \/ (kb[d] # 0 /\ d \notin abandoned) =>
           \E p \in Paths :
             registry[p].active /\ registry[p].doc = d /\ disk[p] # 0

-----------------------------------------------------------------------------
(* Liveness.  A coroutine that can go on does; asyncio.Lock is first come,  *)
(* first served; the watcher's timers expire; the nightly scan reaches      *)
(* every file again and again.  Nothing is assumed of users or of faults,   *)
(* which are bounded.                                                       *)

FairSpec ==
  /\ Spec
  /\ \A t \in Tasks : WF_vars(TaskStep(t)) /\ SF_vars(AcquireLock(t))
  /\ \A w \in Workers, p \in Paths :
       SF_vars(\E t \in Tasks : WorkerOf[t] = w /\
                 (WatcherFire(t, p) \/ WatcherRemove(t, p)))
  /\ \A p \in Paths : SF_vars(\E t \in Tasks : ScanFile(t, p))

\* Every coroutine ends: nobody waits for ever on a lock, whatever fails.
TasksEnd == \A t \in Tasks : pc[t] # "idle" ~> pc[t] = "idle"

Indexed(p) ==
  /\ registry[p].active /\ registry[p].hash = disk[p]
  /\ \A s \in Targets : vec[s][registry[p].doc] = Exactly(disk[p])

\* A file that keeps an indexable content ends up indexed with it, for good,
\* even when the watcher misses its events or a pass fails half-way.
EventuallyIndexed ==
  \A p \in Paths :
    <>[](disk[p] \in Valid /\ NChunks[disk[p]] # 0) => <>[]Indexed(p)
=============================================================================
