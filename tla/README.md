# Verification of NEURONESIA

TLA+ models of the stateful core of NEURONESIA (`src/backend`, a FastAPI
service, with a Next.js frontend), the TLC runs that check them and the proofs
TLAPS checks about them. `src/` is the reference: every definition listed in
`PROJECT.json` under `map` names the lines it translates.

## 1. The system

NEURONESIA answers questions about a company's documents and figures. It

* keeps an **index of documents** (the "GED"): files in a shared folder are
  parsed, cut into chunks, embedded into one or two ChromaDB collections, added
  to a BM25 index, registered in SQLite, and mined for facts stored in `kb_*`;
* **mirrors two business systems** into SQLite: Odoo (incremental sync and
  webhooks) and nt360 (hourly full replacement and webhooks);
* **writes texts with a model** and keeps them: daily analyses, briefing,
  arbitration narrations;
* lets administrators change **accounts, permissions and settings**.

It is deployed as `uvicorn --workers 2` (`src/backend/Dockerfile:58`). Each
worker is one process with one asyncio event loop, and each starts its own
scheduler and its own folder watcher (`config/container.py:308-322`). So

* inside a worker, coroutines interleave at `await`s (and, in a few places,
  with a thread of `asyncio.to_thread`);
* between workers, only SQLite (WAL), the ChromaDB directory, the folder and a
  few files are shared. Locks, caches, timers and the BM25 index are per
  process, and nothing coordinates them.

### Inventory

| Part | State | Operations | Shared with | Hard |
|---|---|---|---|---|
| GED indexer `core/services/ged_indexer.py` | lock per path | `process`, `remove`, `cleanup_orphans`, `reset_index` | registry, stores, BM25, kb, quarantine, disk | overlapping passes, two reads of a file, exceptions between deletions and writes |
| Watcher `watchers/ged_watcher.py` | timers per path | create/modify (debounced 3 s), delete | calls the indexer | lost, superseded and duplicated events |
| GED routes and jobs `api/v1/ged.py`, `jobs/ged_scan_job.py`, `jobs/scheduler.py` | – | upload, reindex, rebuild, delete file/folder, quarantine retry/delete, nightly scan, quarantine purge | call the indexer and the disk | background tasks that run after the answer, checks before awaits |
| Registry, quarantine `adapters/registry` | `ged_entries` (path UNIQUE), `quarantine` | upsert, soft and hard delete, clear; add, remove, purge | both workers | soft-deleted rows, rows older than the file |
| BM25 `adapters/sparse_search/bm25_adapter.py` | lists in memory, `bm25.pkl` | index, remove, save, clear, load | the file | one copy per worker, torn file, thread against loop |
| Vector store `adapters/vector_store/chromadb_adapter.py` | chunks per collection | upsert, delete, delete_orphans, reset | both workers | two collections kept in step |
| nt360 `jobs/nt360_sync_job.py`, `jobs/nt360_webhook_job.py`, `adapters/nt360` | mirror tables, event journal | hourly sync, recovery of truncated lists, webhook reception and re-read | both workers | truncated lists, minutes-long reads then replacement, redelivery, crash |
| Odoo `jobs/odoo_sync_job.py`, `api/v1/webhooks.py` | mirror tables, `last_sync.json` | incremental and full sync, re-read by id, unlink | both workers | watermark against failed sections, webhook against sync |
| Daily analyses, arbitration narrations | one row per key and day; per empreinte | cached read, generation, purge | both workers | single generation, fallbacks never kept |
| Briefing `modules/uc_briefing` | `latest.json`, settings and their caches | generate all, generate one role, save settings | both workers | lost update of a whole file, cache filled after invalidation |
| Accounts `api/v1/auth.py`, `config/permissions.py` | users, matrix, caches | update, delete, permissions | both workers | last administrator, stale caches |
| Snapshots, switch markers | tables, marker files | nightly snapshot, one-time switch | both workers | written once |

What makes each part correct, in one line: the GED index holds exactly the
chunks of the files that are there; the nt360 mirror converges to nt360, drops
only what nt360 dropped and handles each event; the Odoo mirror misses no
change; a text is generated once per key and never frozen from a fallback; a
setting saved is not lost; an administrator always remains, a race apart.

`PROJECT.json` lists these components with what is modelled of each, and under
`hazards` every place where this code is hard to test.

## 2. The modules

| Module | Models | Checked by | Proofs |
|---|---|---|---|
| `GedIndex` | the document index: passes, removals, watcher, registry, stores, quarantine | `ged_*` (section 3) | `GedIndexProofs`, `GedStoreProofs` |
| `Nt360Mirror` | the nt360 sync, its recovery of cut lists, the webhooks | `nt360_*` (section 4) | `Nt360Proofs` |
| `OdooMirror`, composed with `Views` by `OdooViews` | the Odoo sync and webhooks, and the SQL views that read both mirrors | `odoo` (section 5) | `OdooProofs` |
| `Indicators` | the history of indicators, the photographs of the pipeline, the one-time passage from Odoo to nt360 | `indicators` (section 6) | `IndicatorsProofs` |
| `Narrations`, which implements `TextStore` | daily analyses and arbitration narrations | `texts` (section 7) | `NarrationsProofs` |
| `Briefing` | the briefing's file, settings and caches | `briefing` (section 8) | `BriefingProofs` |
| `Accounts` | accounts, rights, their caches | `accounts` (section 9) | `AccountsProofs` |

`TextStore` is an abstract specification: what the two tables of texts promise,
with no worker, lock or model in sight; `Narrations` is shown to implement it,
by TLC and by proof. `Views` holds operators only, which `OdooViews` evaluates
in the states `OdooMirror` leaves behind. `Nt360Mirror` and `Indicators` meet at
the end of a sync: the second takes up the sync where its resources have been
read.

All modules read the code the same way. A process, task, sync or webhook is a
coroutine; an action is the code from one `await` that can suspend to the next,
or one transaction; its local variables are in `job`, its position in `pc`.
Coroutines of one worker share that worker's memory (locks, caches), coroutines
of two workers only the database and the files. A crash takes a worker's
coroutines, locks and caches and leaves the rest.

What would come next: the objectives of nt360 (revisions added by two syncs at
once, `nt360_sync_job.py:520`); `BM25Adapter` at the grain of a list operation,
where a removal on the event loop meets an indexing thread; the settings row of
arbitration (`uc_arbitrage/store.py:320`); a proof of `IndexFaithful` for removals
and rebuilds one at a time, which TLC finds true as long as no content comes
back.

Not modelled at all: the frontend and the cockpit modules (presentation and
read-only aggregations over the mirrors, in floating point), the knowledge
assistant and the chat (retrieval, prompts, read-only SQL: no state of their
own), the analysis of document texts (pure functions, or a model), the adapters
of models, embeddings and reranking (external calls), the token budget (it sums
log lines).

## 3. The document index: `GedIndex`

### State and code

| Variable | Code |
|---|---|
| `disk`, `version` | the files under the GED root (`version` only serves `FreshOnly`) |
| `registry` | `ged_entries`, one row per path: doc id, hash, number of vector ids, `is_active` |
| `vec` | the ChromaDB collections (`secondary_targets` gives the second) |
| `bm25`, `bm25File` | `BM25Adapter` in each worker, and `bm25.pkl` |
| `kb` | the content the `kb_*` rows of a document were extracted from |
| `abandoned` | history: the documents whose row a rebuild dropped |
| `quarantine` | paths with a quarantine row |
| `pending`, `gone` | the watcher's live timers and its scheduled removals, per worker |
| `lock` | `GEDIndexer._locks`, per worker |
| `pc`, `job` | each coroutine: where it is, and its local variables |

A file's bytes, hash and text are one *content* number; `Valid` are the contents
whose text passes validation and `NChunks` what the chunker makes of them.
Chunk ids are derived from doc id and position (`core/services/chunking`), so a
document's chunks are a function from positions to contents: `Upserted`
overwrites, `Added` (BM25) keeps what is there, and a longer tail survives both.

A task is a coroutine: a background task of a route, a watcher callback, a job.
One action is the code from one `await` that can suspend to the next; the
adapters' `async` functions that do not suspend are part of the action. Stages
of `process`: `wait` (lock), `hash`, `look` (registry), `parse` (second read,
validation), `reject` or `purge` (old chunks, doc id, chunking), `embed` (one
collection at a time), `bm25`, `save`, `register`, `clear` (quarantine),
`extract`. `remove` goes `rmLook`, `rmPurge`, `rmSave`, `rmKb`, `rmRow`,
`rmQuar`, `unlink`, without a lock. `rebuild` empties the stores and the
registry and then passes over the files one after the other (`todo`).

Faults: an exception at any stage of a pass or of a removal, a file that
vanishes, lost watcher events, the crash and respawn of a worker (its locks,
timers, coroutines and memory are gone; a save cut short leaves an unreadable
file, and `load` then starts empty).

### Properties

* `NoDoubleInsert` – the reason the lock exists (comment at
  `ged_indexer.py:86-92`): no pass meets another's row when it registers.
* `LockHeldByPass` – a locked path is locked by a running pass of that path.
* `IndexFaithful` – when nothing runs, a file registered with the hash it has
  is indexed with exactly its chunks, in every collection and in BM25.
* `NoOrphanChunks` – when nothing runs, every chunk of a collection or of BM25
  belongs to a document with an active row.
* `AccountedFor` – when nothing runs, a file is indexed with its content or in
  quarantine for its content; no valid file is in quarantine.
* `DeletedIsForgotten` – when nothing runs, whatever is left anywhere (active
  row, chunk, `kb_*` facts) is of a document with an active row and of a file
  on the disk. It looks at documents, not at rows, so it speaks of the CVs whose
  row is purged too; the facts of `abandoned` documents are excepted.
* `TasksEnd`, `EventuallyIndexed` – liveness, below.

"When nothing runs" (`Quiet`) is the honest form: during a pass the old chunks
are gone and the new ones not there yet.

### Runs

| Run | Instance | Shows |
|---|---|---|
| `ged_indexing` | 1 file, 4 contents (valid with 2 chunks, invalid with 1, valid with 1, invalid with 0), 1 worker, 3 coroutines, 2 collections; uploads, edits, watcher, scan, reindex, force, retry | overlapping passes keep all five invariants |
| `ged_sequential` | 2 files, 2 contents that may come back, 1 coroutine, 3 doc ids; deletions, cleanup, rebuild, quarantine | any sequence of whole operations forgets deleted files and leaves no orphan |
| `ged_workers` | 1 file, 2 workers with one coroutine each, exception or crash, lost events, deletions | locks do not leak |
| `ged_live` | 1 file, 2 contents, 2 coroutines, one exception or crash, lost events | no pass meets another's row, every coroutine ends; a stable file is indexed in the end |

Bounds. `Tasks` bounds how many operations overlap, three being enough for a
pass to run while two wait or while a removal and a pass overlap it.
The four contents of `ged_indexing` let a file go from valid to invalid and back
to valid (`FreshOnly` only lets the number grow), so that leaving quarantine
matters; `NChunks` 2, 1, 0 makes tails and empty documents. `NTargets` 2 is the
deployed number of collections. `MaxDocs` bounds the doc ids drawn: a pass that
needs one more stops there, which is why `ged_sequential` and `ged_workers` do
not check for deadlock (the program does not stop; `Idle` is the event loop
waiting). `MaxFails` bounds exceptions and crashes together. `FreshOnly` is TRUE
where hash and text of a pass are compared: a file that changes and changes
back between the two reads of a pass is a documented limit (see the hazard at
`ged_indexer.py:145`). The three coroutine slots of `ged_indexing` are
interchangeable, hence the symmetry set; no liveness is checked under symmetry.

Fairness (`FairSpec`). Weak fairness of each coroutine's steps: the event loop
runs what can run. Strong fairness of taking the lock: `asyncio.Lock` wakes its
waiters first come, first served. Strong fairness of the watcher's timers and
removals (a slot must be free) and of the nightly scan reaching each file: the
scheduler fires every night. Nothing is assumed of users, and faults are only
bounded.

### Proofs

`GedIndexProofs` proves `TypeCorrect == Spec => []TypeOK`. `TypeOK` alone is not
inductive: the value `Upserted` stores is a content only if the pass has read
one. `TypeInv` adds `JobFits`: which local variables are set at which stage.

`LocksNeverLeak == Spec => []LockHeldByPass` (also in `GedIndexProofs`): the
invariant needs its converse too: a coroutine between `hash` and `extract`
holds the lock of its path (`LockInv`); otherwise a second pass could release a
lock it does not hold. Each action is shown to be of one of four kinds (keeps
its lock, leaves it, is outside, takes it), and each kind to keep `LockInv`.

`SingleInsert` proves `NoDoubleInsert` when all coroutines live in one worker
(`SingleWorker`), the assumption the code's comment makes. The
strengthening `RowInv`: from its lookup on, the row a pass relies on is still
its path's row or there is none – only the pass that holds the lock adds a row,
everyone else may only drop it. With two workers it fails, see below.

All of this holds for any number of paths, workers, coroutines, contents,
chunks, collections and faults. What the stores hold once nothing runs is more
demanding, and is proved in `GedStoreProofs` under two premises.

*Passes that overlap* (`IndexingOnly`): one worker, any number of coroutines,
files that are added, changed, scanned, retried and reindexed by force, none
removed, no fault, no content that comes back. `OverlapsStayFaithful` proves
`IndexFaithful`, `OverlapsLeaveNoOrphan` proves `NoOrphanChunks`, and
`OverlapsAnswer` proves `AccountedFor` when no event is lost
(`AllEventsSeen`) and a valid content has at least one chunk
(`ValidHasChunks`, without which a valid file is neither indexed nor put in
quarantine). `Overlap` follows the chunks of each document through the stages
of the pass that writes it (`Stored`), says what the row in the pass's hands has
to do with the table (`RowKnown`), that no two paths share a document
(`DocsApart`) and that no chunk is without a path that uses it (`Held`); hashes
only grow, so a row is never newer than the pass that replaces it (`HashRead`).
`AccountInv` adds that a change is owed a pass, or a pass that has its hash is
due to answer, until row or quarantine answers for it.

*One operation at a time* (`OneAtATime`): one worker, one coroutine, no lost
event and no fault, but every operation of the model – folders, removals, the
rebuild, the purge of orphans, contents that come back. `DeletedFilesLeave`
proves `DeletedIsForgotten` and `RemovalsLeaveNoOrphan` proves `NoOrphanChunks`.
The events themselves still interleave: a file may change or vanish between any
two steps of an operation. `Tidy` says what each stage has done so far
(`Progress`), that a row that is not active stands for no chunk in any store, and
that an active row without a file has its removal due (`RowTidy`). `FactsHeld`
adds that facts are of a document with an active row or of an abandoned one.

Beyond these premises the code does not keep these properties (see below), and
`ged_indexing` and `ged_sequential` check them on the same operations.
TLC checked the invariants before they were proved, `Overlap` on 5 million
states (two files, two coroutines, three contents), `Tidy` on all the
sequential ones of a file with every operation.

Only model-checked: liveness, which is out of the prover's reach.

### Not modelled

Text extraction, chunking, classification, vision, PII, embeddings (pure or
external; `Valid` and `NChunks` stand for them); the entity resolver; folders
with several files (the route applies the same steps to each); the age of
quarantine rows (any set of them may be expired); retrieval.

### Where the code falls short of its comments

These behaviours are in the model; the properties are stated so that they say
what the code does guarantee.

* The lock of a path is one per process (`ged_indexer.py:90-93`), and the
  service runs two (`Dockerfile:58`): passes of the same path in both can both
  register, the second fails on the UNIQUE path and leaves its chunks behind.
  `NoDoubleInsert` therefore has `SingleWorker` as a premise in the proof, and
  one worker in `ged_indexing`.
* A pass registers the new hash, then asks for the facts; when the extractor gives
  None (`ged_indexer.py:322`: a type it has no model of, no answer, an answer
  that does not validate) or raises, the `kb_*` rows of an older content stay, or
  there are none, and a later pass skips the file by its hash. `IndexFaithful`
  says nothing of the facts.
* A rebuild empties collections, BM25 and registry and not the `kb_*` tables
  (`ged_indexer.py:260-268`): the facts stay under doc ids that no row has, and
  no removal finds them. `DeletedIsForgotten` excepts them.
* `remove` takes no lock (`ged_indexer.py:288`): a pass that has read the file
  before `api/v1/ged.py:605` deletes it registers it afterwards.
  `DeletedIsForgotten` is checked one operation at a time.
* The purge (`jobs/scheduler.py:208-219`) deletes the file of every expired
  quarantine row, including one whose document has been accepted by hand,
  indexed and quarantined again by a forced reindex.
* A deletion only marks the row (`sqlite_registry_adapter.py:45`), the row keeps
  the hash, and a pass that finds the hash skips the file
  (`ged_indexer.py:140`): a file put back with the same content is not indexed
  until a forced reindex.


## 4. The nt360 mirror: `Nt360Mirror`

### State and code

| Variable | Code |
|---|---|
| `remote`, `published`, `sent` | nt360 itself: its opportunities, its orders, the copies of `opp_won` on their way (external) |
| `cmds`, `opps` | `nt360_commandes` (the order numbers), `nt360_opportunites` |
| `events` | `nt360_webhook_evenements`: the `statut` of the key `opp_won:<id>` |
| `spc`, `sync` | the sync of each worker: where it is, its local variables (`liste`, `incompletes`, `candidats`, `echecs`, …) |
| `hpc`, `hook` | the webhook each worker processes |
| `known` | history variable: the unit-read rows held without interruption since a sync began to recover |

An opportunity is its stage and a revision number that stands for every other
column. A row adds `by` (the column `lecture`) and, for unit-read rows, whether
`synced_at` is within `RECUPERATION_HEURES`; list rows do not need it.

A sync goes `save` (orders read), `list` (one stage per step, cut at `PageMax`
in the order of `Rank`), `decide` (age of the newest unit-read row, order
numbers, candidates), `read` (one candidate at a time, in any order), `keep`
(rows of failed reads) and `replace` (one transaction). A pass that fails
before the last step leaves the opportunities alone. A webhook goes `log`
(after `session.get`), `fetch`, `merge` (the SELECT of `session.merge`),
`order`, `write` (flush and commit; an INSERT or UPDATE that no longer matches
raises) and `settle`. An UPDATE only writes the columns that differ from what
`merge` loaded, and `Merged` says what that does to a row changed in between.

### Properties

* `ReceivedIsInHand` – a copy of an event is dropped as a duplicate only when
  the event is handled or a live webhook has it, unless a worker died.
* `RecoveryCountsOnce` – no order is counted twice after a recovery.
* `FailedReadKeepsWin` – a failed unit read loses no unit-read win.
* `EventuallyFresh`, `EventuallyNoGhost` – once nt360 is stable the mirror is
  exactly what can be read of it. Two limits of the code are part of the
  statement: an opportunity past the cut that no order stands for cannot be
  read, and while no list is cut a unit-read row is never removed, even if
  nt360 deleted the opportunity. An empty list of orders freezes the mirror
  (`Syncable`).
* `ReceivedSettles` – a received event gets its final statut.
* `CutListDeletesNothing` – the adapter's contract for cut lists; violated.

### Runs

| Run | Instance | Shows |
|---|---|---|
| `nt360_workers` | 2 workers, 3 opportunities, 2 orders (one of them carried by an Odoo opportunity), lists cut at 1, two copies of an event, one failed read | overlapping syncs and webhooks keep the four safety properties |
| `nt360_fresh` | 2 workers, 2 opportunities, 1 order, 2 stages, one crash | the mirror converges and events settle, whatever overwrote what |
| `nt360_cut_list` | 1 worker, 3 opportunities | finding: a sync between two recoveries deletes a win that is still at nt360 |

Bounds. `PageMax` 1 cuts a list as soon as it holds one opportunity, so every
recovery path is taken; 1 change at nt360 after an arbitrary start is enough
for a list to go stale during a sync, an event to leave and an id to be pushed
past the cut. One webhook at a time per worker is a bound of the model: two
workers give two concurrent webhooks. Rows age together (`WindowPasses`), which
is exact for the code since only the newest unit read counts, except that the
newest may be deleted before the others are old.

Fairness. `WF(SyncStep(w))`: the scheduler starts a sync in every worker every
hour and a coroutine that can run runs. `WF(HookStep(w))`: the same for
background tasks. `WF(WindowPasses)`: time passes. Nothing is assumed of nt360:
an announced event may never be delivered.

### Proofs

`Nt360Proofs` proves `TypeCorrect == Spec => []TypeOK` and
`DuplicatesAreInHand == Spec => []ReceivedIsInHand`, `RecoveredOnce == Spec =>
RecoveryCountsOnce` and `FailedReadsKeepWins == Spec => FailedReadKeepsWin`, for
any number of workers, opportunities, stages, page sizes, crashes and failures.
None is inductive:

* Types. The `write` of a webhook stores the order it found, so `cmds` stays a
  set of orders only if there is one; and `settle` stores the statut it was
  given. `HandInv` adds both: an order a webhook found exists, at `settle` the
  statut is final.
* Events. A copy is dropped when the journal already has the event, so the
  proof needs that a statut which is not final is always held by a webhook on
  its way: `KeptInHand` gives the cases where a step leaves that alone,
  `HandKept` goes through the steps of a webhook, which only lets go of an
  event with its final statut. A crash lets go without one, and the property
  then promises nothing.

* Recoveries (`RecoveryInv`). What a sync has in hand was rebuilt under an id
  that no listed opportunity stands for (`SyncFits`), and is only there once the
  lists are read; of the rows that failed, those held without interruption since
  the recovery began have been carried over before `replace` (`Carries`). The
  other worker and the webhooks only change the table, never a sync's hands, and
  the table never holds a row of an absent opportunity (`RealRows`), else a
  failed read would carry over nothing.

Model-checked only: liveness, out of the prover's reach.

### Not modelled

The other resources (`_sync_ressource` treats them the same way), objectives,
the rebase of indicators (in `Indicators`), excluded opportunities, `approval_decided` events
(they only change their own row), the retries and the rate limiter of the
adapter (a call succeeds or fails), and a database that refuses a write of a
sync (the pass rolls back and the mirror stays).


## 5. The Odoo mirror: `OdooMirror`, `Views`, `OdooViews`

### State and code

| Variable | Code |
|---|---|
| `now`, `odoo`, `written` | the clock; Odoo itself: the version of each record, its `write_date` (external) |
| `rows`, `lines` | the mirror tables; `sale_order_lines` is replaced apart, by order |
| `mark` | `last_sync.json`; `NoMark` when it is missing or cannot be read |
| `pc`, `job` | each sync and each webhook: the section in hand, the watermark and start time it read, the records read and not yet written |
| `lost` | history, no code: the records left behind by the sync that asked for them |

A sync goes through the nine sections in the order of the code (`Steps`), each
`list` (what changed since the watermark), `lines` (orders only) and `write`
(one transaction), then `save` (the start time becomes the watermark). Sections
differ in what an exception does: two are optional, two are cut short by the
adapter without telling (`Lenient`: what pages of purchases it had, or no
supplier invoice), the others end the sync. Six lists are one call with a limit
(`Capped`): when more records are asked for than `Limit`, the list holds any
`Limit` of them and the sync goes on. One section is read whole every time, one
only by a full sync. A webhook reads records again by id, whatever their state,
or drops the row of an unlinked one. Faults: a call, a transaction, a page, a
crash, a watermark file cut short.

A record becomes `lost` when a sync asks for it and goes on without it while its
row is not current (cut list, missing page, optional section that raised), or
when a process writes an older version over its current row. It ceases to be
when it changes again or is written current.

`Views` states `v_commandes`, `v_sale_orders` and `v_lignes_commande` of
`db/views.py` over sets of rows, with amounts in half francs so that the 0.5
tolerance of the SQL is an integer.

### Properties

* `NothingMissed` – a record of a section read by date is current, or its
  `write_date` is not older than the watermark, or it is lost. The code does lose
  records, some for good; the property says that the ways of `lost` are the only
  ones, whatever fails, crashes, overlaps or comes by webhook.
* `ViewsAddUp` – whatever the mirror is left with, after a crash between an
  order and its lines for instance, the views hold one order per FP of nt360,
  worth what nt360 says, and its lines add up to that amount.
* `EventuallyMirrored` – once Odoo is left alone the mirror is current, but for
  the records lost.

### Run

`odoo`: an order with two versions that may be deleted, a second order, of the
excluded partner and older than the mirror, an opportunity, a purchase; one sync,
one webhook, one failure, one forced sync or notification, two instants. Two
instants are the least that distinguish "before the watermark" from "at the
watermark", where `>=` matters. A list holds one record at most, so a sync that
asks for both orders loses one: the excluded one takes the place of the other,
as in the code, which filters after the limit. The tables of nt360 given to the
views hold an order worth a little more than its lines, more than twice as much,
less than nothing and next to nothing, and an order Odoo lacks. Two overlapping
syncs make the instance much larger: the theorem covers them.

Fairness: the timers of the workers fire, and what was started goes on.
`MaxFails` bounds failures.

### Proofs

`OdooProofs` proves `TypeCorrect` and `WatermarkIsSafe == Spec =>
[]NothingMissed`, for any records, limits, sections, failures, and any number of
syncs and webhooks that overlap as they like. `NothingMissed` speaks of the saved
watermark only, so `Inv` says the same of what is on its way: of each running
sync, that the records it did not ask for and those it has passed are current,
have changed since its own watermark or start, or are lost, and that what it
holds was current or has changed since its start (`Sound`). That any other
process may write meanwhile is the work of `Keeps`: whatever a transaction or an
abandoned list does to the rows, a record that was accounted for remains so.

`ViewsAlwaysAddUp` proves `ViewsAddUp` with no premise but the assumption of
`OdooViews` (`ViewsAssumption`): finitely many orders, lines with an amount, and
an order's name is its own, which the views' header says of Odoo
(`views.py:8`); in the model an order keeps its name. `ViewsAddUp` follows from
the types alone, as it must hold in whatever state the mirror was left. The work
is in the sums: `Summing` is the recursive function behind the community
module's sum, shown to exist (`SummingIs`), not to depend on the order in which
elements are taken away (`SumWithout`), and to follow a renaming that multiplies
(`SumRenamed`), each by induction on the subsets of a finite set, which rests on
the least number of a set of naturals (`LeastNumber`). The lines of an FP are
then its order's lines renamed and multiplied by `cas` over the common
denominator `total`, or its lines as they are and a row for the rest
(`RowsAddUp`).

Only model-checked: `EventuallyMirrored`, liveness.

### Limits of the code

`run_odoo_sync` promises that a full or first sync "récupère tout"
(`odoo_sync_job.py:610`), and it does below the limits: 5000 clients, invoices,
orders and suppliers (lines 628, 654, 704, 824), 10000 supplier invoices (859),
500 projects (`odoo_adapter.py:271`). Above them the records left out are `lost`:
the watermark advances (1008) and no incremental sync asks for them again. The
code tells of the same fault in the purchases, since repaired by paging
(lines 786-788).

Besides the records `lost`, the code loses, until a full sync or for good: order
lines whose read failed (`_replace_order_lines` drops the lines it was given
nothing for, and the order is not read again); payment dates when their call
raised; projects past the limit, since only a full sync reads them; the deletion
of a record a sync had already read, which it writes back; a cancelled order
whose webhook was lost, which lists no longer return and which stays sold; the
lines of an unlinked order; the unlink of a supplier invoice, which nothing
handles.

A row is its version, which stands for the columns a sync writes again. The
others keep what the row was created with (`client_id`, `client_name`,
`currency`, `due_date`) or are filled in once (an invoice's date and name): lines
663-672, 747-759, 803-807. "Current" says nothing of these.

Not modelled: payment dates, currency rates, the columns of a row, the paging of
purchases and dossiers when Odoo changes between two pages, the limits of 10000
on the lines of 500 orders and on payments, Odoo's transactions that commit after
a later `write_date` was read. Clients, invoices, suppliers, projects and dossiers are
sections of the module and covered by the theorems, but not in TLC's instance:
they go through the same actions.


## 6. The passage to nt360: `Indicators`

### State and code

| Variable | Code |
|---|---|
| `orders`, `opps` | which system the views over orders and opportunities read now |
| `photos` | `pipeline_snapshots`: the system each day's photograph shows |
| `flux`, `pipe`, `measured` | `indicator_snapshots`, by day; the rows whose `origine` is `mesure` |
| `rebased`, `cut` | the markers `indicateurs_base.json` and `bascule_nt360.json` (its date) |
| `known` | `_CACHE_JOURS` of each worker |
| `pc`, `job`, `day` | syncs, night jobs, requests of an administrator; the date |

A value is the system it was computed from. Two indicators stand for all: `flux`
can be computed again for any day, `pipe` only from the photograph of its day.
The night job photographs, rebuilds the past the first time, then measures the
day. `reconstituer` rebuilds what was not measured. A sync reads orders and
opportunities, computes the history again in nt360's figures (`Wipe`, `Replay`,
`Mark`), and switches the photographs (`Switch`, `Clear`, `Date`): each once,
each step failing or crashing on its own, from either worker.

### Properties

* `OneBase` – once a passage is marked, no comparison crosses it: every flux
  comes from nt360, and so does every pipeline from the date on.
* `MeasuredKept` – a value measured on its day is never replaced on a later day,
  except by the rebase.
* `EventuallyPassed` – the syncs end up marking both passages.

### Run

`indicators`: two workers, a sync in each, a night job, an administrator's
request, two days, two night jobs or requests, one failure or crash. Two days
are the least with a past to rebuild; a second sync is what can meet the first
between two of its steps. `Apart` says that no measure or reconstitution runs
while a sync does; nothing in the code makes it so (nights are at 1:15, syncs
take minutes). Without it `OneBase` is false: a reconstitution computes a flux
from Odoo, a sync rebases and marks, the old value is then written. Both workers
run the night jobs; the instance has one.

Fairness: coroutines are scheduled and a sync is tried again every hour. No
fairness is assumed of night jobs or requests. Midnight does not fall inside a
night job or a request, which is a bound of the model.

### Proofs

`IndicatorsProofs` proves `TypeCorrect`, `PassageIsClean == Apart /\ Spec =>
[]OneBase` and `MeasuresStay == Apart /\ Spec => MeasuredKept`, for any number
of days, workers, syncs, nights, requests and failures. Types need `Timely`:
what a loop writes is not for a day to come. `OneBase` needs `Exclusive` (that
a sync and a measure exclude each other), `Passed` (once a passage is marked the
views read nt360) and `Sound`, what a task holds at each stage: a flux of Odoo is
in hand only while the views still read Odoo, and a sync that goes on to rebase
or to switch has made them read nt360.

### Limits of the code

A crash in `rebaser` between the deletion of the history
(`indicateurs.py:485-488`) and the first day written again leaves no history;
the next sync then writes the marker and nothing rebuilds it, since the night
job rebuilds only when the whole table is empty, while the docstring
(`indicateurs.py:506-512`) counts on it. A reconstitution that overlaps the
day's capture replaces the value just measured (`indicateurs.py:411-414` says it
never does), which is why `MeasuredKept` speaks of past days.

Not modelled: the figures themselves, the photographs of the backlog, the
comparisons shown.


## 7. Texts written by the model: `Narrations` and `TextStore`

### State and code

| Variable | Code |
|---|---|
| `rows` | `daily_analyses` (a slot is a section and a day) and `arbitrage_narrations` (a dossier and its empreinte) |
| `lock` | `_LOCKS` of each worker |
| `figures`, `today` | what the texts speak of; the date |
| `pc`, `job` | requests (`load`, `lock`, `draft`, `save`) and jobs (`gather`, `store`) |
| `called` | history variable: the slots a worker has had written |

A text is the figures it was written from and whether the model wrote it. The
model may fail at each call, and the fallback is then shown and not kept. A
request reads, takes the lock, reads again, drafts, saves, releases; `Slot` asks
the date at the save, as the code does. `generate_all` drafts every section and
saves them without a lock, then purges.

### Properties

* `StoreSpec` – `Narrations` implements `TextStore` (`INSTANCE TextStore WITH
  texts <- rows`): a slot only ever takes a text of the model, saved on the day
  of its slot or about the figures of its slot, and loses it only past its
  retention.
* `OneCallPerWorker` – a worker asks the model at most once for a text it kept.
* `AllEnd` – every request and job ends: no failure leaves a lock behind.

### Run

`texts`: a section, a dossier, two days, two states of the figures, no
retention (a text may go as soon as its day is past), two requests or jobs in a
worker and one in another, three starts. Two tasks in a worker meet at the lock,
the third is the other worker that the lock does not see.

Fairness: of the steps of a task. SQLite and the model answer or fail, and
`asyncio.Lock` serves its waiters in turn.

### Proofs

`NarrationsProofs` proves `TypeCorrect`, `CalledOnce == Spec =>
OneCallPerWorker` and `Refinement == Spec => StoreSpec`, for any number of
sections, dossiers, days, workers and tasks. `CalledOnce` needs that a task
between lock and save holds the lock, that nobody else does, and that a slot its
worker has had written still has its text or its day is past. `Refinement` needs
that a dossier's draft says the figures its task computed its slot from
(`Faithful`); then a save is a `Write`, a purge a `Drop`, midnight `Tomorrow`,
and everything else stutters.

### Limits of the code

A generation that straddles midnight is saved under the new day with the figures
of the eve, and a request begun before a refresh may overwrite the newer text,
as `generate_all` takes no lock: `TextStore` allows both.

Not modelled: what a text says, the prompts, the variants beyond being part of
a section's name.


## 8. The briefing: `Briefing`

### State and code

| Variable | Code |
|---|---|
| `file`, `readable` | `latest.json`: the version of each section; whether it can be parsed |
| `settings` | `briefing_preferences` and `briefing_seuils`: one version per role |
| `cached`, `cache` | the cache of settings of each worker, 30 s old at most |
| `locks` | `_REFRESH_LOCKS` of each worker |
| `pc`, `job` | the nightly generation, the requests of users |

A section is the version of the settings it was composed with. The file is
written whole: truncated at one step, filled at the next, with nothing of the
same worker in between, since `write_text` does not await. A role's request
builds the sections of the role and of its entities and puts them over the file
as it is when they are ready; an entity's request takes the lock of its key and
looks again first. Saving settings commits, then drops the cache of its worker
only.

### Properties

* `RequestsTakeTurns` – in one worker no two requests build a section at once,
  but for a refresh of a role with a request of one of its entities.
* `NoSectionLost` – a refresh of one role keeps the sections of the others,
  unless a section failed, a worker died, or two workers wrote the file at once.
* `EventuallyCurrent` – whatever a stale cache, a cut file or an older
  generation did, the nights repair it.

### Run

`briefing`: a role with an entity and a role without; the night in one worker,
two users in the other; one change of settings, two refreshes, one failed
section or crash. The night and the users in two workers make every overlap of
the file possible; two users in one worker make the lock matter. Both workers
run the midnight job in the deployment; the instance has one.

Fairness: coroutines are scheduled, midnight comes again (weak fairness of
`Generate`), caches expire.

### Proofs

`BriefingProofs` proves `TypeCorrect`, `TurnsTaken == Spec => []RequestsTakeTurns` and
`SectionsKept == Spec => NoSectionLost`, for any roles, entities, workers,
requests and failures; there must be a role and finitely many sections
(`ConstantsAssumption`). The types need that in one worker a single coroutine is
between the two halves of a write (`OneWriter`). `LockInv` says that a request
that builds is the holder of its lock, from its acquisition to its release.
`FileInv` is about the moments when the file is cut: some coroutine that is
writing holds all the sections the file had. The last to write is not always
that one, since a refresh that finds the file cut starts from nothing.

Only model-checked: `EventuallyCurrent`, liveness.

### Limits of the code

The lock is per key (`service.py:46`), and a refresh of the dg builds the sections
of its entities too (`service.py:194-205`) under the lock of `dg` alone: with a
GET of `dg@CI` (lock of `dg@CI`, `service.py:242`) the two build `dg@CI` at once,
and the last to save wins. A role refreshed while a whole generation runs is overwritten by the older
composition, until the next night. A refresh that reads the file while it is cut
writes its own sections only, until the next night. A cache filled by a read
that a save overtook is stale for 30 s at most. Two workers that write at once
are assumed not to mix their bytes.

Not modelled: the facts and the texts of a section, the catalogue of
preferences.


## 9. Accounts and rights: `Accounts`

### State and code

| Variable | Code |
|---|---|
| `users` | table `users`: role, activation; not created yet, deleted |
| `overrides` | table `module_permissions`, over `DEFAULT_MODULE_ACCESS` |
| `userCache`, `matrixCache` | `_user_cache` (60 s) and `_matrix_cache` (30 s) of each worker |
| `pc`, `job` | each request: authentication, its guards, its writes, its invalidation |
| `excused` | history variable: cache entries a change has overtaken |
| `raced` | history variable: an administrator was taken away while another request that takes rights away was past its count |

A request authenticates (cache or database), passes its guards, writes in a
transaction of its own and invalidates the cache of its worker. An UPDATE only
writes the columns that differ from what was loaded, as the ORM does, and fails
on a row that is gone.

### Properties

* `LastAdmin` – an active administrator remains, unless `raced`. Nothing but that
  race may take the last one: not an administrator who was demoted in one worker
  and deletes from the other, whose cache still knows the old role (the guard of
  the DELETE decides there), nor an account promoted between the load and the
  write of a request that found it harmless.
* `OwnChangesSeen` – a worker serves an old right only for a change made in the
  other worker, for a cache filled by a read the change overtook, or while the
  request that made the change has not yet invalidated.
* `EventuallyCurrent` – once the administrators stop, every worker applies what
  the database says, without a restart.

### Run

`accounts`: two accounts, one of them an administrator, the other an
administrator, an active user or not created; two views, one role, a request in
each worker, two administration requests of every kind, which may overlap. Two
are enough for u1 to demote u2 and for u2 to delete u1 meanwhile (the race) or
afterwards, with stale rights; to promote somebody and be deleted by them; to
have a role's last view refused or not.

Fairness: requests go on and caches expire.

### Proofs

`AccountsProofs` proves `TypeCorrect` and `AdministratorRemains == Spec =>
[]LastAdmin`, for any accounts, roles, views, workers and requests and with no
premise on their overlapping. `LastAdmin` is not inductive: `AdminInv` adds that,
as long as nothing raced, a request that is about to take rights away knows of
another administrator, because it counted one or because it had loaded an
account that was none. Another write can take that administrator away only
while this one is pending, and that is the race.

`OwnChangesAreSeen` proves `OwnChangesSeen`, with no premise. `CacheInv` says of
each entry why it may differ from the table: it is excused, or a request of that
worker is about to refresh or to forget it. A PATCH that finds the row deleted
leaves the entry as it is, so the invariant makes the DELETE answer for it.

Only model-checked: `EventuallyCurrent`, liveness.

### Limits of the code

The count of the other administrators and the write are two transactions
(`auth.py:561`): two administrators who demote each other at the same time leave
none, although the docstring (`auth.py:543`) says it is impossible; `LastAdmin`
excuses that and nothing else. The guard that keeps a role at least one view
reads the cached matrix (`auth.py:744`): with a stale one, the last view of a
role can be taken, which the docstring (`auth.py:720`) excludes.

Not modelled: the roles `user` and `viewer` of accounts older than the matrix,
which never read it (`permissions.py:60`); names, emails, passwords, the journal
`admin_audit`, `/login`.
