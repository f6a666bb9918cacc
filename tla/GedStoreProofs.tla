--------------------------- MODULE GedStoreProofs ---------------------------
(* What the stores, the rows and the quarantine of the document index hold *)
(* once nothing runs: first when passes on the same files overlap in one   *)
(* worker, then when every operation, removals and rebuilds included, runs *)
(* one at a time.                                                          *)
EXTENDS GedIndexProofs

-----------------------------------------------------------------------------
(* One worker and nothing but indexing passes, which may overlap: uploads, *)
(* edits of the shared folder, the watcher, the scan, reindexing with and  *)
(* without force, the retries of the quarantine.  No path gets a content   *)
(* it has had before.  The invariant follows the chunks of each document   *)
(* through the stages of the pass that writes them.                        *)

IndexingOnly ==
  /\ Ops \subseteq {"upload", "edit", "scan", "reindex", "force", "retry", "loss"}
  /\ FreshOnly
  /\ \E w : Workers = {w}

\* The stages that follow the hash, those that come before the row is
\* written, and those in which the document's chunks are being replaced.
Hashed       == Parsed \cup {"look", "parse"}
Unregistered == Hashed \ {"clear", "extract"}
Writing      == {"embed", "bm25", "save", "register", "clear", "extract"}

\* The documents of a path: its row's, and the one a pass of it is writing.
Uses(p, d) ==
  /\ d # 0
  /\ \/ registry[p].doc = d
     \/ \E t \in Tasks :
          pc[t] \in Writing /\ job[t].path = p /\ job[t].doc = d

InVec(d, c)  == \A s \in Targets : vec[s][d] = Exactly(c)
InBm25(d, c) == \A w \in Workers : bm25[w][d] = Exactly(c)

\* Coroutines are passes; the file of a pass exists.
Passing(t) ==
  /\ pc[t] \in Locked \cup {"idle", "wait"} /\ job[t].todo = {}
  /\ pc[t] # "idle" => disk[job[t].path] # 0

\* The hash is read before the text and no content comes back: a row's hash
\* is at most the hash of the pass, that is at most the text, and that is at
\* most what is on the disk.
HashRead(t) ==
  LET p == job[t].path IN
  /\ pc[t] \in Hashed => job[t].hash <= disk[p]
  /\ pc[t] \in Parsed => job[t].hash <= job[t].text /\ job[t].text <= disk[p]
  /\ pc[t] \in Unregistered => registry[p].hash <= job[t].hash

\* The row a pass read is the path's until the pass writes its own.
RowKnown(t) ==
  LET row == registry[job[t].path] IN
  /\ pc[t] \in Unregistered \ {"look"} => job[t].row = row
  /\ pc[t] \in Writing =>
       /\ job[t].doc # 0 /\ NChunks[job[t].text] # 0
       /\ row.doc \in {0, job[t].doc}
  /\ pc[t] \in {"clear", "extract"} =>
       row = [doc |-> job[t].doc, hash |-> job[t].hash,
              ids |-> NChunks[job[t].text], active |-> TRUE]

\* What the stores hold of the document that a pass is writing.
Stored(t) ==
  LET d == job[t].doc  c == job[t].text IN
  /\ pc[t] = "embed" => \A s \in Targets :
       vec[s][d] = IF s < job[t].k THEN Exactly(c) ELSE NoChunks
  /\ pc[t] \in {"embed", "bm25"} => \A w \in Workers : bm25[w][d] = NoChunks
  /\ pc[t] \in Writing \ {"embed"} => InVec(d, c)
  /\ pc[t] \in Writing \ {"embed", "bm25"} => InBm25(d, c)

PassFits(t) == Passing(t) /\ HashRead(t) /\ RowKnown(t) /\ Stored(t)

BeingWritten(p) == \E t \in Tasks : pc[t] \in Writing /\ job[t].path = p

RowFits(p) ==
  LET row == registry[p] IN
  /\ row.hash <= disk[p] /\ disk[p] <= version[p]
  /\ row.doc = 0 => row = NoRow
  /\ row.doc # 0 => row.active

\* A document nobody is writing: BM25 holds no id the row does not list, and
\* a row with the disk's hash vouches for all the stores.
Clean(p) ==
  LET row == registry[p] IN
  row.doc # 0 /\ ~BeingWritten(p) =>
    /\ \A w \in Workers : \A i \in Index :
         i > row.ids => bm25[w][row.doc][i] = 0
    /\ row.hash = disk[p] =>
         /\ InVec(row.doc, disk[p]) /\ InBm25(row.doc, disk[p])
         /\ NChunks[disk[p]] # 0

\* Two paths have no document in common, and a new doc id is nobody's.
DocsApart ==
  \A p \in Paths, d \in Docs : Uses(p, d) =>
    d <= nextDoc /\ \A q \in Paths : Uses(q, d) => p = q

Empty(d) ==
  /\ \A s \in Targets : vec[s][d] = NoChunks
  /\ \A w \in Workers : bm25[w][d] = NoChunks

\* The stores hold nothing of a document no path uses.
Held == \A d \in Docs : Empty(d) \/ \E p \in Paths : Uses(p, d)

Overlap ==
  /\ \A w \in Workers : gone[w] = {}
  /\ \A t \in Tasks : PassFits(t)
  /\ \A p \in Paths : RowFits(p) /\ Clean(p)
  /\ DocsApart /\ Held

\* The passes start from an empty index.
LEMMA InitOverlap == IndexingOnly /\ Init => Overlap
<1> SUFFICES ASSUME IndexingOnly, Init PROVE Overlap
  OBVIOUS
<1>1. \A t \in Tasks : PassFits(t)
  BY DEF Init, PassFits, Passing, HashRead, RowKnown, Stored, Locked, Hashed,
         Unregistered, Parsed, Writing, NoJob, NewJob
<1>2. \A p \in Paths, d \in Docs : ~Uses(p, d)
  BY DEF Init, Uses, NoRow, Writing
<1>3. \A p \in Paths : RowFits(p) /\ Clean(p)
  BY ConstantsAssumption DEF Init, RowFits, Clean, NoRow
<1>4. Held
  BY DEF Init, Held, Empty
<1> QED BY <1>1, <1>2, <1>3, <1>4 DEF Overlap, DocsApart, Init

\* All coroutines live in the one worker.
LEMMA OneProcess ==
  ASSUME IndexingOnly
  PROVE  SingleWorker /\ \A t \in Tasks : Workers = {WorkerOf[t]}
BY ConstantsAssumption DEF IndexingOnly, SingleWorker

\* What the variables of a pass range over.
LEMMA PassTypes ==
  ASSUME TypeInv, NEW t \in Tasks, pc[t] \in Locked
  PROVE  /\ job[t].path \in Paths /\ registry[job[t].path] \in Rows
         /\ disk[job[t].path] \in Nat /\ job[t].hash \in Nat
         /\ job[t].text \in Nat /\ job[t].doc \in 0..MaxDocs
         /\ job[t].k \in Nat /\ job[t].row \in Rows
         /\ pc[t] \in Parsed => job[t].text \in Contents
         /\ pc[t] = "embed" => job[t].k \in Targets
<1>1. job[t] \in Jobs /\ JobFits(pc[t], job[t])
  BY DEF TypeInv, TypeOK
<1>2. job[t].path \in Paths
  BY <1>1 DEF JobFits, OnPath
<1> QED BY <1>1, <1>2, ConstantsAssumption
        DEF Jobs, JobFits, TypeInv, TypeOK, Targets, Contents

-----------------------------------------------------------------------------
(* Steps that touch neither the stores nor the rows.                       *)

Kept(u)  == pc'[u] = pc[u] /\ job'[u] = job[u]
Moved(u) ==
  /\ PassFits(u)'
  /\ pc[u] \in Writing <=> pc'[u] \in Writing
  /\ pc[u] \in Writing =>
       job'[u].path = job[u].path /\ job'[u].doc = job[u].doc

DiskGrows ==
  \A p \in Paths : disk[p] <= disk'[p] /\ disk'[p] <= version'[p]

\* Contents only grow and the stores stay: the invariant is kept if the
\* coroutines that moved did so within the lines of their pass.
LEMMA PlainStep ==
  ASSUME TypeInv, TypeInv', Overlap,
         UNCHANGED <<registry, vec, bm25, kb, gone, nextDoc>>,
         DiskGrows, \A u \in Tasks : Kept(u) \/ Moved(u)
  PROVE  Overlap'
<1>0. \A p \in Paths : disk[p] \in Nat /\ disk'[p] \in Nat
                       /\ registry[p] \in Rows
  BY ConstantsAssumption DEF TypeInv, TypeOK
<1>1. ASSUME NEW u \in Tasks, Kept(u) PROVE PassFits(u)'
  <2>1. CASE pc[u] = "idle"
    BY <1>1, <2>1 DEF Kept, Overlap, PassFits, Passing, HashRead, RowKnown,
       Stored, Hashed, Unregistered, Parsed, Writing, Locked
  <2>2. CASE pc[u] # "idle"
    <3>1. job[u].path \in Paths
      BY <2>2 DEF Overlap, PassFits, Passing, TypeInv, JobFits, OnPath
    <3>2. Passing(u)'
      BY <1>0, <1>1, <2>2, <3>1 DEF Kept, Overlap, PassFits, Passing, DiskGrows
    <3>3. HashRead(u)'
      <4>1. job[u] \in Jobs
        BY DEF TypeInv, TypeOK
      <4>2. job[u].hash \in Nat /\ job[u].text \in Nat
        BY <4>1, ConstantsAssumption DEF Jobs
      <4> QED BY <1>0, <1>1, <3>1, <4>2
              DEF Kept, Overlap, PassFits, HashRead, DiskGrows
    <3>4. RowKnown(u)' /\ Stored(u)'
      BY <1>1 DEF Kept, Overlap, PassFits, RowKnown, Stored, InVec, InBm25
    <3> QED BY <3>2, <3>3, <3>4 DEF PassFits
  <2> QED BY <2>1, <2>2
<1>2. \A u \in Tasks :
        /\ (pc[u] \in Writing)' <=> pc[u] \in Writing
        /\ pc[u] \in Writing =>
             job'[u].path = job[u].path /\ job'[u].doc = job[u].doc
  BY DEF Kept, Moved
<1>3. \A p \in Paths, d \in Docs : Uses(p, d)' <=> Uses(p, d)
  BY <1>2 DEF Uses
<1>4. \A p \in Paths : BeingWritten(p)' <=> BeingWritten(p)
  BY <1>2 DEF BeingWritten
<1>5. ASSUME NEW p \in Paths PROVE RowFits(p)' /\ Clean(p)'
  <2>1. registry[p].hash \in Nat
    BY <1>0, ConstantsAssumption DEF Rows
  <2>2. RowFits(p) /\ Clean(p)
    BY DEF Overlap
  <2>3. RowFits(p)'
    BY <1>0, <2>1, <2>2 DEF RowFits, DiskGrows
  <2>4. registry[p].hash = disk'[p] => disk'[p] = disk[p]
    BY <1>0, <2>1, <2>2 DEF RowFits, DiskGrows
  <2>5. Clean(p)'
    BY <1>4, <2>2, <2>4 DEF Clean, InVec, InBm25
  <2> QED BY <2>3, <2>5
<1>6. DocsApart'
  BY <1>3 DEF Overlap, DocsApart
<1>7. Held'
  BY <1>3 DEF Overlap, Held, Empty
<1> QED BY <1>1, <1>5, <1>6, <1>7 DEF Overlap, Moved

-----------------------------------------------------------------------------
(* Steps of a pass that change its own document or its own row.            *)

\* Documents other than d keep their chunks.
OthersKept(d) ==
  \A e \in Docs \ {d} :
    /\ \A s \in Targets : vec'[s][e] = vec[s][e]
    /\ \A w \in Workers : bm25'[w][e] = bm25[w][e]
    /\ kb'[e] = kb[e]

\* Two passes that hold a lock have different paths.
LEMMA OthersPath ==
  ASSUME IndexingOnly, LockInv, NEW t \in Tasks, NEW u \in Tasks, t # u,
         pc[t] \in Locked, pc[u] \in Locked
  PROVE  job[t].path # job[u].path
BY OneProcess, OnePass

\* A pass of path p works on document d, which no other path uses: what is
\* left to show is that p and d are right afterwards.
LEMMA OwnStep ==
  ASSUME IndexingOnly, TypeInv, TypeInv', LockInv, Overlap,
         NEW t \in Tasks, NEW p \in Paths, NEW d, pc[t] \in Locked,
         job[t].path = p, pc'[t] \in Writing => job'[t].path = p,
         Alone(t), UNCHANGED <<disk, version, gone>>, OthersKept(d),
         \A q \in Paths \ {p} : registry'[q] = registry[q] /\ ~Uses(q, d),
         \A e \in Docs : Uses(p, e) \/ Uses(p, e)' => e = d,
         d \in Docs => Uses(p, d)' \/ Empty(d)',
         d \in Docs /\ Uses(p, d)' => d <= nextDoc', nextDoc <= nextDoc',
         PassFits(t)', RowFits(p)', Clean(p)'
  PROVE  Overlap'
<1>1. ASSUME NEW u \in Tasks \ {t} PROVE PassFits(u)'
  <2>0. pc'[u] = pc[u] /\ job'[u] = job[u] /\ PassFits(u)
    BY DEF Alone, Overlap
  <2>1. CASE pc[u] \notin Locked
    <3>1. pc[u] \notin Hashed
      BY <2>1 DEF Locked, Hashed, Parsed
    <3> QED BY <2>0, <2>1, <3>1
            DEF PassFits, Passing, HashRead, RowKnown, Stored, Unregistered,
                Hashed, Parsed, Writing
  <2>2. CASE pc[u] \in Locked
    <3>1. job[u].path \in Paths \ {p} /\ job[u].doc \in 0..MaxDocs
      BY <2>2, OthersPath, PassTypes
    <3>2. registry'[job[u].path] = registry[job[u].path]
      BY <3>1
    <3>3. pc[u] \in Writing => job[u].doc \in Docs \ {d}
      <4> SUFFICES ASSUME pc[u] \in Writing PROVE job[u].doc \in Docs \ {d}
        OBVIOUS
      <4>1. job[u].doc # 0
        BY <2>0 DEF PassFits, RowKnown
      <4>2. Uses(job[u].path, job[u].doc)
        BY <4>1 DEF Uses
      <4>3. job[u].doc \in Docs
        BY <3>1, <4>1, ConstantsAssumption DEF Docs
      <4> QED BY <3>1, <4>2, <4>3
    <3>4. Stored(u)'
      BY <2>0, <3>3 DEF PassFits, Stored, OthersKept, InVec, InBm25, Writing
    <3> QED BY <2>0, <3>2, <3>4 DEF PassFits, Passing, HashRead, RowKnown
  <2> QED BY <2>1, <2>2
<1>2. \A q \in Paths \ {p} : \A e \in Docs : Uses(q, e)' <=> Uses(q, e)
  BY DEF Uses, Alone
<1>3. \A q \in Paths \ {p} : BeingWritten(q)' <=> BeingWritten(q)
  BY DEF BeingWritten, Alone
<1>4. ASSUME NEW q \in Paths \ {p} PROVE RowFits(q)' /\ Clean(q)'
  <2>1. registry'[q] = registry[q] /\ RowFits(q) /\ Clean(q)
    BY DEF Overlap
  <2>2. registry[q].doc # 0 => registry[q].doc \in Docs \ {d}
    <3> SUFFICES ASSUME registry[q].doc # 0 PROVE registry[q].doc \in Docs \ {d}
      OBVIOUS
    <3>1. registry[q].doc \in 0..MaxDocs
      BY DEF TypeInv, TypeOK, Rows
    <3>2. Uses(q, registry[q].doc)
      BY DEF Uses
    <3> QED BY <3>1, <3>2, ConstantsAssumption DEF Docs
  <2> QED BY <1>3, <2>1, <2>2 DEF RowFits, Clean, OthersKept, InVec, InBm25
<1>5. DocsApart'
  <2> SUFFICES ASSUME NEW q \in Paths, NEW e \in Docs, Uses(q, e)'
               PROVE  e <= nextDoc' /\ \A r \in Paths : Uses(r, e)' => q = r
    BY DEF DocsApart
  <2>1. CASE e = d
    BY <1>2, <2>1
  <2>2. CASE e # d
    <3>1. q # p /\ Uses(q, e)
      BY <1>2, <2>2
    <3>2. e <= nextDoc /\ \A r \in Paths : Uses(r, e) => q = r
      BY <3>1 DEF Overlap, DocsApart
    <3>3. e <= nextDoc'
      BY <3>2 DEF Docs, TypeInv, TypeOK
    <3> QED BY <1>2, <2>2, <3>2, <3>3
  <2> QED BY <2>1, <2>2
<1>6. Held'
  <2> SUFFICES ASSUME NEW e \in Docs
               PROVE  Empty(e)' \/ \E q \in Paths : Uses(q, e)'
    BY DEF Held
  <2>1. CASE e # d
    <3>1. Empty(e)' <=> Empty(e)
      BY <2>1 DEF Empty, OthersKept
    <3> QED BY <1>2, <2>1, <3>1 DEF Overlap, Held
  <2>2. CASE e = d
    BY <2>2
  <2> QED BY <2>1, <2>2
<1> QED BY <1>1, <1>4, <1>5, <1>6 DEF Overlap

\* The document a pass is writing is its path's only one, and nobody else's.
LEMMA OwnDoc ==
  ASSUME IndexingOnly, TypeInv, LockInv, Overlap, NEW t \in Tasks,
         pc[t] \in Writing
  PROVE  LET p == job[t].path  d == job[t].doc IN
         /\ p \in Paths /\ d \in Docs /\ d <= nextDoc
         /\ \A e \in Docs : Uses(p, e) <=> e = d
         /\ \A q \in Paths \ {p} : ~Uses(q, d)
<1> DEFINE p == job[t].path
           d == job[t].doc
<1>1. pc[t] \in Locked /\ PassFits(t)
  BY DEF Writing, Locked, Overlap
<1>2. p \in Paths /\ d \in 0..MaxDocs /\ d # 0
  BY <1>1, PassTypes DEF PassFits, RowKnown
<1>3. d \in Docs /\ Uses(p, d)
  BY <1>2, ConstantsAssumption DEF Docs, Uses
<1>4. d <= nextDoc /\ \A q \in Paths : Uses(q, d) => p = q
  BY <1>2, <1>3 DEF Overlap, DocsApart
<1>5. ASSUME NEW e \in Docs, Uses(p, e) PROVE e = d
  <2>1. CASE registry[p].doc = e
    BY <1>1, <2>1, <1>5 DEF PassFits, RowKnown, Uses
  <2>2. ASSUME NEW u \in Tasks, pc[u] \in Writing, job[u].path = p,
               job[u].doc = e
        PROVE  e = d
    <3>1. pc[u] \in Locked
      BY <2>2 DEF Writing, Locked
    <3> QED BY <1>1, <2>2, <3>1, OthersPath
  <2> QED BY <1>5, <2>1, <2>2 DEF Uses
<1> QED BY <1>2, <1>3, <1>4, <1>5

-----------------------------------------------------------------------------
(* The steps of the passes.                                                *)

\* A pass that ends has nothing queued behind it.
LEMMA PassEnds ==
  ASSUME TypeInv, Overlap, NEW t \in Tasks, End(t)
  PROVE  /\ Alone(t) /\ pc'[t] = "idle" /\ job'[t] = NoJob
         /\ PassFits(t)'
<1>1. job[t].todo = {}
  BY DEF Overlap, PassFits, Passing
<1>2. Alone(t) /\ pc'[t] = "idle" /\ job'[t] = NoJob
  BY <1>1, GotoMoves DEF End
<1> QED BY <1>2 DEF PassFits, Passing, HashRead, RowKnown, Stored, Hashed,
        Unregistered, Parsed, Writing, Locked, NoJob, NewJob

\* One coroutine moves, the disk stays as it is.
LEMMA PlainMove ==
  ASSUME TypeInv, TypeInv', Overlap, NEW t \in Tasks, Alone(t), Moved(t),
         UNCHANGED <<disk, version, registry, vec, bm25, kb, gone, nextDoc>>
  PROVE  Overlap'
<1>1. DiskGrows
  BY ConstantsAssumption DEF DiskGrows, Overlap, RowFits, TypeInv, TypeOK
<1>2. \A u \in Tasks : Kept(u) \/ Moved(u)
  BY DEF Alone, Kept
<1> QED BY <1>1, <1>2, PlainStep

\* The steps before the stores are touched, and those that only save or clear.
LEMMA PlainPass ==
  ASSUME IndexingOnly, TypeInv, TypeInv', LockInv, Overlap, NEW t \in Tasks,
         \/ AcquireLock(t) \/ HashFile(t) \/ LookUp(t) \/ ParseAndValidate(t)
         \/ Reject(t) \/ SaveBm25(t) \/ ClearQuarantine(t)
  PROVE  Overlap'
<1> DEFINE p == job[t].path
<1>0. /\ PassFits(t)
      /\ UNCHANGED <<disk, version, registry, vec, bm25, kb, gone, nextDoc>>
  BY DEF Overlap, diskVars, indexVars, kbVars, watchVars, AcquireLock, HashFile, LookUp,
         ParseAndValidate, Reject, SaveBm25, ClearQuarantine
<1>00. ASSUME End(t), pc[t] \notin Writing PROVE Overlap'
  <2>1. Alone(t) /\ Moved(t)
    BY <1>00, PassEnds DEF Moved, Writing
  <2> QED BY <1>0, <2>1, PlainMove
<1>1. CASE AcquireLock(t)
  <2>1. Alone(t) /\ pc[t] = "wait" /\ pc'[t] = "hash" /\ job'[t] = job[t]
    BY <1>1, GotoStays DEF AcquireLock
  <2>2. Moved(t)
    BY <1>0, <2>1 DEF Moved, PassFits, Passing, HashRead, RowKnown, Stored,
       Hashed, Unregistered, Parsed, Writing, Locked
  <2> QED BY <1>0, <2>1, <2>2, PlainMove
<1>2. CASE HashFile(t)
  <2>1. /\ Alone(t) /\ pc[t] = "hash" /\ pc'[t] = "look"
        /\ job'[t].path = p /\ job'[t].hash = disk[p] /\ job'[t].todo = {}
    BY <1>0, <1>2 DEF HashFile, Goto, Alone, TypeInv, TypeOK, Jobs, PassFits,
       Passing
  <2>2. p \in Paths /\ disk[p] \in Nat /\ registry[p].hash <= disk[p]
    BY <2>1, PassTypes DEF Overlap, RowFits, Locked
  <2>3. Moved(t)
    BY <1>0, <2>1, <2>2 DEF Moved, PassFits, Passing, HashRead, RowKnown,
       Stored, Hashed, Unregistered, Parsed, Writing, Locked
  <2> QED BY <1>0, <2>1, <2>3, PlainMove
<1>3. CASE LookUp(t)
  <2>1. CASE End(t)
    BY <1>00, <1>3, <2>1 DEF LookUp, Writing
  <2>2. CASE /\ job' = [job EXCEPT ![t].row = registry[job[t].path]]
             /\ Goto(t, "parse")
    <3>1. /\ Alone(t) /\ pc[t] = "look" /\ pc'[t] = "parse"
          /\ job'[t].path = p /\ job'[t].hash = job[t].hash
          /\ job'[t].todo = job[t].todo /\ job'[t].row = registry[p]
      BY <1>3, <2>2 DEF LookUp, Goto, Alone, TypeInv, TypeOK, Jobs
    <3>2. Moved(t)
      BY <1>0, <3>1 DEF Moved, PassFits, Passing, HashRead, RowKnown,
         Stored, Hashed, Unregistered, Parsed, Writing, Locked
    <3> QED BY <1>0, <3>1, <3>2, PlainMove
  <2> QED BY <1>3, <2>1, <2>2 DEF LookUp
<1>4. CASE ParseAndValidate(t)
  <2>1. /\ Alone(t) /\ pc[t] = "parse" /\ pc'[t] \in {"purge", "reject"}
        /\ job'[t].path = p /\ job'[t].hash = job[t].hash
        /\ job'[t].todo = job[t].todo /\ job'[t].row = job[t].row
        /\ job'[t].text = disk[p]
    BY <1>4 DEF ParseAndValidate, Goto, Alone, TypeInv, TypeOK, Jobs
  <2>2. p \in Paths /\ disk[p] \in Nat
    BY <2>1, PassTypes DEF Locked
  <2>3. Moved(t)
    BY <1>0, <2>1, <2>2 DEF Moved, PassFits, Passing, HashRead, RowKnown,
       Stored, Hashed, Unregistered, Parsed, Writing, Locked
  <2> QED BY <1>0, <2>1, <2>3, PlainMove
<1>5. CASE Reject(t)
  BY <1>00, <1>5 DEF Reject, Writing
<1>6. CASE SaveBm25(t)
  <2>1. /\ Alone(t) /\ pc[t] = "save" /\ pc'[t] = "register"
        /\ job'[t] = job[t]
    BY <1>0, <1>6, GotoStays DEF SaveBm25, PassFits, Passing, Locked
  <2>2. Moved(t)
    BY <1>0, <2>1 DEF Moved, PassFits, Passing, HashRead, RowKnown, Stored,
       Hashed, Unregistered, Parsed, Writing, Locked, InVec, InBm25
  <2> QED BY <1>0, <2>1, <2>2, PlainMove
<1>7. CASE ClearQuarantine(t)
  <2>1. /\ Alone(t) /\ pc[t] = "clear" /\ pc'[t] = "extract"
        /\ job'[t] = job[t]
    BY <1>7, GotoStays DEF ClearQuarantine
  <2>2. Moved(t)
    BY <1>0, <2>1 DEF Moved, PassFits, Passing, HashRead, RowKnown, Stored,
       Hashed, Unregistered, Parsed, Writing, Locked, InVec, InBm25
  <2> QED BY <1>0, <2>1, <2>2, PlainMove
<1> QED BY <1>1, <1>2, <1>3, <1>4, <1>5, <1>6, <1>7

\* Writing a content over no chunks leaves exactly its chunks; removing the
\* ids a row lists leaves nothing if there is nothing beyond them.
LEMMA ChunkOperators ==
  /\ NoChunks \in Chunks
  /\ \A c \in Contents :
       /\ Exactly(c) \in Chunks
       /\ Upserted(NoChunks, c) = Exactly(c) /\ Added(NoChunks, c) = Exactly(c)
  /\ \A f \in Chunks, n \in Nat :
       (\A i \in Index : i > n => f[i] = 0) => Removed(f, n) = NoChunks
<1>1. ASSUME NEW c \in Contents
      PROVE  /\ Exactly(c) \in Chunks
             /\ Upserted(NoChunks, c) = Exactly(c)
             /\ Added(NoChunks, c) = Exactly(c)
  BY ConstantsAssumption DEF Exactly, Upserted, Added, NoChunks, Chunks, Contents
<1>2. ASSUME NEW f \in Chunks, NEW n \in Nat, \A i \in Index : i > n => f[i] = 0
      PROVE  Removed(f, n) = NoChunks
  <2>1. \A i \in Index : (IF i <= n THEN 0 ELSE f[i]) = 0
    BY <1>2 DEF Index
  <2> QED BY <2>1 DEF Removed, NoChunks
<1>3. NoChunks \in Chunks
  BY ConstantsAssumption DEF NoChunks, Chunks
<1> QED BY <1>1, <1>2, <1>3

\* Before a pass writes, its path has the row's document and no other.
LEMMA RowDoc ==
  ASSUME IndexingOnly, TypeInv, LockInv, Overlap, NEW t \in Tasks,
         pc[t] = "purge"
  PROVE  LET p == job[t].path  row == job[t].row IN
         /\ p \in Paths /\ row = registry[p] /\ row \in Rows
         /\ ~BeingWritten(p)
         /\ \A e \in Docs : Uses(p, e) <=> e = row.doc
         /\ \A q \in Paths \ {p} : ~Uses(q, row.doc)
         /\ row.doc # 0 => row.doc \in Docs
<1> DEFINE p == job[t].path
           row == job[t].row
<1>1. pc[t] \in Locked /\ pc[t] \notin Writing
  BY DEF Locked, Writing
<1>2. p \in Paths /\ row = registry[p] /\ row \in Rows
  BY <1>1, PassTypes
  DEF Overlap, PassFits, RowKnown, Unregistered, Hashed, Parsed
<1>3. ASSUME NEW u \in Tasks, pc[u] \in Writing, job[u].path = p PROVE FALSE
  <2>1. pc[u] \in Locked
    BY <1>3 DEF Writing, Locked
  <2> QED BY <1>1, <1>3, <2>1, OthersPath
<1>4. ~BeingWritten(p)
  BY <1>3 DEF BeingWritten
<1>5. ASSUME NEW e \in Docs PROVE Uses(p, e) <=> e = row.doc
  BY <1>2, <1>3, ConstantsAssumption DEF Uses, Docs
<1>6. row.doc # 0 => row.doc \in Docs
  BY <1>2, ConstantsAssumption DEF Rows, Docs
<1>7. ASSUME NEW q \in Paths \ {p}, Uses(q, row.doc) PROVE FALSE
  <2>1. row.doc \in Docs
    BY <1>6, <1>7 DEF Uses
  <2> QED BY <1>2, <1>5, <1>7, <2>1 DEF Overlap, DocsApart
<1> QED BY <1>2, <1>4, <1>5, <1>6, <1>7

\* DeleteChunks leaves nothing of a document whose row lists all its ids.
LEMMA DeletesAll ==
  ASSUME TypeInv, \E w : Workers = {w}, NEW t \in Tasks, NEW row \in Rows,
         row.doc \in Docs, DeleteChunks(WorkerOf[t], row), UNCHANGED kb,
         \A w \in Workers : \A i \in Index :
           i > row.ids => bm25[w][row.doc][i] = 0
  PROVE  OthersKept(row.doc) /\ Empty(row.doc)'
<1> DEFINE w == WorkerOf[t]
<1>1. Workers = {w}
  BY ConstantsAssumption
<1>2. /\ vec' = [s \in Targets |-> [vec[s] EXCEPT ![row.doc] = NoChunks]]
      /\ bm25' = [bm25 EXCEPT ![w][row.doc] =
                    Removed(bm25[w][row.doc], row.ids)]
  BY <1>1 DEF DeleteChunks, TypeInv, TypeOK
<1>3. Removed(bm25[w][row.doc], row.ids) = NoChunks
  <2>1. bm25 \in [Workers -> [Docs -> Chunks]] /\ w \in Workers
    BY <1>1 DEF TypeInv, TypeOK
  <2>2. bm25[w][row.doc] \in Chunks
    BY <2>1
  <2>3. row.ids \in Nat
    BY ConstantsAssumption DEF Rows
  <2> QED BY <2>1, <2>2, <2>3, ChunkOperators
<1>4. bm25' = [bm25 EXCEPT ![w][row.doc] = NoChunks]
  BY <1>2, <1>3
<1>5. /\ \A s \in Targets, e \in Docs :
           vec'[s][e] = IF e = row.doc THEN NoChunks ELSE vec[s][e]
      /\ \A v \in Workers, e \in Docs :
           bm25'[v][e] = IF e = row.doc THEN NoChunks ELSE bm25[v][e]
  <2>1. vec \in [Targets -> [Docs -> Chunks]]
        /\ bm25 \in [Workers -> [Docs -> Chunks]]
    BY DEF TypeInv, TypeOK
  <2>2. ASSUME NEW s \in Targets, NEW e \in Docs
        PROVE  vec'[s][e] = IF e = row.doc THEN NoChunks ELSE vec[s][e]
    BY <1>2, <2>1
  <2>3. ASSUME NEW v \in Workers, NEW e \in Docs
        PROVE  bm25'[v][e] = IF e = row.doc THEN NoChunks ELSE bm25[v][e]
    BY <1>1, <1>4, <2>1
  <2> QED BY <2>2, <2>3
<1>6. OthersKept(row.doc)
  BY <1>5 DEF OthersKept
<1>7. Empty(row.doc)'
  BY <1>5 DEF Empty
<1> QED BY <1>6, <1>7

\* The old document's chunks are gone once DropOldChunks has run.
LEMMA Dropped ==
  ASSUME IndexingOnly, TypeInv, LockInv, Overlap, NEW t \in Tasks,
         DropOldChunks(t)
  PROVE  LET row == job[t].row IN
         /\ OthersKept(row.doc)
         /\ \A d \in Docs : d = row.doc => Empty(d)'
         /\ row.doc = 0 => UNCHANGED <<vec, bm25>>
<1>1. pc[t] = "purge" /\ UNCHANGED kb
  BY DEF kbVars, DropOldChunks
<1>2. PICK row \in Rows : row = job[t].row /\ row = registry[job[t].path]
  BY <1>1, RowDoc
<1>3. CASE row.doc = 0
  BY <1>1, <1>2, <1>3 DEF DropOldChunks, OthersKept, Docs
<1>4. CASE row.doc # 0
  <2>1. row.doc \in Docs /\ job[t].path \in Paths /\ ~BeingWritten(job[t].path)
    BY <1>1, <1>2, <1>4, RowDoc
  <2>2. DeleteChunks(WorkerOf[t], row)
    BY <1>2, <1>4 DEF DropOldChunks
  <2>3. \A w \in Workers : \A i \in Index :
          i > row.ids => bm25[w][row.doc][i] = 0
    BY <1>2, <1>4, <2>1 DEF Overlap, Clean
  <2> QED BY <1>1, <1>2, <1>4, <2>1, <2>2, <2>3, DeletesAll DEF IndexingOnly
<1> QED BY <1>3, <1>4

\* A text without a chunk: the pass ends with the old chunks gone.  The row
\* that is left names an older content, as that one had chunks.
LEMMA NothingToIndex ==
  ASSUME IndexingOnly, TypeInv, TypeInv', LockInv, Overlap, NEW t \in Tasks,
         DropOldChunks(t), NChunks[job[t].text] = 0, End(t), UNCHANGED nextDoc
  PROVE  Overlap'
<1>1. PICK p \in Paths, row \in Rows :
        /\ p = job[t].path /\ row = job[t].row /\ row = registry[p]
  BY RowDoc DEF DropOldChunks
<1>2. pc[t] = "purge" /\ PassFits(t) /\ Clean(p) /\ RowFits(p)
      /\ UNCHANGED <<disk, version, registry, kb, gone>>
  BY <1>1 DEF kbVars, DropOldChunks, Overlap, diskVars, watchVars
<1>3. Alone(t) /\ pc'[t] = "idle" /\ PassFits(t)' /\ pc[t] \in Locked
  BY <1>2, PassEnds DEF Locked
<1>4. /\ ~BeingWritten(p) /\ \A e \in Docs : Uses(p, e) <=> e = row.doc
      /\ \A q \in Paths \ {p} : ~Uses(q, row.doc)
  BY <1>1, <1>2, RowDoc
<1>5. OthersKept(row.doc) /\ \A d \in Docs : d = row.doc => Empty(d)'
  BY <1>1, Dropped
<1>6. \A e \in Docs : Uses(p, e)' => e = row.doc
  <2> SUFFICES ASSUME NEW e \in Docs, Uses(p, e)' PROVE Uses(p, e)
    BY <1>4
  <2> QED BY <1>2, <1>3 DEF Uses, Alone, Writing
<1>7. RowFits(p)'
  BY <1>2 DEF RowFits
<1>8. Clean(p)'
  <2> SUFFICES ASSUME row.doc # 0
               PROVE  /\ \A w \in Workers : \A i \in Index :
                           i > row.ids => bm25'[w][row.doc][i] = 0
                      /\ row.hash # disk[p]
    BY <1>1, <1>2 DEF Clean
  <2>1. row.doc \in Docs
    BY ConstantsAssumption DEF Docs, Rows
  <2>2. \A w \in Workers : bm25'[w][row.doc] = NoChunks
    BY <1>5, <2>1 DEF Empty
  <2>3. ASSUME row.hash = disk[p] PROVE FALSE
    <3>1. NChunks[disk[p]] # 0
      BY <1>1, <1>2, <1>4, <2>3 DEF Clean
    <3>2. row.hash <= job[t].hash /\ job[t].hash <= job[t].text
          /\ job[t].text <= disk[p]
      BY <1>1, <1>2
      DEF PassFits, HashRead, Unregistered, Hashed, Parsed
    <3>3. disk[p] = job[t].text
      BY <1>1, <1>3, <2>3, <3>2, PassTypes
    <3> QED BY <3>1, <3>3
  <2> QED BY <2>2, <2>3 DEF NoChunks
<1>9. nextDoc <= nextDoc' /\ \A d \in Docs : Uses(p, d)' => d <= nextDoc'
  <2>1. nextDoc \in Nat
    BY DEF TypeInv, TypeOK
  <2>2. \A d \in Docs : Uses(p, d) => d <= nextDoc
    BY DEF Overlap, DocsApart
  <2> QED BY <1>4, <1>6, <2>1, <2>2
<1> QED
  BY <1>1, <1>2, <1>3, <1>4, <1>5, <1>6, <1>7, <1>8, <1>9, OwnStep
  DEF Writing

\* Otherwise the pass takes the old document or a new one, which holds
\* nothing, and writes it.
LEMMA StartsWriting ==
  ASSUME IndexingOnly, TypeInv, TypeInv', LockInv, Overlap, NEW t \in Tasks,
         DropOldChunks(t), NChunks[job[t].text] # 0,
         job' = [job EXCEPT ![t].doc = DocIdFor(job[t].row)],
         Goto(t, "embed"), DocIdFor(job[t].row) <= MaxDocs,
         nextDoc' = IF DocIdFor(job[t].row) > nextDoc
                    THEN DocIdFor(job[t].row) ELSE nextDoc
  PROVE  Overlap'
<1>1. PICK p \in Paths, row \in Rows :
        /\ p = job[t].path /\ row = job[t].row /\ row = registry[p]
  BY RowDoc DEF DropOldChunks
<1>2. pc[t] = "purge" /\ PassFits(t) /\ RowFits(p) /\ pc[t] \in Locked
      /\ UNCHANGED <<disk, version, registry, kb, gone>>
  BY <1>1 DEF kbVars, DropOldChunks, Overlap, diskVars, watchVars, Locked
<1>3. nextDoc \in Nat /\ MaxDocs \in Nat
  BY ConstantsAssumption DEF TypeInv, TypeOK
<1>4. PICK d \in Docs : d = DocIdFor(row)
  BY <1>1, <1>3 DEF DocIdFor, Docs, Rows
<1>5. /\ Alone(t) /\ pc'[t] = "embed" /\ job'[t].path = p
      /\ job'[t].hash = job[t].hash /\ job'[t].text = job[t].text
      /\ job'[t].todo = job[t].todo /\ job'[t].row = row
      /\ job'[t].k = job[t].k /\ job'[t].doc = d
  <2>1. job' = [job EXCEPT ![t].doc = d]
    BY <1>1, <1>4
  <2>2. job[t] \in Jobs /\ job \in [Tasks -> Jobs]
    BY DEF TypeInv, TypeOK
  <2>3. job'[t] = [job[t] EXCEPT !.doc = d]
        /\ \A u \in Tasks \ {t} : job'[u] = job[u]
    BY <2>1, <2>2
  <2>4. pc'[t] = "embed" /\ \A u \in Tasks \ {t} : pc'[u] = pc[u]
    BY DEF Goto, TypeInv, TypeOK
  <2>5. /\ job'[t].path = job[t].path /\ job'[t].hash = job[t].hash
        /\ job'[t].text = job[t].text /\ job'[t].todo = job[t].todo
        /\ job'[t].row = job[t].row /\ job'[t].k = job[t].k
        /\ job'[t].doc = d
    BY <2>2, <2>3 DEF Jobs
  <2> QED BY <1>1, <2>3, <2>4, <2>5 DEF Alone
<1>6. job[t].k = 1
  BY <1>2 DEF TypeInv, JobFits
<1>7. /\ ~BeingWritten(p) /\ \A e \in Docs : Uses(p, e) <=> e = row.doc
      /\ \A q \in Paths \ {p} : ~Uses(q, row.doc)
  BY <1>1, <1>2, RowDoc
<1>8. row.doc \in {0, d}
  BY <1>4 DEF DocIdFor
<1>9. OthersKept(d) /\ Empty(d)' /\ \A q \in Paths \ {p} : ~Uses(q, d)
  <2>1. CASE row.doc = d
    BY <1>1, <1>7, <2>1, Dropped
  <2>2. CASE row.doc = 0
    <3>1. d = nextDoc + 1
      BY <1>4, <2>2 DEF DocIdFor
    <3>2. \A q \in Paths : ~Uses(q, d)
      BY <1>3, <3>1 DEF Overlap, DocsApart
    <3>3. UNCHANGED <<vec, bm25>> /\ OthersKept(row.doc)
      BY <1>1, <2>2, Dropped
    <3>4. Empty(d)
      BY <3>2 DEF Overlap, Held
    <3> QED BY <1>2, <3>2, <3>3, <3>4 DEF Empty, OthersKept
  <2> QED BY <1>8, <2>1, <2>2
<1>10. d # 0
  BY <1>3 DEF Docs
<1>11. Uses(p, d)' /\ \A e \in Docs : Uses(p, e) \/ Uses(p, e)' => e = d
  <2>1. Uses(p, d)'
    BY <1>5, <1>10 DEF Uses, Writing
  <2>2. \A e \in Docs : Uses(p, e) => e = d
    BY <1>7, <1>8, <1>10, <1>3 DEF Docs
  <2>3. ASSUME NEW e \in Docs, Uses(p, e)', e # d PROVE Uses(p, e)
    BY <1>2, <1>5, <2>3 DEF Uses, Alone
  <2> QED BY <2>1, <2>2, <2>3
<1>12. PassFits(t)'
  <2>1. Passing(t)' /\ HashRead(t)'
    BY <1>1, <1>2, <1>5
    DEF PassFits, Passing, HashRead, Locked, Hashed, Unregistered, Parsed
  <2>2. RowKnown(t)'
    BY <1>1, <1>2, <1>5, <1>8, <1>10
    DEF RowKnown, Unregistered, Hashed, Parsed, Writing
  <2>3. Stored(t)'
    BY <1>5, <1>6, <1>9 DEF Stored, Empty, Writing, Targets
  <2> QED BY <2>1, <2>2, <2>3 DEF PassFits
<1>13. RowFits(p)'
  BY <1>2 DEF RowFits
<1>14. Clean(p)'
  BY <1>5 DEF Clean, BeingWritten, Writing
<1>15. nextDoc <= nextDoc' /\ d <= nextDoc'
  BY <1>1, <1>3, <1>4 DEF Docs
<1> QED
  BY <1>1, <1>2, <1>5, <1>9, <1>11, <1>12, <1>13, <1>14, <1>15, OwnStep

\* A pass that goes on writing its document.
LEMMA WritingStep ==
  ASSUME IndexingOnly, TypeInv, TypeInv', LockInv, Overlap, NEW t \in Tasks,
         pc[t] \in Writing, pc'[t] \in Writing, Alone(t),
         job'[t].path = job[t].path, job'[t].doc = job[t].doc,
         UNCHANGED <<disk, version, gone, nextDoc>>, OthersKept(job[t].doc),
         \A q \in Paths \ {job[t].path} : registry'[q] = registry[q],
         \A p \in Paths : p = job[t].path =>
           RowFits(p)' /\ registry'[p].doc \in {0, job[t].doc},
         PassFits(t)'
  PROVE  Overlap'
<1>1. PICK p \in Paths, d \in Docs : p = job[t].path /\ d = job[t].doc
  BY OwnDoc
<1>2. /\ d <= nextDoc /\ \A e \in Docs : Uses(p, e) <=> e = d
      /\ \A q \in Paths \ {p} : ~Uses(q, d)
  BY <1>1, OwnDoc
<1>3. pc[t] \in Locked
  BY DEF Writing, Locked
<1>4. Uses(p, d)' /\ Clean(p)'
  BY <1>1 DEF Uses, Clean, BeingWritten, Docs
<1>5. ASSUME NEW e \in Docs, Uses(p, e)' PROVE e = d
  <2>1. CASE registry'[p].doc = e
    BY <1>1, <1>5, <2>1 DEF Uses
  <2>2. ASSUME NEW u \in Tasks, pc'[u] \in Writing, job'[u].path = p,
               job'[u].doc = e, e # 0
        PROVE  e = d
    <3>1. CASE u = t
      BY <1>1, <2>2, <3>1
    <3>2. CASE u # t
      <4>1. Uses(p, e)
        BY <2>2, <3>2 DEF Alone, Uses
      <4> QED BY <1>2, <4>1
    <3> QED BY <3>1, <3>2
  <2> QED BY <1>5, <2>1, <2>2 DEF Uses
<1>6. nextDoc <= nextDoc' /\ d <= nextDoc'
  BY <1>2 DEF TypeInv, TypeOK
<1> QED BY <1>1, <1>2, <1>3, <1>4, <1>5, <1>6, OwnStep

\* The chunks of one collection are written.
LEMMA EmbedStep ==
  ASSUME IndexingOnly, TypeInv, TypeInv', LockInv, Overlap, NEW t \in Tasks,
         EmbedAndUpsert(t)
  PROVE  Overlap'
<1> DEFINE k == job[t].k
           d == job[t].doc
           c == job[t].text
<1>1. /\ pc[t] = "embed" /\ PassFits(t)
      /\ UNCHANGED <<disk, version, registry, bm25, kb, gone, nextDoc>>
  BY DEF kbVars, EmbedAndUpsert, Overlap, diskVars, watchVars
<1>2. pc[t] \in Writing /\ pc[t] \in Locked
  BY <1>1 DEF Writing, Locked
<1>3. k \in Targets /\ c \in Contents /\ d \in Docs /\ job[t].path \in Paths
  BY <1>1, <1>2, PassTypes, OwnDoc DEF Parsed
<1>4. /\ Alone(t) /\ pc'[t] \in {"embed", "bm25"}
      /\ pc'[t] = "embed" => k < NTargets
      /\ pc'[t] = "bm25" => ~(k < NTargets)
      /\ job'[t].path = job[t].path /\ job'[t].hash = job[t].hash
      /\ job'[t].text = c /\ job'[t].todo = job[t].todo
      /\ job'[t].row = job[t].row /\ job'[t].doc = d /\ job'[t].k = k + 1
  <2>1. job[t] \in Jobs /\ job \in [Tasks -> Jobs]
    BY DEF TypeInv, TypeOK
  <2>2. job'[t] = [job[t] EXCEPT !.k = k + 1]
        /\ \A u \in Tasks \ {t} : job'[u] = job[u]
    BY <2>1 DEF EmbedAndUpsert
  <2>3. /\ pc'[t] = IF k < NTargets THEN "embed" ELSE "bm25"
        /\ \A u \in Tasks \ {t} : pc'[u] = pc[u]
    BY DEF EmbedAndUpsert, MoreTargets, Goto, TypeInv, TypeOK
  <2> QED BY <2>1, <2>2, <2>3 DEF Alone, Jobs
<1>5. vec[k][d] = NoChunks /\ \A s \in Targets \ {k} :
        vec[s][d] = IF s < k THEN Exactly(c) ELSE NoChunks
  BY <1>1, <1>3 DEF PassFits, Stored, Targets
<1>6. \A s \in Targets, e \in Docs :
        vec'[s][e] = IF s = k /\ e = d THEN Exactly(c) ELSE vec[s][e]
  <2>1. vec' = [vec EXCEPT ![k][d] = Exactly(c)]
    BY <1>3, <1>5, ChunkOperators DEF EmbedAndUpsert
  <2> QED BY <1>3, <2>1 DEF TypeInv, TypeOK
<1>7. \A s \in Targets :
        vec'[s][d] = IF s < k + 1 THEN Exactly(c) ELSE NoChunks
  BY <1>3, <1>5, <1>6 DEF Targets
<1>8. PassFits(t)'
  <2>1. Passing(t)' /\ HashRead(t)'
    BY <1>1, <1>4
    DEF PassFits, Passing, HashRead, Locked, Hashed, Unregistered, Parsed
  <2>2. RowKnown(t)'
    BY <1>1, <1>4 DEF PassFits, RowKnown, Unregistered, Hashed, Parsed, Writing
  <2>3. Stored(t)'
    <3>1. \A w \in Workers : bm25[w][d] = NoChunks
      BY <1>1 DEF PassFits, Stored
    <3>2. pc'[t] = "bm25" => \A s \in Targets : vec'[s][d] = Exactly(c)
      BY <1>3, <1>4, <1>7, ConstantsAssumption DEF Targets
    <3> QED BY <1>1, <1>4, <1>7, <3>1, <3>2 DEF Stored, InVec, Writing
  <2> QED BY <2>1, <2>2, <2>3 DEF PassFits
<1>9. OthersKept(d)
  BY <1>1, <1>6 DEF OthersKept
<1>10. \A p \in Paths : p = job[t].path =>
         RowFits(p)' /\ registry'[p].doc \in {0, d}
  <2>1. registry[job[t].path].doc \in {0, d}
    BY <1>1, <1>2 DEF PassFits, RowKnown
  <2> QED BY <1>1, <2>1 DEF Overlap, RowFits
<1> QED BY <1>1, <1>2, <1>4, <1>8, <1>9, <1>10, WritingStep DEF Writing

\* The chunks go to BM25, which has none of the document.
LEMMA Bm25Step ==
  ASSUME IndexingOnly, TypeInv, TypeInv', LockInv, Overlap, NEW t \in Tasks,
         IndexBm25(t)
  PROVE  Overlap'
<1> DEFINE d == job[t].doc
           c == job[t].text
<1>1. /\ pc[t] = "bm25" /\ PassFits(t)
      /\ UNCHANGED <<disk, version, registry, vec, kb, gone, nextDoc>>
  BY DEF kbVars, IndexBm25, Overlap, diskVars, watchVars
<1>2. pc[t] \in Writing /\ pc[t] \in Locked
  BY <1>1 DEF Writing, Locked
<1>3. c \in Contents /\ d \in Docs /\ Workers = {WorkerOf[t]}
  BY <1>1, <1>2, PassTypes, OwnDoc, OneProcess DEF Parsed
<1>4. Alone(t) /\ pc'[t] = "save" /\ job'[t] = job[t]
  BY GotoStays DEF IndexBm25
<1>5. \A w \in Workers, e \in Docs :
        bm25'[w][e] = IF e = d THEN Exactly(c) ELSE bm25[w][e]
  <2>1. bm25[WorkerOf[t]][d] = NoChunks
    BY <1>1, <1>3 DEF PassFits, Stored
  <2>2. bm25' = [bm25 EXCEPT ![WorkerOf[t]][d] = Exactly(c)]
    BY <1>3, <2>1, ChunkOperators DEF IndexBm25
  <2> QED BY <1>3, <2>2 DEF TypeInv, TypeOK
<1>6. PassFits(t)'
  <2>1. Passing(t)' /\ HashRead(t)' /\ RowKnown(t)'
    BY <1>1, <1>4 DEF PassFits, Passing, HashRead, RowKnown, Locked, Hashed,
       Unregistered, Parsed, Writing
  <2>2. Stored(t)'
    BY <1>1, <1>3, <1>4, <1>5 DEF PassFits, Stored, InVec, InBm25, Writing
  <2> QED BY <2>1, <2>2 DEF PassFits
<1>7. OthersKept(d)
  BY <1>1, <1>5 DEF OthersKept
<1>8. \A p \in Paths : p = job[t].path =>
        RowFits(p)' /\ registry'[p].doc \in {0, d}
  <2>1. registry[job[t].path].doc \in {0, d}
    BY <1>1, <1>2 DEF PassFits, RowKnown
  <2> QED BY <1>1, <2>1 DEF Overlap, RowFits
<1> QED BY <1>1, <1>2, <1>4, <1>6, <1>7, <1>8, WritingStep DEF Writing

\* The row is written: it names the document and the hash of the pass.
LEMMA RegisterStep ==
  ASSUME IndexingOnly, TypeInv, TypeInv', LockInv, Overlap, NEW t \in Tasks,
         Register(t)
  PROVE  Overlap'
<1> DEFINE d == job[t].doc
           new == [doc |-> d, hash |-> job[t].hash,
                   ids |-> NChunks[job[t].text], active |-> TRUE]
<1>1. /\ pc[t] = "register" /\ PassFits(t)
      /\ UNCHANGED <<disk, version, vec, bm25, kb, gone, nextDoc>>
  BY DEF Register, Overlap, diskVars, indexVars, kbVars, watchVars
<1>2. pc[t] \in Writing /\ pc[t] \in Locked
  BY <1>1 DEF Writing, Locked
<1>3. Alone(t) /\ pc'[t] = "clear" /\ job'[t] = job[t]
  BY GotoStays DEF Register
<1>4. job[t].path \in Paths /\ d \in Docs
  BY <1>2, OwnDoc
<1>5. \A q \in Paths :
        registry'[q] = IF q = job[t].path THEN new ELSE registry[q]
  BY <1>4 DEF Register, TypeInv, TypeOK
<1>6. PassFits(t)'
  <2>1. Passing(t)' /\ HashRead(t)' /\ Stored(t)'
    BY <1>1, <1>3 DEF PassFits, Passing, HashRead, Stored, Locked, Hashed,
       Unregistered, Parsed, Writing, InVec, InBm25
  <2>2. d # 0 /\ NChunks[job[t].text] # 0
    BY <1>1 DEF PassFits, RowKnown, Writing
  <2>3. registry'[job'[t].path] = new /\ new.doc = d
    BY <1>3, <1>4, <1>5
  <2>4. RowKnown(t)'
    BY <1>3, <2>2, <2>3 DEF RowKnown, Unregistered
  <2> QED BY <2>1, <2>4 DEF PassFits
<1>7. \A p \in Paths : p = job[t].path =>
        RowFits(p)' /\ registry'[p].doc \in {0, d}
  <2>1. job[t].hash <= disk[job[t].path] /\ d # 0
    BY <1>1 DEF PassFits, HashRead, RowKnown, Hashed, Parsed, Writing
  <2> QED BY <1>1, <1>4, <1>5, <2>1 DEF Overlap, RowFits
<1>8. OthersKept(d)
  BY <1>1 DEF OthersKept
<1> QED BY <1>1, <1>2, <1>3, <1>5, <1>6, <1>7, <1>8, WritingStep DEF Writing

\* The pass ends, its facts written or not: its document is complete.
LEMMA ExtractStep ==
  ASSUME IndexingOnly, TypeInv, TypeInv', LockInv, Overlap, NEW t \in Tasks,
         ExtractStructured(t)
  PROVE  Overlap'
<1> DEFINE c == job[t].text
<1>1. /\ pc[t] = "extract" /\ PassFits(t) /\ End(t)
      /\ UNCHANGED <<disk, version, registry, vec, bm25, gone, nextDoc>>
  BY DEF ExtractStructured, Overlap, diskVars, indexVars, kbVars, watchVars
<1>2. pc[t] \in Writing /\ pc[t] \in Locked
  BY <1>1 DEF Writing, Locked
<1>3. PICK p \in Paths, d \in Docs : p = job[t].path /\ d = job[t].doc
  BY <1>2, OwnDoc
<1>4. /\ d <= nextDoc /\ \A e \in Docs : Uses(p, e) <=> e = d
      /\ \A q \in Paths \ {p} : ~Uses(q, d)
  BY <1>2, <1>3, OwnDoc
<1>5. c \in Contents /\ disk[p] \in Nat /\ job[t].hash \in Nat
  BY <1>1, <1>2, <1>3, PassTypes DEF Parsed
<1>6. \A e \in Docs \ {d} : kb'[e] = kb[e]
  BY <1>3 DEF ExtractStructured, TypeInv, TypeOK
<1>7. Alone(t) /\ pc'[t] = "idle" /\ PassFits(t)'
  BY <1>1, PassEnds
<1>8. registry[p] = [doc |-> d, hash |-> job[t].hash, ids |-> NChunks[c],
                     active |-> TRUE]
      /\ NChunks[c] # 0 /\ InVec(d, c) /\ InBm25(d, c)
      /\ job[t].hash <= c /\ c <= disk[p]
  BY <1>1, <1>3 DEF PassFits, RowKnown, HashRead, Stored, Writing, Hashed, Parsed
<1>9. RowFits(p)'
  BY <1>1, <1>3 DEF Overlap, RowFits
<1>10. Clean(p)'
  <2>1. \A w \in Workers : \A i \in Index : i > NChunks[c] => bm25[w][d][i] = 0
    <3> SUFFICES ASSUME NEW w \in Workers, NEW i \in Index, i > NChunks[c]
                 PROVE  bm25[w][d][i] = 0
      OBVIOUS
    <3>1. NChunks[c] \in Nat /\ i \in Nat
      BY <1>5, ConstantsAssumption DEF Index
    <3>2. bm25[w][d] = Exactly(c)
      BY <1>8 DEF InBm25
    <3>3. ~(i <= NChunks[c])
      BY <3>1
    <3> QED BY <3>2, <3>3 DEF Exactly
  <2>2. job[t].hash = disk[p] => c = disk[p]
    BY <1>5, <1>8 DEF Contents
  <2> QED BY <1>1, <1>6, <1>8, <2>1, <2>2 DEF Clean, InVec, InBm25
<1>11. Uses(p, d)' /\ \A e \in Docs : Uses(p, e)' => e = d
  <2>1. Uses(p, d)'
    BY <1>1, <1>8 DEF Uses, Docs
  <2>2. ASSUME NEW e \in Docs, Uses(p, e)' PROVE Uses(p, e)
    BY <1>1, <1>7, <2>2 DEF Uses, Alone, Writing
  <2> QED BY <1>4, <2>1, <2>2
<1>12. OthersKept(d)
  BY <1>1, <1>6 DEF OthersKept
<1>13. nextDoc <= nextDoc' /\ d <= nextDoc'
  BY <1>1, <1>4 DEF TypeInv, TypeOK
<1> QED
  BY <1>1, <1>2, <1>3, <1>4, <1>7, <1>9, <1>10, <1>11, <1>12, <1>13, OwnStep
  DEF Writing

-----------------------------------------------------------------------------
(* All steps.                                                              *)

\* A coroutine that starts a pass of a file that is there.
Begins(t) ==
  \E o \in Origins, p \in Paths, f \in BOOLEAN, b \in BOOLEAN :
    disk'[p] # 0 /\ Start(t, "wait", IndexJob(o, p, f, b))

\* A new content is above those the path has had, and the disk holds it.
LEMMA WriteFileGrows ==
  ASSUME IndexingOnly, TypeInv, Overlap, NEW p \in Paths, NEW c \in Contents,
         WriteFile(p, c)
  PROVE  DiskGrows /\ disk'[p] # 0 /\ UNCHANGED gone
<1>1. /\ \A q \in Paths : /\ disk'[q] = IF q = p THEN c ELSE disk[q]
                          /\ version'[q] = IF q = p /\ c > version[q]
                                           THEN c ELSE version[q]
      /\ c > version[p] /\ UNCHANGED gone
  BY DEF WriteFile, IndexingOnly, TypeInv, TypeOK
<1>2. \A q \in Paths : disk[q] \in Nat /\ version[q] \in Nat
                       /\ disk[q] <= version[q]
  BY ConstantsAssumption DEF TypeInv, TypeOK, Overlap, RowFits
<1> QED BY <1>1, <1>2 DEF DiskGrows, Contents

\* A disk nobody writes.
LEMMA DiskRests ==
  ASSUME TypeInv, Overlap, UNCHANGED <<disk, version>>
  PROVE  DiskGrows
BY ConstantsAssumption DEF DiskGrows, Overlap, RowFits, TypeInv, TypeOK

\* The requests and the watcher start passes and do nothing else.
LEMMA BeginKinds ==
  ASSUME IndexingOnly, TypeInv, Overlap, NEW t \in Tasks,
         Request(t) \/ WatcherStep(t)
  PROVE  /\ UNCHANGED <<registry, vec, bm25, kb, gone, nextDoc>>
         /\ DiskGrows
         /\ Begins(t) \/ UNCHANGED <<pc, job>>
<1>0. /\ "upload" \in Origins /\ "watcher" \in Origins /\ "scan" \in Origins
      /\ "reindex" \in Origins /\ "retry" \in Origins
  BY DEF Origins
<1>1. ASSUME NEW p \in Paths, WatcherFire(t, p) \/ WatcherRemove(t, p)
      PROVE  /\ UNCHANGED <<registry, vec, bm25, kb, gone, nextDoc>>
             /\ DiskGrows
             /\ Begins(t) \/ UNCHANGED <<pc, job>>
  <2>1. ~WatcherRemove(t, p)
    BY ConstantsAssumption DEF WatcherRemove, Overlap
  <2>2. UNCHANGED <<disk, version, registry, vec, bm25, kb, gone, nextDoc>>
    BY <1>1, <2>1 DEF WatcherFire, diskVars, indexVars, kbVars
  <2>3. Begins(t) \/ UNCHANGED <<pc, job>>
    BY <1>0, <1>1, <2>1, <2>2 DEF WatcherFire, Begins
  <2> QED BY <2>2, <2>3, DiskRests
<1>2. ASSUME NEW p \in Paths, NEW c \in Contents, Upload(t, p, c)
      PROVE  /\ UNCHANGED <<registry, vec, bm25, kb, gone, nextDoc>>
             /\ DiskGrows /\ Begins(t)
  <2>1. DiskGrows /\ disk'[p] # 0 /\ UNCHANGED gone
    BY <1>2, WriteFileGrows DEF Upload
  <2> QED BY <1>0, <1>2, <2>1 DEF Upload, Begins, indexVars, kbVars
<1>3. ASSUME NEW p \in Paths, NEW b \in BOOLEAN,
             ScanFile(t, p) \/ Reindex(t, p, b) \/ RetryQuarantine(t, p, b)
      PROVE  /\ UNCHANGED <<registry, vec, bm25, kb, gone, nextDoc>>
             /\ DiskGrows /\ Begins(t)
  <2>1. UNCHANGED <<disk, version, registry, vec, bm25, kb, gone, nextDoc>>
        /\ disk[p] # 0
    BY <1>3 DEF ScanFile, Reindex, RetryQuarantine, diskVars, indexVars, kbVars,
       watchVars
  <2>2. PICK o \in {"scan", "reindex", "retry"}, f \in BOOLEAN, v \in BOOLEAN :
          Start(t, "wait", IndexJob(o, p, f, v))
    BY <1>3 DEF ScanFile, Reindex, RetryQuarantine
  <2> QED BY <1>0, <2>1, <2>2, DiskRests DEF Begins
<1>4. ~CleanupOrphans(t) /\ ~RebuildIndex(t) /\ ~PurgeQuarantine(t)
      /\ \A p \in Paths : /\ ~DeleteFile(t, p) /\ ~DeleteFolder(t, p)
                          /\ ~DeleteQuarantine(t, p)
  BY DEF IndexingOnly, CleanupOrphans, RebuildIndex, PurgeQuarantine,
     DeleteFile, DeleteFolder, DeleteQuarantine
<1> QED BY <1>1, <1>2, <1>3, <1>4 DEF Request, WatcherStep

\* No removal, no maintenance job and no fault ever runs.
LEMMA PassSteps ==
  ASSUME IndexingOnly, TypeInv, Overlap, NEW t \in Tasks
  PROVE  /\ ~RemoveStep(t) /\ ~MaintenanceStep(t)
         /\ ~RegisterConflict(t) /\ ~FileVanished(t)
         /\ ~ProcessRaises(t) /\ ~RemoveRaises(t)
         /\ \A p \in Paths : ~EraseFile(p)
         /\ \A w \in Workers : ~Crash(w)
<1>1. PassFits(t)
  BY DEF Overlap
<1>2. ~RemoveStep(t) /\ ~MaintenanceStep(t)
  BY <1>1 DEF PassFits, Passing, Locked, RemoveStep, RmLook, RmPurge, RmKb,
     RmRow, RmQuar, UnlinkFile, MaintenanceStep, ListActive, DeleteOrphans,
     ResetStores, ClearRegistry, RemoveResolved, UnlinkExpired
<1>3. ~RegisterConflict(t)
  BY <1>1 DEF PassFits, RowKnown, Writing, RegisterConflict, CanRegister
<1>4. ~FileVanished(t)
  BY <1>1 DEF PassFits, Passing, FileVanished
<1>5. /\ ~ProcessRaises(t) /\ ~RemoveRaises(t)
      /\ \A p \in Paths : ~EraseFile(p)
      /\ \A w \in Workers : ~Crash(w)
  BY DEF IndexingOnly, ProcessRaises, RemoveRaises, EraseFile, Crash
<1> QED BY <1>2, <1>3, <1>4, <1>5

\* Every step keeps the passes in line.
LEMMA OverlapStep ==
  ASSUME IndexingOnly, TypeInv, TypeInv', LockInv, Overlap, [Next]_vars
  PROVE  Overlap'
<1>1. ASSUME NEW t \in Tasks, TaskStep(t) PROVE Overlap'
  <2>1. CASE DropOldChunks(t)
    <3>1. job[t].path \in Paths
      BY <2>1, PassTypes DEF DropOldChunks, Locked
    <3>2. CASE NChunks[job[t].text] = 0
      BY <2>1, <3>2, NothingToIndex DEF DropOldChunks
    <3>3. CASE NChunks[job[t].text] # 0
      BY <2>1, <3>3, StartsWriting DEF DropOldChunks
    <3> QED BY <3>2, <3>3
  <2> QED BY <1>1, <2>1, PassSteps, PlainPass, EmbedStep, Bm25Step,
             RegisterStep, ExtractStep
          DEF TaskStep, ProcessStep
<1>2. ASSUME NEW t \in Tasks, Request(t) \/ WatcherStep(t) PROVE Overlap'
  <2>1. /\ UNCHANGED <<registry, vec, bm25, kb, gone, nextDoc>>
        /\ DiskGrows
    BY <1>2, BeginKinds
  <2>2. CASE UNCHANGED <<pc, job>>
    BY <2>1, <2>2, PlainStep DEF Kept
  <2>3. CASE Begins(t)
    <3>1. PICK o \in Origins, p \in Paths, f \in BOOLEAN, b \in BOOLEAN :
            disk'[p] # 0 /\ Start(t, "wait", IndexJob(o, p, f, b))
      BY <2>3 DEF Begins
    <3>2. /\ Alone(t) /\ pc[t] = "idle" /\ pc'[t] = "wait"
          /\ job'[t] = IndexJob(o, p, f, b)
      BY <3>1, StartMoves DEF Start, TypeInv, TypeOK
    <3>3. Moved(t)
      BY <3>1, <3>2 DEF Moved, PassFits, Passing, HashRead, RowKnown, Stored,
         Hashed, Unregistered, Parsed, Writing, Locked, IndexJob, NewJob
    <3> QED BY <2>1, <3>2, <3>3, PlainStep DEF Alone, Kept
  <2> QED BY <1>2, <2>2, <2>3, BeginKinds
<1>3. ASSUME NEW p \in Paths, NEW c \in Contents, EditFile(p, c)
      PROVE  Overlap'
  <2>1. DiskGrows /\ UNCHANGED gone
    BY <1>3, WriteFileGrows DEF EditFile
  <2>2. UNCHANGED <<registry, vec, bm25, kb, nextDoc, pc, job>>
    BY <1>3 DEF EditFile, indexVars, kbVars
  <2> QED BY <2>1, <2>2, PlainStep DEF Kept
<1>4. CASE UNCHANGED vars
  <2>1. DiskGrows
    BY <1>4, DiskRests DEF vars
  <2> QED BY <1>4, <2>1, PlainStep DEF Kept, vars
<1>5. \A p \in Paths : ~EraseFile(p)
  BY DEF IndexingOnly, EraseFile
<1>6. \A w \in Workers : ~Crash(w)
  BY DEF IndexingOnly, Crash
<1> QED BY <1>1, <1>2, <1>3, <1>4, <1>5, <1>6, PassSteps DEF Next, Idle

\* Together with types and locks it is inductive.
LEMMA OverlapAlways ==
  ASSUME IndexingOnly
  PROVE  Spec => [](TypeInv /\ LockInv /\ Overlap)
<1>1. Init => TypeInv /\ LockInv /\ Overlap
  BY InitType, InitLock, InitOverlap
<1>2. TypeInv /\ LockInv /\ Overlap /\ [Next]_vars
        => (TypeInv /\ LockInv /\ Overlap)'
  BY TypeStep, LockStep, OverlapStep
<1> QED BY <1>1, <1>2, PTL DEF Spec

\* Passes of one file that overlap, because an edit, an upload, the scan and
\* the watcher all start one, leave no trace of an older content: a file whose
\* registered hash is the disk's has exactly its chunks in every collection and
\* in BM25, although process reads the file twice and deletes long before it
\* writes.
THEOREM OverlapsStayFaithful ==
  ASSUME IndexingOnly
  PROVE  Spec => []IndexFaithful
<1>1. TypeInv /\ LockInv /\ Overlap => IndexFaithful
  <2> SUFFICES ASSUME TypeInv, Overlap, Quiet, NEW p \in Paths,
                      registry[p].active, registry[p].hash = disk[p]
               PROVE  /\ \A s \in Targets :
                           vec[s][registry[p].doc] = Exactly(disk[p])
                      /\ \A w \in Workers :
                           bm25[w][registry[p].doc] = Exactly(disk[p])
    BY DEF IndexFaithful
  <2>1. ~BeingWritten(p)
    BY DEF Quiet, BeingWritten, Writing
  <2>2. registry[p].doc # 0
    BY DEF Overlap, RowFits, NoRow
  <2> QED BY <2>1, <2>2 DEF Overlap, Clean, InVec, InBm25
<1> QED BY <1>1, OverlapAlways, PTL

\* Nor do they leave a chunk that a search could return and no active row
\* names: a document keeps its id from one pass to the next.
THEOREM OverlapsLeaveNoOrphan ==
  ASSUME IndexingOnly
  PROVE  Spec => []NoOrphanChunks
<1>1. TypeInv /\ LockInv /\ Overlap => NoOrphanChunks
  <2> SUFFICES ASSUME Overlap, Quiet, NEW d \in Docs, Searchable(d)
               PROVE  \E p \in Paths : registry[p].active /\ registry[p].doc = d
    BY DEF NoOrphanChunks
  <2>1. PICK p \in Paths : Uses(p, d)
    BY DEF Overlap, Held, Empty, Searchable
  <2>2. registry[p].doc = d /\ d # 0
    BY <2>1 DEF Uses, Quiet, Writing
  <2> QED BY <2>2 DEF Overlap, RowFits
<1> QED BY <1>1, OverlapAlways, PTL

-----------------------------------------------------------------------------
(* The verdict on each file.  Every change of a file is owed a pass, until  *)
(* a pass that has its content's hash is due to answer; what it leaves is   *)
(* an active row with that hash or a quarantine row, never a stale one.     *)

AllEventsSeen == "loss" \notin Ops
ValidHasChunks == \A c \in Valid : NChunks[c] # 0

\* A pass that is not a human's acceptance will read the file once more.
Owed(p) ==
  \/ \E w \in Workers : p \in pending[w]
  \/ \E t \in Tasks :
       pc[t] \in {"wait", "hash"} /\ job[t].path = p /\ ~job[t].bypass

\* Such a pass has the hash of what is on the disk and is not done.
Due(p) ==
  \E t \in Tasks : /\ pc[t] \in Hashed \ {"extract"} /\ job[t].path = p
                   /\ job[t].hash = disk[p] /\ ~job[t].bypass

Registered(p) == registry[p].active /\ registry[p].hash = disk[p]

Settled(p) ==
  \/ Registered(p) /\ (p \notin quarantine \/ disk[p] \notin Valid)
  \/ p \in quarantine /\ disk[p] \notin Valid

\* What a pass has decided, and that a pass with an older hash is followed.
Verdict(t, p) ==
  /\ pc[t] = "reject" => job[t].text \notin Valid
  /\ pc[t] = "purge" => job[t].text \in Valid \/ job[t].bypass
  /\ pc[t] \in Hashed \ {"extract"} => job[t].hash = disk[p] \/ Owed(p)

Clearing(p) == \E t \in Tasks : pc[t] = "clear" /\ job[t].path = p

Accounted(p) ==
  /\ disk[p] # 0 => Owed(p) \/ Due(p) \/ Settled(p)
  /\ registry[p].hash = disk[p] /\ disk[p] \in Valid /\ p \in quarantine =>
       Clearing(p)
  /\ \A t \in Tasks : job[t].path = p => Verdict(t, p)

AccountInv == \A p \in Paths : Accounted(p)

\* Nothing about file p changes.
Untouched(p) ==
  /\ disk'[p] = disk[p] /\ registry'[p] = registry[p]
  /\ p \in quarantine' <=> p \in quarantine
  /\ \A w \in Workers : p \in pending'[w] <=> p \in pending[w]
  /\ \A u \in Tasks : Kept(u) \/ (job[u].path # p /\ job'[u].path # p)

\* The verdict on a file nobody touches stands.
LEMMA OtherFiles ==
  ASSUME NEW p \in Paths, Accounted(p), Untouched(p)
  PROVE  Accounted(p)'
<1>1. \A u \in Tasks :
        /\ (job[u].path = p)' <=> job[u].path = p
        /\ job[u].path = p => pc'[u] = pc[u] /\ job'[u] = job[u]
  BY DEF Untouched, Kept
<1>2. Owed(p)' <=> Owed(p)
  BY <1>1 DEF Untouched, Owed
<1>3. Due(p)' <=> Due(p)
  BY <1>1 DEF Untouched, Due
<1>4. Settled(p)' <=> Settled(p)
  BY DEF Untouched, Settled, Registered
<1>5. Clearing(p)' <=> Clearing(p)
  BY <1>1 DEF Clearing
<1>6. \A u \in Tasks : job'[u].path = p => Verdict(u, p)'
  BY <1>1, <1>2 DEF Accounted, Verdict, Untouched
<1> QED BY <1>2, <1>3, <1>4, <1>5, <1>6 DEF Accounted, Untouched

\* t alone answers for file p while it holds the lock.
LEMMA OwnFile ==
  ASSUME IndexingOnly, TypeInv, LockInv, AccountInv,
         NEW t \in Tasks, NEW p \in Paths, pc[t] \in Locked, job[t].path = p,
         Alone(t), UNCHANGED <<disk, pending>>,
         job'[t].path = p => Verdict(t, p)',
         (Owed(p) /\ ~Owed(p)') \/ Due(p) \/ Settled(p) =>
           Owed(p)' \/ Due(p)' \/ Settled(p)',
         registry'[p].hash = disk[p] /\ disk[p] \in Valid /\ p \in quarantine' =>
           Clearing(p)'
  PROVE  Accounted(p)'
<1>1. disk'[p] # 0 => Owed(p)' \/ Due(p)' \/ Settled(p)'
  BY DEF AccountInv, Accounted
<1>2. ASSUME NEW u \in Tasks, job'[u].path = p PROVE Verdict(u, p)'
  <2>1. CASE u = t
    BY <1>2, <2>1
  <2>2. CASE u # t
    <3>1. pc'[u] = pc[u] /\ job'[u] = job[u]
      BY <2>2 DEF Alone
    <3>2. pc[u] \notin Locked
      BY <1>2, <2>2, <3>1, OthersPath
    <3> QED BY <3>1, <3>2 DEF Verdict, Locked, Hashed, Parsed
  <2> QED BY <2>1, <2>2
<1> QED BY <1>1, <1>2 DEF Accounted

\* What a pass that holds the lock knows of the file it works on.
LEMMA OwnFacts ==
  ASSUME IndexingOnly, TypeInv, LockInv, Overlap, AccountInv,
         NEW t \in Tasks, NEW p \in Paths, pc[t] \in Locked, job[t].path = p
  PROVE  /\ Due(p) => /\ pc[t] \in Hashed \ {"extract"}
                      /\ job[t].hash = disk[p] /\ ~job[t].bypass
         /\ Clearing(p) => pc[t] = "clear"
         /\ Verdict(t, p) /\ Accounted(p) /\ PassFits(t) /\ RowFits(p)
         /\ disk[p] \in Nat \ {0} /\ job[t].hash \in Nat /\ job[t].text \in Nat
         /\ registry[p].hash \in Nat
<1>1. ASSUME NEW u \in Tasks, job[u].path = p, pc[u] \in Hashed PROVE u = t
  <2>1. pc[u] \in Locked
    BY <1>1 DEF Hashed, Parsed, Locked
  <2> QED BY <1>1, <2>1, OthersPath
<1>2. Due(p) => /\ pc[t] \in Hashed \ {"extract"}
                /\ job[t].hash = disk[p] /\ ~job[t].bypass
  BY <1>1 DEF Due
<1>3. Clearing(p) => pc[t] = "clear"
  BY <1>1 DEF Clearing, Hashed, Parsed
<1>4. Verdict(t, p) /\ Accounted(p) /\ PassFits(t) /\ RowFits(p)
  BY DEF AccountInv, Accounted, Overlap
<1>5. registry[p].hash \in Nat /\ disk[p] # 0
  BY <1>4, PassTypes DEF Rows, PassFits, Passing, Locked
<1> QED BY <1>2, <1>3, <1>4, <1>5, PassTypes

\* The same for all files: those of other passes are not touched.
LEMMA OwnFileStep ==
  ASSUME IndexingOnly, TypeInv, LockInv, AccountInv,
         NEW t \in Tasks, NEW p \in Paths, pc[t] \in Locked, job[t].path = p,
         job'[t].path \in {p, NoPath},
         Alone(t), UNCHANGED <<disk, pending>>,
         \A q \in Paths \ {p} : registry'[q] = registry[q]
                                /\ (q \in quarantine' <=> q \in quarantine),
         job'[t].path = p => Verdict(t, p)',
         (Owed(p) /\ ~Owed(p)') \/ Due(p) \/ Settled(p) =>
           Owed(p)' \/ Due(p)' \/ Settled(p)',
         registry'[p].hash = disk[p] /\ disk[p] \in Valid /\ p \in quarantine' =>
           Clearing(p)'
  PROVE  AccountInv'
<1>1. ASSUME NEW q \in Paths \ {p} PROVE Accounted(q)'
  <2>1. \A u \in Tasks : Kept(u) \/ (job[u].path # q /\ job'[u].path # q)
    BY ConstantsAssumption DEF Alone, Kept
  <2>2. Untouched(q)
    BY <2>1 DEF Untouched
  <2> QED BY <2>2, OtherFiles DEF AccountInv
<1>2. Accounted(p)'
  BY OwnFile
<1> QED BY <1>1, <1>2 DEF AccountInv

\* Once t has its hash, no step of t changes what is owed.
LEMMA OwedStays ==
  ASSUME NEW t \in Tasks, Alone(t), UNCHANGED pending,
         pc[t] \notin {"wait", "hash"}
  PROVE  \A p \in Paths : Owed(p) => Owed(p)'
<1> SUFFICES ASSUME NEW p \in Paths, Owed(p) PROVE Owed(p)'
  OBVIOUS
<1>1. CASE \E w \in Workers : p \in pending[w]
  BY <1>1 DEF Owed
<1>2. ASSUME NEW u \in Tasks, pc[u] \in {"wait", "hash"}, job[u].path = p,
             ~job[u].bypass
      PROVE  Owed(p)'
  <2>1. pc'[u] = pc[u] /\ job'[u] = job[u]
    BY <1>2 DEF Alone
  <2> QED BY <1>2, <2>1 DEF Owed
<1> QED BY <1>1, <1>2 DEF Owed

\* A pass that goes on, the rows and the quarantine unchanged.
LEMMA GoesOn ==
  ASSUME IndexingOnly, TypeInv, LockInv, Overlap, AccountInv,
         NEW t \in Tasks, NEW p \in Paths, job[t].path = p,
         pc[t] \in Unregistered, pc'[t] \in Hashed \ {"extract"}, Alone(t),
         job'[t].path = p, job'[t].hash = job[t].hash,
         job'[t].bypass = job[t].bypass,
         UNCHANGED <<disk, pending, registry, quarantine>>,
         pc'[t] = "reject" => job'[t].text \notin Valid,
         pc'[t] = "purge" => job'[t].text \in Valid \/ job'[t].bypass
  PROVE  AccountInv'
<1>1. /\ pc[t] \in Locked /\ pc[t] \notin {"wait", "hash"}
      /\ pc[t] \in Hashed /\ pc[t] \notin {"clear", "extract"}
  BY DEF Unregistered, Hashed, Parsed, Locked
<1>2. Owed(p) => Owed(p)'
  BY <1>1, OwedStays
<1>3. Due(p) => Due(p)'
  BY <1>1, OwnFacts DEF Due
<1>4. Settled(p) => Settled(p)'
  BY DEF Settled, Registered
<1>5. ~Clearing(p)
  BY <1>1, OwnFacts
<1>6. ~(registry[p].hash = disk[p] /\ disk[p] \in Valid /\ p \in quarantine)
  BY <1>5 DEF AccountInv, Accounted
<1>7. Verdict(t, p)'
  <2>1. job[t].hash = disk[p] \/ Owed(p)
    BY <1>1, OwnFacts DEF Verdict
  <2> QED BY <1>2, <2>1 DEF Verdict
<1> QED BY <1>1, <1>2, <1>3, <1>4, <1>6, <1>7, OwnFileStep

\* The steps of a pass answer for its file.
LEMMA ProcessAccounts ==
  ASSUME IndexingOnly, ValidHasChunks, TypeInv, LockInv, Overlap, AccountInv,
         NEW t \in Tasks, ProcessStep(t)
  PROVE  AccountInv'
<1>0. PassFits(t) /\ UNCHANGED <<disk, pending>>
  BY DEF Overlap, ProcessStep, diskVars, watchVars, AcquireLock, HashFile,
         LookUp, ParseAndValidate, Reject, DropOldChunks, EmbedAndUpsert,
         IndexBm25, SaveBm25, Register, RegisterConflict, ClearQuarantine,
         ExtractStructured, FileVanished
<1>00. job[t] \in Jobs /\ job \in [Tasks -> Jobs] /\ pc \in [Tasks -> Stages]
  BY DEF TypeInv, TypeOK
<1>1. CASE AcquireLock(t)
  <2>1. /\ Alone(t) /\ pc[t] = "wait" /\ pc'[t] = "hash" /\ job'[t] = job[t]
        /\ UNCHANGED <<disk, pending, registry, quarantine>>
    BY <1>0, <1>1, GotoStays DEF AcquireLock
  <2>2. ASSUME NEW p \in Paths PROVE Accounted(p)'
    <3>1. Accounted(p)
      BY DEF AccountInv
    <3>2. Owed(p)' <=> Owed(p)
      BY <2>1 DEF Owed, Alone
    <3>3. Due(p)' <=> Due(p)
      BY <2>1 DEF Due, Alone, Hashed, Parsed
    <3>4. Clearing(p)' <=> Clearing(p)
      BY <2>1 DEF Clearing, Alone
    <3>5. Settled(p)' <=> Settled(p)
      BY <2>1 DEF Settled, Registered
    <3>6. \A u \in Tasks : job'[u].path = p => Verdict(u, p)'
      BY <2>1, <3>1, <3>2 DEF Accounted, Verdict, Alone, Hashed, Parsed
    <3> QED BY <2>1, <3>1, <3>2, <3>3, <3>4, <3>5, <3>6 DEF Accounted
  <2> QED BY <2>2 DEF AccountInv
<1> SUFFICES ASSUME ~AcquireLock(t) PROVE AccountInv'
  BY <1>1
<1>2. pc[t] \in Locked
  BY <1>0, PassSteps
  DEF ProcessStep, HashFile, LookUp, ParseAndValidate, Reject, DropOldChunks,
      EmbedAndUpsert, IndexBm25, SaveBm25, Register, RegisterConflict,
      ClearQuarantine, ExtractStructured, FileVanished, Locked, PassFits, Passing
<1>3. PICK p \in Paths : p = job[t].path
  BY <1>2, PassTypes
<1>4. /\ Due(p) => /\ pc[t] \in Hashed \ {"extract"}
                   /\ job[t].hash = disk[p] /\ ~job[t].bypass
      /\ Clearing(p) => pc[t] = "clear"
      /\ Verdict(t, p) /\ Accounted(p) /\ RowFits(p)
      /\ disk[p] \in Nat \ {0} /\ job[t].hash \in Nat /\ job[t].text \in Nat
      /\ registry[p].hash \in Nat
  BY <1>2, <1>3, OwnFacts
<1>5. ASSUME pc[t] # "hash", Alone(t)
      PROVE  Owed(p) => Owed(p)'
  BY <1>0, <1>2, <1>5, OwedStays DEF Locked
<1>6. CASE HashFile(t)
  <2>1. /\ Alone(t) /\ pc[t] = "hash" /\ pc'[t] = "look"
        /\ job'[t].path = p /\ job'[t].hash = disk[p]
        /\ job'[t].bypass = job[t].bypass
        /\ UNCHANGED <<disk, pending, registry, quarantine>>
    BY <1>00, <1>0, <1>3, <1>6 DEF HashFile, Goto, Alone, Jobs
  <2>2. Owed(p) /\ ~Owed(p)' => Due(p)'
    <3> SUFFICES ASSUME Owed(p), ~Owed(p)' PROVE Due(p)'
      OBVIOUS
    <3>1. \A u \in Tasks \ {t} : Kept(u)
      BY <2>1 DEF Alone, Kept
    <3>2. ~job[t].bypass
      BY <2>1, <3>1 DEF Owed, Kept
    <3> QED BY <2>1, <3>2 DEF Due, Hashed
  <2>3. ~Due(p) /\ ~Clearing(p)
    BY <1>4, <2>1 DEF Hashed, Parsed
  <2>4. Settled(p) => Settled(p)'
    BY <2>1 DEF Settled, Registered
  <2>5. Verdict(t, p)'
    BY <2>1 DEF Verdict
  <2>6. ~(registry[p].hash = disk[p] /\ disk[p] \in Valid /\ p \in quarantine)
    BY <1>4, <2>3 DEF Accounted
  <2> QED BY <1>2, <1>3, <2>1, <2>2, <2>3, <2>4, <2>5, <2>6, OwnFileStep
<1>7. CASE LookUp(t) /\ End(t)
  <2>1. /\ Alone(t) /\ pc[t] = "look" /\ pc'[t] = "idle" /\ job'[t] = NoJob
        /\ UNCHANGED <<disk, pending, registry, quarantine>>
    BY <1>0, <1>7, PassEnds DEF LookUp
  <2>2. ~Clearing(p)
    BY <1>4, <2>1
  <2>3. ~(registry[p].hash = disk[p] /\ disk[p] \in Valid /\ p \in quarantine)
    BY <1>4, <2>2 DEF Accounted
  <2>4. Due(p) => Settled(p)
    <3> SUFFICES ASSUME Due(p) PROVE Settled(p)
      OBVIOUS
    <3>2. Unchanged(t)
      <4>1. Goto(t, "parse") => pc'[t] = "parse"
        BY <1>00 DEF Goto
      <4> QED BY <1>7, <2>1, <4>1 DEF LookUp
    <3>3. registry[p].doc # 0 /\ registry[p].hash = disk[p]
      BY <1>3, <1>4, <3>2 DEF Unchanged
    <3> QED BY <1>4, <2>3, <3>3 DEF Settled, Registered, RowFits
  <2>5. Settled(p) => Settled(p)'
    BY <2>1 DEF Settled, Registered
  <2>6. Owed(p) => Owed(p)'
    BY <1>5, <2>1
  <2> QED BY <1>2, <1>3, <2>1, <2>3, <2>4, <2>5, <2>6, ConstantsAssumption,
             OwnFileStep DEF NoJob, NewJob
<1>8. CASE LookUp(t) /\ ~End(t)
  <2>1. /\ Alone(t) /\ pc[t] = "look" /\ pc'[t] = "parse"
        /\ job'[t].path = p /\ job'[t].hash = job[t].hash
        /\ job'[t].bypass = job[t].bypass
        /\ UNCHANGED <<disk, pending, registry, quarantine>>
    BY <1>00, <1>0, <1>3, <1>8 DEF LookUp, Goto, Alone, Jobs
  <2> QED BY <1>3, <2>1, GoesOn DEF Unregistered, Hashed, Parsed
<1>9. CASE ParseAndValidate(t)
  <2>1. /\ Alone(t) /\ pc[t] = "parse"
        /\ pc'[t] = IF disk[p] \in Valid \/ job[t].bypass THEN "purge"
                                                         ELSE "reject"
        /\ job'[t].path = p /\ job'[t].hash = job[t].hash
        /\ job'[t].bypass = job[t].bypass /\ job'[t].text = disk[p]
        /\ UNCHANGED <<disk, pending, registry, quarantine>>
    BY <1>00, <1>0, <1>3, <1>9 DEF ParseAndValidate, Goto, Alone, Jobs
  <2> QED BY <1>3, <2>1, GoesOn DEF Unregistered, Hashed, Parsed
<1>10. CASE Reject(t)
  <2>1. /\ Alone(t) /\ pc[t] = "reject" /\ pc'[t] = "idle" /\ job'[t] = NoJob
        /\ UNCHANGED <<disk, pending, registry>>
        /\ quarantine' = quarantine \cup {p}
    BY <1>0, <1>3, <1>10, PassEnds DEF Reject
  <2>2. job[t].text \notin Valid /\ registry[p].hash <= job[t].hash
        /\ job[t].hash <= job[t].text /\ job[t].text <= disk[p]
    BY <1>0, <1>3, <1>4, <2>1
    DEF Verdict, PassFits, HashRead, Unregistered, Hashed, Parsed
  <2>3. job[t].hash = disk[p] => disk[p] \notin Valid
    <3>1. job[t].hash = disk[p] => job[t].text = disk[p]
      BY <1>4, <2>2
    <3> QED BY <2>2, <3>1
  <2>4. registry[p].hash = disk[p] => job[t].hash = disk[p]
    BY <1>4, <2>2
  <2>5. Due(p) \/ Settled(p) => Settled(p)'
    BY <1>4, <2>1, <2>3, <2>4 DEF Settled, Registered
  <2>6. Owed(p) => Owed(p)'
    BY <1>5, <2>1
  <2>7. ~(registry[p].hash = disk[p] /\ disk[p] \in Valid)
    BY <2>3, <2>4
  <2> QED BY <1>2, <1>3, <2>1, <2>5, <2>6, <2>7, ConstantsAssumption,
             OwnFileStep DEF NoJob, NewJob
<1>11. CASE DropOldChunks(t) /\ End(t)
  <2>1. /\ Alone(t) /\ pc[t] = "purge" /\ pc'[t] = "idle" /\ job'[t] = NoJob
        /\ UNCHANGED <<disk, pending, registry, quarantine>>
    BY <1>0, <1>11, PassEnds DEF DropOldChunks
  <2>2. ~Clearing(p)
    BY <1>4, <2>1
  <2>3. ~(registry[p].hash = disk[p] /\ disk[p] \in Valid /\ p \in quarantine)
    BY <1>4, <2>2 DEF Accounted
  <2>4. ~Due(p)
    <3>1. Goto(t, "embed") => pc'[t] = "embed"
      BY <1>00 DEF Goto
    <3>2. NChunks[job[t].text] = 0
      BY <1>11, <2>1, <3>1 DEF DropOldChunks
    <3>3. job[t].text \notin Valid
      BY <3>2 DEF ValidHasChunks
    <3> QED BY <1>4, <2>1, <3>3 DEF Verdict
  <2>5. Settled(p) => Settled(p)'
    BY <2>1 DEF Settled, Registered
  <2>6. Owed(p) => Owed(p)'
    BY <1>5, <2>1
  <2> QED BY <1>2, <1>3, <2>1, <2>3, <2>4, <2>5, <2>6, ConstantsAssumption,
             OwnFileStep DEF NoJob, NewJob
<1>12. CASE DropOldChunks(t) /\ ~End(t)
  <2>1. /\ Alone(t) /\ pc[t] = "purge" /\ pc'[t] = "embed"
        /\ job'[t].path = p /\ job'[t].hash = job[t].hash
        /\ job'[t].bypass = job[t].bypass
        /\ UNCHANGED <<disk, pending, registry, quarantine>>
    BY <1>00, <1>0, <1>3, <1>12 DEF DropOldChunks, Goto, Alone, Jobs
  <2> QED BY <1>3, <2>1, GoesOn DEF Unregistered, Hashed, Parsed
<1>13. CASE EmbedAndUpsert(t)
  <2>1. /\ Alone(t) /\ pc[t] = "embed" /\ pc'[t] \in {"embed", "bm25"}
        /\ job'[t].path = p /\ job'[t].hash = job[t].hash
        /\ job'[t].bypass = job[t].bypass
        /\ UNCHANGED <<disk, pending, registry, quarantine>>
    BY <1>00, <1>0, <1>3, <1>13 DEF EmbedAndUpsert, Goto, Alone, Jobs
  <2> QED BY <1>3, <2>1, GoesOn DEF Unregistered, Hashed, Parsed
<1>14. CASE IndexBm25(t) \/ SaveBm25(t)
  <2>1. /\ Alone(t) /\ pc[t] \in {"bm25", "save"}
        /\ pc'[t] \in {"save", "register"} /\ job'[t] = job[t]
        /\ UNCHANGED <<disk, pending, registry, quarantine>>
    BY <1>0, <1>2, <1>14, GotoStays DEF IndexBm25, SaveBm25, Locked
  <2> QED BY <1>3, <2>1, GoesOn DEF Unregistered, Hashed, Parsed
<1>15. CASE Register(t)
  <2>1. /\ Alone(t) /\ pc[t] = "register" /\ pc'[t] = "clear"
        /\ job'[t] = job[t] /\ UNCHANGED <<disk, pending, quarantine>>
    BY <1>0, <1>15, GotoStays DEF Register
  <2>2. /\ \A q \in Paths \ {p} : registry'[q] = registry[q]
        /\ registry'[p].hash = job[t].hash /\ registry'[p].active
    BY <1>3, <1>15 DEF Register, TypeInv, TypeOK
  <2>3. Clearing(p)'
    BY <1>3, <2>1 DEF Clearing
  <2>4. registry[p].hash <= job[t].hash /\ job[t].hash <= disk[p]
    BY <1>0, <1>3, <2>1 DEF PassFits, HashRead, Unregistered, Hashed, Parsed
  <2>5. Settled(p) => Settled(p)'
    <3>1. registry[p].hash = disk[p] => job[t].hash = disk[p]
      BY <1>4, <2>4
    <3> QED BY <2>1, <2>2, <3>1 DEF Settled, Registered
  <2>6. Owed(p) => Owed(p)'
    BY <1>5, <2>1
  <2>7. Due(p) => Due(p)'
    BY <1>3, <1>4, <2>1 DEF Due, Hashed, Parsed
  <2>8. Verdict(t, p)'
    BY <1>4, <2>1, <2>6 DEF Verdict, Hashed, Parsed
  <2> QED BY <1>2, <1>3, <2>1, <2>2, <2>3, <2>5, <2>6, <2>7, <2>8, OwnFileStep
<1>16. CASE ClearQuarantine(t)
  <2>1. /\ Alone(t) /\ pc[t] = "clear" /\ pc'[t] = "extract"
        /\ job'[t] = job[t] /\ UNCHANGED <<disk, pending, registry>>
        /\ quarantine' = quarantine \ {p}
    BY <1>0, <1>3, <1>16, GotoStays DEF ClearQuarantine
  <2>2. registry[p].hash = job[t].hash /\ registry[p].active
    BY <1>0, <1>3, <2>1 DEF PassFits, RowKnown
  <2>3. job[t].hash = disk[p] => Settled(p)'
    BY <2>1, <2>2 DEF Settled, Registered
  <2>4. Owed(p) => Owed(p)'
    BY <1>5, <2>1
  <2>5. job[t].hash = disk[p] \/ Owed(p)
    BY <1>4, <2>1 DEF Verdict, Hashed, Parsed
  <2>6. Verdict(t, p)'
    BY <2>1 DEF Verdict
  <2> QED BY <1>2, <1>3, <2>1, <2>3, <2>4, <2>5, <2>6, OwnFileStep
<1>17. CASE ExtractStructured(t)
  <2>1. /\ Alone(t) /\ pc[t] = "extract" /\ pc'[t] = "idle" /\ job'[t] = NoJob
        /\ UNCHANGED <<disk, pending, registry, quarantine>>
    BY <1>0, <1>17, PassEnds DEF ExtractStructured
  <2>2. ~Clearing(p) /\ ~Due(p)
    BY <1>4, <2>1
  <2>3. ~(registry[p].hash = disk[p] /\ disk[p] \in Valid /\ p \in quarantine)
    BY <1>4, <2>2 DEF Accounted
  <2>4. Settled(p) => Settled(p)'
    BY <2>1 DEF Settled, Registered
  <2>5. Owed(p) => Owed(p)'
    BY <2>1, OwedStays
  <2> QED BY <1>2, <1>3, <2>1, <2>2, <2>3, <2>4, <2>5, ConstantsAssumption,
             OwnFileStep DEF NoJob, NewJob
<1> QED BY <1>6, <1>7, <1>8, <1>9, <1>10, <1>11, <1>12, <1>13, <1>14, <1>15,
           <1>16, <1>17, PassSteps DEF ProcessStep

\* A file that is written is owed a pass, by the watcher at least.
LEMMA WrittenOwed ==
  ASSUME IndexingOnly, AllEventsSeen, TypeInv, Overlap, AccountInv,
         NEW p \in Paths, NEW c \in Contents, WriteFile(p, c),
         UNCHANGED <<registry, quarantine>>
  PROVE  /\ Owed(p)' /\ registry'[p].hash # disk'[p]
         /\ \A q \in Paths \ {p} :
              /\ disk'[q] = disk[q]
              /\ \A w \in Workers : q \in pending'[w] <=> q \in pending[w]
<1>1. /\ disk' = [disk EXCEPT ![p] = c] /\ c > version[p]
      /\ pending' = [w \in Workers |-> pending[w] \cup {p}]
  BY DEF WriteFile, IndexingOnly, AllEventsSeen, Watching
<1>2. disk'[p] = c /\ \A q \in Paths \ {p} : disk'[q] = disk[q]
  BY <1>1 DEF TypeInv, TypeOK
<1>3. registry[p].hash <= disk[p] /\ disk[p] <= version[p]
      /\ registry[p].hash \in Nat /\ disk[p] \in Nat /\ version[p] \in Nat
      /\ c \in Nat
  BY ConstantsAssumption
  DEF Overlap, RowFits, TypeInv, TypeOK, Rows, Contents
<1>4. registry'[p].hash # disk'[p]
  BY <1>1, <1>2, <1>3
<1>5. Owed(p)'
  BY <1>1 DEF Owed, IndexingOnly
<1> QED BY <1>1, <1>2, <1>4, <1>5

\* A file that is owed a pass, with a row of another content, is accounted for.
LEMMA OwedAccounts ==
  ASSUME NEW p \in Paths, Accounted(p), Owed(p)',
         registry'[p].hash # disk'[p],
         \A u \in Tasks : Kept(u) \/ pc'[u] = "wait"
  PROVE  Accounted(p)'
<1>1. ASSUME NEW u \in Tasks, job'[u].path = p PROVE Verdict(u, p)'
  BY <1>1 DEF Accounted, Verdict, Kept, Hashed, Parsed
<1> QED BY <1>1 DEF Accounted

\* A file whose passes are only added to, or are no longer owed as it is gone.
LEMMA MoreOwed ==
  ASSUME TypeInv, Overlap, NEW p \in Paths, Accounted(p),
         disk'[p] = disk[p], registry'[p] = registry[p],
         p \in quarantine' <=> p \in quarantine,
         Owed(p) /\ disk[p] # 0 => Owed(p)',
         \A u \in Tasks : Kept(u) \/ (pc[u] = "idle" /\ pc'[u] = "wait")
  PROVE  Accounted(p)'
<1>1. ASSUME NEW u \in Tasks, job'[u].path = p PROVE Verdict(u, p)'
  <2>1. CASE pc'[u] \in {"idle", "wait"}
    BY <2>1 DEF Verdict, Hashed, Parsed
  <2>2. CASE pc'[u] \notin {"idle", "wait"}
    <3>1. Kept(u) /\ Verdict(u, p)
      BY <1>1, <2>2 DEF Kept, Accounted
    <3>2. disk[p] # 0
      BY <1>1, <2>2, <3>1 DEF Kept, Overlap, PassFits, Passing
    <3> QED BY <3>1, <3>2 DEF Kept, Verdict
  <2> QED BY <2>1, <2>2
<1>2. Due(p) => Due(p)'
  BY DEF Due, Kept, Hashed, Parsed
<1>3. Clearing(p) => Clearing(p)'
  BY DEF Clearing, Kept
<1>4. Settled(p)' <=> Settled(p)
  BY DEF Settled, Registered
<1> QED BY <1>1, <1>2, <1>3, <1>4 DEF Accounted

\* Uploads, scans, retries and the watcher keep the accounts.
LEMMA BeginAccounts ==
  ASSUME IndexingOnly, AllEventsSeen, TypeInv, Overlap, AccountInv,
         NEW t \in Tasks, Request(t) \/ WatcherStep(t)
  PROVE  AccountInv'
<1>1. ASSUME NEW p \in Paths, NEW c \in Contents, Upload(t, p, c)
      PROVE  AccountInv'
  <2>1. /\ WriteFile(p, c) /\ UNCHANGED <<registry, quarantine>>
        /\ Start(t, "wait", IndexJob("upload", p, FALSE, FALSE))
    BY <1>1 DEF Upload
  <2>2. /\ Alone(t) /\ pc[t] = "idle" /\ pc'[t] = "wait"
        /\ job'[t].path = p
    BY <2>1, StartMoves
    DEF Start, TypeInv, TypeOK, IndexJob, NewJob
  <2>3. /\ Owed(p)' /\ registry'[p].hash # disk'[p]
        /\ \A q \in Paths \ {p} :
             /\ disk'[q] = disk[q]
             /\ \A w \in Workers : q \in pending'[w] <=> q \in pending[w]
    BY <2>1, WrittenOwed
  <2>4. Accounted(p)'
    BY <2>2, <2>3, OwedAccounts DEF Alone, Kept, AccountInv
  <2>5. ASSUME NEW q \in Paths \ {p} PROVE Accounted(q)'
    <3>1. Owed(q) => Owed(q)'
      BY <2>2, <2>3 DEF Owed, Alone
    <3> QED BY <2>1, <2>2, <2>3, <3>1, MoreOwed DEF Alone, Kept, AccountInv
  <2> QED BY <2>4, <2>5 DEF AccountInv
<1>2. ASSUME UNCHANGED <<disk, registry, quarantine>>, Alone(t),
             pc[t] = "idle", pc'[t] = "wait",
             \A p \in Paths : Owed(p) /\ disk[p] # 0 => Owed(p)'
      PROVE  AccountInv'
  BY <1>2, MoreOwed DEF AccountInv, Alone, Kept
<1>3. ASSUME NEW p \in Paths, NEW b \in BOOLEAN,
             ScanFile(t, p) \/ Reindex(t, p, b) \/ RetryQuarantine(t, p, b)
      PROVE  AccountInv'
  <2>1. UNCHANGED <<disk, registry, quarantine, pending>>
    BY <1>3 DEF ScanFile, Reindex, RetryQuarantine, diskVars, watchVars
  <2>2. \E j : Start(t, "wait", j)
    BY <1>3 DEF ScanFile, Reindex, RetryQuarantine
  <2>3. Alone(t) /\ pc[t] = "idle" /\ pc'[t] = "wait"
    BY <2>2, StartMoves
  <2>4. \A q \in Paths : Owed(q) => Owed(q)'
    BY <2>1, <2>3, OwedStays
  <2> QED BY <1>2, <2>1, <2>3, <2>4
<1>4. ASSUME NEW p \in Paths, WatcherFire(t, p) PROVE AccountInv'
  <2>1. /\ UNCHANGED <<disk, registry, quarantine>>
        /\ pending' = [pending EXCEPT ![WorkerOf[t]] = @ \ {p}]
    BY <1>4 DEF WatcherFire, diskVars
  <2>2. \A q \in Paths \ {p}, w \in Workers :
          q \in pending'[w] <=> q \in pending[w]
    BY <2>1 DEF TypeInv, TypeOK
  <2>3. CASE disk[p] = 0 /\ UNCHANGED <<pc, job>>
    <3>1. ASSUME NEW q \in Paths PROVE Owed(q) /\ disk[q] # 0 => Owed(q)'
      BY <2>2, <2>3 DEF Owed
    <3> QED BY <2>1, <2>3, <3>1, MoreOwed DEF AccountInv, Kept
  <2>4. CASE disk[p] # 0 /\ Start(t, "wait", IndexJob("watcher", p, FALSE, FALSE))
    <3>1. /\ Alone(t) /\ pc[t] = "idle" /\ pc'[t] = "wait"
          /\ job'[t] = IndexJob("watcher", p, FALSE, FALSE)
      BY <2>4, StartMoves DEF Start, TypeInv, TypeOK
    <3>2. Owed(p)'
      BY <3>1 DEF Owed, IndexJob, NewJob
    <3>3. ASSUME NEW q \in Paths \ {p}, Owed(q) PROVE Owed(q)'
      BY <2>2, <3>1, <3>3 DEF Owed, Alone
    <3> QED BY <1>2, <2>1, <3>1, <3>2, <3>3
  <2> QED BY <1>4, <2>3, <2>4 DEF WatcherFire
<1>5. ~CleanupOrphans(t) /\ ~RebuildIndex(t) /\ ~PurgeQuarantine(t)
      /\ \A p \in Paths : /\ ~DeleteFile(t, p) /\ ~DeleteFolder(t, p)
                          /\ ~DeleteQuarantine(t, p) /\ ~WatcherRemove(t, p)
  BY ConstantsAssumption
  DEF IndexingOnly, CleanupOrphans, RebuildIndex, PurgeQuarantine,
      DeleteFile, DeleteFolder, DeleteQuarantine, WatcherRemove, Overlap
<1> QED BY <1>1, <1>3, <1>4, <1>5 DEF Request, WatcherStep

\* So does every step.
LEMMA AccountStep ==
  ASSUME IndexingOnly, AllEventsSeen, ValidHasChunks, TypeInv, LockInv,
         Overlap, AccountInv, [Next]_vars
  PROVE  AccountInv'
<1>1. ASSUME NEW t \in Tasks, TaskStep(t) PROVE AccountInv'
  BY <1>1, PassSteps, ProcessAccounts DEF TaskStep
<1>2. ASSUME NEW t \in Tasks, Request(t) \/ WatcherStep(t) PROVE AccountInv'
  BY <1>2, BeginAccounts
<1>3. ASSUME NEW p \in Paths, NEW c \in Contents, EditFile(p, c)
      PROVE  AccountInv'
  <2>1. WriteFile(p, c) /\ UNCHANGED <<registry, quarantine, pc, job>>
    BY <1>3 DEF EditFile
  <2>2. /\ Owed(p)' /\ registry'[p].hash # disk'[p]
        /\ \A q \in Paths \ {p} :
             /\ disk'[q] = disk[q]
             /\ \A w \in Workers : q \in pending'[w] <=> q \in pending[w]
    BY <2>1, WrittenOwed
  <2>3. Accounted(p)'
    BY <2>1, <2>2, OwedAccounts DEF Kept, AccountInv
  <2>4. ASSUME NEW q \in Paths \ {p} PROVE Accounted(q)'
    <3>1. Untouched(q)
      BY <2>1, <2>2 DEF Untouched, Kept
    <3> QED BY <3>1, OtherFiles DEF AccountInv
  <2> QED BY <2>3, <2>4 DEF AccountInv
<1>4. CASE UNCHANGED vars
  <2>1. \A q \in Paths : Untouched(q)
    BY <1>4 DEF vars, Untouched, Kept
  <2> QED BY <2>1, OtherFiles DEF AccountInv
<1>5. \A p \in Paths : ~EraseFile(p)
  BY DEF IndexingOnly, EraseFile
<1>6. \A w \in Workers : ~Crash(w)
  BY DEF IndexingOnly, Crash
<1> QED BY <1>1, <1>2, <1>3, <1>4, <1>5, <1>6, PassSteps DEF Next, Idle

\* When no event is lost and a valid text has chunks, every file ends up with a
\* verdict on the content it has: an active row with its hash, or quarantine
\* if it is not valid.  A pass with an older hash can neither leave the last
\* word nor free a file from quarantine, as the pass it is followed by will
\* read the file again.
THEOREM OverlapsAnswer ==
  ASSUME IndexingOnly, AllEventsSeen, ValidHasChunks
  PROVE  Spec => []AccountedFor
<1> DEFINE IInv == TypeInv /\ LockInv /\ Overlap /\ AccountInv
<1>1. Init => IInv
  <2> SUFFICES ASSUME Init PROVE AccountInv
    BY InitType, InitLock, InitOverlap
  <2> QED BY ConstantsAssumption
          DEF Init, AccountInv, Accounted, Verdict, NoRow, NoJob, NewJob,
              Hashed, Parsed
<1>2. IInv /\ [Next]_vars => IInv'
  BY TypeStep, LockStep, OverlapStep, AccountStep
<1>3. IInv => AccountedFor
  <2> SUFFICES ASSUME AccountInv, Quiet, NEW p \in Paths
               PROVE  /\ disk[p] # 0 /\ ~Registered(p) => p \in quarantine
                      /\ p \in quarantine => disk[p] \notin Valid
    BY DEF AccountedFor, Registered
  <2>1. ~Owed(p) /\ ~Due(p)
    BY DEF Quiet, Owed, Due, Hashed, Parsed
  <2>2. disk[p] # 0 => Settled(p)
    BY <2>1 DEF AccountInv, Accounted
  <2> QED BY <2>2, ConstantsAssumption DEF Settled, Registered, Contents
<1> QED BY <1>1, <1>2, <1>3, PTL DEF Spec

-----------------------------------------------------------------------------
(* One coroutine at a time, everything of the routes and of the jobs, the  *)
(* disk changing under it, and no fault: passes, removals, cleanup,        *)
(* rebuild and the quarantine's deletions leave nothing of a file that is  *)
(* gone.  The invariant says what each stage has already removed.          *)

OneAtATime ==
  /\ Ops \cap {"loss", "fail", "crash"} = {}
  /\ \E w : Workers = {w}
  /\ \A t, u \in Tasks : t = u

\* The stages between the old chunks' deletion and the new row, and those of
\* a removal that has found a row.
Inserting == {"embed", "bm25", "save", "register"}
Purging   == {"rmPurge", "rmSave", "rmKb", "rmRow"}

Inserts(p) == \E t \in Tasks : pc[t] \in Inserting /\ job[t].path = p

\* BM25 has no chunk of document d beyond the n-th.
NoTail(d, n) == \A w \in Workers : \A i \in Index : i > n => bm25[w][d][i] = 0

\* The row a coroutine read is still the path's.
RowHeld(t) ==
  LET row == registry[job[t].path] IN
  /\ pc[t] \in {"parse", "reject", "purge"} \cup Inserting \cup Purging =>
       job[t].row = row
  /\ pc[t] \in Purging => row.doc # 0
  /\ pc[t] \in Writing => job[t].doc # 0
  /\ pc[t] \in Inserting => row.doc \in {0, job[t].doc}
  /\ pc[t] \in {"clear", "extract"} => row.doc = job[t].doc /\ row.active

\* What is done at each stage; a file that vanishes under a pass is noticed.
Progress(t) ==
  LET p == job[t].path IN
  /\ pc[t] \in {"embed", "bm25"} => NoTail(job[t].doc, 0)
  /\ pc[t] \in {"save", "register"} => NoTail(job[t].doc, NChunks[job[t].text])
  /\ pc[t] \in Purging \ {"rmPurge"} => Empty(registry[p].doc)
  /\ pc[t] = "rmRow" => kb[registry[p].doc] = 0
  /\ pc[t] = "clearAll" => \A d \in Docs : Empty(d)
  /\ pc[t] \in Hashed /\ disk[p] = 0 => p \in gone[WorkerOf[t]]

\* A removal of the path is due or has not reached the row yet.
Leaving(p) ==
  \/ \E w \in Workers : p \in gone[w]
  \/ \E t \in Tasks : pc[t] \in Purging \cup {"rmLook"} /\ job[t].path = p

\* A row that is not active stands for no chunk in any store.
RowTidy(p) ==
  LET row == registry[p] IN
  /\ row.doc = 0 => row = NoRow
  /\ disk[p] = 0 /\ row.active => Leaving(p)
  /\ row.doc # 0 /\ ~Inserts(p) =>
       /\ NoTail(row.doc, row.ids)
       /\ ~row.active => Empty(row.doc)

Tidy ==
  /\ \A t \in Tasks : RowHeld(t) /\ Progress(t)
  /\ \A p \in Paths : RowTidy(p)
  /\ DocsApart /\ Held

\* The index is tidy at the start.
LEMMA InitTidy == OneAtATime /\ Init => Tidy
<1> SUFFICES ASSUME OneAtATime, Init PROVE Tidy
  OBVIOUS
<1>1. \A t \in Tasks : RowHeld(t) /\ Progress(t)
  BY DEF Init, RowHeld, Progress, Hashed, Parsed, Writing, Inserting, Purging
<1>2. \A p \in Paths, d \in Docs : ~Uses(p, d)
  BY DEF Init, Uses, NoRow, Writing
<1>3. \A p \in Paths : RowTidy(p)
  BY DEF Init, RowTidy, NoRow
<1>4. Held
  BY DEF Init, Held, Empty
<1> QED BY <1>1, <1>2, <1>3, <1>4 DEF Tidy, DocsApart

-----------------------------------------------------------------------------
(* Steps that leave rows and stores alone.                                 *)

\* A file that vanishes is scheduled for removal, and no removal is dropped.
NoneForgotten ==
  /\ \A p \in Paths : disk'[p] = 0 =>
       disk[p] = 0 \/ \A w \in Workers : p \in gone'[w]
  /\ \A w \in Workers : gone[w] \subseteq gone'[w]

\* The stages of u match what the stores hold after the step, and u keeps on
\* writing the document it was writing.
Follows(u) ==
  /\ RowHeld(u)' /\ Progress(u)'
  /\ pc[u] \in Writing <=> pc'[u] \in Writing
  /\ pc[u] \in Inserting <=> pc'[u] \in Inserting
  /\ pc[u] \in Writing =>
       job'[u].path = job[u].path /\ job'[u].doc = job[u].doc

\* The path of a coroutine at work is a path.
LEMMA WorkPath ==
  ASSUME TypeInv, NEW t \in Tasks, pc[t] \in OnPath \/ pc[t] \in Hashed
  PROVE  /\ job[t].path \in Paths /\ registry[job[t].path] \in Rows
         /\ job[t].row \in Rows /\ WorkerOf[t] \in Workers
<1>1. job[t] \in Jobs /\ JobFits(pc[t], job[t])
  BY DEF TypeInv, TypeOK
<1>2. job[t].path \in Paths
  BY <1>1 DEF JobFits, OnPath, Hashed, Parsed, Locked
<1> QED BY <1>1, <1>2, ConstantsAssumption DEF Jobs, TypeInv, TypeOK

\* A coroutine that does not move follows.
LEMMA KeptFollows ==
  ASSUME OneAtATime, TypeInv, Tidy, NEW u \in Tasks, Kept(u), NoneForgotten,
         UNCHANGED <<registry, vec, bm25, kb>>
  PROVE  Follows(u)
<1>1. RowHeld(u)'
  BY DEF Tidy, RowHeld, Kept
<1>2. Progress(u)'
  <2>1. pc[u] \in Hashed /\ disk'[job[u].path] = 0 =>
          job[u].path \in gone'[WorkerOf[u]]
    BY WorkPath DEF Tidy, Progress, NoneForgotten
  <2> QED BY <2>1 DEF Tidy, Progress, Kept, NoTail, Empty
<1> QED BY <1>1, <1>2 DEF Follows, Kept

\* Rows, stores and documents stay tidy.
LEMMA TidyPlain ==
  ASSUME TypeInv, Tidy, UNCHANGED <<registry, vec, bm25, kb, nextDoc>>,
         \A u \in Tasks : Follows(u),
         \A p \in Paths : disk'[p] = 0 /\ registry[p].active => Leaving(p)'
  PROVE  Tidy'
<1>1. \A p \in Paths, d \in Docs : Uses(p, d)' <=> Uses(p, d)
  BY DEF Uses, Follows
<1>2. \A p \in Paths : Inserts(p)' <=> Inserts(p)
  BY DEF Inserts, Follows, Writing, Inserting
<1>3. ASSUME NEW p \in Paths PROVE RowTidy(p)'
  BY <1>2 DEF Tidy, RowTidy, NoTail, Empty
<1>4. DocsApart' /\ Held'
  BY <1>1 DEF Tidy, DocsApart, Held, Empty
<1> QED BY <1>3, <1>4 DEF Tidy, Follows

\* The stages at which a coroutine holds nothing of the index.
Away == {"idle", "wait", "hash", "rmLook", "rmQuar", "unlink", "cuList",
         "cuPurge", "cuSave", "reset", "dequarantine", "unlinkAll"}

\* A coroutine that comes from nowhere special and goes nowhere special.
LEMMA AwayFollows ==
  ASSUME NEW u \in Tasks, pc[u] \notin Writing, pc'[u] \in Away
  PROVE  Follows(u)
BY DEF Follows, RowHeld, Progress, Away, Hashed, Parsed, Writing, Inserting,
       Purging

\* Removals under way stay under way.
LEMMA StillLeaving ==
  ASSUME TypeInv, Tidy, NoneForgotten, OneAtATime,
         UNCHANGED registry,
         \A u \in Tasks : pc[u] \in Purging \cup {"rmLook"} =>
           \/ pc'[u] \in Purging \cup {"rmLook"} /\ job'[u].path = job[u].path
           \/ ~registry[job[u].path].active
  PROVE  \A p \in Paths : disk'[p] = 0 /\ registry[p].active => Leaving(p)'
<1> SUFFICES ASSUME NEW p \in Paths, disk'[p] = 0, registry[p].active
             PROVE  Leaving(p)'
  OBVIOUS
<1>1. CASE disk[p] # 0
  BY <1>1 DEF NoneForgotten, OneAtATime, Leaving
<1>2. CASE disk[p] = 0
  <2>1. Leaving(p)
    BY <1>2 DEF Tidy, RowTidy
  <2> QED BY <2>1 DEF Leaving, NoneForgotten
<1> QED BY <1>1, <1>2

\* Only a write and a deletion change the disk; a deletion is scheduled.
LEMMA DiskForgetsNothing ==
  /\ \A p \in Paths, c \in Contents :
       TypeInv /\ WriteFile(p, c) => NoneForgotten
  /\ \A p \in Paths : OneAtATime /\ TypeInv /\ Unlink(p) => NoneForgotten
  /\ UNCHANGED <<disk, gone>> => NoneForgotten
<1>1. ASSUME TypeInv, NEW p \in Paths, NEW c \in Contents, WriteFile(p, c)
      PROVE  NoneForgotten
  BY <1>1 DEF WriteFile, NoneForgotten, TypeInv, TypeOK, Contents
<1>2. ASSUME OneAtATime, TypeInv, NEW p \in Paths, Unlink(p)
      PROVE  NoneForgotten
  <2>1. /\ disk' = [disk EXCEPT ![p] = 0]
        /\ gone' = [w \in Workers |-> IF w \in IF disk[p] = 0 THEN {} ELSE Workers
                                      THEN gone[w] \cup {p} ELSE gone[w]]
    BY <1>2 DEF Unlink, Watching, OneAtATime
  <2> QED BY <2>1 DEF NoneForgotten, TypeInv, TypeOK
<1>3. ASSUME UNCHANGED <<disk, gone>> PROVE NoneForgotten
  BY <1>3 DEF NoneForgotten
<1> QED BY <1>1, <1>2, <1>3

\* A coroutine outside the stages that write, read a row or hold a removal
\* moves on, the disk changing at most as it may.
LEMMA PlainTidy ==
  ASSUME OneAtATime, TypeInv, Tidy, NEW t \in Tasks, Follows(t), NoneForgotten,
         UNCHANGED <<registry, vec, bm25, kb, nextDoc>>,
         pc[t] \in Purging \cup {"rmLook"} =>
           \/ pc'[t] \in Purging \cup {"rmLook"} /\ job'[t].path = job[t].path
           \/ ~registry[job[t].path].active
  PROVE  Tidy'
<1>1. \A u \in Tasks : u = t
  BY DEF OneAtATime
<1>2. \A p \in Paths : disk'[p] = 0 /\ registry[p].active => Leaving(p)'
  BY <1>1, StillLeaving
<1> QED BY <1>1, <1>2, TidyPlain

\* The same when no coroutine moves.
LEMMA EnvironmentTidy ==
  ASSUME OneAtATime, TypeInv, Tidy, NoneForgotten,
         UNCHANGED <<registry, vec, bm25, kb, nextDoc, pc, job>>
  PROVE  Tidy'
<1>1. \A u \in Tasks : Follows(u)
  BY KeptFollows DEF Kept
<1>2. \A p \in Paths : disk'[p] = 0 /\ registry[p].active => Leaving(p)'
  BY StillLeaving
<1> QED BY <1>1, <1>2, TidyPlain

\* The end of a coroutine, whatever is queued behind it.
LEMMA EndAway ==
  ASSUME TypeInv, NEW t \in Tasks, End(t)
  PROVE  pc'[t] \in Away
BY EndMoves DEF Away

\* The requests and the watcher.
LEMMA BeginTidy ==
  ASSUME OneAtATime, TypeInv, Tidy, NEW t \in Tasks,
         Request(t) \/ WatcherStep(t)
  PROVE  Tidy'
<1>1. UNCHANGED <<registry, vec, bm25, kb, nextDoc>>
  BY DEF Request, CleanupOrphans, RebuildIndex, PurgeQuarantine, ScanFile,
         DeleteFile, DeleteFolder, DeleteQuarantine, Reindex, RetryQuarantine,
         Upload, WatcherStep, WatcherFire, WatcherRemove, indexVars, kbVars
<1>2. ASSUME NEW p \in Paths, WatcherRemove(t, p) PROVE Tidy'
  <2>1. /\ pc[t] = "idle" /\ pc'[t] = "rmLook" /\ job'[t].path = p
        /\ UNCHANGED disk
        /\ \A w \in Workers : gone[w] \subseteq gone'[w] \cup {p}
    BY <1>2, StartMoves
    DEF WatcherRemove, Start, RemoveJob, NewJob, TypeInv, TypeOK, diskVars
  <2>2. \A u \in Tasks : u = t
    BY DEF OneAtATime
  <2>3. \A u \in Tasks : Follows(u)
    BY <2>1, <2>2, AwayFollows DEF Away, Writing
  <2>4. ASSUME NEW q \in Paths, disk'[q] = 0, registry[q].active
        PROVE  Leaving(q)'
    <3>1. Leaving(q)
      BY <1>1, <2>1, <2>4 DEF Tidy, RowTidy
    <3>2. CASE q = p
      BY <2>1, <3>2 DEF Leaving
    <3>3. CASE q # p
      BY <2>1, <2>2, <3>1, <3>3 DEF Leaving, Purging
    <3> QED BY <3>2, <3>3
  <2> QED BY <1>1, <2>3, <2>4, TidyPlain
<1>3. ASSUME NEW p \in Paths, WatcherFire(t, p) PROVE Tidy'
  <2>1. NoneForgotten
    BY <1>3, DiskForgetsNothing DEF WatcherFire, diskVars
  <2>2. CASE UNCHANGED <<pc, job>>
    BY <1>1, <2>1, <2>2, EnvironmentTidy
  <2>3. CASE \E j : Start(t, "wait", j)
    <3>1. pc[t] = "idle" /\ pc'[t] = "wait"
      BY <2>3, StartMoves
    <3>2. Follows(t)
      BY <3>1, AwayFollows DEF Away, Writing
    <3> QED BY <1>1, <2>1, <3>1, <3>2, PlainTidy DEF Purging
  <2> QED BY <1>3, <2>2, <2>3 DEF WatcherFire
<1>4. CASE Request(t)
  <2>1. NoneForgotten
    <3>1. CASE \E p \in Paths, c \in Contents : Upload(t, p, c)
      BY <3>1, DiskForgetsNothing DEF Upload
    <3>2. CASE \E p \in Paths : DeleteQuarantine(t, p)
      BY <3>2, DiskForgetsNothing DEF DeleteQuarantine
    <3>3. CASE UNCHANGED <<disk, gone>>
      BY <3>3, DiskForgetsNothing
    <3> QED BY <1>4, <3>1, <3>2, <3>3
            DEF Request, CleanupOrphans, RebuildIndex, PurgeQuarantine,
                ScanFile, DeleteFile, DeleteFolder, Reindex, RetryQuarantine,
                diskVars, watchVars
  <2>2. PICK stage \in {"wait", "rmLook", "unlink", "cuList", "reset",
                        "dequarantine", "unlinkAll"} :
          \E j : Start(t, stage, j)
    BY <1>4, Zenon
    DEF Request, CleanupOrphans, RebuildIndex, PurgeQuarantine, ScanFile,
        DeleteFile, DeleteFolder, DeleteQuarantine, Reindex, RetryQuarantine,
        Upload
  <2>3. pc[t] = "idle" /\ pc'[t] = stage
    BY <2>2, StartMoves
  <2>4. Follows(t)
    BY <2>2, <2>3, AwayFollows DEF Away, Writing
  <2> QED BY <1>1, <2>1, <2>3, <2>4, PlainTidy DEF Purging
<1> QED BY <1>2, <1>3, <1>4 DEF WatcherStep

\* The steps of passes that only read, save or end.
LEMMA ReadingTidy ==
  ASSUME OneAtATime, TypeInv, Tidy, NEW t \in Tasks,
         \/ AcquireLock(t) \/ HashFile(t) \/ LookUp(t) \/ ParseAndValidate(t)
         \/ Reject(t) \/ SaveBm25(t) \/ ClearQuarantine(t) \/ FileVanished(t)
  PROVE  Tidy'
<1> DEFINE p == job[t].path
<1>0. /\ RowHeld(t) /\ Progress(t) /\ NoneForgotten
      /\ UNCHANGED <<disk, gone, registry, vec, bm25, kb, nextDoc>>
  BY DiskForgetsNothing
  DEF Tidy, diskVars, indexVars, kbVars, watchVars, AcquireLock, HashFile, LookUp,
      ParseAndValidate, Reject, SaveBm25, ClearQuarantine, FileVanished
<1>1. ASSUME pc[t] \notin Writing, pc'[t] \in Away, pc[t] \notin Purging,
             pc[t] # "rmLook"
      PROVE  Tidy'
  BY <1>0, <1>1, AwayFollows, PlainTidy
<1>2. CASE AcquireLock(t)
  <2>1. pc[t] = "wait" /\ pc'[t] = "hash"
    BY <1>2, GotoStays DEF AcquireLock
  <2> QED BY <1>1, <2>1 DEF Away, Writing, Purging
<1>3. CASE HashFile(t)
  <2>1. /\ pc[t] = "hash" /\ pc'[t] = "look" /\ disk[p] # 0
        /\ job'[t].path = p
    BY <1>3 DEF HashFile, Goto, TypeInv, TypeOK, Jobs
  <2>2. Follows(t)
    BY <1>0, <2>1 DEF Follows, RowHeld, Progress, Hashed, Parsed, Writing,
       Inserting, Purging
  <2> QED BY <1>0, <2>1, <2>2, PlainTidy DEF Purging
<1>4. CASE LookUp(t)
  <2>1. CASE End(t)
    BY <1>1, <1>4, <2>1, EndAway DEF LookUp, Writing, Purging
  <2>2. CASE /\ job' = [job EXCEPT ![t].row = registry[job[t].path]]
             /\ Goto(t, "parse")
    <3>1. /\ pc[t] = "look" /\ pc'[t] = "parse" /\ job'[t].path = p
          /\ job'[t].row = registry[p]
      BY <1>4, <2>2 DEF LookUp, Goto, TypeInv, TypeOK, Jobs
    <3>2. Follows(t)
      BY <1>0, <3>1 DEF Follows, RowHeld, Progress, Hashed, Parsed, Writing,
         Inserting, Purging
    <3> QED BY <1>0, <3>1, <3>2, PlainTidy DEF Purging
  <2> QED BY <1>4, <2>1, <2>2 DEF LookUp
<1>5. CASE ParseAndValidate(t)
  <2>1. /\ pc[t] = "parse" /\ pc'[t] \in {"purge", "reject"}
        /\ job'[t].path = p /\ job'[t].row = job[t].row
    BY <1>5 DEF ParseAndValidate, Goto, TypeInv, TypeOK, Jobs
  <2>2. Follows(t)
    BY <1>0, <2>1 DEF Follows, RowHeld, Progress, Hashed, Parsed, Writing,
       Inserting, Purging
  <2> QED BY <1>0, <2>1, <2>2, PlainTidy DEF Purging
<1>6. CASE Reject(t) \/ FileVanished(t)
  BY <1>1, <1>6, EndAway DEF Reject, FileVanished, Writing, Purging
<1>7. CASE SaveBm25(t) /\ End(t) /\ pc[t] = "cuSave"
  BY <1>1, <1>7, EndAway DEF Writing, Purging
<1>8. ASSUME \/ pc[t] = "save" /\ pc'[t] = "register"
             \/ pc[t] = "rmSave" /\ pc'[t] = "rmKb"
             \/ pc[t] = "clear" /\ pc'[t] = "extract",
             job'[t] = job[t]
      PROVE  Tidy'
  <2>1. Follows(t)
    BY <1>0, <1>8 DEF Follows, RowHeld, Progress, Hashed, Parsed, Writing,
       Inserting, Purging, NoTail, Empty
  <2> QED BY <1>0, <1>8, <2>1, PlainTidy DEF Purging
<1>9. CASE SaveBm25(t)
  <2>1. CASE pc[t] = "save" /\ Goto(t, "register") /\ UNCHANGED job
    <3>1. pc'[t] = "register" /\ job'[t] = job[t]
      BY <2>1, GotoStays
    <3> QED BY <1>8, <2>1, <3>1
  <2>2. CASE pc[t] = "rmSave" /\ Goto(t, "rmKb") /\ UNCHANGED job
    <3>1. pc'[t] = "rmKb" /\ job'[t] = job[t]
      BY <2>2, GotoStays
    <3> QED BY <1>8, <2>2, <3>1
  <2> QED BY <1>7, <1>9, <2>1, <2>2 DEF SaveBm25
<1>10. CASE ClearQuarantine(t)
  BY <1>8, <1>10, GotoStays DEF ClearQuarantine
<1> QED BY <1>2, <1>3, <1>4, <1>5, <1>6, <1>9, <1>10

\* Those of removals and of the maintenance jobs.
LEMMA AwayTidy ==
  ASSUME OneAtATime, TypeInv, Tidy, NEW t \in Tasks,
         \/ RmLook(t) \/ RmQuar(t) \/ UnlinkFile(t) \/ ListActive(t)
         \/ RemoveResolved(t) \/ UnlinkExpired(t)
  PROVE  Tidy'
<1> DEFINE p == job[t].path
<1>0. /\ RowHeld(t) /\ Progress(t)
      /\ UNCHANGED <<registry, vec, bm25, kb, nextDoc>>
  BY DEF Tidy, indexVars, kbVars, RmLook, RmQuar, UnlinkFile, ListActive,
         RemoveResolved, UnlinkExpired
<1>1. ASSUME pc[t] \notin Writing, pc'[t] \in Away, pc[t] \notin Purging,
             pc[t] # "rmLook", NoneForgotten
      PROVE  Tidy'
  BY <1>0, <1>1, AwayFollows, PlainTidy
<1>2. CASE RmLook(t)
  <2>1. /\ pc[t] = "rmLook" /\ job'[t].path = p /\ job'[t].row = registry[p]
        /\ pc'[t] = IF registry[p].doc # 0 THEN "rmPurge" ELSE "rmQuar"
    BY <1>2 DEF RmLook, Goto, TypeInv, TypeOK, Jobs
  <2>2. p \in Paths
    BY <2>1, WorkPath DEF OnPath, Removal
  <2>3. NoneForgotten
    BY <1>2, DiskForgetsNothing DEF RmLook, diskVars, watchVars
  <2>4. pc'[t] = "rmPurge" \/ ~registry[p].active
    BY <2>1, <2>2 DEF Tidy, RowTidy, NoRow
  <2>5. Follows(t)
    BY <1>0, <2>1 DEF Follows, RowHeld, Progress, Hashed, Parsed, Writing,
       Inserting, Purging
  <2> QED BY <1>0, <2>1, <2>3, <2>4, <2>5, PlainTidy DEF Purging
<1>3. CASE RmQuar(t)
  <2>1. pc[t] = "rmQuar" /\ pc'[t] \in Away
    BY <1>3, EndAway, GotoStays DEF RmQuar, Away
  <2>2. NoneForgotten
    BY <1>3, DiskForgetsNothing DEF RmQuar, diskVars, watchVars
  <2> QED BY <1>1, <2>1, <2>2 DEF Writing, Purging
<1>4. CASE UnlinkFile(t)
  <2>1. p \in Paths
    BY <1>4, WorkPath DEF UnlinkFile, OnPath, Removal
  <2>2. NoneForgotten
    BY <1>4, <2>1, DiskForgetsNothing DEF UnlinkFile
  <2> QED BY <1>1, <1>4, <2>2, EndAway DEF UnlinkFile, Writing, Purging
<1>5. CASE ListActive(t)
  <2>1. pc[t] = "cuList" /\ pc'[t] = "cuPurge"
    BY <1>5 DEF ListActive, Goto, TypeInv, TypeOK
  <2>2. NoneForgotten
    BY <1>5, DiskForgetsNothing DEF ListActive, diskVars, watchVars
  <2> QED BY <1>1, <2>1, <2>2 DEF Away, Writing, Purging
<1>6. CASE RemoveResolved(t)
  <2>1. NoneForgotten
    BY <1>6, DiskForgetsNothing DEF RemoveResolved, diskVars, watchVars
  <2> QED BY <1>1, <1>6, <2>1, EndAway DEF RemoveResolved, Writing, Purging
<1>7. CASE UnlinkExpired(t)
  <2>1. PICK q \in job[t].todo : Unlink(q)
    BY <1>7 DEF UnlinkExpired
  <2>2. q \in Paths
    BY <2>1 DEF TypeInv, TypeOK, Jobs
  <2>3. NoneForgotten
    BY <2>1, <2>2, DiskForgetsNothing
  <2>4. pc[t] = "unlinkAll" /\ pc'[t] \in {"idle", "unlinkAll"}
    BY <1>7 DEF UnlinkExpired, Goto, TypeInv, TypeOK
  <2> QED BY <1>1, <2>3, <2>4 DEF Away, Writing, Purging
<1> QED BY <1>2, <1>3, <1>4, <1>5, <1>6, <1>7

-----------------------------------------------------------------------------
(* Steps that change a document or its row.                                *)

\* A coroutine at work on path p changes document d only, which no other
\* path uses: what is left to show is that p, d and the stage are right.
LEMMA OwnTidy ==
  ASSUME OneAtATime, TypeInv, TypeInv', Tidy, NEW t \in Tasks,
         NEW p \in Paths, NEW d, job[t].path = p,
         pc'[t] \in Writing \cup Purging => job'[t].path = p,
         UNCHANGED <<disk, gone>>, OthersKept(d),
         \A q \in Paths \ {p} : registry'[q] = registry[q] /\ ~Uses(q, d),
         \A e \in Docs : Uses(p, e) \/ Uses(p, e)' => e = d,
         d \in Docs => Uses(p, d)' \/ Empty(d)',
         d \in Docs /\ Uses(p, d)' => d <= nextDoc', nextDoc <= nextDoc',
         RowHeld(t)', Progress(t)', RowTidy(p)'
  PROVE  Tidy'
<1>0. \A u \in Tasks : u = t
  BY DEF OneAtATime
<1>1. ASSUME NEW q \in Paths \ {p} PROVE RowTidy(q)'
  <2>1. registry'[q] = registry[q] /\ RowTidy(q)
    BY DEF Tidy
  <2>2. registry[q].doc # 0 => registry[q].doc \in Docs \ {d}
    <3> SUFFICES ASSUME registry[q].doc # 0 PROVE registry[q].doc \in Docs \ {d}
      OBVIOUS
    <3>1. registry[q].doc \in 0..MaxDocs
      BY DEF TypeInv, TypeOK, Rows
    <3>2. Uses(q, registry[q].doc)
      BY DEF Uses
    <3> QED BY <3>1, <3>2, ConstantsAssumption DEF Docs
  <2>3. Leaving(q) => Leaving(q)'
    BY <1>0 DEF Leaving
  <2>4. ~Inserts(q)
    BY <1>0 DEF Inserts
  <2> QED BY <2>1, <2>2, <2>3, <2>4 DEF RowTidy, OthersKept, NoTail, Empty
<1>2. \A q \in Paths \ {p} : \A e \in Docs : Uses(q, e)' <=> Uses(q, e)
  BY <1>0 DEF Uses
<1>3. DocsApart'
  <2> SUFFICES ASSUME NEW q \in Paths, NEW e \in Docs, Uses(q, e)'
               PROVE  e <= nextDoc' /\ \A r \in Paths : Uses(r, e)' => q = r
    BY DEF DocsApart
  <2>1. CASE e = d
    BY <1>2, <2>1
  <2>2. CASE e # d
    <3>1. q # p /\ Uses(q, e)
      BY <1>2, <2>2
    <3>2. e <= nextDoc /\ \A r \in Paths : Uses(r, e) => q = r
      BY <3>1 DEF Tidy, DocsApart
    <3>3. e <= nextDoc'
      BY <3>2 DEF Docs, TypeInv, TypeOK
    <3> QED BY <1>2, <2>2, <3>2, <3>3
  <2> QED BY <2>1, <2>2
<1>4. Held'
  <2> SUFFICES ASSUME NEW e \in Docs
               PROVE  Empty(e)' \/ \E q \in Paths : Uses(q, e)'
    BY DEF Held
  <2>1. CASE e # d
    <3>1. Empty(e)' <=> Empty(e)
      BY <2>1 DEF Empty, OthersKept
    <3> QED BY <1>2, <2>1, <3>1 DEF Tidy, Held
  <2>2. CASE e = d
    BY <2>2
  <2> QED BY <2>1, <2>2
<1> QED BY <1>0, <1>1, <1>3, <1>4 DEF Tidy

\* Where a row has been read, its document is the path's only one.
LEMMA ReadDoc ==
  ASSUME OneAtATime, TypeInv, Tidy, NEW t \in Tasks,
         pc[t] \in {"purge"} \cup Purging
  PROVE  LET p == job[t].path  row == job[t].row IN
         /\ p \in Paths /\ row = registry[p] /\ row \in Rows /\ ~Inserts(p)
         /\ \A e \in Docs : Uses(p, e) <=> e = row.doc
         /\ \A q \in Paths \ {p} : ~Uses(q, row.doc)
         /\ row.doc # 0 => row.doc \in Docs
         /\ row.doc \in Docs => row.doc <= nextDoc /\ NoTail(row.doc, row.ids)
<1> DEFINE p == job[t].path
           row == job[t].row
<1>1. p \in Paths /\ row = registry[p] /\ row \in Rows
  BY WorkPath DEF Tidy, RowHeld, OnPath, Locked, Removal, Purging
<1>2. \A u \in Tasks : u = t /\ pc[u] \notin Writing /\ pc[u] \notin Inserting
  BY DEF OneAtATime, Writing, Inserting, Purging
<1>3. row.doc # 0 => row.doc \in Docs
  BY <1>1, ConstantsAssumption DEF Rows, Docs
<1>4. ~Inserts(p) /\ \A e \in Docs : Uses(p, e) <=> e = row.doc
  BY <1>1, <1>2, ConstantsAssumption DEF Inserts, Uses, Docs
<1>5. ASSUME NEW q \in Paths \ {p}, Uses(q, row.doc) PROVE FALSE
  <2>1. row.doc \in Docs
    BY <1>3, <1>5 DEF Uses
  <2> QED BY <1>1, <1>4, <1>5, <2>1 DEF Tidy, DocsApart
<1>6. row.doc \in Docs => row.doc <= nextDoc /\ NoTail(row.doc, row.ids)
  <2> SUFFICES ASSUME row.doc \in Docs
               PROVE  row.doc <= nextDoc /\ NoTail(row.doc, row.ids)
    OBVIOUS
  <2>1. row.doc # 0 /\ Uses(p, row.doc)
    BY <1>4, ConstantsAssumption DEF Docs
  <2> QED BY <1>1, <1>4, <2>1 DEF Tidy, DocsApart, RowTidy
<1> QED BY <1>1, <1>3, <1>4, <1>5, <1>6

\* So is the document a pass is writing.
LEMMA WrittenDoc ==
  ASSUME OneAtATime, TypeInv, Tidy, NEW t \in Tasks, pc[t] \in Writing
  PROVE  LET p == job[t].path  d == job[t].doc IN
         /\ p \in Paths /\ d \in Docs /\ d <= nextDoc
         /\ \A e \in Docs : Uses(p, e) <=> e = d
         /\ \A q \in Paths \ {p} : ~Uses(q, d)
<1> DEFINE p == job[t].path
           d == job[t].doc
<1>1. p \in Paths /\ d \in 0..MaxDocs /\ d # 0
  BY PassTypes DEF Tidy, RowHeld, Writing, Locked
<1>2. d \in Docs /\ Uses(p, d)
  BY <1>1, ConstantsAssumption DEF Docs, Uses
<1>3. d <= nextDoc /\ \A q \in Paths : Uses(q, d) => p = q
  BY <1>1, <1>2 DEF Tidy, DocsApart
<1>4. registry[p].doc \in {0, d}
  BY DEF Tidy, RowHeld, Writing, Inserting
<1>5. \A e \in Docs : Uses(p, e) => e = d
  BY <1>4 DEF Uses, OneAtATime
<1> QED BY <1>1, <1>2, <1>3, <1>5

\* Step 6: nothing is left of the document the row names.
LEMMA OldChunksGone ==
  ASSUME OneAtATime, TypeInv, Tidy, NEW t \in Tasks,
         DropOldChunks(t) \/ RmPurge(t)
  PROVE  LET row == job[t].row IN
         /\ OthersKept(row.doc)
         /\ \A d \in Docs : d = row.doc => Empty(d)'
         /\ row.doc = 0 => UNCHANGED <<vec, bm25>>
<1>1. pc[t] \in {"purge", "rmPurge"} /\ UNCHANGED kb
      /\ (pc[t] = "rmPurge" => RmPurge(t))
  BY DEF kbVars, DropOldChunks, RmPurge
<1>2. PICK row \in Rows : row = job[t].row /\ row = registry[job[t].path]
  BY <1>1, ReadDoc DEF Purging
<1>3. CASE row.doc = 0
  <2>1. pc[t] # "rmPurge"
    BY <1>2, <1>3 DEF Tidy, RowHeld, Purging
  <2>2. DropOldChunks(t)
    BY <1>1, <2>1 DEF RmPurge
  <2> QED BY <1>1, <1>2, <1>3, <2>2 DEF DropOldChunks, OthersKept, Docs
<1>4. CASE row.doc # 0
  <2>1. row.doc \in Docs /\ NoTail(row.doc, row.ids)
    BY <1>1, <1>2, <1>4, ReadDoc DEF Purging
  <2>2. DeleteChunks(WorkerOf[t], row)
    BY <1>2, <1>4 DEF DropOldChunks, RmPurge
  <2> QED BY <1>1, <1>2, <1>4, <2>1, <2>2, DeletesAll DEF OneAtATime, NoTail
<1> QED BY <1>3, <1>4

\* A text without a chunk: the row keeps naming an emptied document.
LEMMA EndEmptied ==
  ASSUME OneAtATime, TypeInv, TypeInv', Tidy, NEW t \in Tasks,
         DropOldChunks(t), End(t), UNCHANGED nextDoc
  PROVE  Tidy'
<1>1. PICK p \in Paths, row \in Rows :
        p = job[t].path /\ row = job[t].row /\ row = registry[p]
  BY ReadDoc DEF DropOldChunks
<1>2. pc[t] = "purge" /\ pc'[t] \in Away /\ RowTidy(p)
      /\ UNCHANGED <<disk, gone, registry, kb>>
  BY <1>1, EndAway DEF kbVars, DropOldChunks, Tidy, diskVars, watchVars
<1>3. /\ \A e \in Docs : Uses(p, e) <=> e = row.doc
      /\ \A q \in Paths \ {p} : ~Uses(q, row.doc)
      /\ row.doc # 0 => row.doc \in Docs
      /\ row.doc \in Docs => row.doc <= nextDoc
      /\ ~Inserts(p)
  BY <1>1, <1>2, ReadDoc
<1>4. OthersKept(row.doc) /\ \A d \in Docs : d = row.doc => Empty(d)'
  BY <1>1, OldChunksGone
<1>5. RowHeld(t)' /\ Progress(t)' /\ pc'[t] \notin Writing \cup Purging
  BY <1>2, AwayFollows
  DEF Follows, Writing, Away, Purging
<1>6. \A u \in Tasks : u = t
  BY DEF OneAtATime
<1>7. \A e \in Docs : Uses(p, e)' => e = row.doc
  BY <1>1, <1>2, <1>5, <1>6 DEF Uses
<1>8. RowTidy(p)'
  <2>1. row.doc = 0 => row = NoRow
    BY <1>1, <1>2 DEF RowTidy
  <2>2. Leaving(p) => Leaving(p)'
    BY <1>2, <1>6 DEF Leaving, Purging
  <2>3. disk[p] = 0 /\ row.active => Leaving(p)'
    BY <1>1, <1>2, <2>2 DEF RowTidy
  <2>4. row.doc # 0 => NoTail(row.doc, row.ids)' /\ Empty(row.doc)'
    BY <1>3, <1>4 DEF Empty, NoTail, NoChunks
  <2> QED BY <1>1, <1>2, <2>1, <2>3, <2>4 DEF RowTidy
<1>9. nextDoc' = nextDoc /\ nextDoc <= nextDoc
  BY DEF TypeInv, TypeOK
<1>10. row.doc \in Docs => Empty(row.doc)' /\ row.doc <= nextDoc'
  BY <1>3, <1>4, <1>9
<1> QED BY <1>1, <1>2, <1>3, <1>4, <1>5, <1>7, <1>8, <1>9, <1>10, OwnTidy

\* Step 7: a row's document is written again, or a new one is.
LEMMA StartsInserting ==
  ASSUME OneAtATime, TypeInv, TypeInv', Tidy, NEW t \in Tasks,
         DropOldChunks(t), DocIdFor(job[t].row) <= MaxDocs,
         job' = [job EXCEPT ![t].doc = DocIdFor(job[t].row)],
         Goto(t, "embed"), nextDoc' = IF DocIdFor(job[t].row) > nextDoc
                                      THEN DocIdFor(job[t].row) ELSE nextDoc
  PROVE  Tidy'
<1>1. PICK p \in Paths, row \in Rows :
        p = job[t].path /\ row = job[t].row /\ row = registry[p]
  BY ReadDoc DEF DropOldChunks
<1>2. pc[t] = "purge" /\ RowTidy(p) /\ Progress(t)
      /\ UNCHANGED <<disk, gone, registry, kb>>
  BY <1>1 DEF kbVars, DropOldChunks, Tidy, diskVars, watchVars
<1>3. PICK d \in Docs : d = DocIdFor(row)
  <2>1. row.doc \in 0..MaxDocs /\ nextDoc \in Nat
    BY DEF Rows, TypeInv, TypeOK
  <2> QED BY <1>1, <2>1, ConstantsAssumption DEF Docs, DocIdFor
<1>4. /\ \A e \in Docs : Uses(p, e) <=> e = row.doc
      /\ \A q \in Paths \ {p} : ~Uses(q, row.doc)
  BY <1>1, <1>2, ReadDoc
<1>5. row.doc \in {0, d} /\ nextDoc <= nextDoc' /\ d <= nextDoc'
  <2>1. nextDoc \in Nat /\ d \in Nat
    BY DEF Docs, TypeInv, TypeOK
  <2> QED BY <1>1, <1>3, <2>1 DEF DocIdFor
<1>6. OthersKept(d) /\ Empty(d)' /\ \A q \in Paths \ {p} : ~Uses(q, d)
  <2>1. CASE row.doc = d
    BY <1>1, <1>4, <2>1, OldChunksGone
  <2>2. CASE row.doc = 0
    <3>1. d = nextDoc + 1
      BY <1>3, <2>2 DEF DocIdFor
    <3>2. \A q \in Paths : ~Uses(q, d)
      BY <1>3, <3>1 DEF Tidy, DocsApart, TypeInv, TypeOK
    <3>3. UNCHANGED <<vec, bm25>> /\ Empty(d)
      BY <1>1, <2>2, <3>2, OldChunksGone DEF Tidy, Held
    <3> QED BY <1>2, <3>2, <3>3 DEF Empty, OthersKept
  <2> QED BY <1>5, <2>1, <2>2
<1>7. pc'[t] = "embed" /\ job'[t].path = p /\ job'[t].row = row
      /\ job'[t].doc = d
  <2>1. job[t] \in Jobs /\ job \in [Tasks -> Jobs]
    BY DEF TypeInv, TypeOK
  <2>2. job'[t] = [job[t] EXCEPT !.doc = d]
    BY <1>1, <1>3, <2>1
  <2>3. pc'[t] = "embed"
    BY DEF Goto, TypeInv, TypeOK
  <2> QED BY <1>1, <2>1, <2>2, <2>3 DEF Jobs
<1>8. \A u \in Tasks : u = t
  BY DEF OneAtATime
<1>9. Uses(p, d)' /\ \A e \in Docs : Uses(p, e) \/ Uses(p, e)' => e = d
  BY <1>1, <1>2, <1>4, <1>5, <1>7, <1>8 DEF Uses, Writing, Docs
<1>10. RowHeld(t)' /\ Progress(t)'
  BY <1>1, <1>2, <1>5, <1>6, <1>7
  DEF RowHeld, Progress, Inserting, Purging, Writing, Hashed, Parsed, Docs,
      NoTail, Empty, NoChunks
<1>11. RowTidy(p)'
  <2>1. Leaving(p) => Leaving(p)'
    BY <1>2, <1>8 DEF Leaving, Purging
  <2>2. Inserts(p)'
    BY <1>7 DEF Inserts, Inserting
  <2> QED BY <1>1, <1>2, <2>1, <2>2 DEF RowTidy
<1> QED BY <1>1, <1>2, <1>5, <1>6, <1>7, <1>9, <1>10, <1>11, OwnTidy

\* A step of a pass that is writing its document: what is left to show is that
\* its row and its stage are right.
LEMMA WritingTidy ==
  ASSUME OneAtATime, TypeInv, TypeInv', Tidy, NEW t \in Tasks,
         pc[t] \in Writing, pc'[t] \in Writing \cup Away,
         pc'[t] \in Writing =>
           job'[t].path = job[t].path /\ job'[t].doc = job[t].doc,
         UNCHANGED <<disk, gone, nextDoc>>, OthersKept(job[t].doc),
         \A q \in Paths \ {job[t].path} : registry'[q] = registry[q],
         \A p \in Paths : p = job[t].path =>
           /\ registry'[p].doc \in {0, job[t].doc} /\ RowTidy(p)'
           /\ pc'[t] \notin Writing => registry'[p].doc = job[t].doc,
         RowHeld(t)', Progress(t)'
  PROVE  Tidy'
<1>1. PICK p \in Paths, d \in Docs : p = job[t].path /\ d = job[t].doc
  BY WrittenDoc
<1>2. /\ d <= nextDoc /\ \A e \in Docs : Uses(p, e) <=> e = d
      /\ \A q \in Paths \ {p} : ~Uses(q, d)
  BY <1>1, WrittenDoc
<1>3. \A u \in Tasks : u = t
  BY DEF OneAtATime
<1>4. d # 0 /\ d <= nextDoc' /\ nextDoc <= nextDoc'
  BY <1>2 DEF Docs, TypeInv, TypeOK
<1>5. Uses(p, d)'
  <2>1. CASE pc'[t] \in Writing
    BY <1>1, <1>4, <2>1 DEF Uses
  <2>2. CASE pc'[t] \notin Writing
    BY <1>1, <1>4, <2>2 DEF Uses
  <2> QED BY <2>1, <2>2
<1>6. \A e \in Docs : Uses(p, e)' => e = d
  BY <1>1, <1>3 DEF Uses
<1>7. pc'[t] \in Writing \cup Purging => job'[t].path = p
  BY <1>1 DEF Away, Purging, Writing
<1> QED BY <1>1, <1>2, <1>4, <1>5, <1>6, <1>7, OwnTidy

\* While the row is to be replaced nothing is asked of its document.
LEMMA RowWaits ==
  ASSUME OneAtATime, Tidy, NEW t \in Tasks, NEW p \in Paths,
         pc[t] \in Writing, UNCHANGED <<disk, gone, registry>>,
         Inserts(p)' \/ RowTidy(p)'
  PROVE  RowTidy(p)'
<1>1. \A u \in Tasks : u = t
  BY DEF OneAtATime
<1>2. Leaving(p) => Leaving(p)'
  BY <1>1 DEF Leaving, Writing, Purging
<1> QED BY <1>2 DEF Tidy, RowTidy

\* The chunks of one collection are written.
LEMMA EmbedTidy ==
  ASSUME OneAtATime, TypeInv, TypeInv', Tidy, NEW t \in Tasks,
         EmbedAndUpsert(t)
  PROVE  Tidy'
<1> DEFINE k == job[t].k
           d == job[t].doc
<1>1. /\ pc[t] = "embed" /\ RowHeld(t) /\ Progress(t)
      /\ UNCHANGED <<disk, gone, registry, bm25, kb, nextDoc>>
  BY DEF kbVars, EmbedAndUpsert, Tidy, diskVars, watchVars
<1>2. k \in Targets /\ job[t].path \in Paths
  BY <1>1, PassTypes DEF Locked
<1>3. /\ pc'[t] \in {"embed", "bm25"} /\ job'[t].path = job[t].path
      /\ job'[t].doc = d /\ job'[t].row = job[t].row
  BY <1>1 DEF EmbedAndUpsert, Goto, TypeInv, TypeOK, Jobs
<1>4. OthersKept(d)
  <2>1. vec \in [Targets -> [Docs -> Chunks]]
    BY DEF TypeInv, TypeOK
  <2>2. vec' = [vec EXCEPT ![k][d] = Upserted(vec[k][d], job[t].text)]
    BY DEF EmbedAndUpsert
  <2>3. \A e \in Docs \ {d}, s \in Targets : vec'[s][e] = vec[s][e]
    BY <1>2, <2>1, <2>2
  <2> QED BY <1>1, <2>3 DEF OthersKept
<1>5. RowHeld(t)' /\ Progress(t)'
  BY <1>1, <1>3 DEF RowHeld, Progress, Inserting, Purging, Writing, Hashed,
     Parsed, NoTail
<1>6. \A p \in Paths : p = job[t].path =>
        registry'[p].doc \in {0, d} /\ RowTidy(p)'
  <2> SUFFICES ASSUME NEW p \in Paths, p = job[t].path
               PROVE  registry'[p].doc \in {0, d} /\ RowTidy(p)'
    OBVIOUS
  <2>1. Inserts(p)'
    BY <1>3 DEF Inserts, Inserting
  <2> QED BY <1>1, <2>1, RowWaits DEF RowHeld, Inserting, Writing
<1> QED BY <1>1, <1>3, <1>4, <1>5, <1>6, WritingTidy DEF Writing

\* BM25 gets the chunks of the text and none beyond.
LEMMA Bm25Tidy ==
  ASSUME OneAtATime, TypeInv, TypeInv', Tidy, NEW t \in Tasks, IndexBm25(t)
  PROVE  Tidy'
<1> DEFINE w == WorkerOf[t]
           d == job[t].doc
           c == job[t].text
<1>1. /\ pc[t] = "bm25" /\ RowHeld(t) /\ Progress(t)
      /\ UNCHANGED <<disk, gone, registry, vec, kb, nextDoc>>
  BY DEF kbVars, IndexBm25, Tidy, diskVars, watchVars
<1>2. d \in Docs /\ Workers = {w} /\ NoTail(d, 0)
  BY <1>1, WrittenDoc, ConstantsAssumption
  DEF OneAtATime, Writing, Progress
<1>3. pc'[t] = "save" /\ job'[t] = job[t]
  BY GotoStays DEF IndexBm25
<1>4. bm25 \in [Workers -> [Docs -> Chunks]]
      /\ bm25' = [bm25 EXCEPT ![w][d] = Added(bm25[w][d], c)]
  BY DEF IndexBm25, TypeInv, TypeOK
<1>5. bm25'[w][d] = Added(bm25[w][d], c)
      /\ \A e \in Docs \ {d} : bm25'[w][e] = bm25[w][e]
  BY <1>2, <1>4
<1>6. NoTail(d, NChunks[c])'
  <2> SUFFICES ASSUME NEW i \in Index, i > NChunks[c] PROVE bm25'[w][d][i] = 0
    BY <1>2, <1>3 DEF NoTail
  <2>1. bm25[w][d][i] = 0
    BY <1>2 DEF NoTail, Index
  <2>2. c \in Contents
    BY <1>1, PassTypes DEF Locked, Parsed
  <2>3. i \in Nat /\ NChunks[c] \in Nat
    BY <2>2, ConstantsAssumption DEF Index
  <2> QED BY <1>5, <2>1, <2>3 DEF Added
<1>7. OthersKept(d)
  BY <1>1, <1>2, <1>5 DEF OthersKept
<1>8. RowHeld(t)' /\ Progress(t)'
  BY <1>1, <1>3, <1>6 DEF RowHeld, Progress, Inserting, Purging, Writing,
     Hashed, Parsed
<1>9. \A p \in Paths : p = job[t].path =>
        registry'[p].doc \in {0, d} /\ RowTidy(p)'
  <2> SUFFICES ASSUME NEW p \in Paths, p = job[t].path
               PROVE  registry'[p].doc \in {0, d} /\ RowTidy(p)'
    OBVIOUS
  <2>1. Inserts(p)'
    BY <1>3 DEF Inserts, Inserting
  <2> QED BY <1>1, <2>1, RowWaits DEF RowHeld, Inserting, Writing
<1> QED BY <1>1, <1>3, <1>7, <1>8, <1>9, WritingTidy DEF Writing

\* The row is written; if the file is gone by now its removal is scheduled.
LEMMA RegisterTidy ==
  ASSUME OneAtATime, TypeInv, TypeInv', Tidy, NEW t \in Tasks, Register(t)
  PROVE  Tidy'
<1> DEFINE d == job[t].doc
           new == [doc |-> d, hash |-> job[t].hash,
                   ids |-> NChunks[job[t].text], active |-> TRUE]
<1>1. /\ pc[t] = "register" /\ RowHeld(t) /\ Progress(t)
      /\ UNCHANGED <<disk, gone, vec, bm25, kb, nextDoc>>
  BY DEF Register, Tidy, diskVars, indexVars, kbVars, watchVars
<1>2. PICK p \in Paths : p = job[t].path /\ d \in Docs
  BY <1>1, WrittenDoc DEF Writing
<1>3. pc'[t] = "clear" /\ job'[t] = job[t]
  BY GotoStays DEF Register
<1>4. \A q \in Paths : registry'[q] = IF q = p THEN new ELSE registry[q]
  BY <1>2 DEF Register, TypeInv, TypeOK
<1>5. registry'[p].doc = d /\ registry'[p].ids = NChunks[job[t].text]
      /\ registry'[p].active /\ d # 0
  BY <1>2, <1>4 DEF Docs
<1>6. RowHeld(t)' /\ Progress(t)'
  BY <1>1, <1>2, <1>3, <1>5 DEF RowHeld, Progress, Inserting, Purging, Writing,
     Hashed, Parsed
<1>7. RowTidy(p)'
  <2>1. disk[p] = 0 => Leaving(p)'
    BY <1>1, <1>2, ConstantsAssumption DEF Progress, Leaving, Hashed, Parsed
  <2>2. NoTail(d, NChunks[job[t].text])'
    BY <1>1, <1>3 DEF Progress, NoTail
  <2> QED BY <1>1, <1>3, <1>5, <2>1, <2>2 DEF RowTidy
<1>8. OthersKept(d)
  BY <1>1 DEF OthersKept
<1> QED BY <1>1, <1>2, <1>3, <1>4, <1>5, <1>6, <1>7, <1>8, WritingTidy
        DEF Writing

\* The pass ends, its facts written or not.
LEMMA ExtractTidy ==
  ASSUME OneAtATime, TypeInv, TypeInv', Tidy, NEW t \in Tasks,
         ExtractStructured(t)
  PROVE  Tidy'
<1>1. /\ pc[t] = "extract" /\ RowHeld(t) /\ Progress(t) /\ pc'[t] \in Away
      /\ UNCHANGED <<disk, gone, registry, vec, bm25, nextDoc>>
  BY EndAway
  DEF ExtractStructured, Tidy, diskVars, indexVars, kbVars, watchVars
<1>2. PICK p \in Paths, d \in Docs : p = job[t].path /\ d = job[t].doc
  BY <1>1, WrittenDoc DEF Writing
<1>3. registry[p].doc = d /\ registry[p].active
  BY <1>1, <1>2 DEF RowHeld
<1>4. \A e \in Docs \ {d} : kb'[e] = kb[e]
  BY <1>2 DEF ExtractStructured, TypeInv, TypeOK
<1>5. OthersKept(d)
  BY <1>1, <1>4 DEF OthersKept
<1>6. RowHeld(t)' /\ Progress(t)' /\ pc'[t] \notin Writing
  BY <1>1, AwayFollows
  DEF Away, Writing, RowHeld, Progress, Inserting, Purging, Hashed, Parsed
<1>7. RowTidy(p)'
  <2>1. ~Inserts(p)
    BY <1>1 DEF Inserts, Inserting, OneAtATime
  <2>2. NoTail(d, registry[p].ids)' /\ d # 0
    BY <1>1, <1>3, <2>1 DEF Tidy, RowTidy, NoTail, Docs
  <2>3. Leaving(p) => Leaving(p)'
    BY <1>1 DEF Leaving, OneAtATime, Purging
  <2> QED BY <1>1, <1>3, <2>2, <2>3 DEF Tidy, RowTidy
<1> QED BY <1>1, <1>2, <1>3, <1>5, <1>6, <1>7, WritingTidy DEF Writing

\* The chunks of the row's document go first.
LEMMA RmPurgeTidy ==
  ASSUME OneAtATime, TypeInv, TypeInv', Tidy, NEW t \in Tasks, RmPurge(t)
  PROVE  Tidy'
<1>1. /\ pc[t] = "rmPurge" /\ RowHeld(t) /\ Progress(t)
      /\ UNCHANGED <<disk, gone, registry, kb, nextDoc>>
  BY DEF kbVars, RmPurge, Tidy, diskVars, watchVars
<1>2. PICK p \in Paths, row \in Rows :
        p = job[t].path /\ row = job[t].row /\ row = registry[p]
  BY <1>1, ReadDoc DEF Purging
<1>3. /\ \A e \in Docs : Uses(p, e) <=> e = row.doc
      /\ \A q \in Paths \ {p} : ~Uses(q, row.doc)
      /\ row.doc \in Docs /\ row.doc <= nextDoc /\ ~Inserts(p) /\ row.doc # 0
  BY <1>1, <1>2, ReadDoc DEF Purging, RowHeld
<1>4. OthersKept(row.doc) /\ Empty(row.doc)'
  BY <1>2, <1>3, OldChunksGone
<1>5. pc'[t] = "rmSave" /\ job'[t] = job[t]
  BY GotoStays DEF RmPurge
<1>6. RowHeld(t)' /\ Progress(t)'
  BY <1>1, <1>2, <1>4, <1>5 DEF RowHeld, Progress, Inserting, Purging, Writing,
     Hashed, Parsed
<1>7. \A u \in Tasks : u = t
  BY DEF OneAtATime
<1>8. Uses(p, row.doc)' /\ \A e \in Docs : Uses(p, e)' => e = row.doc
  BY <1>1, <1>2, <1>3, <1>5, <1>7 DEF Uses, Writing
<1>9. RowTidy(p)'
  <2>1. Leaving(p)'
    BY <1>2, <1>5 DEF Leaving, Purging
  <2>2. NoTail(row.doc, row.ids)'
    BY <1>4 DEF Empty, NoTail, NoChunks
  <2> QED BY <1>1, <1>2, <1>3, <1>4, <2>1, <2>2 DEF RowTidy
<1>10. nextDoc <= nextDoc' /\ row.doc <= nextDoc'
  BY <1>1, <1>3 DEF TypeInv, TypeOK
<1> QED BY <1>1, <1>2, <1>3, <1>4, <1>5, <1>6, <1>8, <1>9, <1>10, OwnTidy

\* Then its facts.
LEMMA RmKbTidy ==
  ASSUME OneAtATime, TypeInv, TypeInv', Tidy, NEW t \in Tasks, RmKb(t)
  PROVE  Tidy'
<1>1. /\ pc[t] = "rmKb" /\ RowHeld(t) /\ Progress(t)
      /\ UNCHANGED <<disk, gone, registry, vec, bm25, nextDoc>>
  BY DEF RmKb, Tidy, diskVars, indexVars, kbVars, watchVars
<1>2. PICK p \in Paths, row \in Rows :
        p = job[t].path /\ row = job[t].row /\ row = registry[p]
  BY <1>1, ReadDoc DEF Purging
<1>3. /\ \A e \in Docs : Uses(p, e) <=> e = row.doc
      /\ \A q \in Paths \ {p} : ~Uses(q, row.doc)
      /\ row.doc \in Docs /\ row.doc <= nextDoc /\ NoTail(row.doc, row.ids)
      /\ row.doc # 0
  BY <1>1, <1>2, ReadDoc DEF Purging, RowHeld
<1>4. Empty(row.doc) /\ Empty(row.doc)' /\ NoTail(row.doc, row.ids)'
  BY <1>1, <1>2, <1>3 DEF Progress, Purging, Empty, NoTail
<1>5. kb'[row.doc] = 0 /\ OthersKept(row.doc)
  <2>1. kb' = [kb EXCEPT ![row.doc] = 0]
    BY <1>2 DEF RmKb, OneAtATime
  <2> QED BY <1>1, <1>3, <2>1 DEF OthersKept, TypeInv, TypeOK
<1>6. pc'[t] = "rmRow" /\ job'[t] = job[t]
  BY GotoStays DEF RmKb
<1>7. RowHeld(t)' /\ Progress(t)'
  BY <1>1, <1>2, <1>4, <1>5, <1>6 DEF RowHeld, Progress, Inserting, Purging,
     Writing, Hashed, Parsed
<1>8. \A u \in Tasks : u = t
  BY DEF OneAtATime
<1>9. Uses(p, row.doc)' /\ \A e \in Docs : Uses(p, e)' => e = row.doc
  BY <1>1, <1>2, <1>3, <1>6, <1>8 DEF Uses, Writing
<1>10. RowTidy(p)'
  <2>1. Leaving(p)'
    BY <1>2, <1>6 DEF Leaving, Purging
  <2> QED BY <1>1, <1>2, <1>3, <1>4, <1>5, <2>1 DEF RowTidy
<1>11. nextDoc <= nextDoc' /\ row.doc <= nextDoc'
  BY <1>1, <1>3 DEF TypeInv, TypeOK
<1> QED BY <1>1, <1>2, <1>3, <1>5, <1>6, <1>7, <1>9, <1>10, <1>11, OwnTidy

\* Then the row: deleted, or kept as inactive with an emptied document.
LEMMA RmRowTidy ==
  ASSUME OneAtATime, TypeInv, TypeInv', Tidy, NEW t \in Tasks, RmRow(t)
  PROVE  Tidy'
<1>1. /\ pc[t] = "rmRow" /\ RowHeld(t) /\ Progress(t)
      /\ UNCHANGED <<disk, gone, vec, bm25, kb, nextDoc>>
  BY DEF RmRow, Tidy, diskVars, indexVars, kbVars, watchVars
<1>2. PICK p \in Paths, row \in Rows :
        p = job[t].path /\ row = job[t].row /\ row = registry[p]
  BY <1>1, ReadDoc DEF Purging
<1>3. /\ \A e \in Docs : Uses(p, e) <=> e = row.doc
      /\ \A q \in Paths \ {p} : ~Uses(q, row.doc)
      /\ row.doc \in Docs /\ row.doc <= nextDoc /\ row.doc # 0
  BY <1>1, <1>2, ReadDoc DEF Purging, RowHeld
<1>4. Empty(row.doc)' /\ kb[row.doc] = 0 /\ NoTail(row.doc, row.ids)'
  BY <1>1, <1>2, <1>3 DEF Progress, Purging, Empty, NoTail, NoChunks
<1>5. /\ pc'[t] = "rmQuar" /\ job'[t] = job[t]
  BY GotoStays DEF RmRow
<1>6. RowHeld(t)' /\ Progress(t)'
  BY <1>5, AwayFollows, <1>1 DEF Follows, Away, Writing
<1>7. /\ \A q \in Paths \ {p} : registry'[q] = registry[q]
      /\ \/ registry'[p] = NoRow
         \/ /\ registry'[p].doc = row.doc /\ registry'[p].ids = row.ids
            /\ ~registry'[p].active
  <2>1. registry \in [Paths -> Rows]
    BY DEF TypeInv, TypeOK
  <2>2. registry' = [registry EXCEPT ![p] = IF job[t].hard THEN NoRow ELSE
                      [row EXCEPT !.active = FALSE]]
    BY <1>2, <2>1 DEF RmRow
  <2> QED BY <2>1, <2>2 DEF Rows
<1>8. \A u \in Tasks : u = t
  BY DEF OneAtATime
<1>9. \A e \in Docs : Uses(p, e)' => e = row.doc
  BY <1>1, <1>5, <1>7, <1>8 DEF Uses, Writing, NoRow
<1>10. RowTidy(p)'
  BY <1>1, <1>3, <1>4, <1>7 DEF RowTidy, NoRow
<1>11. nextDoc <= nextDoc' /\ row.doc <= nextDoc'
  BY <1>1, <1>3 DEF TypeInv, TypeOK
<1>12. OthersKept(row.doc)
  BY <1>1 DEF OthersKept
<1> QED BY <1>1, <1>2, <1>3, <1>4, <1>5, <1>6, <1>7, <1>9, <1>10, <1>11, <1>12,
           OwnTidy DEF Writing, Purging

-----------------------------------------------------------------------------
(* Steps that empty the stores.                                            *)

\* Chunks disappear, the rows stay.
LEMMA EmptyingTidy ==
  ASSUME OneAtATime, TypeInv, TypeInv', Tidy, NEW t \in Tasks, Follows(t),
         pc[t] \notin Purging \cup {"rmLook"},
         UNCHANGED <<disk, gone, registry, kb, nextDoc>>,
         \A d \in Docs :
           /\ \A s \in Targets : vec'[s][d] \in {vec[s][d], NoChunks}
           /\ \A w \in Workers : \A i \in Index :
                bm25'[w][d][i] \in {bm25[w][d][i], 0}
  PROVE  Tidy'
<1>1. \A u \in Tasks : u = t
  BY DEF OneAtATime
<1>2. ASSUME NEW d \in Docs, Empty(d) PROVE Empty(d)'
  <2>1. ASSUME NEW w \in Workers PROVE bm25'[w][d] = NoChunks
    <3>1. bm25'[w][d] \in [Index -> 0..MaxContent]
      BY DEF TypeInv, TypeOK, Chunks
    <3>2. \A i \in Index : bm25'[w][d][i] = 0
      BY <1>2 DEF Empty, NoChunks
    <3> QED BY <3>1, <3>2 DEF NoChunks
  <2> QED BY <1>2, <2>1 DEF Empty
<1>3. ASSUME NEW d \in Docs, NEW n, NoTail(d, n) PROVE NoTail(d, n)'
  BY <1>3 DEF NoTail
<1>4. \A p \in Paths, d \in Docs : Uses(p, d)' <=> Uses(p, d)
  BY <1>1 DEF Uses, Follows
<1>5. \A p \in Paths : Inserts(p)' <=> Inserts(p)
  BY <1>1 DEF Inserts, Follows, Writing, Inserting
<1>6. ASSUME NEW p \in Paths PROVE RowTidy(p)'
  <2>1. Leaving(p) => Leaving(p)'
    BY <1>1 DEF Leaving
  <2>2. registry[p].doc # 0 => registry[p].doc \in Docs
    BY ConstantsAssumption DEF TypeInv, TypeOK, Rows, Docs
  <2>3. /\ registry[p].doc # 0 /\ Empty(registry[p].doc) =>
             Empty(registry[p].doc)'
        /\ registry[p].doc # 0 /\ NoTail(registry[p].doc, registry[p].ids) =>
             NoTail(registry[p].doc, registry[p].ids)'
    BY <1>2, <1>3, <2>2
  <2> QED BY <1>5, <2>1, <2>3 DEF Tidy, RowTidy
<1>7. DocsApart' /\ Held'
  BY <1>2, <1>4 DEF Tidy, DocsApart, Held
<1> QED BY <1>1, <1>6, <1>7 DEF Tidy, Follows

\* cleanup_orphans.
LEMMA DeleteOrphansTidy ==
  ASSUME OneAtATime, TypeInv, TypeInv', Tidy, NEW t \in Tasks, DeleteOrphans(t)
  PROVE  Tidy'
<1>1. /\ pc[t] = "cuPurge" /\ pc'[t] \in Away
      /\ UNCHANGED <<disk, gone, registry, kb, nextDoc>>
  BY EndAway, GotoStays DEF kbVars, DeleteOrphans, diskVars, watchVars, Away
<1>2. ASSUME NEW d \in Docs, NEW s \in Targets
      PROVE  vec'[s][d] \in {vec[s][d], NoChunks}
  BY DEF DeleteOrphans
<1>3. ASSUME NEW d \in Docs, NEW w \in Workers, NEW i \in Index
      PROVE  bm25'[w][d][i] \in {bm25[w][d][i], 0}
  <2> DEFINE orphans == Orphans(t)
             v == WorkerOf[t]
  <2> HIDE DEF orphans
  <2>1. bm25' = [bm25 EXCEPT ![v] = [e \in Docs |-> [j \in Index |->
                   IF <<e, j>> \in orphans THEN 0 ELSE bm25[v][e][j]]]]
    BY DEF DeleteOrphans, orphans
  <2> QED BY <2>1 DEF TypeInv, TypeOK
<1>4. Follows(t)
  BY <1>1, AwayFollows DEF Writing
<1> QED BY <1>1, <1>2, <1>3, <1>4, EmptyingTidy DEF Purging

\* reset_index empties every store of the one worker.
LEMMA ResetTidy ==
  ASSUME OneAtATime, TypeInv, TypeInv', Tidy, NEW t \in Tasks, ResetStores(t)
  PROVE  Tidy'
<1>1. /\ pc[t] = "reset" /\ pc'[t] = "clearAll"
      /\ UNCHANGED <<disk, gone, registry, kb, nextDoc>>
  BY GotoStays DEF kbVars, ResetStores, diskVars, watchVars
<1>2. Workers = {WorkerOf[t]}
  BY ConstantsAssumption DEF OneAtATime
<1>3. ASSUME NEW d \in Docs
      PROVE  /\ \A s \in Targets : vec'[s][d] = NoChunks
             /\ \A w \in Workers : bm25'[w][d] = NoChunks
  BY <1>2 DEF ResetStores, EmptiedStores, TypeInv, TypeOK
<1>4. Follows(t)
  BY <1>1, <1>3 DEF Follows, RowHeld, Progress, Empty, Inserting, Purging,
     Writing, Hashed, Parsed
<1>5. \A d \in Docs : \A w \in Workers : \A i \in Index : bm25'[w][d][i] = 0
  BY <1>3 DEF NoChunks
<1> QED BY <1>1, <1>3, <1>4, <1>5, EmptyingTidy DEF Purging

\* clear_all drops the rows of stores that are empty.
LEMMA ClearTidy ==
  ASSUME OneAtATime, TypeInv, TypeInv', Tidy, NEW t \in Tasks,
         ClearRegistry(t)
  PROVE  Tidy'
<1>1. /\ pc[t] = "clearAll" /\ Progress(t) /\ pc'[t] \in {"idle", "wait"}
      /\ UNCHANGED <<vec, bm25>> /\ \A p \in Paths : registry'[p] = NoRow
  BY DEF ClearRegistry, Tidy, indexVars, kbVars, Goto, TypeInv, TypeOK
<1>2. \A u \in Tasks : u = t
  BY DEF OneAtATime
<1>3. RowHeld(t)' /\ Progress(t)'
  BY <1>1 DEF RowHeld, Progress, Inserting, Purging, Writing, Hashed, Parsed
<1>4. \A p \in Paths, d \in Docs : ~Uses(p, d)'
  BY <1>1, <1>2 DEF Uses, NoRow, Writing
<1>5. \A p \in Paths : RowTidy(p)'
  BY <1>1 DEF RowTidy, NoRow
<1>6. Held'
  BY <1>1 DEF Progress, Held, Empty
<1> QED BY <1>2, <1>3, <1>4, <1>5, <1>6 DEF Tidy, DocsApart

-----------------------------------------------------------------------------
(* The invariant and what follows from it.                                 *)

\* A row that was read is still the path's, and nothing fails.
LEMMA NoFault ==
  ASSUME OneAtATime, Tidy, NEW t \in Tasks
  PROVE  /\ ~RegisterConflict(t) /\ ~ProcessRaises(t) /\ ~RemoveRaises(t)
         /\ \A w \in Workers : ~Crash(w)
BY DEF OneAtATime, Tidy, RowHeld, Inserting, RegisterConflict, CanRegister,
       ProcessRaises, RemoveRaises, Crash

\* Every step of a coroutine keeps the index tidy.
LEMMA TaskTidy ==
  ASSUME OneAtATime, TypeInv, TypeInv', Tidy, NEW t \in Tasks, TaskStep(t)
  PROVE  Tidy'
<1>1. CASE DropOldChunks(t)
  <2>1. CASE End(t) /\ UNCHANGED nextDoc
    BY <1>1, <2>1, EndEmptied
  <2>2. CASE ~(End(t) /\ UNCHANGED nextDoc)
    BY <1>1, <2>2, StartsInserting DEF DropOldChunks
  <2> QED BY <2>1, <2>2
<1>2. CASE ProcessStep(t)
  BY <1>1, <1>2, ReadingTidy, EmbedTidy, Bm25Tidy, RegisterTidy, ExtractTidy,
     NoFault
  DEF ProcessStep
<1>3. CASE SaveBm25(t)
  BY <1>3, ReadingTidy
<1>4. CASE RemoveStep(t)
  BY <1>4, AwayTidy, RmPurgeTidy, RmKbTidy, RmRowTidy DEF RemoveStep
<1>5. CASE MaintenanceStep(t)
  BY <1>5, AwayTidy, DeleteOrphansTidy, ResetTidy, ClearTidy
  DEF MaintenanceStep
<1> QED BY <1>2, <1>3, <1>4, <1>5 DEF TaskStep

\* So does every step.
LEMMA TidyStep ==
  ASSUME OneAtATime, TypeInv, TypeInv', Tidy, [Next]_vars
  PROVE  Tidy'
<1>1. ASSUME NEW t \in Tasks, TaskStep(t) PROVE Tidy'
  BY <1>1, TaskTidy
<1>2. ASSUME NEW t \in Tasks, Request(t) \/ WatcherStep(t) PROVE Tidy'
  BY <1>2, BeginTidy
<1>3. ASSUME NEW p \in Paths, NEW c \in Contents, EditFile(p, c) PROVE Tidy'
  <2>1. NoneForgotten
    BY <1>3, DiskForgetsNothing DEF EditFile
  <2> QED BY <1>3, <2>1, EnvironmentTidy DEF EditFile, indexVars, kbVars
<1>4. ASSUME NEW p \in Paths, EraseFile(p) PROVE Tidy'
  <2>1. NoneForgotten
    BY <1>4, DiskForgetsNothing DEF EraseFile
  <2> QED BY <1>4, <2>1, EnvironmentTidy DEF EraseFile, indexVars, kbVars
<1>5. CASE UNCHANGED vars
  <2>1. NoneForgotten
    BY <1>5, DiskForgetsNothing DEF vars
  <2> QED BY <1>5, <2>1, EnvironmentTidy DEF vars
<1>6. \A w \in Workers : ~Crash(w)
  BY DEF OneAtATime, Crash
<1> QED BY <1>1, <1>2, <1>3, <1>4, <1>5, <1>6, NoFault DEF Next, Idle

\* The facts in the kb_* tables are of a document with an active row, or of
\* one that a rebuild abandoned.
FactsHeld ==
  \A d \in Docs : kb[d] # 0 =>
    d \in abandoned \/ \E p \in Paths : registry[p].active /\ registry[p].doc = d

\* The steps that touch rows or facts; each of the others leaves them alone.
LEMMA FactsTouched ==
  ASSUME [Next]_vars
  PROVE  \/ UNCHANGED <<registry, kb, abandoned>>
         \/ \E t \in Tasks : Register(t) \/ ExtractStructured(t) \/ RmKb(t)
                             \/ RmRow(t) \/ ClearRegistry(t)
<1> USE DEF kbVars
<1>1. ASSUME NEW t \in Tasks, ProcessStep(t), ~Register(t),
             ~ExtractStructured(t)
      PROVE  UNCHANGED <<registry, kb, abandoned>>
  BY <1>1 DEF ProcessStep, AcquireLock, HashFile, LookUp, ParseAndValidate,
     Reject, DropOldChunks, EmbedAndUpsert, IndexBm25, SaveBm25,
     RegisterConflict, ClearQuarantine, FileVanished
<1>2. ASSUME NEW t \in Tasks, RemoveStep(t), ~RmKb(t), ~RmRow(t)
      PROVE  UNCHANGED <<registry, kb, abandoned>>
  BY <1>2 DEF RemoveStep, RmLook, RmPurge, RmQuar, UnlinkFile
<1>3. ASSUME NEW t \in Tasks, MaintenanceStep(t), ~ClearRegistry(t)
      PROVE  UNCHANGED <<registry, kb, abandoned>>
  BY <1>3 DEF MaintenanceStep, ListActive, DeleteOrphans, ResetStores,
     RemoveResolved, UnlinkExpired
<1>4. ASSUME NEW t \in Tasks, Request(t) \/ WatcherStep(t)
      PROVE  UNCHANGED <<registry, kb, abandoned>>
  BY <1>4 DEF Request, CleanupOrphans, RebuildIndex, PurgeQuarantine, ScanFile,
     DeleteFile, DeleteFolder, DeleteQuarantine, Reindex, RetryQuarantine,
     Upload, WatcherStep, WatcherFire, WatcherRemove
<1>5. ASSUME NEW t \in Tasks, ProcessRaises(t) \/ RemoveRaises(t)
      PROVE  UNCHANGED <<registry, kb, abandoned>>
  BY <1>5 DEF ProcessRaises, RemoveRaises
<1>6. ASSUME NEW p \in Paths, EraseFile(p) \/ \E c \in Contents : EditFile(p, c)
      PROVE  UNCHANGED <<registry, kb, abandoned>>
  BY <1>6 DEF EraseFile, EditFile
<1>7. ASSUME NEW w \in Workers, Crash(w)
      PROVE  UNCHANGED <<registry, kb, abandoned>>
  BY <1>7 DEF Crash
<1>8. CASE UNCHANGED vars
  BY <1>8 DEF vars
<1> QED BY <1>1, <1>2, <1>3, <1>4, <1>5, <1>6, <1>7, <1>8
        DEF Next, TaskStep, Idle

\* No fact outlives its row: a removal deletes the facts first, a new row of a
\* path keeps the document of the old one, and a rebuild abandons them all.
LEMMA FactsStep ==
  ASSUME OneAtATime, TypeInv, Tidy, FactsHeld, [Next]_vars
  PROVE  FactsHeld'
<1>1. CASE UNCHANGED <<registry, kb, abandoned>>
  BY <1>1 DEF FactsHeld
<1>2. ASSUME NEW t \in Tasks, Register(t) PROVE FactsHeld'
  <2>1. pc[t] = "register" /\ RowHeld(t) /\ UNCHANGED <<kb, abandoned>>
    BY <1>2 DEF Register, Tidy, kbVars
  <2>2. registry[job[t].path].doc \in {0, job[t].doc} /\ job[t].path \in Paths
    BY <2>1, WrittenDoc DEF RowHeld, Inserting, Writing
  <2>3. \A q \in Paths :
          IF q = job[t].path
          THEN registry'[q].doc = job[t].doc /\ registry'[q].active
          ELSE registry'[q] = registry[q]
    BY <1>2, <2>2 DEF Register, TypeInv, TypeOK
  <2>4. \A d \in Docs : d # 0
    BY DEF Docs
  <2> QED BY <2>1, <2>2, <2>3, <2>4 DEF FactsHeld
<1>3. ASSUME NEW t \in Tasks, ExtractStructured(t) PROVE FactsHeld'
  <2>1. pc[t] = "extract" /\ RowHeld(t) /\ UNCHANGED <<registry, abandoned>>
    BY <1>3 DEF ExtractStructured, Tidy
  <2>2. /\ job[t].path \in Paths /\ registry[job[t].path].active
        /\ registry[job[t].path].doc = job[t].doc
    BY <2>1, WorkPath DEF RowHeld, OnPath, Locked
  <2>3. \A e \in Docs : e # job[t].doc => kb'[e] = kb[e]
    BY <1>3 DEF ExtractStructured, TypeInv, TypeOK
  <2> QED BY <2>1, <2>2, <2>3 DEF FactsHeld
<1>4. ASSUME NEW t \in Tasks, RmKb(t) PROVE FactsHeld'
  <2>1. \A e \in Docs : kb'[e] \in {0, kb[e]}
    BY <1>4 DEF RmKb, TypeInv, TypeOK
  <2> QED BY <1>4, <2>1 DEF RmKb, FactsHeld
<1>5. ASSUME NEW t \in Tasks, RmRow(t) PROVE FactsHeld'
  <2>1. /\ pc[t] = "rmRow" /\ Progress(t) /\ UNCHANGED <<kb, abandoned>>
    BY <1>5 DEF RmRow, Tidy, kbVars
  <2>2. kb[registry[job[t].path].doc] = 0
    BY <2>1 DEF Progress
  <2>3. \A q \in Paths : q # job[t].path => registry'[q] = registry[q]
    BY <1>5 DEF RmRow, TypeInv, TypeOK
  <2> QED BY <2>1, <2>2, <2>3 DEF FactsHeld
<1>6. ASSUME NEW t \in Tasks, ClearRegistry(t) PROVE FactsHeld'
  BY <1>6 DEF ClearRegistry, FactsHeld
<1> QED BY <1>1, <1>2, <1>3, <1>4, <1>5, <1>6, FactsTouched

\* Together with the types it is inductive.
LEMMA TidyAlways ==
  ASSUME OneAtATime
  PROVE  Spec => [](TypeInv /\ Tidy /\ FactsHeld)
<1>1. Init => TypeInv /\ Tidy /\ FactsHeld
  BY InitType, InitTidy DEF Init, FactsHeld
<1>2. TypeInv /\ Tidy /\ FactsHeld /\ [Next]_vars
        => (TypeInv /\ Tidy /\ FactsHeld)'
  BY TypeStep, TidyStep, FactsStep
<1> QED BY <1>1, <1>2, PTL DEF Spec

\* A file that is gone leaves the index: whoever deletes it, at whatever stage
\* a pass on it was and whether its row is kept or purged, no active row is
\* left of it, and every document with a chunk in a collection or in BM25, or
\* with facts in the kb_* tables, is that of an active row and of a file on the
\* disk; the facts of the documents that a rebuild abandoned are the exception.
THEOREM DeletedFilesLeave ==
  ASSUME OneAtATime
  PROVE  Spec => []DeletedIsForgotten
<1>1. TypeInv /\ Tidy /\ FactsHeld => DeletedIsForgotten
  <2> SUFFICES ASSUME TypeInv, Tidy, FactsHeld, Quiet PROVE DeletedIsForgotten
    BY DEF DeletedIsForgotten
  <2>1. \A p \in Paths : ~Leaving(p) /\ ~Inserts(p)
    BY DEF Quiet, Leaving, Purging, Inserts, Inserting
  <2>2. \A p \in Paths : registry[p].active => disk[p] # 0
    BY <2>1 DEF Tidy, RowTidy
  <2>3. ASSUME NEW d \in Docs, Searchable(d)
        PROVE  \E p \in Paths : registry[p].active /\ registry[p].doc = d
    <3>1. PICK p \in Paths : Uses(p, d)
      BY <2>3 DEF Tidy, Held, Empty, Searchable
    <3>2. registry[p].doc = d /\ d # 0
      BY <3>1 DEF Uses, Quiet, Writing
    <3> QED BY <2>1, <2>3, <3>2 DEF Tidy, RowTidy, Empty, Searchable
  <2>4. ASSUME NEW d \in Docs, kb[d] # 0, d \notin abandoned
        PROVE  \E p \in Paths : registry[p].active /\ registry[p].doc = d
    BY <2>4 DEF FactsHeld
  <2> QED BY <2>2, <2>3, <2>4 DEF DeletedIsForgotten
<1> QED BY <1>1, TidyAlways, PTL

\* And no chunk is left that a search could return and no active row names,
\* whether files were removed, rewritten with a text without chunks, purged
\* from quarantine, or the index cleaned or rebuilt.
THEOREM RemovalsLeaveNoOrphan ==
  ASSUME OneAtATime
  PROVE  Spec => []NoOrphanChunks
<1>1. TypeInv /\ Tidy => NoOrphanChunks
  <2> SUFFICES ASSUME Tidy, Quiet, NEW d \in Docs, Searchable(d)
               PROVE  \E p \in Paths : registry[p].active /\ registry[p].doc = d
    BY DEF NoOrphanChunks
  <2>1. PICK p \in Paths : Uses(p, d)
    BY DEF Tidy, Held, Empty, Searchable
  <2>2. registry[p].doc = d /\ d # 0 /\ ~Inserts(p)
    BY <2>1 DEF Uses, Quiet, Writing, Inserts, Inserting
  <2> QED BY <2>2 DEF Tidy, RowTidy, Empty, Searchable
<1> QED BY <1>1, TidyAlways, PTL
=============================================================================
