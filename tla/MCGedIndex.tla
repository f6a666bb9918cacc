----------------------------- MODULE MCGedIndex -----------------------------
(* Small instances of GedIndex.                                            *)
EXTENDS GedIndex, TLC

CONSTANTS p1, p2, w1, w2, t1, t2, t3

\* Contents 1 and 3 are valid and make two chunks and one.  Content 2, which may
\* come between them, is too short to be valid but has a chunk to index once
\* accepted by hand; content 4 is not valid and has none.
MCNChunks == (1 :> 2) @@ (2 :> 1) @@ (3 :> 1) @@ (4 :> 0)
TwoContents == (1 :> 2) @@ (2 :> 1)
OneChunk == [c \in 1..MaxContent |-> 1]

OneWorker == [t \in Tasks |-> w1]
SplitWorkers == [t \in Tasks |-> IF t = t1 THEN w1 ELSE w2]

TaskSymmetry == Permutations(Tasks)

IndexOps  == {"upload", "edit", "scan", "reindex", "force", "retry"}
DeleteOps == {"erase", "deleteFile", "deleteFolder"}
MaintOps  == {"cleanup", "rebuild", "dequarantine", "purge"}
FaultOps  == {"loss", "fail", "crash"}

SequentialOps == {"upload", "force"} \cup DeleteOps \cup MaintOps
WorkerOps == {"upload", "scan"} \cup DeleteOps \cup FaultOps
=============================================================================
