----------------------------- MODULE Narrations -----------------------------
(***************************************************************************)
(* Texts written by the model and frozen in the database: the narrations   *)
(* of the cockpit, one per section and day (uc_daily_analysis), and those  *)
(* of an arbitration dossier, one per state of its figures                 *)
(* (uc_arbitrage/narration_store).  Both are read, generated when missing, *)
(* and saved; the morning job and the administrator's refresh write the    *)
(* day's narrations whatever is there.                                     *)
(*                                                                         *)
(* A task is a request or a job.  One action is the code from one await to *)
(* the next; a save is one transaction that starts with its DELETE, so it  *)
(* is atomic.  A text is the figures it was written from.                  *)
(***************************************************************************)
EXTENDS Naturals, FiniteSets

CONSTANTS
  Sections,   \* analysis_key with its variant
  Dossiers,   \* subject_ref of a dossier; its figures make its empreinte
  MaxDay,     \* bound on the days that pass
  MaxFigures, \* bound on the changes of the figures
  Retention,  \* RETENTION_JOURS
  Workers,    \* uvicorn worker processes
  Tasks,      \* concurrent requests and jobs
  WorkerOf,   \* the worker a task runs in
  MaxStarts   \* bound on the requests and jobs

Days    == 0..MaxDay
Figures == 0..MaxFigures
Keys    == Sections \cup Dossiers
Free    == "free"

ASSUME ConstantsAssumption ==
  /\ MaxDay \in Nat /\ MaxFigures \in Nat /\ Retention \in Nat /\ MaxStarts \in Nat
  /\ Sections \cap Dossiers = {} /\ Keys # {} /\ Free \notin Tasks
  /\ WorkerOf \in [Tasks -> Workers]

VARIABLES
  rows,     \* daily_analyses and arbitrage_narrations: the text of each slot
  today,    \* today()
  figures,  \* the state of the figures
  lock,     \* _LOCKS of each worker: who holds the lock of each slot's name
  pc, job,  \* each task: where it is, its local variables
  starts,   \* requests and jobs so far
  called    \* history: the slots a worker has written on demand

vars == <<rows, today, figures, lock, pc, job, starts, called>>

Slots  == (Sections \X Days) \cup (Dossiers \X Figures)
Texts  == [figures : Figures, source : {"llm", "repli"}, saved : Days]
NoText == [figures |-> 0, source |-> "none", saved |-> 0]

\* The locks: (key, variant) for a section, the empreinte for a dossier.
Names == (Sections \X {0}) \cup (Dossiers \X Figures)

\* Local variables of a task: its key, the figures of its dossier, the text it
\* has drafted; of a job: the sections it still drafts and the drafts.
Jobs == [key : Keys, figures : Figures, text : Texts \cup {NoText},
         todo : SUBSET Sections, drafts : [Sections -> Texts \cup {NoText}]]

Stages == {"idle", "load", "lock", "draft", "save", "gather", "store", "purge"}

\* The tables, the locks and what the tasks hold keep their types.
TypeOK ==
  /\ rows \in [Slots -> Texts \cup {NoText}]
  /\ today \in Days /\ figures \in Figures /\ starts \in 0..MaxStarts
  /\ lock \in [Workers -> [Names -> Tasks \cup {Free}]]
  /\ pc \in [Tasks -> Stages]
  /\ job \in [Tasks -> Jobs]
  /\ called \subseteq Workers \X Slots

-----------------------------------------------------------------------------

\* The row a task reads or writes, now: store.load and store.save ask today()
\* each time, the empreinte is computed once.
Slot(t) == IF job[t].key \in Sections THEN <<job[t].key, today>>
           ELSE <<job[t].key, job[t].figures>>

Name(t) == IF job[t].key \in Sections THEN <<job[t].key, 0>>
           ELSE <<job[t].key, job[t].figures>>

Figeable_Any(text) == text.source \in {"llm", "repli"}

\* est_figeable, and memorisable for a dossier
Figeable(text) == text.source = "llm"

\* generated_at is the time of the save.
Saved(text) == [text EXCEPT !.saved = today]

IdleJob ==
  [key |-> CHOOSE k \in Keys : TRUE, figures |-> 0, text |-> NoText,
   todo |-> {}, drafts |-> [k \in Sections |-> NoText]]

Go(t, stage, local) ==
  /\ pc' = [pc EXCEPT ![t] = stage]
  /\ job' = [job EXCEPT ![t] = local]

Done(t) == Go(t, "idle", IdleJob)

Unlock_OnSave(t) ==
  lock' = IF Figeable(job[t].text) THEN [lock EXCEPT ![WorkerOf[t]][Name(t)] = Free]
          ELSE lock

\* The end of the async with block, whatever happens in it.
Unlock(t) == lock' = [lock EXCEPT ![WorkerOf[t]][Name(t)] = Free]

-----------------------------------------------------------------------------
(* On demand: daily_cached and cached_narration.                           *)

Ask(t, k) ==
  /\ pc[t] = "idle" /\ starts < MaxStarts
  /\ starts' = starts + 1
  /\ Go(t, "load", [IdleJob EXCEPT !.key = k, !.figures = figures])
  /\ UNCHANGED <<rows, today, figures, lock, called>>

Load(t) ==
  /\ pc[t] = "load"
  /\ IF rows[Slot(t)] # NoText THEN Done(t) ELSE Go(t, "lock", job[t])
  /\ UNCHANGED <<rows, today, figures, lock, starts, called>>

Found_Never(t) == FALSE

\* The second load: another task may have written the text meanwhile.
Found(t) == rows[Slot(t)] # NoText

LoadAgain(t) ==
  /\ pc[t] = "lock" /\ lock[WorkerOf[t]][Name(t)] = Free
  /\ IF Found(t) THEN Done(t) /\ UNCHANGED lock
     ELSE /\ lock' = [lock EXCEPT ![WorkerOf[t]][Name(t)] = t]
          /\ Go(t, "draft", job[t])
  /\ UNCHANGED <<rows, today, figures, starts, called>>

\* compute reads the figures and calls the model, which writes a text or leaves
\* it to the deterministic fallback ("repli"; an exception ends the same way).
Draft(t, outcome) ==
  /\ pc[t] = "draft"
  /\ LET said == IF job[t].key \in Sections THEN figures ELSE job[t].figures IN
     Go(t, "save", [job[t] EXCEPT !.text = [figures |-> said, source |-> outcome,
                                            saved |-> 0]])
  /\ UNCHANGED <<rows, today, figures, lock, starts, called>>

Save(t) ==
  /\ pc[t] = "save" /\ Figeable(job[t].text)
  /\ rows' = [rows EXCEPT ![Slot(t)] = Saved(job[t].text)]
  /\ called' = called \cup {<<WorkerOf[t], Slot(t)>>}
  /\ Unlock(t) /\ Done(t)
  /\ UNCHANGED <<today, figures, starts>>

\* The answer is served, or the exception goes up: nothing is kept.
ServeUnsaved(t) ==
  /\ pc[t] = "save" /\ ~ Figeable(job[t].text)
  /\ Unlock(t) /\ Done(t)
  /\ UNCHANGED <<rows, today, figures, starts, called>>

-----------------------------------------------------------------------------
(* generate_all, by the morning job of each worker or an administrator.    *)

GenerateAll(t) ==
  /\ pc[t] = "idle" /\ starts < MaxStarts
  /\ starts' = starts + 1
  /\ Go(t, "gather", [IdleJob EXCEPT !.todo = Sections])
  /\ UNCHANGED <<rows, today, figures, lock, called>>

\* asyncio.gather: the sections are drafted in any order.
DraftSection(t, k, outcome) ==
  /\ pc[t] = "gather" /\ k \in job[t].todo
  /\ LET left == job[t].todo \ {k} IN
     Go(t, IF left = {} THEN "store" ELSE "gather",
        [[job[t] EXCEPT !.todo = left] EXCEPT
           !.drafts[k] = [figures |-> figures, source |-> outcome, saved |-> 0]])
  /\ UNCHANGED <<rows, today, figures, lock, starts, called>>

Kept_All(t) == Sections

\* The drafts that are not frozen are skipped, the others saved one by one.
Kept(t) == {k \in Sections : Figeable(job[t].drafts[k])}

StoreSection(t, k) ==
  /\ pc[t] = "store" /\ k \in Kept(t)
  /\ rows' = [rows EXCEPT ![<<k, today>>] = Saved(job[t].drafts[k])]
  /\ Go(t, "store", [job[t] EXCEPT !.drafts[k] = NoText])
  /\ UNCHANGED <<today, figures, lock, starts, called>>

Past(day) == day + Retention < today

PurgeSections(t) ==
  /\ pc[t] = "store" /\ Kept(t) = {}
  /\ rows' = [s \in Slots |-> IF s[1] \in Sections /\ Past(s[2]) THEN NoText ELSE rows[s]]
  /\ Done(t)
  /\ UNCHANGED <<today, figures, lock, starts, called>>

Outdated == {s \in Slots : s[1] \in Dossiers /\ rows[s] # NoText /\ Past(rows[s].saved)}

\* _arbitrage_narration_purge_job
PurgeDossiers ==
  /\ Outdated # {}
  /\ rows' = [s \in Slots |-> IF s \in Outdated THEN NoText ELSE rows[s]]
  /\ called' = {c \in called : c[2] \notin Outdated}
  /\ UNCHANGED <<today, figures, lock, pc, job, starts>>

-----------------------------------------------------------------------------
(* Midnight, a synchronisation that moves the figures, a restart.          *)

Midnight ==
  /\ today < MaxDay /\ today' = today + 1
  /\ UNCHANGED <<rows, figures, lock, pc, job, starts, called>>

FiguresMove ==
  /\ figures < MaxFigures /\ figures' = figures + 1
  /\ UNCHANGED <<rows, today, lock, pc, job, starts, called>>

Crash(w) ==
  /\ pc' = [t \in Tasks |-> IF WorkerOf[t] = w THEN "idle" ELSE pc[t]]
  /\ job' = [t \in Tasks |-> IF WorkerOf[t] = w THEN IdleJob ELSE job[t]]
  /\ lock' = [lock EXCEPT ![w] = [n \in Names |-> Free]]
  /\ UNCHANGED <<rows, today, figures, starts, called>>

-----------------------------------------------------------------------------

Init ==
  /\ rows = [s \in Slots |-> NoText]
  /\ today = 0 /\ figures = 0 /\ starts = 0 /\ called = {}
  /\ lock = [w \in Workers |-> [n \in Names |-> Free]]
  /\ pc = [t \in Tasks |-> "idle"] /\ job = [t \in Tasks |-> IdleJob]

Outcomes == {"llm", "repli"}

Step(t) ==
  \/ Load(t) \/ LoadAgain(t) \/ Save(t) \/ ServeUnsaved(t) \/ PurgeSections(t)
  \/ \E o \in Outcomes : Draft(t, o)
  \/ \E k \in Sections, o \in Outcomes : DraftSection(t, k, o)
  \/ \E k \in Sections : StoreSection(t, k)

Next ==
  \/ \E t \in Tasks, k \in Keys : Ask(t, k)
  \/ \E t \in Tasks : GenerateAll(t) \/ Step(t)
  \/ \E w \in Workers : Crash(w)
  \/ PurgeDossiers \/ Midnight \/ FiguresMove

Spec == Init /\ [][Next]_vars

\* SQLite and the model answer or fail; asyncio.Lock serves its waiters in turn.
FairSpec == Spec /\ \A t \in Tasks : WF_vars(Step(t))

-----------------------------------------------------------------------------
(* Properties.                                                             *)

\* What the two tables promise, see TextStore: whatever two workers, a failing
\* model, midnight or moving figures do, no text is lost or frozen that should
\* not be.
Store == INSTANCE TextStore WITH texts <- rows

StoreSpec == Store!Spec

\* A worker asks the model at most once for a text it has kept: the race the
\* lock leaves is between workers only (narration_store.py:43-47).
OneCallPerWorker ==
  [][\A t \in Tasks : Save(t) => <<WorkerOf[t], Slot(t)>> \notin called]_vars

\* Once no more of them start, every request and every job ends: no failure of
\* the model leaves a lock behind (store.py:135).
AllEnd == <>[](\A t \in Tasks : pc[t] = "idle")
=============================================================================
