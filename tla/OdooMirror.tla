----------------------------- MODULE OdooMirror -----------------------------
(***************************************************************************)
(* The mirror of Odoo in SQLite: the sync of jobs/odoo_sync_job.py, which  *)
(* asks each section for what changed since a watermark kept in a file,    *)
(* and the webhooks of api/v1/webhooks.py, which read records again by id  *)
(* or drop them.  Each worker runs the sync on its own timer.              *)
(*                                                                         *)
(* A process is one sync or one webhook.  One action is one call of Odoo,  *)
(* or one transaction.  A record is its version, which stands for the      *)
(* columns a sync writes again (client, currency and due date keep what    *)
(* the row was created with); an order's lines are read by a call of their *)
(* own and stored in a table of their own.  Clocks of Odoo and of the      *)
(* workers agree, in seconds.                                              *)
(***************************************************************************)
EXTENDS Naturals, FiniteSets, Sequences

CONSTANTS
  Records,    \* records of Odoo
  KindOf,     \* the section of each
  Excluded,   \* records of an intra-group partner (_est_exclu)
  Listed,     \* versions the lists ask for: sale or done, posted, purchase
  Born,       \* records older than the mirror
  Last,       \* the last version of each record
  Deletable,  \* records that can be deleted
  MaxVersion, \* bound on these
  MaxNow,     \* bound on the clock
  MaxFails,   \* bound on the failed calls and transactions
  MaxCalls,   \* bound on the webhooks and forced syncs
  Syncs,      \* runs of the sync that can overlap
  Hooks,      \* webhooks that can overlap
  Limit       \* how many records a list holds at most, by section

Steps == <<"client", "invoice", "order", "purchase", "supplier", "supplier_invoice",
           "project", "dossier", "opportunity">>
Kinds == {Steps[i] : i \in DOMAIN Steps}

\* An exception there does not end the sync.
Optional == {"dossier", "opportunity"}

\* The adapter turns an exception there into what it has read so far: some
\* pages of purchases, no supplier invoice.
Paged   == {"purchase"}
Lenient == Paged \cup {"supplier_invoice"}

\* The list is one call with a limit, not pages.
Capped == {"client", "invoice", "order", "supplier", "supplier_invoice", "project"}

\* Read in full by every sync; only by a full sync.
Whole    == {"opportunity"}
FullOnly == {"project"}

\* What a webhook reads again, what its unlink drops.
Hooked   == {"client", "invoice", "order", "purchase", "supplier", "supplier_invoice"}
Unlinked == {"client", "invoice", "order", "purchase"}

Processes == Syncs \cup Hooks
None == 0
Gone == MaxVersion + 1
Versions == 0..MaxVersion
NoMark == MaxNow + 1

ASSUME ConstantsAssumption ==
  /\ KindOf \in [Records -> Kinds] /\ Excluded \subseteq Records
  /\ Records # {} /\ Last \in [Records -> 1..MaxVersion] /\ Deletable \cup Born \subseteq Records
  /\ MaxVersion \in Nat /\ MaxNow \in Nat /\ MaxFails \in Nat /\ MaxCalls \in Nat
  /\ Listed \subseteq 1..MaxVersion
  /\ Syncs \cap Hooks = {} /\ Limit \in [Capped -> Nat \ {0}]

VARIABLES
  now,     \* the time
  odoo,    \* Odoo: the version of each record, or Gone
  written, \* its write_date
  rows,    \* the tables of the mirror: the version of each row, or None
  lines,   \* sale_order_lines: the version an order's lines are of, or None
  mark,    \* last_sync.json, or NoMark when it is missing or unreadable
  pc, job, \* each process: where it is, its local variables
  fails, calls,
  lost     \* history: records a sync left behind, see Lose

source == <<now, odoo, written>>
mirror == <<rows, lines, lost>>
vars   == <<now, odoo, written, rows, lines, mark, pc, job, fails, calls, lost>>

\* step is the section in hand; since NoMark is a full sync; got are the
\* records read and not yet written, content their lines.
Jobs == [step : 1..Len(Steps), since : 0..NoMark, start : 0..MaxNow,
         got : [Records -> Versions], content : [Records -> Versions]]

Stages == {"idle", "list", "lines", "write", "save"}

\* Odoo, the tables, the file and the processes keep their types, a process
\* holds records of its section only, and nothing of the excluded partner but
\* its projects is ever in the mirror (_est_exclu).
TypeOK ==
  /\ now \in 0..MaxNow
  /\ odoo \in [Records -> 0..Gone] /\ written \in [Records -> 0..MaxNow]
  /\ rows \in [Records -> Versions] /\ lines \in [Records -> Versions]
  /\ mark \in 0..NoMark
  /\ pc \in [Processes -> Stages] /\ job \in [Processes -> Jobs]
  /\ fails \in 0..MaxFails /\ calls \in 0..MaxCalls /\ lost \subseteq Records
  /\ \A p \in Processes, r \in Records : job[p].got[r] # None => KindOf[r] = Steps[job[p].step]
  /\ \A r \in Excluded : KindOf[r] \in FullOnly \/ rows[r] = None

Nothing == [r \in Records |-> None]

-----------------------------------------------------------------------------
(* Odoo.                                                                   *)

\* The record is created, changed or cancelled: its lines change with it.
Change(r) ==
  /\ odoo[r] < Last[r]
  /\ odoo' = [odoo EXCEPT ![r] = @ + 1]
  /\ written' = [written EXCEPT ![r] = now]
  /\ lost' = lost \ {r}
  /\ UNCHANGED <<now, rows, lines, mark, pc, job, fails, calls>>

Delete(r) ==
  /\ r \in Deletable /\ odoo[r] \in 1..MaxVersion
  /\ odoo' = [odoo EXCEPT ![r] = Gone]
  /\ UNCHANGED <<now, written, mirror, mark, pc, job, fails, calls>>

Tick ==
  /\ now < MaxNow /\ now' = now + 1
  /\ UNCHANGED <<odoo, written, mirror, mark, pc, job, fails, calls>>

Exists(r) == odoo[r] \in 1..MaxVersion

-----------------------------------------------------------------------------
(* A process.                                                              *)

Resting == [step |-> 1, since |-> NoMark, start |-> 0, got |-> Nothing, content |-> Nothing]

KindAt(p) == Steps[job[p].step]

Go(p, stage, local) ==
  /\ pc' = [pc EXCEPT ![p] = stage]
  /\ job' = [job EXCEPT ![p] = local]

End(p) == Go(p, "idle", Resting)

\* The job of p at a section, with these records and lines in hand.
Local(p, step, got, content) ==
  [step |-> step, since |-> job[p].since, start |-> job[p].start,
   got |-> got, content |-> content]

\* Sections without records are passed over.
Left(p) == {i \in DOMAIN Steps : i > job[p].step /\ \E r \in Records : KindOf[r] = Steps[i]}

First(S) == CHOOSE i \in S : \A j \in S : i <= j

NextStep(p) ==
  IF p \in Hooks THEN End(p)
  ELSE IF Left(p) = {} THEN Go(p, "save", Local(p, job[p].step, Nothing, Nothing))
  ELSE Go(p, "list", Local(p, First(Left(p)), Nothing, Nothing))

\* Where records read are taken next.
Hand(kind) == IF kind = "order" THEN "lines" ELSE "write"

\* get_order_lines_by_ids, of the orders in hand; {} when the call fails.
ReadLines(p) ==
  /\ pc[p] = "lines"
  /\ \/ /\ Go(p, "write", Local(p, job[p].step, job[p].got,
               [r \in Records |-> IF job[p].got[r] # None /\ Exists(r) THEN odoo[r] ELSE None]))
        /\ UNCHANGED fails
     \/ /\ fails < MaxFails /\ fails' = fails + 1
        /\ Go(p, "write", job[p])
  /\ UNCHANGED <<source, mirror, mark, calls>>

Taken_All(p) == {r \in Records : job[p].got[r] # None}

\* The rows to write: those of the excluded partner are passed over, projects
\* are only added.
Taken(p) == {r \in Records : /\ job[p].got[r] # None
                             /\ IF KindOf[r] \in FullOnly THEN rows[r] = None ELSE r \notin Excluded}

\* _replace_order_lines drops an order's lines and puts those it was given.
Replaced(p) == [r \in Records |-> IF r \in Taken(p) /\ KindOf[r] = "order"
                                  THEN job[p].content[r] ELSE lines[r]]

\* One transaction.  A record is lost when it was current and a process that
\* read it before it changed writes it now.
Write(p) ==
  /\ pc[p] = "write"
  /\ rows' = [r \in Records |-> IF r \in Taken(p) THEN job[p].got[r] ELSE rows[r]]
  /\ lines' = Replaced(p)
  /\ LET current == {r \in Taken(p) : job[p].got[r] = odoo[r]} IN
     lost' = (lost \cup {r \in Taken(p) \ current : rows[r] = odoo[r]}) \ current
  /\ NextStep(p)
  /\ UNCHANGED <<source, mark, fails, calls>>

-----------------------------------------------------------------------------
(* The sync.                                                               *)

Started(s, since) ==
  /\ pc[s] = "idle"
  /\ Go(s, "list", [step |-> First({i \in DOMAIN Steps : \E r \in Records : KindOf[r] = Steps[i]}),
                    since |-> since, start |-> now, got |-> Nothing, content |-> Nothing])
  /\ UNCHANGED <<source, mirror, mark, fails>>

\* The timer of a worker.
Begin(s) == Started(s, mark) /\ UNCHANGED calls

\* POST /webhooks/odoo/force-sync
ForceSync(s) == calls < MaxCalls /\ calls' = calls + 1 /\ Started(s, NoMark)

Since_After(p, r) == written[r] > job[p].since

\* ["write_date", ">=", since]
Since(p, r) == written[r] >= job[p].since

\* What the section holds in Odoo and the sync asks for.
Asked(p, r) ==
  /\ KindOf[r] = KindAt(p) /\ odoo[r] \in Listed
  /\ \/ job[p].since = NoMark
     \/ KindAt(p) \in Whole
     \/ KindAt(p) \notin FullOnly /\ Since(p, r)

AskedFor(s) == {r \in Records : Asked(s, r)}

\* lost are the records that were not up to date when a sync that had asked
\* for them went on without them: once its watermark is saved, only a full
\* sync, a webhook or another change brings them back.
Lose(S) == lost' = lost \cup {r \in S : KindOf[r] \notin Whole /\ rows[r] # odoo[r]}

\* What the list can hold: everything, or as many records as its limit.
Answers(s) ==
  IF KindAt(s) \in Capped /\ Cardinality(AskedFor(s)) > Limit[KindAt(s)]
  THEN {R \in SUBSET AskedFor(s) : Cardinality(R) = Limit[KindAt(s)]}
  ELSE {AskedFor(s)}

Answered(s, R) ==
  /\ Lose(AskedFor(s) \ R)
  /\ IF R = {} THEN NextStep(s)
     ELSE Go(s, Hand(KindAt(s)),
             Local(s, job[s].step, [r \in Records |-> IF r \in R THEN odoo[r] ELSE None], Nothing))

List(s) ==
  /\ pc[s] = "list"
  /\ \E R \in Answers(s) : Answered(s, R)
  /\ UNCHANGED <<source, rows, lines, mark, fails, calls>>

\* The adapter gives what it had read when a page failed.
ListInPart(s) ==
  /\ pc[s] = "list" /\ KindAt(s) \in Lenient
  /\ fails < MaxFails /\ fails' = fails + 1
  /\ \E R \in SUBSET AskedFor(s) : (KindAt(s) \in Paged \/ R = {}) /\ Answered(s, R)
  /\ UNCHANGED <<source, rows, lines, mark, calls>>

\* A call or a transaction raises: the sync goes on only after an optional
\* section.
Raise(s) ==
  /\ pc[s] = "write" \/ (pc[s] = "list" /\ KindAt(s) \notin Lenient)
  /\ fails < MaxFails /\ fails' = fails + 1
  /\ IF KindAt(s) \in Optional
     THEN /\ Lose(IF pc[s] = "list" THEN AskedFor(s) ELSE {r \in Records : job[s].got[r] # None})
          /\ NextStep(s)
     ELSE End(s) /\ UNCHANGED lost
  /\ UNCHANGED <<source, rows, lines, mark, calls>>

Saved_Now(s) == now

\* sync_start, taken before the first read
Saved(s) == job[s].start

Save(s) ==
  /\ pc[s] = "save" /\ mark' = Saved(s)
  /\ End(s)
  /\ UNCHANGED <<source, mirror, fails, calls>>

-----------------------------------------------------------------------------
(* The webhooks.                                                           *)

\* sync_records_by_id reads the record whatever its version, listed or not.
Notify(h, r) ==
  /\ pc[h] = "idle" /\ calls < MaxCalls /\ calls' = calls + 1
  /\ KindOf[r] \in Hooked /\ Exists(r)
  /\ Go(h, Hand(KindOf[r]), Local(h, CHOOSE i \in DOMAIN Steps : Steps[i] = KindOf[r],
                                  [Nothing EXCEPT ![r] = odoo[r]], Nothing))
  /\ UNCHANGED <<source, mirror, mark, fails>>

\* _handle_delete drops the row; an order's lines stay.
Unlink(r) ==
  /\ odoo[r] = Gone /\ KindOf[r] \in Unlinked /\ rows[r] # None
  /\ calls < MaxCalls /\ calls' = calls + 1
  /\ rows' = [rows EXCEPT ![r] = None]
  /\ UNCHANGED <<source, lines, lost, mark, pc, job, fails>>

\* A worker dies, a webhook raises or the file cannot be saved; the file that
\* was being written can be left cut short.
Crash(p) ==
  /\ pc[p] # "idle" /\ fails < MaxFails /\ fails' = fails + 1
  /\ mark' \in IF pc[p] = "save" THEN {mark, NoMark} ELSE {mark}
  /\ End(p)
  /\ UNCHANGED <<source, mirror, calls>>

-----------------------------------------------------------------------------

Init ==
  /\ now = 0 /\ fails = 0 /\ calls = 0 /\ mark = NoMark
  /\ odoo = [r \in Records |-> IF r \in Born THEN 1 ELSE None]
  /\ written = Nothing /\ rows = Nothing /\ lines = Nothing /\ lost = {}
  /\ pc = [p \in Processes |-> "idle"]
  /\ job = [p \in Processes |-> Resting]

SyncStep(s) == List(s) \/ ReadLines(s) \/ Write(s) \/ Save(s)
HookStep(h) == ReadLines(h) \/ Write(h)

Next ==
  \/ \E r \in Records : Change(r) \/ Delete(r) \/ Unlink(r)
  \/ Tick
  \/ \E s \in Syncs : Begin(s) \/ ForceSync(s) \/ SyncStep(s) \/ ListInPart(s) \/ Raise(s)
  \/ \E h \in Hooks : (\E r \in Records : Notify(h, r)) \/ HookStep(h)
  \/ \E p \in Processes : Crash(p)

Spec == Init /\ [][Next]_vars

\* The timers fire and the calls of Odoo answer, but for MaxFails of them.
Fairness ==
  /\ \A s \in Syncs : WF_vars(Begin(s)) /\ WF_vars(SyncStep(s))
  /\ \A h \in Hooks : WF_vars(HookStep(h))

FairSpec == Spec /\ Fairness

-----------------------------------------------------------------------------
(* Properties.                                                             *)

Watched == {r \in Records \ Excluded : KindOf[r] \notin Whole \cup FullOnly}

\* Whatever fails, crashes, overlaps or comes by webhook meanwhile, a listed
\* record is current, or changed after the watermark, so that the next sync
\* asks for it (odoo_sync_job.py:608-613 and 1008).  The code loses one in the
\* ways lost tells and in no other: a list cut at its limit, a page or an
\* optional section that failed, an older version written over it.
NothingMissed ==
  mark # NoMark =>
    \A r \in Watched : odoo[r] \in Listed => rows[r] = odoo[r] \/ written[r] >= mark \/ r \in lost

\* Once Odoo is left alone, its records and its opportunities are in the mirror
\* with their last version, whatever failed before, but for those lost.
Mirrored ==
  \A r \in Watched \cup {r \in Records \ Excluded : KindOf[r] \in Whole} :
    odoo[r] \in Listed => rows[r] = odoo[r] \/ r \in lost

EventuallyMirrored == <>[]Mirrored
=============================================================================
