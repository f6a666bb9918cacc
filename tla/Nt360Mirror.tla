----------------------------- MODULE Nt360Mirror -----------------------------
(***************************************************************************)
(* The local mirror of nt360's orders and opportunities: the hourly sync   *)
(* (jobs/nt360_sync_job.py) of every uvicorn worker, the opp_won webhooks  *)
(* (api/v1/webhooks.py, jobs/nt360_webhook_job.py) and nt360 itself, which *)
(* cuts a list at PageMax without saying so.                               *)
(*                                                                         *)
(* A worker runs at most one sync (APScheduler, max_instances = 1) and, a  *)
(* bound of the model, one webhook at a time.  One action is the code from *)
(* one await on nt360 or SQLite to the next.                               *)
(*                                                                         *)
(* An opportunity is its stage and a revision number; every other column   *)
(* follows the revision.  Opportunities that _opportunite drops (excluded  *)
(* partners) are left out.                                                 *)
(***************************************************************************)
EXTENDS Naturals, FiniteSets

CONSTANTS
  Workers,      \* uvicorn worker processes
  Opps,         \* opportunity ids
  Fps,          \* order numbers ("N° FP")
  NoFp,
  FpOf,         \* the order number an opportunity carries
  SaisieOf,     \* saisie_genord_<fp>: the id rebuilt from an order number
  Rank,         \* place of an id in nt360's lists, which are sorted by id
  NStages,      \* stages are 1..NStages; 0 is "no such opportunity"
  Won,          \* the won stage (6 in the code)
  PageMax,      \* nt360 returns at most this many opportunities of a stage
  MaxChanges,   \* bound on what happens at nt360 after the start
  MaxDeliveries,\* bound on copies of one event on their way
  MaxFails,     \* bound on failed reads
  MaxCrashes    \* bound on worker crashes

Stages == 1..NStages
Vals   == [stage : 0..NStages, rev : 0..MaxChanges]
Absent == [stage |-> 0, rev |-> 0]

ASSUME ConstantsAssumption ==
  /\ Opps # {} /\ FpOf \in [Opps -> Fps \cup {NoFp}] /\ NoFp \notin Fps
  /\ SaisieOf \in [Fps -> Opps] /\ \A f \in Fps : FpOf[SaisieOf[f]] = f
  /\ Rank \in [Opps -> Nat] /\ \A o, x \in Opps : Rank[o] = Rank[x] => o = x
  /\ NStages \in Nat /\ Won \in Stages /\ PageMax \in Nat \ {0}
  /\ MaxChanges \in Nat /\ MaxDeliveries \in Nat
  /\ MaxFails \in Nat /\ MaxCrashes \in Nat

VARIABLES
  remote,       \* nt360's opportunities
  published,    \* nt360's orders
  sent,         \* copies of opp_won:<o> on their way
  changes,      \* how many times nt360 has changed
  cmds,         \* nt360_commandes
  opps,         \* nt360_opportunites
  events,       \* nt360_webhook_evenements: the statut of opp_won:<o>
  spc, sync,    \* the sync of each worker
  hpc, hook,    \* the webhook each worker processes
  known,        \* history: unit-read rows held since a sync began to recover
  fails, crashes

remoteVars == <<remote, published, sent, changes>>
tables     == <<cmds, opps, events>>
syncVars   == <<spc, sync, known>>
hookVars   == <<hpc, hook>>
faultVars  == <<fails, crashes>>
vars == <<remote, published, sent, changes, cmds, opps, events, spc, sync,
          hpc, hook, known, fails, crashes>>

\* A row: its value, which kind of read wrote it (the column lecture) and,
\* for unit reads, whether synced_at is less than RECUPERATION_HEURES old.
NoRow       == [val |-> Absent, by |-> "none", recent |-> FALSE]
ListRow(v)  == [val |-> v, by |-> "liste", recent |-> FALSE]
UnitRow(v)  == [val |-> v, by |-> "unitaire", recent |-> TRUE]
Rows == [val : Vals, by : {"none", "liste", "unitaire"}, recent : BOOLEAN]

\* Local variables of a sync: orders read, stage listed next, liste, whether a
\* list was incomplete, a_recuperer, candidates still to read, unit reads
\* found (or kept), unit reads failed (echecs).
NoSync == [orders |-> {}, next |-> 1, seen |-> [o \in Opps |-> Absent],
           cut |-> FALSE, recover |-> FALSE, todo |-> {},
           unit |-> [o \in Opps |-> Absent], failed |-> {}]
Syncs == [orders : SUBSET Fps, next : Stages, seen : [Opps -> Vals],
          cut : BOOLEAN, recover : BOOLEAN, todo : SUBSET Opps,
          unit : [Opps -> Vals], failed : SUBSET Opps]

\* Local variables of a webhook: the opportunity, the statut enregistrer read,
\* the value relu, the row merge loaded, whether nt360 has the order, and the
\* statut to write at the end.
Statuts == {"none", "recu", "traite", "erreur"}
NoHook(o) == [opp |-> o, saw |-> "none", val |-> Absent, old |-> NoRow,
              order |-> FALSE, statut |-> "none"]
Idle  == NoHook(CHOOSE o \in Opps : TRUE)
Hooks == [opp : Opps, saw : Statuts, val : Vals, old : Rows,
          order : BOOLEAN, statut : Statuts]

TypeOK ==
  /\ remote \in [Opps -> Vals] /\ published \subseteq Fps
  /\ sent \in [Opps -> 0..MaxDeliveries] /\ changes \in 0..MaxChanges
  /\ cmds \subseteq Fps /\ opps \in [Opps -> Rows]
  /\ events \in [Opps -> Statuts]
  /\ spc \in [Workers -> {"idle", "save", "list", "decide", "read", "keep",
                          "replace"}]
  /\ sync \in [Workers -> Syncs] /\ known \in [Workers -> SUBSET Opps]
  /\ hpc \in [Workers -> {"idle", "log", "fetch", "merge", "order", "write",
                          "settle"}]
  /\ hook \in [Workers -> Hooks]
  /\ fails \in 0..MaxFails /\ crashes \in 0..MaxCrashes

\* nt360 has been running for years; the mirror starts empty.
Init ==
  /\ remote \in [Opps -> {v \in Vals : v.rev = 0}] /\ published \in SUBSET Fps
  /\ sent = [o \in Opps |-> 0] /\ changes = 0
  /\ cmds = {} /\ opps = [o \in Opps |-> NoRow]
  /\ events = [o \in Opps |-> "none"]
  /\ spc = [w \in Workers |-> "idle"] /\ sync = [w \in Workers |-> NoSync]
  /\ known = [w \in Workers |-> {}]
  /\ hpc = [w \in Workers |-> "idle"] /\ hook = [w \in Workers |-> Idle]
  /\ fails = 0 /\ crashes = 0

-----------------------------------------------------------------------------
(* nt360.  It changes an opportunity and announces the ones that become    *)
(* won, publishes orders, and may deliver an event more than once or never.*)

AtStage(e) == {o \in Opps : remote[o].stage = e}

\* One page of opportunities?stage=e: the first PageMax ids.
Listed(e) ==
  {o \in AtStage(e) :
     Cardinality({x \in AtStage(e) : Rank[x] < Rank[o]}) < PageMax}

\* Nt360Liste.complete: a single page that reaches the limit is not trusted.
\* Mutant: it is.
Complete_Always(e) == TRUE
Complete(e) == Cardinality(Listed(e)) < PageMax

\* n copies of the event leave: "un même événement peut arriver deux fois".
Change(o, e, n) ==
  /\ changes < MaxChanges /\ remote[o].stage # e
  /\ changes' = changes + 1
  /\ remote' = [remote EXCEPT ![o] =
                  IF e = 0 THEN Absent ELSE [stage |-> e, rev |-> changes + 1]]
  /\ sent' = IF e = Won THEN [sent EXCEPT ![o] = n] ELSE sent
  /\ UNCHANGED <<published, tables, syncVars, hookVars, faultVars>>

Publish(f) ==
  /\ changes < MaxChanges /\ changes' = changes + 1
  /\ published' = IF f \in published THEN published \ {f}
                  ELSE published \cup {f}
  /\ UNCHANGED <<remote, sent, tables, syncVars, hookVars, faultVars>>

\* RECUPERATION_HEURES go by.  Rows age together: only the newest counts.
WindowPasses ==
  /\ \E o \in Opps : opps[o].recent
  /\ opps' = [o \in Opps |-> [opps[o] EXCEPT !.recent = FALSE]]
  /\ UNCHANGED <<remoteVars, cmds, events, syncVars, hookVars, faultVars>>

-----------------------------------------------------------------------------
(* run_nt360_sync: the orders, then the opportunities.                     *)

GoSync(w, to, local) ==
  /\ spc' = [spc EXCEPT ![w] = to] /\ sync' = [sync EXCEPT ![w] = local]
StopSync(w) ==
  /\ GoSync(w, "idle", NoSync) /\ known' = [known EXCEPT ![w] = {}]

\* The hour strikes; the first read that matters is the list of orders.  A pass
\* that fails before it changes nothing.
SyncStart(w) ==
  /\ spc[w] = "idle"
  /\ GoSync(w, "save", [NoSync EXCEPT !.orders = published])
  /\ UNCHANGED <<remoteVars, tables, known, hookVars, faultVars>>

\* _sync_ressource: an empty response keeps the table, and without orders the
\* opportunities are not read.
SaveOrders(w) ==
  /\ spc[w] = "save"
  /\ IF sync[w].orders = {} /\ cmds # {}
     THEN StopSync(w) /\ cmds' = cmds
     ELSE /\ cmds' = sync[w].orders
          /\ GoSync(w, "list", [sync[w] EXCEPT !.orders = {}])
          /\ known' = known
  /\ UNCHANGED <<remoteVars, opps, events, hookVars, faultVars>>

InList(w) == {o \in Opps : sync[w].seen[o] # Absent}

\* liste after stage e: a later stage overwrites what an earlier one said of
\* the same id.
WithStage(w, e) ==
  [o \in Opps |-> IF o \in Listed(e) THEN remote[o] ELSE sync[w].seen[o]]

\* The next stage is listed; after the last one an empty liste ends the pass.
ListStage(w) ==
  LET e    == sync[w].next
      seen == WithStage(w, e)
      cut  == sync[w].cut \/ ~Complete(e) IN
  /\ spc[w] = "list"
  /\ \/ /\ e < NStages
        /\ GoSync(w, "list", [sync[w] EXCEPT !.next = e + 1, !.cut = cut,
                                             !.seen = seen])
        /\ known' = known
     \/ /\ e = NStages /\ \E o \in Opps : seen[o] # Absent
        /\ GoSync(w, "decide", [sync[w] EXCEPT !.next = 1, !.cut = cut,
                                               !.seen = seen])
        /\ known' = known
     \/ e = NStages /\ (\A o \in Opps : seen[o] = Absent) /\ StopSync(w)
  /\ UNCHANGED <<remoteVars, tables, hookVars, faultVars>>

\* The rebuilt ids to read one by one.  Mutant: an order already carried by a
\* listed opportunity is read too.
Candidates_Carried(w) == {SaisieOf[f] : f \in cmds} \ InList(w)
Candidates(w) ==
  {SaisieOf[f] : f \in {g \in cmds : \A o \in InList(w) : FpOf[o] # g}}
    \ InList(w)

UnitRows == {o \in Opps : opps[o].by = "unitaire"}

\* derniere is None, or older than RECUPERATION_HEURES.
Due == \A o \in UnitRows : ~opps[o].recent

\* Where a sync goes once its unit reads are in.
Onwards(local) ==
  CASE local.todo # {} -> "read"
    [] local.todo = {} /\ local.failed # {} -> "keep"
    [] OTHER -> "replace"
GoOn(w, local) == GoSync(w, Onwards(local), local)

Decide(w) ==
  LET recover == sync[w].cut /\ Due IN
  /\ spc[w] = "decide"
  /\ GoOn(w, [sync[w] EXCEPT !.recover = recover,
                             !.todo = IF recover THEN Candidates(w) ELSE {}])
  /\ known' = [known EXCEPT ![w] = IF recover THEN UnitRows ELSE {}]
  /\ UNCHANGED <<remoteVars, tables, hookVars, faultVars>>

\* adapter.get: the opportunity, or None for a 404.
UnitRead(w, o) ==
  /\ spc[w] = "read" /\ o \in sync[w].todo
  /\ GoOn(w, [sync[w] EXCEPT !.todo = @ \ {o},
                             !.unit = [@ EXCEPT ![o] = remote[o]]])
  /\ UNCHANGED <<remoteVars, tables, known, hookVars, faultVars>>

UnitReadFails(w, o) ==
  /\ spc[w] = "read" /\ o \in sync[w].todo /\ fails < MaxFails
  /\ fails' = fails + 1
  /\ GoOn(w, [sync[w] EXCEPT !.todo = @ \ {o}, !.failed = @ \cup {o}])
  /\ UNCHANGED <<remoteVars, tables, known, hookVars, crashes>>

\* The unit-read rows of the failed ids are carried over, without synced_at.
\* Mutants: they are not; every column is.
Carried_Rows(w) ==
  [o \in Opps |-> IF o \in sync[w].failed \cap UnitRows
                  THEN opps[o] ELSE sync[w].unit[o]]
Carried_Nothing(w) == sync[w].unit
Carried(w) ==
  [o \in Opps |-> IF o \in sync[w].failed \cap UnitRows
                  THEN opps[o].val ELSE sync[w].unit[o]]

KeepOld(w) ==
  /\ spc[w] = "keep"
  /\ GoSync(w, "replace", [sync[w] EXCEPT !.unit = Carried(w)])
  /\ UNCHANGED <<remoteVars, tables, known, hookVars, faultVars>>

\* The table after the sync.  A recovery replaces it; otherwise the unit-read
\* rows that no list returned stay.  Mutant: list rows are never deleted.
NewRow_KeepAll(w, o) ==
  IF o \in InList(w) THEN ListRow(sync[w].seen[o]) ELSE opps[o]
NewRow(w, o) ==
  CASE o \in InList(w) -> ListRow(sync[w].seen[o])
    [] o \notin InList(w) /\ sync[w].recover ->
         IF sync[w].unit[o] = Absent THEN NoRow ELSE UnitRow(sync[w].unit[o])
    [] OTHER -> IF opps[o].by = "unitaire" THEN opps[o] ELSE NoRow

Replace(w) ==
  /\ spc[w] = "replace"
  /\ opps' = [o \in Opps |-> NewRow(w, o)]
  /\ GoSync(w, "idle", NoSync)
  /\ known' = [v \in Workers |->
                 IF v = w THEN {}
                 ELSE {o \in known[v] : opps'[o].by = "unitaire"}]
  /\ UNCHANGED <<remoteVars, cmds, events, hookVars, faultVars>>

\* A list that raises, or a key refused in any read: the pass ends and the
\* opportunities keep what they hold.
SyncFails(w) ==
  /\ spc[w] \in {"list", "read"} /\ fails < MaxFails
  /\ fails' = fails + 1 /\ StopSync(w)
  /\ UNCHANGED <<remoteVars, tables, hookVars, crashes>>

-----------------------------------------------------------------------------
(* An opp_won event: enregistrer, then traiter in the background.          *)

GoHook(w, to, local) ==
  /\ hpc' = [hpc EXCEPT ![w] = to] /\ hook' = [hook EXCEPT ![w] = local]
StopHook(w) == GoHook(w, "idle", Idle)

\* enregistrer: session.get on the key opp_won:<oppId>.
Receive(w, o) ==
  /\ hpc[w] = "idle" /\ sent[o] > 0
  /\ sent' = [sent EXCEPT ![o] = @ - 1]
  /\ GoHook(w, "log", [NoHook(o) EXCEPT !.saw = events[o]])
  /\ UNCHANGED <<remote, published, changes, tables, syncVars, faultVars>>

\* enregistrer's commit, for a first reception or one that follows a failure.
Log(w) ==
  LET o == hook[w].opp IN
  /\ hpc[w] = "log"
  /\ \/ hook[w].saw = "none" /\ events[o] = "none"
     \/ hook[w].saw = "erreur"
  /\ events' = [events EXCEPT ![o] = "recu"]
  /\ GoHook(w, "fetch", NoHook(o))
  /\ UNCHANGED <<remoteVars, cmds, opps, syncVars, faultVars>>

\* Received and processed, or being processed: answered as a duplicate.
Duplicate(w) ==
  /\ hpc[w] = "log" /\ hook[w].saw \in {"recu", "traite"}
  /\ StopHook(w)
  /\ UNCHANGED <<remoteVars, tables, syncVars, faultVars>>

\* Both workers saw no row: the second INSERT breaks the primary key, the
\* route answers 500 and nt360 sends the event again.
LogConflict(w) ==
  LET o == hook[w].opp IN
  /\ hpc[w] = "log" /\ hook[w].saw = "none" /\ events[o] # "none"
  /\ sent' = [sent EXCEPT ![o] = IF @ < MaxDeliveries THEN @ + 1 ELSE @]
  /\ StopHook(w)
  /\ UNCHANGED <<remote, published, changes, tables, syncVars, faultVars>>

\* The opportunity is read again; a 404 ends the processing.
Fetch(w) ==
  LET v == remote[hook[w].opp] IN
  /\ hpc[w] = "fetch"
  /\ IF v = Absent THEN GoHook(w, "settle", [hook[w] EXCEPT !.statut = "traite"])
     ELSE GoHook(w, "merge", [hook[w] EXCEPT !.val = v])
  /\ UNCHANGED <<remoteVars, tables, syncVars, faultVars>>

\* session.merge loads the row it will update.
Merge(w) ==
  LET o == hook[w].opp IN
  /\ hpc[w] = "merge"
  /\ GoHook(w, IF FpOf[o] = NoFp THEN "write" ELSE "order",
            [hook[w] EXCEPT !.old = opps[o]])
  /\ UNCHANGED <<remoteVars, tables, syncVars, faultVars>>

ReadOrder(w) ==
  /\ hpc[w] = "order"
  /\ GoHook(w, "write",
            [hook[w] EXCEPT !.order = FpOf[hook[w].opp] \in published])
  /\ UNCHANGED <<remoteVars, tables, syncVars, faultVars>>

\* An UPDATE sets the columns that differ from the row merge loaded.
Merged(cur, h) ==
  [val |-> IF h.val = h.old.val THEN cur.val ELSE h.val,
   by  |-> IF h.old.by = "unitaire" THEN cur.by ELSE "unitaire",
   recent |-> h.old.by # "unitaire" \/ cur.by = "unitaire"]

\* The flush and the commit.  A row deleted or inserted since merge loaded it
\* fails the statement, and nothing is written.
Write(w) ==
  LET h == hook[w]
      o == h.opp IN
  /\ hpc[w] = "write"
  /\ IF (h.old = NoRow) # (opps[o] = NoRow)
     THEN /\ GoHook(w, "settle", [h EXCEPT !.statut = "erreur"])
          /\ UNCHANGED <<cmds, opps>>
     ELSE /\ GoHook(w, "settle", [h EXCEPT !.statut = "traite"])
          /\ opps' = [opps EXCEPT ![o] = Merged(@, h)]
          /\ cmds' = IF h.order THEN cmds \cup {FpOf[o]} ELSE cmds
  /\ UNCHANGED <<remoteVars, events, syncVars, faultVars>>

\* A read that raises.
HookFails(w) ==
  /\ hpc[w] \in {"fetch", "order"} /\ fails < MaxFails
  /\ fails' = fails + 1
  /\ GoHook(w, "settle", [hook[w] EXCEPT !.statut = "erreur"])
  /\ UNCHANGED <<remoteVars, tables, syncVars, crashes>>

\* Mutant: only a success is recorded.
Settled_TraiteOnly(w) ==
  IF hook[w].statut = "traite" THEN "traite" ELSE events[hook[w].opp]
Settled(w) == hook[w].statut

Settle(w) ==
  /\ hpc[w] = "settle"
  /\ events' = [events EXCEPT ![hook[w].opp] = Settled(w)]
  /\ StopHook(w)
  /\ UNCHANGED <<remoteVars, cmds, opps, syncVars, faultVars>>

-----------------------------------------------------------------------------
\* A worker dies with its sync and its webhook.  A delivery not answered yet is
\* sent again.
Crash(w) ==
  LET o == hook[w].opp IN
  /\ crashes < MaxCrashes /\ crashes' = crashes + 1
  /\ spc[w] # "idle" \/ hpc[w] # "idle"
  /\ sent' = IF hpc[w] = "log" /\ sent[o] < MaxDeliveries
             THEN [sent EXCEPT ![o] = @ + 1] ELSE sent
  /\ StopSync(w) /\ StopHook(w)
  /\ UNCHANGED <<remote, published, changes, tables, fails>>

SyncStep(w) ==
  \/ SyncStart(w) \/ SaveOrders(w) \/ ListStage(w)
  \/ Decide(w) \/ (\E o \in Opps : UnitRead(w, o)) \/ KeepOld(w) \/ Replace(w)

HookStep(w) ==
  \/ Log(w) \/ Duplicate(w) \/ LogConflict(w) \/ Fetch(w) \/ Merge(w)
  \/ ReadOrder(w) \/ Write(w) \/ Settle(w)

Fault(w) ==
  SyncFails(w) \/ HookFails(w) \/ Crash(w) \/ \E o \in Opps : UnitReadFails(w, o)

Nt360 ==
  \/ \E o \in Opps, e \in 0..NStages, n \in 1..MaxDeliveries : Change(o, e, n)
  \/ \E f \in Fps : Publish(f)

Next ==
  \/ Nt360 \/ WindowPasses
  \/ \E w \in Workers :
       SyncStep(w) \/ HookStep(w) \/ Fault(w) \/ \E o \in Opps : Receive(w, o)

Spec == Init /\ [][Next]_vars

\* The scheduler starts a sync every hour in every worker, time passes, and a
\* coroutine that can run runs.  nt360 owes nothing.
Fairness ==
  /\ WF_vars(WindowPasses)
  /\ \A w \in Workers : WF_vars(SyncStep(w)) /\ WF_vars(HookStep(w))
FairSpec == Spec /\ Fairness

-----------------------------------------------------------------------------
(* Properties.                                                             *)

\* enregistrer promises that a delivery answered as a duplicate is "déjà
\* traité (ou en cours)": as long as no worker died, an event in statut recu
\* is in the hands of a live webhook that will give it its final statut.
ReceivedIsInHand ==
  crashes = 0 =>
    \A o \in Opps : events[o] = "recu" =>
      \E w \in Workers : hook[w].opp = o /\ hpc[w] \notin {"idle", "log"}

\* A recovery never adds a rebuilt id whose order a listed opportunity already
\* carries: nt360 keeps both and counts the deal once.
RecoveryCountsOnce ==
  [][\A w \in Workers : Replace(w) /\ sync[w].recover =>
       \A o, x \in Opps :
         opps'[o].by = "unitaire" /\ opps'[x].by = "liste"
           => FpOf[o] = NoFp \/ FpOf[o] # FpOf[x]]_vars

\* "Une lecture en échec ne doit pas faire disparaître une gagnée déjà
\* connue": a unit-read row held since the recovery began is still there after
\* it, whatever webhooks and the other worker's sync did meanwhile.
FailedReadKeepsWin ==
  [][\A w \in Workers : Replace(w) =>
       \A o \in sync[w].failed \cap known[w] : opps'[o] # NoRow]_vars

\* What a sync and a recovery can see: the listed opportunities and, when a
\* list is cut, the rebuilt ids that no listed opportunity stands for.
AllListed == UNION {Listed(e) : e \in Stages}
Recoverable ==
  {o \in Opps : /\ remote[o] # Absent
                /\ \E f \in published : SaisieOf[f] = o
                /\ \A x \in AllListed : FpOf[x] # FpOf[o]}
ListCut == \E e \in Stages : Cardinality(Listed(e)) = PageMax
Readable == AllListed \cup (IF ListCut THEN Recoverable ELSE {})
Syncable == AllListed # {} /\ (published # {} \/ cmds = {})

\* Whatever failed, crashed, arrived twice or was overwritten in the wrong
\* order, the mirror ends up holding the current value of every opportunity
\* that can be read, and nt360's orders.
EventuallyFresh ==
  <>[](Syncable => /\ cmds = published
                   /\ \A o \in Readable : opps[o].val = remote[o])

\* ... and nothing else, except unit-read rows while no list is cut.
EventuallyNoGhost ==
  <>[](Syncable => \A o \in Opps :
         opps[o] # NoRow =>
           o \in Readable \/ (opps[o].by = "unitaire" /\ ~ListCut))

\* A webhook that was logged gets its final statut, unless a worker died.
ReceivedSettles ==
  \A o \in Opps : events[o] = "recu" ~> events[o] # "recu" \/ crashes > 0

\* The adapter's contract for an incomplete list: "Le job de synchro ne doit
\* alors pas en déduire de suppressions".  Between two recoveries, a sync that
\* saw a cut list keeps a won row read from an earlier list that is still
\* exactly so at nt360 and only lies past the cut.
CutListDeletesNothing ==
  [][\A w \in Workers, o \in Opps :
       /\ Replace(w) /\ sync[w].cut /\ ~sync[w].recover
       /\ opps[o].by = "liste" /\ opps[o].val = remote[o]
       /\ remote[o].stage = Won /\ o \notin Listed(Won)
       => opps'[o] # NoRow]_vars
=============================================================================
