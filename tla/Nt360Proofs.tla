----------------------------- MODULE Nt360Proofs -----------------------------
(* Theorems about Nt360Mirror: types, the promise of enregistrer that a copy *)
(* of an event is a duplicate only of one handled or being handled, and what *)
(* a recovery adds to the table and keeps in it.                             *)
EXTENDS Nt360Mirror, TLAPS

SyncStages == {"idle", "save", "list", "decide", "read", "keep", "replace"}
HookStages == {"idle", "log", "fetch", "merge", "order", "write", "settle"}

\* The values every step is built from are well typed.
LEMMA ConstantTypes ==
  /\ Absent \in Vals /\ NoRow \in Rows /\ NoSync \in Syncs /\ Idle \in Hooks
  /\ \A o \in Opps : NoHook(o) \in Hooks
  /\ \A v \in Vals : ListRow(v) \in Rows /\ UnitRow(v) \in Rows
<1>1. Absent \in Vals
  BY ConstantsAssumption DEF Absent, Vals, Stages
<1>2. NoRow \in Rows
  BY <1>1 DEF NoRow, Rows
<1>3. \A v \in Vals : ListRow(v) \in Rows /\ UnitRow(v) \in Rows
  BY DEF ListRow, UnitRow, Rows
<1>4. 1 \in Stages
  BY ConstantsAssumption DEF Stages
<1>5. NoSync \in Syncs
  BY <1>1, <1>4 DEF NoSync, Syncs
<1>6. \A o \in Opps : NoHook(o) \in Hooks
  BY <1>1, <1>2 DEF NoHook, Hooks, Statuts
<1>7. (CHOOSE o \in Opps : TRUE) \in Opps
  BY ConstantsAssumption
<1>8. QED
  BY <1>1, <1>2, <1>3, <1>5, <1>6, <1>7 DEF Idle

\* A sync that moves with well-typed local variables keeps its types.
LEMMA GoSyncTypes ==
  ASSUME TypeOK, NEW w \in Workers, NEW to \in SyncStages, NEW l \in Syncs,
         GoSync(w, to, l)
  PROVE  /\ spc' \in [Workers -> SyncStages] /\ sync' \in [Workers -> Syncs]
BY DEF TypeOK, GoSync, SyncStages

\* The same of a webhook.
LEMMA GoHookTypes ==
  ASSUME TypeOK, NEW w \in Workers, NEW to \in HookStages, NEW h \in Hooks,
         GoHook(w, to, h)
  PROVE  /\ hpc' \in [Workers -> HookStages] /\ hook' \in [Workers -> Hooks]
BY DEF TypeOK, GoHook, HookStages

\* The end of a sync keeps its types.
LEMMA StopSyncTypes ==
  ASSUME TypeOK, NEW w \in Workers, StopSync(w)
  PROVE  /\ spc' \in [Workers -> SyncStages] /\ sync' \in [Workers -> Syncs]
         /\ known' \in [Workers -> SUBSET Opps]
<1>1. GoSync(w, "idle", NoSync) /\ "idle" \in SyncStages /\ NoSync \in Syncs
  BY ConstantTypes DEF StopSync, SyncStages
<1>2. known' \in [Workers -> SUBSET Opps]
  BY DEF TypeOK, StopSync
<1>3. QED
  BY <1>1, <1>2, GoSyncTypes

\* The end of a webhook keeps its types.
LEMMA StopHookTypes ==
  ASSUME TypeOK, NEW w \in Workers, StopHook(w)
  PROVE  /\ hpc' \in [Workers -> HookStages] /\ hook' \in [Workers -> Hooks]
<1>1. GoHook(w, "idle", Idle) /\ "idle" \in HookStages /\ Idle \in Hooks
  BY ConstantTypes DEF StopHook, HookStages
<1>2. QED
  BY <1>1, GoHookTypes

\* The four groups of variables of which a step changes at most a few.
RemoteOK == /\ remote \in [Opps -> Vals] /\ published \subseteq Fps
            /\ sent \in [Opps -> 0..MaxDeliveries] /\ changes \in 0..MaxChanges
TablesOK == /\ cmds \subseteq Fps /\ opps \in [Opps -> Rows]
            /\ events \in [Opps -> Statuts]
SyncsOK  == /\ spc \in [Workers -> SyncStages] /\ sync \in [Workers -> Syncs]
            /\ known \in [Workers -> SUBSET Opps]
HooksOK  == /\ hpc \in [Workers -> HookStages] /\ hook \in [Workers -> Hooks]
FaultsOK == fails \in 0..MaxFails /\ crashes \in 0..MaxCrashes

\* TypeOK is their conjunction.
LEMMA TypeGroups ==
  /\ TypeOK <=> RemoteOK /\ TablesOK /\ SyncsOK /\ HooksOK /\ FaultsOK
  /\ TypeOK' <=> RemoteOK' /\ TablesOK' /\ SyncsOK' /\ HooksOK' /\ FaultsOK'
BY DEF TypeOK, RemoteOK, TablesOK, SyncsOK, HooksOK, FaultsOK, SyncStages,
       HookStages

\* Groups a step leaves alone keep their types.
LEMMA UntouchedTypes ==
  /\ RemoteOK /\ UNCHANGED remoteVars => RemoteOK'
  /\ TablesOK /\ UNCHANGED tables => TablesOK'
  /\ SyncsOK /\ UNCHANGED syncVars => SyncsOK'
  /\ HooksOK /\ UNCHANGED hookVars => HooksOK'
  /\ FaultsOK /\ UNCHANGED faultVars => FaultsOK'
BY DEF RemoteOK, TablesOK, SyncsOK, HooksOK, FaultsOK, remoteVars, tables,
       syncVars, hookVars, faultVars

\* The initial state is well typed.
LEMMA InitTypes == Init => TypeOK
<1> SUFFICES ASSUME Init PROVE TypeOK
  OBVIOUS
<1>1. RemoteOK
  BY ConstantsAssumption DEF Init, RemoteOK
<1>2. TablesOK
  BY ConstantTypes DEF Init, TablesOK, Statuts
<1>3. SyncsOK
  BY ConstantTypes DEF Init, SyncsOK, SyncStages
<1>4. HooksOK
  BY ConstantTypes DEF Init, HooksOK, HookStages
<1>5. FaultsOK
  BY ConstantsAssumption DEF Init, FaultsOK
<1>6. QED
  BY <1>1, <1>2, <1>3, <1>4, <1>5, TypeGroups

\* nt360 and the clock change well-typed things in well-typed ways.
LEMMA Nt360Types ==
  ASSUME TypeOK, Nt360 \/ WindowPasses
  PROVE  TypeOK'
<1> USE TypeGroups
<1>1. ASSUME NEW o \in Opps, NEW e \in 0..NStages, NEW n \in 1..MaxDeliveries,
             Change(o, e, n)
      PROVE  TypeOK'
  <2>1. changes + 1 \in 0..MaxChanges
    BY <1>1, ConstantsAssumption DEF Change, RemoteOK
  <2>2. [stage |-> e, rev |-> changes + 1] \in Vals
    BY <2>1 DEF Vals
  <2>3. (IF e = 0 THEN Absent ELSE [stage |-> e, rev |-> changes + 1]) \in Vals
    BY <2>2, ConstantTypes
  <2>4. remote' \in [Opps -> Vals]
    BY <1>1, <2>3 DEF Change, RemoteOK
  <2>5. sent' \in [Opps -> 0..MaxDeliveries]
    <3>1. n \in 0..MaxDeliveries
      BY ConstantsAssumption
    <3>2. QED
      BY <1>1, <3>1 DEF Change, RemoteOK
  <2>6. RemoteOK'
    BY <1>1, <2>1, <2>4, <2>5 DEF Change, RemoteOK
  <2>7. QED
    BY <1>1, <2>6, UntouchedTypes DEF Change
<1>2. ASSUME NEW f \in Fps, Publish(f)
      PROVE  TypeOK'
  <2>1. changes + 1 \in 0..MaxChanges
    BY <1>2, ConstantsAssumption DEF Publish, RemoteOK
  <2>2. RemoteOK'
    BY <1>2, <2>1 DEF Publish, RemoteOK
  <2>3. QED
    BY <1>2, <2>2, UntouchedTypes DEF Publish
<1>3. ASSUME WindowPasses
      PROVE  TypeOK'
  <2>1. \A o \in Opps : [opps[o] EXCEPT !.recent = FALSE] \in Rows
    BY DEF TablesOK, Rows
  <2>2. TablesOK'
    BY <1>3, <2>1 DEF WindowPasses, TablesOK
  <2>3. QED
    BY <1>3, <2>2, UntouchedTypes DEF WindowPasses
<1>4. QED
  BY <1>1, <1>2, <1>3 DEF Nt360

\* What a sync reads and computes is well typed.
LEMMA SyncValues ==
  ASSUME TypeOK, NEW w \in Workers
  PROVE  /\ sync[w] \in Syncs
         /\ \A e \in Stages : WithStage(w, e) \in [Opps -> Vals]
         /\ Candidates(w) \subseteq Opps /\ UnitRows \subseteq Opps
         /\ Carried(w) \in [Opps -> Vals]
         /\ \A o \in Opps : NewRow(w, o) \in Rows
<1> USE TypeGroups
<1>1. sync[w] \in Syncs
  BY DEF SyncsOK
<1>2. sync[w].seen \in [Opps -> Vals] /\ sync[w].unit \in [Opps -> Vals]
  BY <1>1 DEF Syncs
<1>3. ASSUME NEW e \in Stages PROVE WithStage(w, e) \in [Opps -> Vals]
  BY <1>2 DEF WithStage, RemoteOK
<1>4. Candidates(w) \subseteq Opps
  BY ConstantsAssumption DEF Candidates, TablesOK
<1>5. UnitRows \subseteq Opps
  BY DEF UnitRows
<1>6. \A o \in Opps : opps[o] \in Rows /\ opps[o].val \in Vals
  BY DEF TablesOK, Rows
<1>7. Carried(w) \in [Opps -> Vals]
  BY <1>2, <1>6 DEF Carried
<1>8. ASSUME NEW o \in Opps PROVE NewRow(w, o) \in Rows
  <2>1. sync[w].seen[o] \in Vals /\ sync[w].unit[o] \in Vals
    BY <1>2
  <2>2. CASE o \in InList(w)
    BY <2>1, <2>2, ConstantTypes DEF NewRow
  <2>3. CASE o \notin InList(w) /\ sync[w].recover
    BY <2>1, <2>3, ConstantTypes DEF NewRow
  <2>4. CASE o \notin InList(w) /\ ~sync[w].recover
    BY <1>6, <2>4, ConstantTypes DEF NewRow
  <2>5. QED
    BY <2>2, <2>3, <2>4
<1>9. QED
  BY <1>1, <1>3, <1>4, <1>5, <1>7, <1>8

\* Unit reads lead to one of the stages of a sync.
LEMMA GoOnTypes ==
  ASSUME TypeOK, NEW w \in Workers, NEW l \in Syncs, GoOn(w, l)
  PROVE  /\ spc' \in [Workers -> SyncStages] /\ sync' \in [Workers -> Syncs]
<1>1. Onwards(l) \in SyncStages
  BY DEF Onwards, SyncStages
<1>2. GoSync(w, Onwards(l), l)
  BY DEF GoOn
<1>3. QED
  BY <1>1, <1>2, GoSyncTypes

\* A step of a sync, or its failure, keeps the types.
LEMMA SyncTypes ==
  ASSUME TypeOK, NEW w \in Workers,
         SyncStep(w) \/ SyncFails(w) \/ \E o \in Opps : UnitReadFails(w, o)
  PROVE  TypeOK'
<1> USE TypeGroups, SyncValues
<1> DEFINE l == sync[w]
<1>1. ASSUME SyncStart(w) PROVE TypeOK'
  <2>1. [NoSync EXCEPT !.orders = published] \in Syncs
    BY ConstantTypes DEF Syncs, RemoteOK
  <2>2. SyncsOK'
    BY <1>1, <2>1, GoSyncTypes DEF SyncStart, SyncsOK, SyncStages
  <2>3. QED
    BY <1>1, <2>2, UntouchedTypes DEF SyncStart
<1>2. ASSUME SaveOrders(w) PROVE TypeOK'
  <2>1. [l EXCEPT !.orders = {}] \in Syncs
    BY DEF Syncs
  <2>2. SyncsOK'
    BY <1>2, <2>1, GoSyncTypes, StopSyncTypes DEF SaveOrders, SyncsOK, SyncStages
  <2>3. TablesOK'
    BY <1>2 DEF SaveOrders, TablesOK, Syncs
  <2>4. QED
    BY <1>2, <2>2, <2>3, UntouchedTypes DEF SaveOrders
<1>3. ASSUME ListStage(w) PROVE TypeOK'
  <2> DEFINE seen == WithStage(w, l.next)
             cut  == l.cut \/ ~Complete(l.next)
             l1 == [l EXCEPT !.next = l.next + 1, !.cut = cut, !.seen = seen]
             l2 == [l EXCEPT !.next = 1, !.cut = cut, !.seen = seen]
  <2>1. l.next \in Stages /\ seen \in [Opps -> Vals] /\ cut \in BOOLEAN
    BY DEF Syncs
  <2> HIDE DEF seen, cut
  <2>2. ASSUME l.next < NStages, GoSync(w, "list", l1), known' = known
        PROVE  SyncsOK'
    <3>1. l.next + 1 \in Stages
      BY <2>1, <2>2, ConstantsAssumption DEF Stages
    <3>2. l1 \in Syncs
      BY <2>1, <3>1 DEF Syncs
    <3>3. QED
      BY <2>2, <3>2, GoSyncTypes DEF SyncsOK, SyncStages
  <2>3. ASSUME GoSync(w, "decide", l2), known' = known
        PROVE  SyncsOK'
    <3>1. 1 \in Stages
      BY ConstantsAssumption DEF Stages
    <3>2. l2 \in Syncs
      BY <2>1, <3>1 DEF Syncs
    <3>3. QED
      BY <2>3, <3>2, GoSyncTypes DEF SyncsOK, SyncStages
  <2>4. ASSUME StopSync(w) PROVE SyncsOK'
    BY <2>4, StopSyncTypes DEF SyncsOK
  <2>5. SyncsOK'
    BY <1>3, <2>2, <2>3, <2>4 DEF ListStage, seen, cut
  <2>6. QED
    BY <1>3, <2>5, UntouchedTypes DEF ListStage
<1>4. ASSUME Decide(w) PROVE TypeOK'
  <2> DEFINE recover == l.cut /\ Due
             l1 == [l EXCEPT !.recover = recover,
                             !.todo = IF recover THEN Candidates(w) ELSE {}]
  <2>1. recover \in BOOLEAN
    OBVIOUS
  <2>2. l1 \in Syncs
    BY <2>1 DEF Syncs
  <2>3. GoOn(w, l1)
    BY <1>4 DEF Decide
  <2>4. known' \in [Workers -> SUBSET Opps]
    BY <1>4 DEF Decide, SyncsOK
  <2>5. SyncsOK'
    BY <2>2, <2>3, <2>4, GoOnTypes DEF SyncsOK
  <2>6. QED
    BY <1>4, <2>5, UntouchedTypes DEF Decide
<1>5. ASSUME NEW o \in Opps, UnitRead(w, o) PROVE TypeOK'
  <2> DEFINE l1 == [l EXCEPT !.todo = @ \ {o},
                             !.unit = [@ EXCEPT ![o] = remote[o]]]
  <2>1. [l.unit EXCEPT ![o] = remote[o]] \in [Opps -> Vals]
    BY DEF Syncs, RemoteOK
  <2>2. l1 \in Syncs
    BY <2>1 DEF Syncs
  <2>3. GoOn(w, l1)
    BY <1>5 DEF UnitRead
  <2>4. SyncsOK'
    BY <1>5, <2>2, <2>3, GoOnTypes DEF SyncsOK, UnitRead
  <2>5. QED
    BY <1>5, <2>4, UntouchedTypes DEF UnitRead
<1>6. ASSUME KeepOld(w) PROVE TypeOK'
  <2>1. [l EXCEPT !.unit = Carried(w)] \in Syncs
    BY DEF Syncs
  <2>2. SyncsOK'
    BY <1>6, <2>1, GoSyncTypes DEF KeepOld, SyncsOK, SyncStages
  <2>3. QED
    BY <1>6, <2>2, UntouchedTypes DEF KeepOld
<1>7. ASSUME Replace(w) PROVE TypeOK'
  <2>1. TablesOK'
    BY <1>7 DEF Replace, TablesOK
  <2>2. known' \in [Workers -> SUBSET Opps]
    BY <1>7 DEF Replace, SyncsOK
  <2>3. SyncsOK'
    BY <1>7, <2>2, ConstantTypes, GoSyncTypes DEF Replace, SyncsOK, SyncStages
  <2>4. QED
    BY <1>7, <2>1, <2>3, UntouchedTypes DEF Replace
<1>8. ASSUME SyncFails(w) PROVE TypeOK'
  <2>1. SyncsOK'
    BY <1>8, StopSyncTypes DEF SyncFails, SyncsOK
  <2>2. FaultsOK'
    BY <1>8, ConstantsAssumption DEF SyncFails, FaultsOK
  <2>3. QED
    BY <1>8, <2>1, <2>2, UntouchedTypes DEF SyncFails
<1>9. ASSUME NEW o \in Opps, UnitReadFails(w, o) PROVE TypeOK'
  <2> DEFINE l1 == [l EXCEPT !.todo = @ \ {o}, !.failed = @ \cup {o}]
  <2>1. l1 \in Syncs
    <3>1. l.todo \ {o} \in SUBSET Opps /\ l.failed \cup {o} \in SUBSET Opps
      BY DEF Syncs
    <3>2. QED
      BY <3>1 DEF Syncs
  <2>2. GoOn(w, l1)
    BY <1>9 DEF UnitReadFails
  <2>3. SyncsOK'
    BY <1>9, <2>1, <2>2, GoOnTypes DEF SyncsOK, UnitReadFails
  <2>4. FaultsOK'
    <3>1. fails < MaxFails /\ fails' = fails + 1 /\ crashes' = crashes
      BY <1>9 DEF UnitReadFails
    <3>2. QED
      BY <3>1, ConstantsAssumption DEF FaultsOK
  <2>5. QED
    BY <1>9, <2>3, <2>4, UntouchedTypes DEF UnitReadFails
<1>10. QED
  BY <1>1, <1>2, <1>3, <1>4, <1>5, <1>6, <1>7, <1>8, <1>9 DEF SyncStep

\* What a webhook knows at each stage: the order it found is one that exists,
\* and it never ends without a final statut.
Fits(to, h) ==
  /\ h.order => FpOf[h.opp] \in Fps
  /\ to = "settle" => h.statut \in {"traite", "erreur"}
HandInv == \A w \in Workers : Fits(hpc[w], hook[w])

\* A step of a webhook, its failure, a reception or a crash keeps the types.
LEMMA HookTypes ==
  ASSUME TypeOK, HandInv, NEW w \in Workers,
         HookStep(w) \/ HookFails(w) \/ Crash(w) \/ \E o \in Opps : Receive(w, o)
  PROVE  TypeOK'
<1> USE TypeGroups
<1> DEFINE h == hook[w]
<1>0. h \in Hooks /\ h.opp \in Opps /\ h.statut \in Statuts
  BY DEF HooksOK, Hooks
<1>1. ASSUME NEW o \in Opps, Receive(w, o) PROVE TypeOK'
  <2>1. events[o] \in Statuts
    BY DEF TablesOK
  <2>2. [NoHook(o) EXCEPT !.saw = events[o]] \in Hooks
    BY <2>1, ConstantTypes DEF Hooks
  <2>3. HooksOK'
    BY <1>1, <2>2, GoHookTypes DEF Receive, HooksOK, HookStages
  <2>4. RemoteOK'
    <3>1. sent[o] > 0 /\ sent' = [sent EXCEPT ![o] = sent[o] - 1]
      BY <1>1 DEF Receive
    <3>2. sent[o] - 1 \in 0..MaxDeliveries
      BY <3>1, ConstantsAssumption DEF RemoteOK
    <3>3. QED
      BY <1>1, <3>1, <3>2 DEF Receive, RemoteOK
  <2>5. QED
    BY <1>1, <2>3, <2>4, UntouchedTypes DEF Receive
<1>2. ASSUME Log(w) PROVE TypeOK'
  <2>1. HooksOK'
    BY <1>2, <1>0, ConstantTypes, GoHookTypes DEF Log, HooksOK, HookStages
  <2>2. TablesOK'
    BY <1>2, <1>0 DEF Log, TablesOK, Statuts
  <2>3. QED
    BY <1>2, <2>1, <2>2, UntouchedTypes DEF Log
<1>3. ASSUME Duplicate(w) PROVE TypeOK'
  BY <1>3, StopHookTypes, UntouchedTypes DEF Duplicate, HooksOK
<1>4. ASSUME LogConflict(w) PROVE TypeOK'
  <2>1. sent' \in [Opps -> 0..MaxDeliveries]
    <3>1. (IF sent[h.opp] < MaxDeliveries THEN sent[h.opp] + 1 ELSE sent[h.opp])
            \in 0..MaxDeliveries
      BY <1>0, ConstantsAssumption DEF RemoteOK
    <3>2. QED
      BY <1>4, <3>1 DEF LogConflict, RemoteOK
  <2>2. RemoteOK'
    BY <1>4, <2>1 DEF LogConflict, RemoteOK
  <2>3. QED
    BY <1>4, <2>2, StopHookTypes, UntouchedTypes DEF LogConflict, HooksOK
<1>5. ASSUME Fetch(w) PROVE TypeOK'
  <2>1. remote[h.opp] \in Vals
    BY <1>0 DEF RemoteOK
  <2>2. /\ [h EXCEPT !.statut = "traite"] \in Hooks
        /\ [h EXCEPT !.val = remote[h.opp]] \in Hooks
    BY <1>0, <2>1 DEF Hooks, Statuts
  <2>3. HooksOK'
    BY <1>5, <2>2, GoHookTypes DEF Fetch, HooksOK, HookStages
  <2>4. QED
    BY <1>5, <2>3, UntouchedTypes DEF Fetch
<1>6. ASSUME Merge(w) PROVE TypeOK'
  <2>1. [h EXCEPT !.old = opps[h.opp]] \in Hooks
    BY <1>0 DEF Hooks, TablesOK
  <2>2. HooksOK'
    BY <1>6, <2>1, GoHookTypes DEF Merge, HooksOK, HookStages
  <2>3. QED
    BY <1>6, <2>2, UntouchedTypes DEF Merge
<1>7. ASSUME ReadOrder(w) PROVE TypeOK'
  <2> DEFINE found == FpOf[h.opp] \in published
  <2>0. found \in BOOLEAN
    OBVIOUS
  <2> HIDE DEF found
  <2>1. [h EXCEPT !.order = found] \in Hooks
    BY <1>0, <2>0 DEF Hooks
  <2>2. HooksOK'
    BY <1>7, <2>1, GoHookTypes DEF ReadOrder, HooksOK, HookStages, found
  <2>3. QED
    BY <1>7, <2>2, UntouchedTypes DEF ReadOrder
<1>8. ASSUME Write(w) PROVE TypeOK'
  <2>1. /\ [h EXCEPT !.statut = "erreur"] \in Hooks
        /\ [h EXCEPT !.statut = "traite"] \in Hooks
    BY <1>0 DEF Hooks, Statuts
  <2>2. HooksOK'
    BY <1>8, <2>1, GoHookTypes DEF Write, HooksOK, HookStages
  <2>3. Merged(opps[h.opp], h) \in Rows
    <3>1. /\ opps[h.opp].val \in Vals /\ h.val \in Vals
          /\ opps[h.opp].by \in {"none", "liste", "unitaire"}
      BY <1>0 DEF Hooks, TablesOK, Rows
    <3>2. QED
      BY <3>1 DEF Merged, Rows
  <2>4. TablesOK'
    <3>1. CASE opps' = [opps EXCEPT ![h.opp] = Merged(opps[h.opp], h)]
               /\ cmds' = (IF h.order THEN cmds \cup {FpOf[h.opp]} ELSE cmds)
      <4>1. cmds' \subseteq Fps
        BY <3>1 DEF TablesOK, HandInv, Fits
      <4>2. QED
        BY <1>8, <3>1, <4>1, <2>3 DEF Write, TablesOK
    <3>2. CASE UNCHANGED <<cmds, opps>>
      BY <1>8, <3>2 DEF Write, TablesOK
    <3>3. QED
      BY <1>8, <3>1, <3>2 DEF Write
  <2>5. QED
    BY <1>8, <2>2, <2>4, UntouchedTypes DEF Write
<1>9. ASSUME HookFails(w) PROVE TypeOK'
  <2>1. [h EXCEPT !.statut = "erreur"] \in Hooks
    BY <1>0 DEF Hooks, Statuts
  <2>2. HooksOK'
    BY <1>9, <2>1, GoHookTypes DEF HookFails, HooksOK, HookStages
  <2>3. FaultsOK'
    BY <1>9, ConstantsAssumption DEF HookFails, FaultsOK
  <2>4. QED
    BY <1>9, <2>2, <2>3, UntouchedTypes DEF HookFails
<1>10. ASSUME Settle(w) PROVE TypeOK'
  <2>1. TablesOK'
    BY <1>10, <1>0 DEF Settle, Settled, TablesOK
  <2>2. QED
    BY <1>10, <2>1, StopHookTypes, UntouchedTypes DEF Settle, HooksOK
<1>11. ASSUME Crash(w) PROVE TypeOK'
  <2>1. sent' \in [Opps -> 0..MaxDeliveries]
    <3>1. sent[h.opp] < MaxDeliveries => sent[h.opp] + 1 \in 0..MaxDeliveries
      BY <1>0, ConstantsAssumption DEF RemoteOK
    <3>2. QED
      BY <1>11, <3>1 DEF Crash, RemoteOK
  <2>2. RemoteOK'
    BY <1>11, <2>1 DEF Crash, RemoteOK
  <2>3. SyncsOK' /\ HooksOK'
    BY <1>11, StopSyncTypes, StopHookTypes DEF Crash, SyncsOK, HooksOK
  <2>4. FaultsOK'
    BY <1>11, ConstantsAssumption DEF Crash, FaultsOK
  <2>5. QED
    BY <1>11, <2>2, <2>3, <2>4, UntouchedTypes DEF Crash
<1>12. QED
  BY <1>1, <1>2, <1>3, <1>4, <1>5, <1>6, <1>7, <1>8, <1>9, <1>10, <1>11
  DEF HookStep

\* Moving to a stage with local variables that fit it keeps HandInv.
LEMMA GoHookFits ==
  ASSUME TypeOK, HandInv, NEW w \in Workers, NEW to, NEW l, GoHook(w, to, l),
         Fits(to, l)
  PROVE  HandInv'
<1> SUFFICES ASSUME NEW v \in Workers PROVE Fits(hpc'[v], hook'[v])
  BY DEF HandInv, Fits
<1>1. CASE v = w
  BY <1>1 DEF TypeOK, GoHook
<1>2. CASE v # w
  <2>1. hpc'[v] = hpc[v] /\ hook'[v] = hook[v]
    BY <1>2 DEF TypeOK, GoHook
  <2>2. QED
    BY <2>1 DEF HandInv
<1>3. QED
  BY <1>1, <1>2

\* Every step keeps HandInv.
LEMMA HandStep ==
  ASSUME TypeOK, HandInv, [Next]_vars
  PROVE  HandInv'
<1>0. ASSUME UNCHANGED hookVars PROVE HandInv'
  BY <1>0 DEF hookVars, HandInv, Fits
<1>1. CASE Nt360 \/ WindowPasses
  BY <1>0, <1>1 DEF Nt360, Change, Publish, WindowPasses
<1>2. ASSUME NEW w \in Workers,
             SyncStep(w) \/ SyncFails(w) \/ \E o \in Opps : UnitReadFails(w, o)
      PROVE  HandInv'
  BY <1>0, <1>2 DEF SyncStep, SyncStart, SaveOrders, ListStage, Decide, UnitRead,
     KeepOld, Replace, SyncFails, UnitReadFails
<1>3. ASSUME NEW w \in Workers,
             \/ HookStep(w) \/ HookFails(w) \/ Crash(w)
             \/ \E o \in Opps : Receive(w, o)
      PROVE  HandInv'
  <2> DEFINE h == hook[w]
  <2>0. h \in Hooks /\ Fits(hpc[w], h)
    BY DEF TypeOK, HandInv
  <2>1. ASSUME StopHook(w) PROVE HandInv'
    <3>1. Fits("idle", Idle)
      BY DEF Fits, Idle, NoHook
    <3>2. QED
      BY <2>1, <3>1, GoHookFits DEF StopHook
  <2>2. ASSUME NEW o \in Opps, Receive(w, o) PROVE HandInv'
    <3>1. Fits("log", [NoHook(o) EXCEPT !.saw = events[o]])
      BY DEF Fits, NoHook
    <3>2. QED
      BY <2>2, <3>1, GoHookFits DEF Receive
  <2>3. ASSUME Log(w) PROVE HandInv'
    <3>1. Fits("fetch", NoHook(h.opp))
      BY DEF Fits, NoHook
    <3>2. QED
      BY <2>3, <3>1, GoHookFits DEF Log
  <2>4. ASSUME Fetch(w) PROVE HandInv'
    <3>1. /\ Fits("settle", [h EXCEPT !.statut = "traite"])
          /\ Fits("merge", [h EXCEPT !.val = remote[h.opp]])
      BY <2>0 DEF Fits, Hooks
    <3>2. QED
      BY <2>4, <3>1, GoHookFits DEF Fetch
  <2>5. ASSUME Merge(w) PROVE HandInv'
    <3>1. \A to \in {"write", "order"} :
            Fits(to, [h EXCEPT !.old = opps[h.opp]])
      BY <2>0 DEF Fits, Hooks
    <3>2. QED
      BY <2>5, <3>1, GoHookFits DEF Merge
  <2>6. ASSUME ReadOrder(w) PROVE HandInv'
    <3> DEFINE found == FpOf[h.opp] \in published
    <3>1. found => FpOf[h.opp] \in Fps
      BY DEF TypeOK
    <3> HIDE DEF found
    <3>2. Fits("write", [h EXCEPT !.order = found])
      BY <2>0, <3>1 DEF Fits, Hooks
    <3>3. QED
      BY <2>6, <3>2, GoHookFits DEF ReadOrder, found
  <2>7. ASSUME Write(w) \/ HookFails(w) PROVE HandInv'
    <3>1. \A s \in {"traite", "erreur"} :
            Fits("settle", [h EXCEPT !.statut = s])
      BY <2>0 DEF Fits, Hooks
    <3>2. QED
      BY <2>7, <3>1, GoHookFits DEF Write, HookFails
  <2>8. QED
    BY <1>3, <2>1, <2>2, <2>3, <2>4, <2>5, <2>6, <2>7
    DEF HookStep, Duplicate, LogConflict, Settle, Crash
<1>4. CASE UNCHANGED vars
  BY <1>0, <1>4 DEF vars, hookVars
<1>5. QED
  BY <1>1, <1>2, <1>3, <1>4 DEF Next, Fault

\* TypeOK and HandInv together are inductive.
LEMMA TypeStep ==
  ASSUME TypeOK, HandInv, [Next]_vars
  PROVE  TypeOK'
<1>1. CASE Nt360 \/ WindowPasses
  BY <1>1, Nt360Types
<1>2. ASSUME NEW w \in Workers,
             \/ SyncStep(w) \/ HookStep(w) \/ Fault(w)
             \/ \E o \in Opps : Receive(w, o)
      PROVE  TypeOK'
  BY <1>2, SyncTypes, HookTypes DEF Fault
<1>3. CASE UNCHANGED vars
  BY <1>3 DEF vars, TypeOK
<1>4. QED
  BY <1>1, <1>2, <1>3 DEF Next

\* No webhook runs in the initial state.
LEMMA InitHand == Init => HandInv
BY DEF Init, HandInv, Fits, Idle, NoHook

\* Every variable of the mirror keeps its type: tables, local variables of the
\* coroutines and bounds.
THEOREM TypeCorrect == Spec => []TypeOK
<1>1. Init => TypeOK /\ HandInv
  BY InitTypes, InitHand
<1>2. TypeOK /\ HandInv /\ [Next]_vars => (TypeOK /\ HandInv)'
  BY TypeStep, HandStep
<1>3. QED
  BY <1>1, <1>2, PTL DEF Spec

\* A step of one webhook that leaves events and crashes alone and keeps what it
\* works on in hand, or had nothing in hand.
LEMMA KeptInHand ==
  ASSUME TypeOK, ReceivedIsInHand, NEW w \in Workers, NEW to, NEW l,
         GoHook(w, to, l), events' = events, crashes' = crashes,
         \/ hpc[w] \in {"idle", "log"}
         \/ to \notin {"idle", "log"} /\ l.opp = hook[w].opp
  PROVE  ReceivedIsInHand'
<1> SUFFICES ASSUME crashes' = 0, NEW o \in Opps, events'[o] = "recu"
             PROVE  \E v \in Workers : /\ hook'[v].opp = o
                                       /\ hpc'[v] \notin {"idle", "log"}
  BY DEF ReceivedIsInHand
<1>1. PICK v \in Workers : hook[v].opp = o /\ hpc[v] \notin {"idle", "log"}
  BY DEF ReceivedIsInHand
<1>2. CASE v = w
  BY <1>1, <1>2 DEF TypeOK, GoHook
<1>3. CASE v # w
  BY <1>1, <1>3 DEF TypeOK, GoHook
<1>4. QED
  BY <1>2, <1>3

\* Every step keeps ReceivedIsInHand: Log takes an event in hand, Settle lets
\* it go with another statut, and a crash ends the promise.
LEMMA HandKept ==
  ASSUME TypeOK, HandInv, ReceivedIsInHand, [Next]_vars
  PROVE  ReceivedIsInHand'
<1>0. ASSUME UNCHANGED hookVars, events' = events, crashes' = crashes
      PROVE  ReceivedIsInHand'
  BY <1>0 DEF hookVars, ReceivedIsInHand
<1>1. CASE Nt360 \/ WindowPasses
  BY <1>0, <1>1 DEF Nt360, Change, Publish, WindowPasses, tables, faultVars
<1>2. ASSUME NEW w \in Workers,
             SyncStep(w) \/ SyncFails(w) \/ \E o \in Opps : UnitReadFails(w, o)
      PROVE  ReceivedIsInHand'
  BY <1>0, <1>2 DEF SyncStep, SyncStart, SaveOrders, ListStage, Decide, UnitRead,
     KeepOld, Replace, SyncFails, UnitReadFails, tables, faultVars
<1>3. ASSUME NEW w \in Workers,
             \/ HookStep(w) \/ HookFails(w) \/ Crash(w)
             \/ \E o \in Opps : Receive(w, o)
      PROVE  ReceivedIsInHand'
  <2> DEFINE h == hook[w]
  <2>0. h \in Hooks /\ h.opp \in Opps
    BY DEF TypeOK, Hooks
  <2>1. ASSUME NEW o \in Opps, Receive(w, o) PROVE ReceivedIsInHand'
    BY <2>1, KeptInHand DEF Receive, tables, faultVars
  <2>2. ASSUME Log(w) PROVE ReceivedIsInHand'
    <3> SUFFICES ASSUME crashes' = 0, NEW o \in Opps, events'[o] = "recu"
                 PROVE  \E v \in Workers : /\ hook'[v].opp = o
                                           /\ hpc'[v] \notin {"idle", "log"}
      BY DEF ReceivedIsInHand
    <3>1. CASE o = h.opp
      <4>1. hook'[w] = NoHook(o) /\ hpc'[w] = "fetch"
        BY <2>2, <3>1 DEF Log, GoHook, TypeOK
      <4>2. QED
        BY <4>1 DEF NoHook
    <3>2. CASE o # h.opp
      <4>1. events[o] = "recu" /\ crashes = 0
        BY <2>2, <3>2 DEF Log, TypeOK, faultVars
      <4>2. PICK v \in Workers : hook[v].opp = o /\ hpc[v] \notin {"idle", "log"}
        BY <4>1 DEF ReceivedIsInHand
      <4>3. hook'[v] = hook[v] /\ hpc'[v] = hpc[v]
        BY <2>2, <3>2, <4>2 DEF Log, GoHook, TypeOK
      <4>4. QED
        BY <4>2, <4>3
    <3>3. QED
      BY <3>1, <3>2
  <2>3. ASSUME Duplicate(w) \/ LogConflict(w) PROVE ReceivedIsInHand'
    BY <2>3, KeptInHand DEF Duplicate, LogConflict, StopHook, tables, faultVars
  <2>4. ASSUME Fetch(w) PROVE ReceivedIsInHand'
    <3>1. /\ [h EXCEPT !.statut = "traite"].opp = h.opp
          /\ [h EXCEPT !.val = remote[h.opp]].opp = h.opp
      BY <2>0 DEF Hooks
    <3>2. QED
      BY <2>4, <3>1, KeptInHand DEF Fetch, tables, faultVars
  <2>5. ASSUME Merge(w) PROVE ReceivedIsInHand'
    <3>1. [h EXCEPT !.old = opps[h.opp]].opp = h.opp
      BY <2>0 DEF Hooks
    <3>2. QED
      BY <2>5, <3>1, KeptInHand DEF Merge, tables, faultVars
  <2>6. ASSUME ReadOrder(w) PROVE ReceivedIsInHand'
    <3>1. [h EXCEPT !.order = FpOf[h.opp] \in published].opp = h.opp
      BY <2>0 DEF Hooks
    <3>2. QED
      BY <2>6, <3>1, KeptInHand DEF ReadOrder, tables, faultVars
  <2>7. ASSUME Write(w) \/ HookFails(w) PROVE ReceivedIsInHand'
    <3>1. \A s \in {"traite", "erreur"} : [h EXCEPT !.statut = s].opp = h.opp
      BY <2>0 DEF Hooks
    <3>2. QED
      BY <2>7, <3>1, KeptInHand DEF Write, HookFails, tables, faultVars
  <2>8. ASSUME Settle(w) PROVE ReceivedIsInHand'
    <3> SUFFICES ASSUME crashes' = 0, NEW o \in Opps, events'[o] = "recu"
                 PROVE  \E v \in Workers : /\ hook'[v].opp = o
                                           /\ hpc'[v] \notin {"idle", "log"}
      BY DEF ReceivedIsInHand
    <3>1. h.statut \in {"traite", "erreur"}
      BY <2>8 DEF Settle, HandInv, Fits
    <3>2. o # h.opp
      BY <2>0, <2>8, <3>1 DEF Settle, Settled, TypeOK
    <3>3. events[o] = "recu" /\ crashes = 0
      BY <2>8, <3>2 DEF Settle, TypeOK, faultVars
    <3>4. PICK v \in Workers : hook[v].opp = o /\ hpc[v] \notin {"idle", "log"}
      BY <3>3 DEF ReceivedIsInHand
    <3>5. hook'[v] = hook[v] /\ hpc'[v] = hpc[v]
      BY <2>8, <3>2, <3>4 DEF Settle, StopHook, GoHook, TypeOK
    <3>6. QED
      BY <3>4, <3>5
  <2>9. ASSUME Crash(w) PROVE ReceivedIsInHand'
    <3>1. crashes' # 0
      BY <2>9, ConstantsAssumption DEF Crash, TypeOK
    <3>2. QED
      BY <3>1 DEF ReceivedIsInHand
  <2>10. QED
    BY <1>3, <2>1, <2>2, <2>3, <2>4, <2>5, <2>6, <2>7, <2>8, <2>9 DEF HookStep
<1>4. CASE UNCHANGED vars
  BY <1>0, <1>4 DEF vars, hookVars
<1>5. QED
  BY <1>1, <1>2, <1>3, <1>4 DEF Next, Fault

\* As long as no worker died, an event in statut recu is being processed, so a
\* copy answered as a duplicate is one of an event handled or in hand.
THEOREM DuplicatesAreInHand == Spec => []ReceivedIsInHand
<1>1. Init => TypeOK /\ HandInv /\ ReceivedIsInHand
  BY InitTypes, InitHand DEF Init, ReceivedIsInHand
<1>2. TypeOK /\ HandInv /\ ReceivedIsInHand /\ [Next]_vars
        => (TypeOK /\ HandInv /\ ReceivedIsInHand)'
  BY TypeStep, HandStep, HandKept
<1>3. QED
  BY <1>1, <1>2, PTL DEF Spec

-----------------------------------------------------------------------------
(* What a recovery puts in the table, and what it must not lose.           *)

Reading == {"read", "keep", "replace"}

\* A unit read is only made for an id that no listed opportunity stands for.
Rebuilt(l, o) ==
  l.recover /\ \A x \in Opps : l.seen[x] # Absent => FpOf[x] # FpOf[o]

SyncFits(to, l) ==
  \A o \in Opps : o \in l.todo \cup l.failed \/ l.unit[o] # Absent
                    => to \in Reading /\ Rebuilt(l, o)

\* The rows held since the recovery began have been carried over.
Carries(to, l, held) == to = "replace" => \A o \in l.failed \cap held : l.unit[o] # Absent

HookFits(to, h) == to \in {"merge", "order", "write"} => h.val # Absent

\* A row that exists has a value: without it a failed read could carry over
\* nothing, and a webhook must not write an absent opportunity.
RealRows == \A o \in Opps : opps[o] = NoRow \/ opps[o].val # Absent

SyncInv(w) ==
  /\ SyncFits(spc[w], sync[w])
  /\ known[w] \subseteq UnitRows
  /\ Carries(spc[w], sync[w], known[w])

RecoveryInv == RealRows /\ \A w \in Workers : SyncInv(w) /\ HookFits(hpc[w], hook[w])

\* A sync that does not move keeps its part when the rows it holds are kept.
LEMMA SyncStays ==
  ASSUME NEW w \in Workers, SyncInv(w), spc'[w] = spc[w], sync'[w] = sync[w],
         known'[w] \subseteq known[w], known'[w] \subseteq UnitRows'
  PROVE  SyncInv(w)'
BY DEF SyncInv, SyncFits, Rebuilt, Carries

LEMMA HookStays ==
  ASSUME RecoveryInv, UNCHANGED hookVars
  PROVE  \A w \in Workers : HookFits(hpc[w], hook[w])'
BY DEF RecoveryInv, hookVars, HookFits

\* A sync that does not touch the tables nor what the others hold.
LEMMA SyncMoves ==
  ASSUME TypeOK, RecoveryInv, NEW w \in Workers, NEW to, NEW l, GoSync(w, to, l),
         opps' = opps, UNCHANGED hookVars,
         known' = known \/ known' = [known EXCEPT ![w] = {}]
                        \/ known' = [known EXCEPT ![w] = UnitRows],
         SyncFits(to, l), Carries(to, l, known'[w])
  PROVE  RecoveryInv'
<1>1. RealRows' /\ UnitRows' = UnitRows
  BY DEF RecoveryInv, RealRows, UnitRows
<1>2. ASSUME NEW v \in Workers PROVE SyncInv(v)'
  <2>1. CASE v = w
    <3>1. spc'[w] = to /\ sync'[w] = l
      BY DEF GoSync, TypeOK
    <3>2. known'[w] \subseteq UnitRows
      BY DEF RecoveryInv, SyncInv, TypeOK
    <3>3. SyncFits(spc'[w], sync'[w]) /\ Carries(spc'[w], sync'[w], known'[w])
      BY <3>1
    <3>4. QED
      BY <2>1, <1>1, <3>2, <3>3 DEF SyncInv, SyncFits, Rebuilt, Carries
  <2>2. CASE v # w
    <3>1. spc'[v] = spc[v] /\ sync'[v] = sync[v] /\ known'[v] = known[v]
      BY <2>2 DEF GoSync, TypeOK
    <3>2. SyncInv(v)
      BY DEF RecoveryInv
    <3>3. known[v] \subseteq UnitRows
      BY <3>2 DEF SyncInv
    <3>4. QED
      BY <3>1, <3>2, <3>3, <1>1, SyncStays
  <2>3. QED
    BY <2>1, <2>2
<1>3. QED
  BY <1>1, <1>2, HookStays DEF RecoveryInv

\* A pass that ends holds nothing.
LEMMA NoSyncFits ==
  \A to, p : SyncFits(to, [NoSync EXCEPT !.orders = p]) /\ SyncFits(to, NoSync)
BY DEF SyncFits, NoSync

LEMMA StopRecovers ==
  ASSUME TypeOK, RecoveryInv, NEW w \in Workers, StopSync(w),
         opps' = opps, UNCHANGED hookVars
  PROVE  RecoveryInv'
<1>1. Carries("idle", NoSync, known'[w])
  BY DEF Carries
<1>2. QED
  BY <1>1, NoSyncFits, SyncMoves DEF StopSync

\* Where the unit reads lead, nothing has to be carried over yet: a sync only
\* skips "keep" when no read failed.
LEMMA OnwardsCarries ==
  ASSUME NEW l \in Syncs, NEW held
  PROVE  /\ Carries(Onwards(l), l, held)
         /\ l.todo \cup l.failed # {} => Onwards(l) \in Reading
         /\ Onwards(l) \in Reading
BY DEF Carries, Onwards, Reading

\* The rows a sync writes have a value, and unit-read rows come from unit
\* reads of rebuilt ids.
LEMMA ReplaceRows ==
  ASSUME TypeOK, RecoveryInv, NEW w \in Workers, Replace(w), NEW o \in Opps
  PROVE  /\ opps'[o] = NoRow \/ opps'[o].val # Absent
         /\ opps'[o].by = "liste" => sync[w].seen[o] # Absent
         /\ sync[w].recover /\ opps'[o].by = "unitaire" => Rebuilt(sync[w], o)
         /\ o \in sync[w].failed \cap known[w] => opps'[o] # NoRow
<1> DEFINE l == sync[w]
<1>1. /\ opps'[o] = NewRow(w, o) /\ spc[w] = "replace"
  BY DEF Replace
<1>2. SyncFits("replace", l) /\ Carries("replace", l, known[w])
  BY <1>1 DEF RecoveryInv, SyncInv
<1>3. \A v : ListRow(v).val = v /\ UnitRow(v).val = v /\ UnitRow(v).by = "unitaire"
             /\ ListRow(v).by = "liste"
  BY DEF ListRow, UnitRow
<1>4. NoRow.by = "none" /\ \A v : UnitRow(v) # NoRow
  BY <1>3 DEF NoRow
<1>5. CASE o \in InList(w)
  <2>1. NewRow(w, o) = ListRow(l.seen[o]) /\ l.seen[o] # Absent
    BY <1>5 DEF NewRow, InList
  <2>2. o \notin l.failed
    BY <2>1, <1>2 DEF SyncFits, Rebuilt
  <2>3. QED
    BY <1>1, <1>3, <2>1, <2>2
<1>6. CASE o \notin InList(w) /\ l.recover
  <2>1. NewRow(w, o) = IF l.unit[o] = Absent THEN NoRow ELSE UnitRow(l.unit[o])
    BY <1>6 DEF NewRow
  <2>2. l.unit[o] # Absent => Rebuilt(l, o)
    BY <1>2 DEF SyncFits
  <2>3. o \in l.failed \cap known[w] => l.unit[o] # Absent
    BY <1>2 DEF Carries
  <2>4. QED
    BY <1>1, <1>3, <1>4, <2>1, <2>2, <2>3
<1>7. CASE o \notin InList(w) /\ ~ l.recover
  <2>1. NewRow(w, o) = IF opps[o].by = "unitaire" THEN opps[o] ELSE NoRow
    BY <1>7 DEF NewRow
  <2>2. opps[o] = NoRow \/ opps[o].val # Absent
    BY DEF RecoveryInv, RealRows
  <2>3. o \notin l.failed
    BY <1>2, <1>7 DEF SyncFits, Rebuilt
  <2>4. QED
    BY <1>1, <1>4, <1>7, <2>1, <2>2, <2>3
<1>8. QED
  BY <1>5, <1>6, <1>7

\* Every step of a sync, and its failures, keep the invariant.
LEMMA SyncRecovers ==
  ASSUME TypeOK, RecoveryInv, NEW w \in Workers,
         SyncStep(w) \/ SyncFails(w) \/ \E o \in Opps : UnitReadFails(w, o)
  PROVE  RecoveryInv'
<1> DEFINE l == sync[w]
<1>0. /\ l \in Syncs /\ SyncFits(spc[w], l) /\ known[w] \subseteq UnitRows
      /\ Carries(spc[w], l, known[w])
  BY DEF TypeOK, RecoveryInv, SyncInv
<1>1. CASE SyncStart(w)
  <2>1. Carries("save", [NoSync EXCEPT !.orders = published], known'[w])
    BY DEF Carries
  <2>2. QED
    BY <1>1, <2>1, NoSyncFits, SyncMoves DEF SyncStart, tables
<1>2. CASE SaveOrders(w)
  <2>1. CASE StopSync(w)
    BY <1>2, <2>1, StopRecovers DEF SaveOrders
  <2>2. CASE ~ StopSync(w)
    <3> DEFINE m == [l EXCEPT !.orders = {}]
    <3>1. m.todo = l.todo /\ m.failed = l.failed /\ m.unit = l.unit
      BY <1>0 DEF Syncs
    <3>2. spc[w] \notin Reading /\ GoSync(w, "list", m) /\ known' = known
          /\ opps' = opps /\ UNCHANGED hookVars
      BY <1>2, <2>2 DEF SaveOrders, Reading
    <3> HIDE DEF m
    <3>3. SyncFits("list", m)
      BY <3>1, <3>2, <1>0 DEF SyncFits
    <3>4. Carries("list", m, known'[w])
      BY DEF Carries
    <3>5. QED
      BY <3>2, <3>3, <3>4, SyncMoves
  <2>3. QED
    BY <2>1, <2>2
<1>3. CASE ListStage(w)
  <2> DEFINE seen == WithStage(w, l.next)
             cut  == l.cut \/ ~Complete(l.next)
             m1 == [l EXCEPT !.next = l.next + 1, !.cut = cut, !.seen = seen]
             m2 == [l EXCEPT !.next = 1, !.cut = cut, !.seen = seen]
  <2>1. spc[w] \notin Reading /\ opps' = opps /\ UNCHANGED hookVars
    BY <1>3 DEF ListStage, Reading, tables
  <2>2. /\ m1.todo = l.todo /\ m1.failed = l.failed /\ m1.unit = l.unit
        /\ m2.todo = l.todo /\ m2.failed = l.failed /\ m2.unit = l.unit
    BY <1>0 DEF Syncs
  <2>3. CASE StopSync(w)
    BY <2>1, <2>3, StopRecovers
  <2>4. CASE ~ StopSync(w)
    <3>1. \/ GoSync(w, "list", m1) /\ known' = known
          \/ GoSync(w, "decide", m2) /\ known' = known
      BY <1>3, <2>4 DEF ListStage
    <3> HIDE DEF m1, m2
    <3>2. SyncFits("list", m1) /\ SyncFits("decide", m2)
      BY <2>1, <2>2, <1>0 DEF SyncFits
    <3>3. Carries("list", m1, known'[w]) /\ Carries("decide", m2, known'[w])
      BY DEF Carries
    <3>4. QED
      BY <2>1, <3>1, <3>2, <3>3, SyncMoves
  <2>5. QED
    BY <2>3, <2>4
<1>4. CASE Decide(w)
  <2> DEFINE recover == l.cut /\ Due
             m == [l EXCEPT !.recover = recover,
                            !.todo = IF recover THEN Candidates(w) ELSE {}]
  <2>1. /\ m.recover = recover /\ m.todo = (IF recover THEN Candidates(w) ELSE {})
        /\ m.failed = l.failed /\ m.unit = l.unit /\ m.seen = l.seen
    BY <1>0 DEF Syncs
  <2>2. m \in Syncs
    <3>1. Candidates(w) \subseteq Opps /\ recover \in BOOLEAN
      BY SyncValues
    <3>2. QED
      BY <3>1, <1>0 DEF Syncs
  <2>3. GoSync(w, Onwards(m), m) /\ opps' = opps /\ UNCHANGED hookVars
        /\ spc[w] = "decide"
    BY <1>4 DEF Decide, GoOn, tables
  <2>4. known' = [known EXCEPT ![w] = {}] \/ known' = [known EXCEPT ![w] = UnitRows]
    BY <1>4 DEF Decide
  <2>5. ASSUME recover, NEW o \in Candidates(w), NEW x \in Opps, l.seen[x] # Absent
        PROVE  FpOf[x] # FpOf[o]
    <3>1. PICK f \in cmds : o = SaisieOf[f] /\ \A y \in InList(w) : FpOf[y] # f
      BY <2>5 DEF Candidates
    <3>2. FpOf[o] = f
      BY <3>1, ConstantsAssumption DEF TypeOK
    <3>3. x \in InList(w)
      BY <2>5 DEF InList
    <3>4. QED
      BY <3>1, <3>2, <3>3
  <2> HIDE DEF recover, m
  <2>6. SyncFits(Onwards(m), m)
    <3> SUFFICES ASSUME NEW o \in Opps, o \in m.todo \cup m.failed \/ m.unit[o] # Absent
                 PROVE  Onwards(m) \in Reading /\ Rebuilt(m, o)
      BY DEF SyncFits
    <3>1. o \notin l.failed /\ l.unit[o] = Absent
      BY <2>3, <1>0 DEF SyncFits, Reading
    <3>2. recover /\ o \in Candidates(w)
      BY <3>1, <2>1
    <3>3. QED
      BY <3>2, <2>1, <2>2, <2>5, OnwardsCarries DEF Rebuilt
  <2>7. QED
    BY <2>2, <2>3, <2>4, <2>6, OnwardsCarries, SyncMoves
<1>5. ASSUME NEW o \in Opps, UnitRead(w, o) PROVE RecoveryInv'
  <2> DEFINE m == [l EXCEPT !.todo = @ \ {o}, !.unit = [@ EXCEPT ![o] = remote[o]]]
  <2>1. m.todo = l.todo \ {o} /\ m.failed = l.failed /\ m.seen = l.seen
        /\ m.recover = l.recover /\ \A x \in Opps : x # o => m.unit[x] = l.unit[x]
    BY <1>0 DEF Syncs
  <2>2. m \in Syncs
    <3>1. [l.unit EXCEPT ![o] = remote[o]] \in [Opps -> Vals]
      BY <1>0 DEF Syncs, TypeOK
    <3>2. QED
      BY <3>1, <1>0 DEF Syncs
  <2>3. GoSync(w, Onwards(m), m) /\ opps' = opps /\ UNCHANGED hookVars /\ known' = known
        /\ o \in l.todo
    BY <1>5 DEF UnitRead, GoOn, tables
  <2> HIDE DEF m
  <2>4. SyncFits(Onwards(m), m)
    <3>1. ASSUME NEW x \in Opps, x \in m.todo \cup m.failed \/ m.unit[x] # Absent
          PROVE  Rebuilt(m, x)
      <4>1. x \in l.todo \cup l.failed \/ l.unit[x] # Absent
        BY <3>1, <2>1, <2>3
      <4>2. Rebuilt(l, x)
        BY <4>1, <1>0 DEF SyncFits
      <4>3. QED
        BY <4>2, <2>1 DEF Rebuilt
    <3>2. QED
      BY <3>1, <2>2, OnwardsCarries DEF SyncFits
  <2>5. QED
    BY <2>2, <2>3, <2>4, OnwardsCarries, SyncMoves
<1>6. ASSUME NEW o \in Opps, UnitReadFails(w, o) PROVE RecoveryInv'
  <2> DEFINE m == [l EXCEPT !.todo = @ \ {o}, !.failed = @ \cup {o}]
  <2>1. m.todo = l.todo \ {o} /\ m.failed = l.failed \cup {o} /\ m.seen = l.seen
        /\ m.recover = l.recover /\ m.unit = l.unit
    BY <1>0 DEF Syncs
  <2>2. m \in Syncs
    <3>1. l.todo \ {o} \in SUBSET Opps /\ l.failed \cup {o} \in SUBSET Opps
      BY <1>0 DEF Syncs
    <3>2. QED
      BY <3>1, <1>0 DEF Syncs
  <2>3. GoSync(w, Onwards(m), m) /\ opps' = opps /\ UNCHANGED hookVars /\ known' = known
        /\ o \in l.todo
    BY <1>6 DEF UnitReadFails, GoOn, tables
  <2> HIDE DEF m
  <2>4. SyncFits(Onwards(m), m)
    <3>1. ASSUME NEW x \in Opps, x \in m.todo \cup m.failed \/ m.unit[x] # Absent
          PROVE  Rebuilt(m, x)
      <4>1. x \in l.todo \cup l.failed \/ l.unit[x] # Absent
        BY <3>1, <2>1, <2>3
      <4>2. Rebuilt(l, x)
        BY <4>1, <1>0 DEF SyncFits
      <4>3. QED
        BY <4>2, <2>1 DEF Rebuilt
    <3>2. QED
      BY <3>1, <2>2, OnwardsCarries DEF SyncFits
  <2>5. QED
    BY <2>2, <2>3, <2>4, OnwardsCarries, SyncMoves
<1>7. CASE KeepOld(w)
  <2> DEFINE m == [l EXCEPT !.unit = Carried(w)]
  <2>1. m.todo = l.todo /\ m.failed = l.failed /\ m.seen = l.seen
        /\ m.recover = l.recover /\ m.unit = Carried(w)
    BY <1>0 DEF Syncs
  <2>2. GoSync(w, "replace", m) /\ opps' = opps /\ UNCHANGED hookVars /\ known' = known
    BY <1>7 DEF KeepOld, tables
  <2> HIDE DEF m
  <2>3. SyncFits("replace", m)
    <3>1. ASSUME NEW x \in Opps, x \in m.todo \cup m.failed \/ m.unit[x] # Absent
          PROVE  Rebuilt(m, x)
      <4>1. x \in l.todo \cup l.failed \/ l.unit[x] # Absent
        BY <3>1, <2>1 DEF Carried
      <4>2. Rebuilt(l, x)
        BY <4>1, <1>0 DEF SyncFits
      <4>3. QED
        BY <4>2, <2>1 DEF Rebuilt
    <3>2. QED
      BY <3>1 DEF SyncFits, Reading
  <2>4. Carries("replace", m, known'[w])
    <3>1. ASSUME NEW o \in l.failed \cap known[w] PROVE Carried(w)[o] # Absent
      <4>1. o \in Opps /\ opps[o].by = "unitaire" /\ o \in UnitRows
        BY <3>1, <1>0 DEF UnitRows
      <4>2. Carried(w)[o] = opps[o].val
        BY <3>1, <4>1 DEF Carried
      <4>3. opps[o] # NoRow
        BY <4>1 DEF NoRow
      <4>4. QED
        BY <4>1, <4>2, <4>3 DEF RecoveryInv, RealRows
    <3>2. QED
      BY <3>1, <2>1, <2>2 DEF Carries
  <2>5. QED
    BY <2>2, <2>3, <2>4, SyncMoves
<1>8. CASE Replace(w)
  <2>1. RealRows'
    BY <1>8, ReplaceRows DEF RealRows
  <2>2. ASSUME NEW v \in Workers PROVE SyncInv(v)'
    <3>1. CASE v = w
      <4>1. spc'[v] = "idle" /\ sync'[v] = NoSync /\ known'[v] = {}
        BY <1>8, <3>1 DEF Replace, GoSync, TypeOK
      <4>2. QED
        BY <4>1, NoSyncFits DEF SyncInv, Carries, SyncFits, Rebuilt
    <3>2. CASE v # w
      <4>1. spc'[v] = spc[v] /\ sync'[v] = sync[v]
        BY <1>8, <3>2 DEF Replace, GoSync, TypeOK
      <4>2. known'[v] = {o \in known[v] : opps'[o].by = "unitaire"}
        BY <1>8, <3>2 DEF Replace
      <4>3. known[v] \subseteq Opps
        BY DEF TypeOK
      <4>4. known'[v] \subseteq UnitRows' /\ known'[v] \subseteq known[v]
        BY <4>2, <4>3 DEF UnitRows
      <4>5. QED
        BY <4>1, <4>4, SyncStays DEF RecoveryInv
    <3>3. QED
      BY <3>1, <3>2
  <2>3. UNCHANGED hookVars
    BY <1>8 DEF Replace
  <2>4. QED
    BY <2>1, <2>2, <2>3, HookStays DEF RecoveryInv
<1>9. CASE SyncFails(w)
  BY <1>9, StopRecovers DEF SyncFails, tables
<1>10. QED
  BY <1>1, <1>2, <1>3, <1>4, <1>5, <1>6, <1>7, <1>8, <1>9 DEF SyncStep

\* A webhook that moves without touching the opportunities.
LEMMA HookMoves ==
  ASSUME TypeOK, RecoveryInv, NEW w \in Workers, NEW to, NEW h, GoHook(w, to, h),
         HookFits(to, h), opps' = opps, UNCHANGED syncVars
  PROVE  RecoveryInv'
<1>1. RealRows' /\ UnitRows' = UnitRows
  BY DEF RecoveryInv, RealRows, UnitRows
<1>2. ASSUME NEW v \in Workers PROVE SyncInv(v)'
  <2>1. spc'[v] = spc[v] /\ sync'[v] = sync[v] /\ known'[v] = known[v] /\ SyncInv(v)
    BY DEF syncVars, RecoveryInv
  <2>2. known[v] \subseteq UnitRows
    BY <2>1 DEF SyncInv
  <2>3. QED
    BY <2>1, <2>2, <1>1, SyncStays
<1>3. ASSUME NEW v \in Workers PROVE HookFits(hpc[v], hook[v])'
  BY DEF GoHook, TypeOK, RecoveryInv, HookFits
<1>4. QED
  BY <1>1, <1>2, <1>3 DEF RecoveryInv

\* A row a webhook writes has a value and stays unit-read if it was.
LEMMA WriteRecovers ==
  ASSUME TypeOK, RecoveryInv, NEW w \in Workers, Write(w)
  PROVE  RecoveryInv'
<1> DEFINE h == hook[w]
           o == h.opp
<1>0. o \in Opps /\ h.val # Absent /\ h \in Hooks
  <2>1. hpc[w] = "write" /\ HookFits(hpc[w], h) /\ h \in Hooks
    BY DEF Write, RecoveryInv, TypeOK
  <2>2. QED
    BY <2>1 DEF HookFits, Hooks
<1>1. /\ UNCHANGED syncVars
      /\ \E s \in {"erreur", "traite"} : GoHook(w, "settle", [h EXCEPT !.statut = s])
  BY DEF Write
<1>2. \A s : HookFits("settle", [h EXCEPT !.statut = s])
  BY DEF HookFits
<1>3. CASE opps' = opps
  BY <1>1, <1>2, <1>3, HookMoves
<1>4. CASE opps' # opps
  <2> DEFINE cur == opps[o]
  <2>1. opps' = [opps EXCEPT ![o] = Merged(cur, h)] /\ (h.old = NoRow <=> cur = NoRow)
    BY <1>4 DEF Write
  <2>2. cur = NoRow \/ cur.val # Absent
    BY <1>0 DEF RecoveryInv, RealRows
  <2>3. Merged(cur, h).val # Absent
    <3>1. CASE h.val # h.old.val
      BY <3>1, <1>0 DEF Merged
    <3>2. CASE h.val = h.old.val
      <4>1. h.old # NoRow
        BY <3>2, <1>0 DEF NoRow
      <4>2. QED
        BY <4>1, <3>2, <2>1, <2>2 DEF Merged
    <3>3. QED
      BY <3>1, <3>2
  <2>4. cur.by = "unitaire" => Merged(cur, h).by = "unitaire"
    BY DEF Merged
  <2>5. RealRows'
    BY <2>1, <2>3, <1>0 DEF RecoveryInv, RealRows, TypeOK
  <2>6. UnitRows \subseteq UnitRows'
    BY <2>1, <2>4, <1>0 DEF UnitRows, TypeOK
  <2>7. ASSUME NEW v \in Workers PROVE SyncInv(v)'
    <3>1. spc'[v] = spc[v] /\ sync'[v] = sync[v] /\ known'[v] = known[v] /\ SyncInv(v)
      BY <1>1 DEF syncVars, RecoveryInv
    <3>2. known[v] \subseteq UnitRows
      BY <3>1 DEF SyncInv
    <3>3. QED
      BY <3>1, <3>2, <2>6, SyncStays
  <2>8. ASSUME NEW v \in Workers PROVE HookFits(hpc[v], hook[v])'
    BY <1>1 DEF GoHook, TypeOK, RecoveryInv, HookFits
  <2>9. QED
    BY <2>5, <2>7, <2>8 DEF RecoveryInv
<1>5. QED
  BY <1>3, <1>4

\* Every step of a webhook, its failure, a reception and a crash keep it.
LEMMA HookRecovers ==
  ASSUME TypeOK, RecoveryInv, NEW w \in Workers,
         HookStep(w) \/ HookFails(w) \/ Crash(w) \/ \E o \in Opps : Receive(w, o)
  PROVE  RecoveryInv'
<1> DEFINE h == hook[w]
<1>0. h \in Hooks /\ HookFits(hpc[w], h)
  BY DEF TypeOK, RecoveryInv
<1>1. \A l : HookFits("idle", l) /\ HookFits("log", l) /\ HookFits("fetch", l)
             /\ HookFits("settle", l)
  BY DEF HookFits
<1>2. ASSUME StopHook(w), opps' = opps, UNCHANGED syncVars PROVE RecoveryInv'
  BY <1>1, <1>2, HookMoves DEF StopHook
<1>3. ASSUME NEW o \in Opps, Receive(w, o) PROVE RecoveryInv'
  BY <1>1, <1>3, HookMoves DEF Receive, tables
<1>4. CASE Log(w)
  BY <1>1, <1>4, HookMoves DEF Log
<1>5. CASE Fetch(w)
  <2> DEFINE v == remote[h.opp]
             m == [h EXCEPT !.val = v]
  <2>1. m.val = v
    BY <1>0 DEF Hooks
  <2>2. opps' = opps /\ UNCHANGED syncVars
    BY <1>5 DEF Fetch, tables
  <2>3. CASE v = Absent
    BY <1>1, <1>5, <2>2, <2>3, HookMoves DEF Fetch
  <2>4. CASE v # Absent
    <3>1. GoHook(w, "merge", m)
      BY <1>5, <2>4 DEF Fetch
    <3> HIDE DEF m
    <3>2. HookFits("merge", m)
      BY <2>1, <2>4 DEF HookFits
    <3>3. QED
      BY <2>2, <3>1, <3>2, HookMoves
  <2>5. QED
    BY <2>3, <2>4
<1>6. CASE Merge(w)
  <2> DEFINE m == [h EXCEPT !.old = opps[h.opp]]
             to == IF FpOf[h.opp] = NoFp THEN "write" ELSE "order"
  <2>1. m.val = h.val
    BY <1>0 DEF Hooks
  <2>2. GoHook(w, to, m) /\ opps' = opps /\ UNCHANGED syncVars /\ hpc[w] = "merge"
    BY <1>6 DEF Merge, tables
  <2>3. to \in {"write", "order"}
    OBVIOUS
  <2> HIDE DEF m, to
  <2>4. HookFits(to, m)
    BY <1>0, <2>1, <2>2 DEF HookFits
  <2>5. QED
    BY <2>2, <2>4, HookMoves
<1>7. CASE ReadOrder(w)
  <2> DEFINE m == [h EXCEPT !.order = FpOf[h.opp] \in published]
  <2>1. m.val = h.val
    BY <1>0 DEF Hooks
  <2>2. GoHook(w, "write", m) /\ opps' = opps /\ UNCHANGED syncVars /\ hpc[w] = "order"
    BY <1>7 DEF ReadOrder, tables
  <2> HIDE DEF m
  <2>3. HookFits("write", m)
    BY <1>0, <2>1, <2>2 DEF HookFits
  <2>4. QED
    BY <2>2, <2>3, HookMoves
<1>8. CASE Write(w)
  BY <1>8, WriteRecovers
<1>9. CASE HookFails(w)
  BY <1>1, <1>9, HookMoves DEF HookFails, tables
<1>10. CASE Duplicate(w) \/ LogConflict(w) \/ Settle(w)
  BY <1>2, <1>10 DEF Duplicate, LogConflict, Settle, tables
<1>11. CASE Crash(w)
  <2>1. opps' = opps /\ StopSync(w) /\ StopHook(w)
    BY <1>11 DEF Crash, tables
  <2>2. RealRows' /\ UnitRows' = UnitRows
    BY <2>1 DEF RecoveryInv, RealRows, UnitRows
  <2>3. ASSUME NEW v \in Workers PROVE SyncInv(v)'
    <3>1. CASE v = w
      <4>1. spc'[v] = "idle" /\ sync'[v] = NoSync /\ known'[v] = {}
        BY <2>1, <3>1 DEF StopSync, GoSync, TypeOK
      <4>2. QED
        BY <4>1, NoSyncFits DEF SyncInv, Carries, SyncFits, Rebuilt
    <3>2. CASE v # w
      <4>1. spc'[v] = spc[v] /\ sync'[v] = sync[v] /\ known'[v] = known[v] /\ SyncInv(v)
        BY <2>1, <3>2 DEF StopSync, GoSync, TypeOK, RecoveryInv
      <4>2. known[v] \subseteq UnitRows
        BY <4>1 DEF SyncInv
      <4>3. QED
        BY <4>1, <4>2, <2>2, SyncStays
    <3>3. QED
      BY <3>1, <3>2
  <2>4. ASSUME NEW v \in Workers PROVE HookFits(hpc[v], hook[v])'
    BY <2>1 DEF StopHook, GoHook, TypeOK, RecoveryInv, HookFits
  <2>5. QED
    BY <2>2, <2>3, <2>4 DEF RecoveryInv
<1>12. QED
  BY <1>3, <1>4, <1>5, <1>6, <1>7, <1>8, <1>9, <1>10, <1>11 DEF HookStep

\* A step that changes neither the rows' kind and value nor the coroutines.
LEMMA OutsideRecovers ==
  ASSUME TypeOK, RecoveryInv, Nt360 \/ WindowPasses \/ UNCHANGED vars
  PROVE  RecoveryInv'
<1>1. UNCHANGED syncVars /\ UNCHANGED hookVars
  BY DEF Nt360, Change, Publish, WindowPasses, vars, syncVars, hookVars
<1>2. \A o \in Opps : opps'[o] = opps[o] \/ opps'[o] = [opps[o] EXCEPT !.recent = FALSE]
  BY DEF Nt360, Change, Publish, WindowPasses, vars, tables
<1>3. ASSUME NEW o \in Opps
      PROVE  /\ opps'[o].val = opps[o].val /\ opps'[o].by = opps[o].by
             /\ opps[o] = NoRow => opps'[o] = NoRow
  <2>1. opps[o] \in Rows
    BY DEF TypeOK
  <2>2. [opps[o] EXCEPT !.recent = FALSE].val = opps[o].val
        /\ [opps[o] EXCEPT !.recent = FALSE].by = opps[o].by
    BY <2>1 DEF Rows
  <2>3. [NoRow EXCEPT !.recent = FALSE] = NoRow
    <3>1. NoRow.recent = FALSE /\ NoRow \in Rows
      BY ConstantTypes DEF NoRow
    <3>2. \A r \in Rows : r.recent = FALSE => [r EXCEPT !.recent = FALSE] = r
      BY DEF Rows
    <3>3. QED
      BY <3>1, <3>2
  <2>4. QED
    BY <1>2, <2>2, <2>3
<1>4. RealRows'
  BY <1>3 DEF RecoveryInv, RealRows
<1>5. UnitRows' = UnitRows
  BY <1>3 DEF UnitRows
<1>6. ASSUME NEW v \in Workers PROVE SyncInv(v)'
  <2>1. spc'[v] = spc[v] /\ sync'[v] = sync[v] /\ known'[v] = known[v] /\ SyncInv(v)
    BY <1>1 DEF syncVars, RecoveryInv
  <2>2. known[v] \subseteq UnitRows
    BY <2>1 DEF SyncInv
  <2>3. QED
    BY <2>1, <2>2, <1>5, SyncStays
<1>7. QED
  BY <1>1, <1>4, <1>6, HookStays DEF RecoveryInv

LEMMA RecoveryStep ==
  ASSUME TypeOK, RecoveryInv, [Next]_vars
  PROVE  RecoveryInv'
BY SyncRecovers, HookRecovers, OutsideRecovers DEF Next, Fault

LEMMA InitRecovery == Init => RecoveryInv
<1> SUFFICES ASSUME Init PROVE RecoveryInv
  OBVIOUS
<1>1. RealRows
  BY DEF Init, RealRows
<1>2. ASSUME NEW w \in Workers PROVE SyncInv(w)
  BY NoSyncFits DEF Init, SyncInv, Carries
<1>3. ASSUME NEW w \in Workers PROVE HookFits(hpc[w], hook[w])
  BY DEF Init, HookFits
<1>4. QED
  BY <1>1, <1>2, <1>3 DEF RecoveryInv

LEMMA RecoveryHolds == Spec => [](TypeOK /\ RecoveryInv)
BY InitRecovery, RecoveryStep, TypeCorrect, PTL DEF Spec

\* Whatever orders are published and whatever the other worker and the webhooks
\* write meanwhile, a recovery never puts in the table a rebuilt opportunity
\* whose order a listed one already carries (nt360_sync_job.py).
THEOREM RecoveredOnce == Spec => RecoveryCountsOnce
<1>1. ASSUME TypeOK, RecoveryInv, NEW w \in Workers, Replace(w), sync[w].recover,
             NEW o \in Opps, NEW x \in Opps,
             opps'[o].by = "unitaire", opps'[x].by = "liste"
      PROVE  FpOf[o] = NoFp \/ FpOf[o] # FpOf[x]
  <2>1. Rebuilt(sync[w], o) /\ sync[w].seen[x] # Absent
    BY <1>1, ReplaceRows
  <2>2. QED
    BY <2>1 DEF Rebuilt
<1>2. TypeOK /\ RecoveryInv =>
        [\A w \in Workers : Replace(w) /\ sync[w].recover =>
           \A o, x \in Opps :
             opps'[o].by = "unitaire" /\ opps'[x].by = "liste"
               => FpOf[o] = NoFp \/ FpOf[o] # FpOf[x]]_vars
  BY <1>1
<1>3. QED
  BY <1>2, RecoveryHolds, PTL DEF RecoveryCountsOnce

\* A won opportunity whose unit read fails, and which the mirror has held as a
\* unit-read row since the recovery began, is still there after it.
THEOREM FailedReadsKeepWins == Spec => FailedReadKeepsWin
<1>1. TypeOK /\ RecoveryInv =>
        [\A w \in Workers : Replace(w) =>
           \A o \in sync[w].failed \cap known[w] : opps'[o] # NoRow]_vars
  <2> SUFFICES ASSUME TypeOK, RecoveryInv, NEW w \in Workers, Replace(w),
                      NEW o \in sync[w].failed \cap known[w]
               PROVE  opps'[o] # NoRow
    OBVIOUS
  <2>1. o \in Opps
    BY DEF TypeOK
  <2>2. QED
    BY <2>1, ReplaceRows
<1>2. QED
  BY <1>1, RecoveryHolds, PTL DEF FailedReadKeepsWin
=============================================================================
