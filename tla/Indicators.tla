----------------------------- MODULE Indicators -----------------------------
(***************************************************************************)
(* The history of the briefing's indicators (uc_briefing/indicateurs.py),  *)
(* the nightly photographs of the pipeline (pipeline_snapshot_job.py) and  *)
(* the passage of both from Odoo to nt360, done once by the sync           *)
(* (bascule.py, assurer_base_nt360).                                       *)
(*                                                                         *)
(* A value is reduced to the system it was computed from.  Two indicators  *)
(* stand for all: "flux", which can be computed again for any day, and     *)
(* "pipe", which is read from the photograph of its day.                   *)
(***************************************************************************)
EXTENDS Naturals

CONSTANTS
  Workers,
  Syncs,      \* coroutines of nt360's sync, of the night jobs and of
  Nights,     \* POST /briefing/indicateurs/reconstituer
  Admins,
  WorkerOf,   \* the process of each
  MaxDay,     \* bound on the days
  MaxRuns,    \* bound on the night jobs and requests
  MaxFails,   \* bound on the sections and steps that fail and on the crashes
  Apart       \* no measure or reconstitution runs while a sync does

Tasks == Syncs \cup Nights \cup Admins
Days  == 1..MaxDay

ASSUME ConstantsAssumption ==
  /\ WorkerOf \in [Tasks -> Workers] /\ Apart \in BOOLEAN
  /\ Syncs \cap (Nights \cup Admins) = {}
  /\ MaxDay \in Nat \ {0} /\ MaxRuns \in Nat /\ MaxFails \in Nat

VARIABLES
  day,
  orders,   \* what v_sale_orders, v_factures and the purchases all read
  opps,     \* what v_opportunities reads
  photos,   \* pipeline_snapshots: what each day shows
  flux,     \* indicator_snapshots: the system each day's value comes from
  pipe,
  measured, \* those whose origine is 'mesure'
  rebased,  \* indicateurs_base.json is there
  cut,      \* bascule_nt360.json: the first day of nt360's photographs, or 0
  known,    \* _CACHE_JOURS of each worker
  pc, job,  \* each coroutine
  runs, fails

tables == <<photos, flux, pipe, measured>>
marks  == <<rebased, cut>>
views  == <<orders, opps>>
vars   == <<day, orders, opps, photos, flux, pipe, measured, rebased, cut, known,
            pc, job, runs, fails>>

Systems == {"odoo", "nt360"}
Nothing == "nothing"
Values  == Systems \cup {Nothing}
Unread  == {0}           \* the cache is empty

\* at is the day a loop has reached, until the day the job began on, spared
\* what a reconstitution found measured, flux and pipe what was computed.
Jobs == [at : 1..(MaxDay + 1), until : Days, spared : SUBSET ({"flux", "pipe"} \X Days),
         flux : Values, pipe : Values, orders : BOOLEAN, opps : BOOLEAN]

Switching == {"orders", "opps", "rebase", "wipe", "replay", "replayed", "mark", "switch",
              "clear", "date"}
Measuring == {"begin", "spare", "rebuild", "rebuilt", "measure", "measured"}

\* Tables, markers, caches and coroutines keep their types, and nothing is
\* recorded for a day to come.
TypeOK ==
  /\ day \in Days /\ orders \in Systems /\ opps \in Systems
  /\ photos \in [Days -> Values] /\ flux \in [Days -> Values] /\ pipe \in [Days -> Values]
  /\ measured \subseteq {"flux", "pipe"} \X Days
  /\ rebased \in BOOLEAN /\ cut \in 0..MaxDay
  /\ known \in [Workers -> SUBSET (0..MaxDay)]
  /\ pc \in [Tasks -> {"idle"} \cup Switching \cup Measuring] /\ job \in [Tasks -> Jobs]
  /\ runs \in 0..MaxRuns /\ fails \in 0..MaxFails
  /\ \A d \in Days : d > day => photos[d] = Nothing /\ flux[d] = Nothing /\ pipe[d] = Nothing

Resting == [at |-> 1, until |-> 1, spared |-> {}, flux |-> Nothing, pipe |-> Nothing,
            orders |-> FALSE, opps |-> FALSE]

-----------------------------------------------------------------------------

Go(t, stage, local) ==
  /\ pc' = [pc EXCEPT ![t] = stage]
  /\ job' = [job EXCEPT ![t] = local]

End(t) == Go(t, "idle", Resting)

Forget(t) == known' = [known EXCEPT ![WorkerOf[t]] = Unread]

\* One value of one day: the others stay.
Put(table, d, value) == IF value = Nothing THEN table ELSE [table EXCEPT ![d] = value]

Written(t, d) == {<<k, d>> : k \in {i \in {"flux", "pipe"} :
                    (IF i = "flux" THEN job[t].flux ELSE job[t].pipe) # Nothing}}

\* enregistrer: what was computed for d replaces what was there.
Record(t, d) ==
  /\ flux' = Put(flux, d, job[t].flux)
  /\ pipe' = Put(pipe, d, job[t].pipe)

\* The same job with other values computed, and on its next day.
Holding(t, value, stock) ==
  [at |-> job[t].at, until |-> job[t].until, spared |-> job[t].spared,
   flux |-> value, pipe |-> stock, orders |-> job[t].orders, opps |-> job[t].opps]

NextDay(t) ==
  [at |-> job[t].at + 1, until |-> job[t].until, spared |-> job[t].spared,
   flux |-> Nothing, pipe |-> Nothing, orders |-> job[t].orders, opps |-> job[t].opps]

Within_OneMore(t) == job[t].at <= job[t].until + 1

\* A loop over days has not ended.
Within(t) == job[t].at <= job[t].until

Quiet(group, stages) == \A t \in group : pc[t] \notin stages

\* run_pipeline_snapshot: one transaction replaces the day's photograph.
Photograph == photos' = [photos EXCEPT ![day] = opps]

-----------------------------------------------------------------------------
(* The night jobs and the reconstitution.                                  *)

Photo(t) ==
  /\ t \in Nights /\ pc[t] = "idle"
  /\ Photograph
  /\ UNCHANGED <<day, views, flux, pipe, measured, marks, known, pc, job, fails, runs>>

\* run_indicator_snapshot, or the administrator's request
Begin(t) ==
  /\ t \in Nights \cup Admins /\ pc[t] = "idle"
  /\ runs < MaxRuns /\ runs' = runs + 1
  /\ Apart => Quiet(Syncs, Switching)
  /\ IF t \in Nights THEN Forget(t) ELSE UNCHANGED known
  /\ Go(t, IF t \in Nights THEN "begin" ELSE "spare", [Resting EXCEPT !.until = day])
  /\ UNCHANGED <<day, views, tables, marks, fails>>

\* The first night of all rebuilds the past before it measures.
FirstNight(t) ==
  /\ pc[t] = "begin"
  /\ Go(t, IF \A d \in Days : flux[d] = Nothing /\ pipe[d] = Nothing THEN "spare" ELSE "measure",
        job[t])
  /\ UNCHANGED <<day, views, tables, marks, known, fails, runs>>

Measured_Ignored(until) == {}

\* What a reconstitution leaves alone.
Measured(until) == {m \in measured : m[2] <= until}

Spare(t) ==
  /\ pc[t] = "spare"
  /\ Forget(t)
  /\ Go(t, "rebuild", [job[t] EXCEPT !.spared = Measured(job[t].until)])
  /\ UNCHANGED <<day, views, tables, marks, fails, runs>>

\* _jours_snapshotes: the days that have a comparable photograph
Photographed == {d \in Days : photos[d] # Nothing /\ d >= cut}

KnownTo(w) == IF known[w] = Unread THEN Photographed ELSE known[w]

\* calculer(historique=True) of what is not spared: a pipeline without a
\* photograph is no value, never a zero.
Rebuild(t) ==
  LET d == job[t].at  w == WorkerOf[t] IN
  /\ pc[t] = "rebuild" /\ Within(t)
  /\ IF <<"pipe", d>> \in job[t].spared THEN UNCHANGED known
     ELSE known' = [known EXCEPT ![w] = KnownTo(w)]
  /\ Go(t, "rebuilt", Holding(t,
       IF <<"flux", d>> \in job[t].spared THEN Nothing ELSE orders,
       IF <<"pipe", d>> \in job[t].spared \/ d \notin KnownTo(w) THEN Nothing ELSE photos[d]))
  /\ UNCHANGED <<day, views, tables, marks, fails, runs>>

Rebuilt(t) ==
  /\ pc[t] = "rebuilt"
  /\ Record(t, job[t].at)
  /\ measured' = measured \ Written(t, job[t].at)
  /\ Go(t, "rebuild", NextDay(t))
  /\ UNCHANGED <<day, views, photos, marks, known, fails, runs>>

\* The past is rebuilt: the night goes on, the request is answered.
Past(t) ==
  /\ pc[t] = "rebuild" /\ ~Within(t)
  /\ IF t \in Nights THEN Go(t, "measure", [Resting EXCEPT !.until = job[t].until]) ELSE End(t)
  /\ UNCHANGED <<day, views, tables, marks, known, fails, runs>>

\* capturer_jour: every indicator is computed, then all are written.
Measure(t) ==
  /\ pc[t] = "measure"
  /\ Go(t, "measured", Holding(t, orders, opps))
  /\ UNCHANGED <<day, views, tables, marks, known, fails, runs>>

Capture(t) ==
  /\ pc[t] = "measured"
  /\ Record(t, job[t].until)
  /\ measured' = measured \cup Written(t, job[t].until)
  /\ End(t)
  /\ UNCHANGED <<day, views, photos, marks, known, fails, runs>>

-----------------------------------------------------------------------------
(* The sync, from the moment its resources are read.                       *)

Sync(t) ==
  /\ t \in Syncs /\ pc[t] = "idle"
  /\ Apart => Quiet(Nights \cup Admins, Measuring)
  /\ Go(t, "orders", Resting)
  /\ UNCHANGED <<day, views, tables, marks, known, fails, runs>>

May == fails < MaxFails /\ fails' = fails + 1

\* Orders, invoices and purchases. Without the orders the opportunities are not
\* asked for; without the others nothing is rebased.
SyncOrders(t) ==
  /\ pc[t] = "orders"
  /\ \/ orders' = "nt360" /\ UNCHANGED fails /\ Go(t, "opps", [job[t] EXCEPT !.orders = TRUE])
     \/ May /\ UNCHANGED orders /\ (End(t) \/ Go(t, "opps", job[t]))
  /\ UNCHANGED <<day, opps, tables, marks, known, runs>>

SyncOpps(t) ==
  /\ pc[t] = "opps"
  /\ LET next == IF job[t].orders THEN "rebase" ELSE "switch" IN
     \/ opps' = "nt360" /\ UNCHANGED fails /\ Go(t, next, [job[t] EXCEPT !.opps = TRUE])
     \/ May /\ UNCHANGED opps /\ Go(t, next, job[t])
  /\ UNCHANGED <<day, orders, tables, marks, known, runs>>

History == \E d \in Days : flux[d] # Nothing

Rebasing_Skipped == IF History /\ ~rebased THEN "wipe" ELSE "switch"

\* assurer_base_nt360: once; without a history the marker is all there is to
\* write.
Rebasing == CASE rebased -> "switch" [] ~rebased /\ History -> "wipe" [] OTHER -> "mark"

Rebase(t) ==
  /\ pc[t] = "rebase"
  /\ Go(t, Rebasing, [job[t] EXCEPT !.until = day])
  /\ UNCHANGED <<day, views, tables, marks, known, fails, runs>>

\* rebaser: the history is deleted, then computed again day by day.
Wipe(t) ==
  /\ pc[t] = "wipe"
  /\ flux' = [d \in Days |-> Nothing]
  /\ measured' = {m \in measured : m[1] # "flux"}
  /\ Forget(t)
  /\ Go(t, "replay", job[t])
  /\ UNCHANGED <<day, views, photos, pipe, marks, fails, runs>>

Replay(t) ==
  /\ pc[t] = "replay"
  /\ IF Within(t)
     THEN Go(t, "replayed", Holding(t, orders, Nothing))
     ELSE Go(t, "mark", job[t])
  /\ UNCHANGED <<day, views, tables, marks, known, fails, runs>>

Replayed(t) ==
  /\ pc[t] = "replayed"
  /\ Record(t, job[t].at)
  /\ measured' = measured \ Written(t, job[t].at)
  /\ Go(t, "replay", NextDay(t))
  /\ UNCHANGED <<day, views, photos, marks, known, fails, runs>>

Mark(t) ==
  /\ pc[t] = "mark"
  /\ rebased' = TRUE
  /\ Go(t, "switch", job[t])
  /\ UNCHANGED <<day, views, tables, cut, known, fails, runs>>

\* An exception of the rebase is logged, and the sync goes on.
RebaseRaises(t) ==
  /\ pc[t] \in {"rebase", "wipe", "replay", "replayed", "mark"} /\ May
  /\ Go(t, "switch", [Resting EXCEPT !.opps = job[t].opps])
  /\ UNCHANGED <<day, views, tables, marks, known, runs>>

\* basculer_opportunites, if the opportunities were read and there is no date
\* yet: the day is photographed again, its values deleted, the date written.
Switch(t) ==
  /\ pc[t] = "switch"
  /\ IF cut = 0 /\ job[t].opps THEN Photograph /\ Go(t, "clear", Resting)
     ELSE End(t) /\ UNCHANGED photos
  /\ UNCHANGED <<day, views, flux, pipe, measured, marks, known, fails, runs>>

Cleared_Nothing(d) == pipe

Cleared(d) == [e \in Days |-> IF e >= d THEN Nothing ELSE pipe[e]]

Clear(t) ==
  /\ pc[t] = "clear"
  /\ pipe' = Cleared(day)
  /\ measured' = {m \in measured : ~(m[1] = "pipe" /\ m[2] >= day)}
  /\ Go(t, "date", [Resting EXCEPT !.until = day])
  /\ UNCHANGED <<day, views, photos, flux, marks, known, fails, runs>>

Date(t) ==
  /\ pc[t] = "date"
  /\ cut' = job[t].until
  /\ Forget(t)
  /\ End(t)
  /\ UNCHANGED <<day, views, tables, rebased, fails, runs>>

SwitchRaises(t) ==
  /\ pc[t] \in {"switch", "clear", "date"} /\ May
  /\ End(t)
  /\ UNCHANGED <<day, views, tables, marks, known, runs>>

-----------------------------------------------------------------------------

\* Midnight.  The night job is at 1:15 and a reconstitution takes a minute: they
\* end the day they begin, a sync may not.
Midnight ==
  /\ day < MaxDay /\ day' = day + 1
  /\ Quiet(Nights \cup Admins, Measuring)
  /\ UNCHANGED <<views, tables, marks, known, pc, job, fails, runs>>

\* A worker dies with its coroutines and its cache.
Crash(w) ==
  /\ May
  /\ pc' = [t \in Tasks |-> IF WorkerOf[t] = w THEN "idle" ELSE pc[t]]
  /\ job' = [t \in Tasks |-> IF WorkerOf[t] = w THEN Resting ELSE job[t]]
  /\ known' = [known EXCEPT ![w] = Unread]
  /\ UNCHANGED <<day, views, tables, marks, runs>>

Init ==
  /\ day = 1 /\ orders = "odoo" /\ opps = "odoo"
  /\ photos = [d \in Days |-> Nothing]
  /\ flux = [d \in Days |-> Nothing] /\ pipe = [d \in Days |-> Nothing]
  /\ measured = {} /\ rebased = FALSE /\ cut = 0
  /\ known = [w \in Workers |-> Unread]
  /\ pc = [t \in Tasks |-> "idle"] /\ job = [t \in Tasks |-> Resting]
  /\ runs = 0 /\ fails = 0

Step(t) ==
  \/ FirstNight(t) \/ Spare(t) \/ Rebuild(t) \/ Rebuilt(t) \/ Past(t) \/ Measure(t) \/ Capture(t)
  \/ SyncOrders(t) \/ SyncOpps(t) \/ Rebase(t) \/ Wipe(t) \/ Replay(t) \/ Replayed(t) \/ Mark(t)
  \/ Switch(t) \/ Clear(t) \/ Date(t)

Next ==
  \/ \E t \in Tasks : Photo(t) \/ Begin(t) \/ Sync(t) \/ Step(t) \/ RebaseRaises(t) \/ SwitchRaises(t)
  \/ Midnight
  \/ \E w \in Workers : Crash(w)

Spec == Init /\ [][Next]_vars

\* Coroutines are scheduled, and a sync is tried again every hour.
FairSpec ==
  /\ Spec
  /\ \A t \in Tasks : WF_vars(Step(t))
  /\ \A t \in Syncs : WF_vars(Sync(t))

-----------------------------------------------------------------------------
(* Properties.                                                             *)

\* Once the passage to nt360 is marked, no comparison crosses it: every flux
\* of the history comes from nt360, and so does every pipeline from the date
\* on, whatever failed or crashed between the steps and whichever worker took
\* them (indicateurs.py:460-464, bascule.py:14-16).
OneBase ==
  /\ rebased => \A d \in Days : flux[d] # "odoo"
  /\ cut # 0 => \A d \in Days : d >= cut => pipe[d] # "odoo" /\ photos[d] # "odoo"

\* A value measured on its day is never replaced later by a reconstitution;
\* only the rebase, which computes every flux again, takes it away
\* (reconstituer, indicateurs.py:411-414).
MeasuredKept ==
  [][\A m \in measured : m[2] < day /\ m \notin measured' =>
       m[1] = "flux" /\ \E t \in Syncs : pc[t] = "wipe"]_vars

\* The syncs end up marking both passages, whatever failed on the way.
EventuallyPassed == <>[](rebased /\ cut # 0)
=============================================================================
