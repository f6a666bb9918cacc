-------------------------- MODULE IndicatorsProofs --------------------------
(***************************************************************************)
(* Theorems about Indicators: its types, and that, when no measure or      *)
(* reconstitution runs while a sync does, no comparison crosses the passage*)
(* to nt360 and no measured value of a past day is replaced.               *)
(***************************************************************************)
EXTENDS Indicators, TLAPS

-----------------------------------------------------------------------------
(* Types.                                                                  *)

\* What a job began on is no day to come, and a value is only in hand for a day
\* of its window.
Timely(t) ==
  /\ job[t].until <= day
  /\ pc[t] \in {"rebuilt", "replayed"} => job[t].at <= job[t].until

TypeInv == TypeOK /\ \A t \in Tasks : Timely(t)

\* The frame of the actions that only move one coroutine.
LEMMA GoTyped ==
  ASSUME TypeInv, NEW t \in Tasks, NEW stage \in {"idle"} \cup Switching \cup Measuring,
         NEW local \in Jobs, Go(t, stage, local), UNCHANGED day,
         local.until <= day,
         stage \in {"rebuilt", "replayed"} => local.at <= local.until
  PROVE  /\ pc' \in [Tasks -> {"idle"} \cup Switching \cup Measuring] /\ job' \in [Tasks -> Jobs]
         /\ \A u \in Tasks : Timely(u)'
<1>1. pc \in [Tasks -> {"idle"} \cup Switching \cup Measuring] /\ job \in [Tasks -> Jobs]
  BY DEF TypeInv, TypeOK
<1>2. pc' = [pc EXCEPT ![t] = stage] /\ job' = [job EXCEPT ![t] = local]
  BY DEF Go
<1>3. pc' \in [Tasks -> {"idle"} \cup Switching \cup Measuring] /\ job' \in [Tasks -> Jobs]
  BY <1>1, <1>2
<1>4. ASSUME NEW u \in Tasks PROVE Timely(u)'
  <2>1. CASE u = t
    <3>1. pc'[u] = stage /\ job'[u] = local
      BY <1>1, <1>2, <2>1
    <3>2. QED
      BY <3>1 DEF Timely
  <2>2. CASE u # t
    <3>1. pc'[u] = pc[u] /\ job'[u] = job[u]
      BY <1>1, <1>2, <2>2
    <3>2. QED
      BY <3>1 DEF Timely, TypeInv
  <2>3. QED
    BY <2>1, <2>2
<1>5. QED
  BY <1>3, <1>4

LEMMA RestingTyped == TypeOK => Resting \in Jobs /\ Resting.until <= day
<1>1. 1 \in Days /\ 1 \in 1..(MaxDay + 1)
  BY ConstantsAssumption DEF Days
<1>2. QED
  BY <1>1, ConstantsAssumption DEF Resting, Jobs, TypeOK, Days, Values, Systems, Nothing

LEMMA EndTyped ==
  ASSUME TypeInv, NEW t \in Tasks, End(t), UNCHANGED day
  PROVE  /\ pc' \in [Tasks -> {"idle"} \cup Switching \cup Measuring] /\ job' \in [Tasks -> Jobs]
         /\ \A u \in Tasks : Timely(u)'
<1>1. Resting \in Jobs /\ Resting.until <= day
  BY RestingTyped DEF TypeInv
<1>2. QED
  BY <1>1, GoTyped DEF End

\* A job of today is a job.
LEMMA TodayTyped ==
  ASSUME TypeOK, NEW j \in Jobs
  PROVE  [j EXCEPT !.until = day] \in Jobs /\ [j EXCEPT !.until = day].until <= day
<1>1. day \in Days /\ day <= day
  BY ConstantsAssumption DEF TypeOK, Days
<1>2. [j EXCEPT !.until = day].until = day
  BY DEF Jobs
<1>3. [j EXCEPT !.until = day] \in Jobs
  BY <1>1 DEF Jobs
<1>4. QED
  BY <1>1, <1>2, <1>3

\* A job with other values, or on its next day, is a job.
LEMMA HoldingTyped ==
  ASSUME TypeOK, NEW t \in Tasks, NEW value \in Values, NEW stock \in Values
  PROVE  Holding(t, value, stock) \in Jobs
BY DEF TypeOK, Holding, Jobs

LEMMA NextDayTyped ==
  ASSUME TypeOK, NEW t \in Tasks, job[t].at <= job[t].until
  PROVE  NextDay(t) \in Jobs
<1>1. job[t] \in Jobs
  BY DEF TypeOK
<1>2. job[t].at + 1 \in 1..(MaxDay + 1)
  BY <1>1, ConstantsAssumption DEF Jobs, Days
<1>3. QED
  BY <1>1, <1>2 DEF NextDay, Jobs, Values

LEMMA ForgetTyped ==
  ASSUME TypeOK, NEW t \in Tasks, Forget(t) PROVE known' \in [Workers -> SUBSET (0..MaxDay)]
<1>1. Unread \in SUBSET (0..MaxDay) /\ WorkerOf[t] \in Workers
  BY ConstantsAssumption DEF Unread
<1>2. QED
  BY <1>1 DEF TypeOK, Forget

\* Recording the values in hand for a day of the window keeps the tables typed
\* and empty after today.
LEMMA RecordTyped ==
  ASSUME TypeInv, NEW t \in Tasks, NEW d \in Days, d <= day, Record(t, d)
  PROVE  /\ flux' \in [Days -> Values] /\ pipe' \in [Days -> Values]
         /\ \A e \in Days : e > day => flux'[e] = Nothing /\ pipe'[e] = Nothing
<1>1. job[t].flux \in Values /\ job[t].pipe \in Values
  BY DEF TypeInv, TypeOK, Jobs
<1>2. flux' \in [Days -> Values] /\ \A e \in Days : e > day => flux'[e] = Nothing
  BY <1>1 DEF TypeInv, TypeOK, Record, Put, Days
<1>3. pipe' \in [Days -> Values] /\ \A e \in Days : e > day => pipe'[e] = Nothing
  BY <1>1 DEF TypeInv, TypeOK, Record, Put, Days
<1>4. QED
  BY <1>2, <1>3

LEMMA WrittenTyped ==
  ASSUME NEW t, NEW d \in Days PROVE Written(t, d) \subseteq {"flux", "pipe"} \X Days
BY DEF Written

\* Every step keeps the types.
LEMMA TypeStep == TypeInv /\ [Next]_vars => TypeInv'
<1> SUFFICES ASSUME TypeInv, [Next]_vars PROVE TypeInv'
  OBVIOUS
<1> DEFINE Stages == {"idle"} \cup Switching \cup Measuring
<1> DEFINE Moved == /\ pc' \in [Tasks -> Stages] /\ job' \in [Tasks -> Jobs]
                    /\ \A u \in Tasks : Timely(u)'
<1>a. TypeOK /\ \A u \in Tasks : Timely(u)
  BY DEF TypeInv
<1>b. ASSUME NEW t \in Tasks PROVE job[t] \in Jobs /\ job[t].until <= day /\ WorkerOf[t] \in Workers
  BY <1>a, ConstantsAssumption DEF TypeOK, Timely
<1>c. ASSUME Moved, UNCHANGED <<day, views, tables, marks, known>>, runs' \in 0..MaxRuns, fails' \in 0..MaxFails
      PROVE  TypeInv'
  BY <1>a, <1>c DEF TypeOK, TypeInv, views, tables, marks, Days
<1>d. runs \in 0..MaxRuns /\ fails \in 0..MaxFails /\ (May => fails' \in 0..MaxFails)
  BY <1>a, ConstantsAssumption DEF TypeOK, May
<1>e. {"rebuild", "rebuilt", "measure", "measured", "begin", "spare", "orders", "opps", "rebase", "wipe",
       "replay", "replayed", "mark", "switch", "clear", "date", "idle"} \subseteq Stages
  BY DEF Switching, Measuring
<1> HIDE DEF Stages, Moved
<1>1. ASSUME NEW t \in Tasks, Photo(t) PROVE TypeInv'
  BY <1>a, <1>1 DEF Photo, Photograph, TypeInv, TypeOK, Timely, views, marks, Days, Values, Nothing
<1>2. ASSUME NEW t \in Tasks, Begin(t) PROVE TypeInv'
  <2>1. [Resting EXCEPT !.until = day] \in Jobs /\ [Resting EXCEPT !.until = day].until <= day
    BY <1>a, RestingTyped, TodayTyped
  <2>2. Moved
    BY <1>2, <1>a, <1>e, <2>1, GoTyped DEF Begin, Moved, Stages, views, tables, marks
  <2>3. known' \in [Workers -> SUBSET (0..MaxDay)] /\ runs' \in 0..MaxRuns
    BY <1>2, <1>a, ForgetTyped, ConstantsAssumption DEF Begin, TypeOK
  <2>4. QED
    BY <1>2, <1>a, <2>2, <2>3 DEF Begin, Moved, Stages, TypeInv, TypeOK, views, tables, marks, Days
<1>3. ASSUME NEW t \in Tasks, FirstNight(t) PROVE TypeInv'
  <2>1. Moved
    BY <1>3, <1>b, <1>e, GoTyped DEF FirstNight, Moved, Stages
  <2>2. QED
    BY <1>3, <1>c, <1>d, <2>1 DEF FirstNight
<1>4. ASSUME NEW t \in Tasks, Spare(t) PROVE TypeInv'
  <2>1. [job[t] EXCEPT !.spared = Measured(job[t].until)] \in Jobs
        /\ [job[t] EXCEPT !.spared = Measured(job[t].until)].until <= day
    BY <1>a, <1>b DEF TypeOK, Jobs, Measured
  <2>2. Moved
    BY <1>4, <1>e, <2>1, GoTyped DEF Spare, Moved, Stages
  <2>3. known' \in [Workers -> SUBSET (0..MaxDay)]
    BY <1>4, <1>a, ForgetTyped DEF Spare
  <2>4. QED
    BY <1>4, <1>a, <2>2, <2>3 DEF Spare, Moved, Stages, TypeInv, TypeOK, views, tables, marks, Days
<1>5. ASSUME NEW t \in Tasks, Rebuild(t) PROVE TypeInv'
  <2> DEFINE d == job[t].at
             value == IF <<"flux", d>> \in job[t].spared THEN Nothing ELSE orders
             stock == IF <<"pipe", d>> \in job[t].spared \/ d \notin KnownTo(WorkerOf[t]) THEN Nothing
                      ELSE photos[d]
  <2>1. d \in Days /\ d <= job[t].until
    BY <1>5, <1>b, ConstantsAssumption DEF Rebuild, Within, Jobs, Days
  <2>2. value \in Values /\ stock \in Values
    BY <1>a, <2>1 DEF TypeOK, Values
  <2>3. Holding(t, value, stock) \in Jobs
    BY <1>a, <2>2, HoldingTyped
  <2>4. Holding(t, value, stock).until = job[t].until /\ Holding(t, value, stock).at = job[t].at
    BY DEF Holding
  <2>5. Go(t, "rebuilt", Holding(t, value, stock)) /\ UNCHANGED day
    BY <1>5 DEF Rebuild
  <2> HIDE DEF value, stock
  <2>6. Moved
    BY <1>b, <1>e, <2>1, <2>3, <2>4, <2>5, GoTyped DEF Moved, Stages
  <2>7. KnownTo(WorkerOf[t]) \in SUBSET (0..MaxDay)
    BY <1>a, <1>b DEF KnownTo, Photographed, TypeOK, Days
  <2>8. known' \in [Workers -> SUBSET (0..MaxDay)]
    BY <1>5, <1>a, <1>b, <2>7 DEF Rebuild, TypeOK
  <2>9. QED
    BY <1>5, <1>a, <2>6, <2>8 DEF Rebuild, Moved, Stages, TypeInv, TypeOK, views, tables, marks, Days
<1>6. ASSUME NEW t \in Tasks, Rebuilt(t) \/ Replayed(t) PROVE TypeInv'
  <2>1. job[t].at <= job[t].until /\ job[t].at \in Days /\ job[t].at <= day
    BY <1>6, <1>a, <1>b, ConstantsAssumption DEF Rebuilt, Replayed, Timely, Jobs, Days, TypeOK
  <2>2. NextDay(t) \in Jobs /\ NextDay(t).until = job[t].until
    BY <1>a, <2>1, NextDayTyped DEF NextDay
  <2>3. Moved
    BY <1>6, <1>b, <1>e, <2>2, GoTyped DEF Rebuilt, Replayed, Moved, Stages
  <2>4. Record(t, job[t].at) /\ UNCHANGED <<day, views, photos, marks, known, fails, runs>>
        /\ measured' = measured \ Written(t, job[t].at)
    BY <1>6 DEF Rebuilt, Replayed
  <2>5. /\ flux' \in [Days -> Values] /\ pipe' \in [Days -> Values]
        /\ \A e \in Days : e > day => flux'[e] = Nothing /\ pipe'[e] = Nothing
    BY <2>1, <2>4, RecordTyped
  <2>6. QED
    BY <1>a, <2>3, <2>4, <2>5 DEF Moved, Stages, TypeInv, TypeOK, views, marks, Days
<1>7. ASSUME NEW t \in Tasks, Past(t) PROVE TypeInv'
  <2>1. [Resting EXCEPT !.until = job[t].until] \in Jobs
        /\ [Resting EXCEPT !.until = job[t].until].until <= day
    BY <1>a, <1>b, RestingTyped DEF Jobs
  <2>2. Moved
    BY <1>7, <1>e, <2>1, GoTyped, EndTyped DEF Past, Moved, Stages
  <2>3. QED
    BY <1>7, <1>c, <1>d, <2>2 DEF Past
<1>8. ASSUME NEW t \in Tasks, Measure(t) PROVE TypeInv'
  <2>1. Holding(t, orders, opps) \in Jobs /\ Holding(t, orders, opps).until = job[t].until
    BY <1>a, HoldingTyped DEF TypeOK, Values, Holding
  <2>2. Moved
    BY <1>8, <1>b, <1>e, <2>1, GoTyped DEF Measure, Moved, Stages
  <2>3. QED
    BY <1>8, <1>c, <1>d, <2>2 DEF Measure
<1>9. ASSUME NEW t \in Tasks, Capture(t) PROVE TypeInv'
  <2>1. Moved
    BY <1>9, EndTyped DEF Capture, Moved, Stages
  <2>2. job[t].until \in Days /\ job[t].until <= day
    BY <1>b DEF Jobs
  <2>3. /\ flux' \in [Days -> Values] /\ pipe' \in [Days -> Values]
        /\ \A e \in Days : e > day => flux'[e] = Nothing /\ pipe'[e] = Nothing
    BY <1>9, <2>2, RecordTyped DEF Capture
  <2>4. Written(t, job[t].until) \subseteq {"flux", "pipe"} \X Days
    BY <2>2, WrittenTyped
  <2>5. QED
    BY <1>9, <1>a, <2>1, <2>3, <2>4 DEF Capture, Moved, Stages, TypeInv, TypeOK, views, marks, Days
<1>10. ASSUME NEW t \in Tasks, Sync(t) PROVE TypeInv'
  <2>1. Moved
    BY <1>10, <1>a, <1>e, RestingTyped, GoTyped DEF Sync, Moved, Stages
  <2>2. QED
    BY <1>10, <1>c, <1>d, <2>1 DEF Sync
<1>11. ASSUME NEW t \in Tasks, SyncOrders(t) PROVE TypeInv'
  <2>1. [job[t] EXCEPT !.orders = TRUE] \in Jobs /\ [job[t] EXCEPT !.orders = TRUE].until <= day
    BY <1>b DEF Jobs
  <2>2. Moved
    BY <1>11, <1>b, <1>e, <2>1, GoTyped, EndTyped DEF SyncOrders, Moved, Stages
  <2>3. orders' \in Systems /\ fails' \in 0..MaxFails
    BY <1>11, <1>a, <1>d DEF SyncOrders, TypeOK, Systems
  <2>4. QED
    BY <1>11, <1>a, <2>2, <2>3 DEF SyncOrders, Moved, Stages, TypeInv, TypeOK, tables, marks, Days
<1>12. ASSUME NEW t \in Tasks, SyncOpps(t) PROVE TypeInv'
  <2>1. [job[t] EXCEPT !.opps = TRUE] \in Jobs /\ [job[t] EXCEPT !.opps = TRUE].until <= day
    BY <1>b DEF Jobs
  <2>2. Moved
    BY <1>12, <1>b, <1>e, <2>1, GoTyped DEF SyncOpps, Moved, Stages
  <2>3. opps' \in Systems /\ fails' \in 0..MaxFails
    BY <1>12, <1>a, <1>d DEF SyncOpps, TypeOK, Systems
  <2>4. QED
    BY <1>12, <1>a, <2>2, <2>3 DEF SyncOpps, Moved, Stages, TypeInv, TypeOK, tables, marks, Days
<1>13. ASSUME NEW t \in Tasks, Rebase(t) PROVE TypeInv'
  <2>1. [job[t] EXCEPT !.until = day] \in Jobs /\ [job[t] EXCEPT !.until = day].until <= day
    BY <1>a, <1>b, TodayTyped
  <2>2. Rebasing \in {"switch", "wipe", "mark"}
    BY <1>a DEF Rebasing, TypeOK
  <2>3. Moved
    BY <1>13, <1>e, <2>1, <2>2, GoTyped DEF Rebase, Moved, Stages
  <2>4. QED
    BY <1>13, <1>c, <1>d, <2>3 DEF Rebase
<1>14. ASSUME NEW t \in Tasks, Wipe(t) PROVE TypeInv'
  <2>1. Moved
    BY <1>14, <1>b, <1>e, GoTyped DEF Wipe, Moved, Stages
  <2>2. known' \in [Workers -> SUBSET (0..MaxDay)]
    BY <1>14, <1>a, ForgetTyped DEF Wipe
  <2>3. flux' \in [Days -> Values] /\ \A e \in Days : flux'[e] = Nothing
    BY <1>14 DEF Wipe, Values
  <2>4. QED
    BY <1>14, <1>a, <2>1, <2>2, <2>3 DEF Wipe, Moved, Stages, TypeInv, TypeOK, views, marks, Days
<1>15. ASSUME NEW t \in Tasks, Replay(t) PROVE TypeInv'
  <2>1. Holding(t, orders, Nothing) \in Jobs /\ Holding(t, orders, Nothing).until = job[t].until
        /\ Holding(t, orders, Nothing).at = job[t].at
    BY <1>a, HoldingTyped DEF TypeOK, Values, Holding
  <2>2. Moved
    BY <1>15, <1>b, <1>e, <2>1, GoTyped DEF Replay, Within, Moved, Stages
  <2>3. QED
    BY <1>15, <1>c, <1>d, <2>2 DEF Replay
<1>16. ASSUME NEW t \in Tasks, Mark(t) PROVE TypeInv'
  <2>1. Moved
    BY <1>16, <1>b, <1>e, GoTyped DEF Mark, Moved, Stages
  <2>2. QED
    BY <1>16, <1>a, <2>1 DEF Mark, Moved, Stages, TypeInv, TypeOK, views, tables, Days
<1>17. ASSUME NEW t \in Tasks, RebaseRaises(t) PROVE TypeInv'
  <2>1. [Resting EXCEPT !.opps = job[t].opps] \in Jobs
        /\ [Resting EXCEPT !.opps = job[t].opps].until <= day
    BY <1>a, <1>b, RestingTyped DEF Jobs
  <2>2. Moved
    BY <1>17, <1>e, <2>1, GoTyped DEF RebaseRaises, Moved, Stages
  <2>3. QED
    BY <1>17, <1>c, <1>d, <2>2 DEF RebaseRaises
<1>18. ASSUME NEW t \in Tasks, Switch(t) PROVE TypeInv'
  <2>1. Moved
    BY <1>18, <1>a, <1>e, RestingTyped, GoTyped, EndTyped DEF Switch, Moved, Stages
  <2>2. photos' \in [Days -> Values] /\ \A e \in Days : e > day => photos'[e] = Nothing
    <3>1. photos' = [photos EXCEPT ![day] = opps] \/ UNCHANGED photos
      BY <1>18 DEF Switch, Photograph
    <3>2. QED
      BY <3>1, <1>a, ConstantsAssumption DEF TypeOK, Values, Days
  <2>3. QED
    BY <1>18, <1>a, <2>1, <2>2 DEF Switch, Moved, Stages, TypeInv, TypeOK, views, marks, Days
<1>19. ASSUME NEW t \in Tasks, Clear(t) PROVE TypeInv'
  <2>1. [Resting EXCEPT !.until = day] \in Jobs /\ [Resting EXCEPT !.until = day].until <= day
    BY <1>a, RestingTyped, TodayTyped
  <2>2. Moved
    BY <1>19, <1>e, <2>1, GoTyped DEF Clear, Moved, Stages
  <2>3. pipe' \in [Days -> Values] /\ \A e \in Days : e > day => pipe'[e] = Nothing
    BY <1>19, <1>a DEF Clear, Cleared, TypeOK, Values, Days
  <2>4. QED
    BY <1>19, <1>a, <2>2, <2>3 DEF Clear, Moved, Stages, TypeInv, TypeOK, views, marks, Days
<1>20. ASSUME NEW t \in Tasks, Date(t) PROVE TypeInv'
  <2>1. Moved
    BY <1>20, EndTyped DEF Date, Moved, Stages
  <2>2. known' \in [Workers -> SUBSET (0..MaxDay)] /\ cut' \in 0..MaxDay
    BY <1>20, <1>a, <1>b, ForgetTyped DEF Date, Jobs, Days
  <2>3. QED
    BY <1>20, <1>a, <2>1, <2>2 DEF Date, Moved, Stages, TypeInv, TypeOK, views, tables, Days
<1>21. ASSUME NEW t \in Tasks, SwitchRaises(t) PROVE TypeInv'
  <2>1. Moved
    BY <1>21, EndTyped DEF SwitchRaises, Moved, Stages
  <2>2. QED
    BY <1>21, <1>c, <1>d, <2>1 DEF SwitchRaises
<1>22. CASE Midnight
  BY <1>22, <1>a, ConstantsAssumption
  DEF Midnight, TypeInv, TypeOK, Timely, Jobs, views, tables, marks, Days
<1>23. ASSUME NEW w \in Workers, Crash(w) PROVE TypeInv'
  <2>1. Resting \in Jobs /\ Resting.until <= day /\ Unread \in SUBSET (0..MaxDay)
    BY <1>a, RestingTyped, ConstantsAssumption DEF Unread
  <2>2. pc' \in [Tasks -> Stages] /\ job' \in [Tasks -> Jobs]
    BY <1>23, <1>a, <1>e, <2>1 DEF Crash, TypeOK, Stages
  <2>3. ASSUME NEW u \in Tasks PROVE Timely(u)'
    BY <1>23, <1>a, <2>1, <2>3 DEF Crash, Timely
  <2>4. known' \in [Workers -> SUBSET (0..MaxDay)]
    BY <1>23, <1>a, <2>1 DEF Crash, TypeOK
  <2>5. QED
    BY <1>23, <1>a, <1>d, <2>2, <2>3, <2>4
    DEF Crash, Stages, TypeInv, TypeOK, views, tables, marks, Days
<1>24. CASE UNCHANGED vars
  BY <1>24, <1>a DEF TypeInv, TypeOK, Timely, vars
<1>25. QED
  BY <1>1, <1>2, <1>3, <1>4, <1>5, <1>6, <1>7, <1>8, <1>9, <1>10, <1>11, <1>12, <1>13, <1>14, <1>15,
     <1>16, <1>17, <1>18, <1>19, <1>20, <1>21, <1>22, <1>23, <1>24
  DEF Next, Step

LEMMA TypeInit == Init => TypeInv
<1> SUFFICES ASSUME Init PROVE TypeInv
  OBVIOUS
<1>1. Resting \in Jobs /\ Resting.until = 1 /\ Resting.at = 1
  BY ConstantsAssumption DEF Resting, Jobs, Days, Values
<1>2. pc \in [Tasks -> {"idle"} \cup Switching \cup Measuring] /\ job \in [Tasks -> Jobs]
  BY <1>1 DEF Init
<1>3. \A t \in Tasks : Timely(t)
  BY <1>1 DEF Init, Timely
<1>4. /\ photos \in [Days -> Values] /\ flux \in [Days -> Values] /\ pipe \in [Days -> Values]
      /\ \A d \in Days : photos[d] = Nothing /\ flux[d] = Nothing /\ pipe[d] = Nothing
  BY DEF Init, Values
<1>5. known \in [Workers -> SUBSET (0..MaxDay)]
  BY ConstantsAssumption DEF Init, Unread
<1>6. day \in Days /\ orders \in Systems /\ opps \in Systems /\ measured = {} /\ rebased \in BOOLEAN
      /\ cut \in 0..MaxDay /\ runs \in 0..MaxRuns /\ fails \in 0..MaxFails
  <2>1. day = 1 /\ orders = "odoo" /\ opps = "odoo" /\ measured = {} /\ rebased = FALSE /\ cut = 0
        /\ runs = 0 /\ fails = 0
    BY DEF Init
  <2>2. 1 \in Days /\ 0 \in 0..MaxDay /\ 0 \in 0..MaxRuns /\ 0 \in 0..MaxFails /\ "odoo" \in Systems
    BY ConstantsAssumption DEF Days, Systems
  <2>3. QED
    BY <2>1, <2>2
<1>7. QED
  BY <1>2, <1>3, <1>4, <1>5, <1>6 DEF TypeInv, TypeOK

\* Tables, markers, caches and coroutines keep their types, and nothing is ever
\* recorded for a day to come, whatever runs, fails or crashes at the same time.
THEOREM TypeCorrect == Spec => []TypeOK
<1>1. TypeInv => TypeOK
  BY DEF TypeInv
<1>2. QED
  BY <1>1, TypeInit, TypeStep, PTL DEF Spec
-----------------------------------------------------------------------------
(* One base.                                                               *)

Measurers == Nights \cup Admins

\* What a coroutine has read and computed, against what is stored: the values
\* in hand that come from Odoo are written before a view passes to nt360, the
\* history a rebase works on stays without them, and a reconstitution spares
\* what is measured on past days.
Sound(t) ==
  /\ pc[t] \in Switching => t \in Syncs
  /\ pc[t] \in Measuring => t \in Measurers /\ job[t].until = day
  /\ t \in Syncs => job[t].pipe = Nothing
  /\ pc[t] \in {"rebase", "wipe", "replay", "replayed", "mark"} \/ job[t].orders => orders = "nt360"
  /\ pc[t] \in {"clear", "date"} \/ job[t].opps => opps = "nt360"
  /\ pc[t] \in {"rebuilt", "measured"} /\ job[t].flux = "odoo" => orders = "odoo"
  /\ pc[t] = "replayed" => job[t].flux # "odoo"
  /\ pc[t] \in {"replay", "replayed", "mark"} => \A d \in Days : flux[d] # "odoo"
  /\ pc[t] \in {"replay", "replayed"} => \A m \in measured : m[1] # "flux"
  /\ pc[t] = "measured" /\ job[t].pipe = "odoo" => opps = "odoo"
  /\ pc[t] = "rebuilt" /\ cut # 0 /\ job[t].at >= cut => job[t].pipe # "odoo"
  /\ pc[t] \in {"clear", "date"} => \A d \in Days : d >= day => photos[d] # "odoo"
  /\ pc[t] = "date" => \A d \in Days : d >= job[t].until => pipe[d] # "odoo" /\ photos[d] # "odoo"
  /\ pc[t] \in {"rebuild", "rebuilt"} => \A m \in measured : m[2] < day => m \in job[t].spared
  /\ pc[t] = "rebuilt" => /\ <<"flux", job[t].at>> \in job[t].spared => job[t].flux = Nothing
                          /\ <<"pipe", job[t].at>> \in job[t].spared => job[t].pipe = Nothing

\* No measure and no reconstitution while a sync is on.
Exclusive == \A s \in Syncs, t \in Measurers : pc[s] \in Switching => pc[t] \notin Measuring

Passed == (rebased => orders = "nt360") /\ (cut # 0 => opps = "nt360")

Inv == TypeInv /\ Exclusive /\ Passed /\ OneBase /\ \A t \in Tasks : Sound(t)

\* Where a move leaves each coroutine.
LEMMA GoMoves ==
  ASSUME TypeInv, NEW t \in Tasks, NEW stage, NEW local, Go(t, stage, local)
  PROVE  /\ pc'[t] = stage /\ job'[t] = local
         /\ \A u \in Tasks : u # t => pc'[u] = pc[u] /\ job'[u] = job[u]
BY DEF TypeInv, TypeOK, Go

\* The others stay sound when only one coroutine moves.
LEMMA StillSound ==
  ASSUME Inv, NEW t \in Tasks, NEW stage, NEW local, Go(t, stage, local),
         UNCHANGED <<day, views, tables, marks>>
  PROVE  Passed' /\ OneBase' /\ \A u \in Tasks : u # t => Sound(u)'
<1>1. Passed' /\ OneBase'
  BY DEF Inv, Passed, OneBase, views, tables, marks
<1>2. ASSUME NEW u \in Tasks, u # t PROVE Sound(u)'
  <2>1. pc'[u] = pc[u] /\ job'[u] = job[u] /\ Sound(u)
    BY <1>2, GoMoves DEF Inv
  <2>2. QED
    BY <2>1 DEF Sound, views, tables, marks
<1>3. QED
  BY <1>1, <1>2

\* A coroutine that goes on, or ends, or begins alone, leaves syncs and measures
\* apart.
LEMMA StillExclusive ==
  ASSUME Inv, NEW t \in Tasks, NEW stage, NEW local, Go(t, stage, local),
         t \in Syncs /\ stage \in Switching => pc[t] \in Switching \/ Quiet(Measurers, Measuring),
         t \in Measurers /\ stage \in Measuring => pc[t] \in Measuring \/ Quiet(Syncs, Switching)
  PROVE  Exclusive'
<1>1. Syncs \cap Measurers = {} /\ Syncs \subseteq Tasks /\ Measurers \subseteq Tasks
  BY ConstantsAssumption DEF Measurers, Tasks
<1>2. SUFFICES ASSUME NEW r \in Syncs, NEW m \in Measurers, pc'[r] \in Switching, pc'[m] \in Measuring
               PROVE  FALSE
  BY DEF Exclusive
<1>3. pc'[t] = stage /\ \A u \in Tasks : u # t => pc'[u] = pc[u]
  BY GoMoves DEF Inv
<1>4. QED
  BY <1>1, <1>2, <1>3 DEF Inv, Exclusive, Quiet

\* What Inv gives of a coroutine.
LEMMA InvFacts ==
  ASSUME Inv, NEW t \in Tasks
  PROVE  /\ Sound(t) /\ Timely(t) /\ job[t] \in Jobs /\ TypeOK /\ TypeInv
         /\ Passed /\ OneBase /\ Exclusive /\ day \in Nat
<1>1. TypeInv /\ Sound(t) /\ Passed /\ OneBase /\ Exclusive
  BY DEF Inv
<1>2. TypeOK /\ Timely(t)
  BY <1>1 DEF TypeInv
<1>3. job[t] \in Jobs /\ day \in Nat
  BY <1>2, ConstantsAssumption DEF TypeOK, Days
<1>4. QED
  BY <1>1, <1>2, <1>3

\* While a sync is on, no measurer is.
LEMMA NoneMeasuring ==
  ASSUME Inv, NEW t \in Tasks, pc[t] \in Switching, NEW u \in Tasks
  PROVE  pc[u] \notin Measuring
BY DEF Inv, Sound, Exclusive

\* While a measurer is on, no sync is.
LEMMA NoneSwitching ==
  ASSUME Inv, NEW t \in Tasks, pc[t] \in Measuring, NEW u \in Tasks
  PROVE  pc[u] \notin Switching
BY DEF Inv, Sound, Exclusive

-----------------------------------------------------------------------------
(* The night jobs and the reconstitution keep it.                          *)

LEMMA PhotoKeeps == ASSUME Inv, NEW t \in Tasks, Photo(t)
                    PROVE  Exclusive' /\ Passed' /\ OneBase' /\ \A u \in Tasks : Sound(u)'
<1>1. photos \in [Days -> Values] /\ photos' = [photos EXCEPT ![day] = opps] /\ day \in Days
  BY InvFacts DEF Photo, Photograph, TypeOK
<1>2. \A d \in Days : photos'[d] = photos[d] \/ photos'[d] = opps
  BY <1>1
<1>3. UNCHANGED <<day, orders, opps, flux, pipe, measured, rebased, cut, pc, job>>
  BY DEF Photo, views, marks
<1>4. Exclusive' /\ Passed' /\ OneBase'
  BY <1>2, <1>3 DEF Inv, Exclusive, Passed, OneBase
<1>5. ASSUME NEW u \in Tasks PROVE Sound(u)'
  BY <1>2, <1>3, <1>5 DEF Inv, Sound
<1>6. QED
  BY <1>4, <1>5

LEMMA BeginKeeps == ASSUME Inv, Apart, NEW t \in Tasks, Begin(t)
                    PROVE  Exclusive' /\ Passed' /\ OneBase' /\ \A u \in Tasks : Sound(u)'
<1> DEFINE stage == IF t \in Nights THEN "begin" ELSE "spare"
           local == [Resting EXCEPT !.until = day]
<1>1. Go(t, stage, local) /\ UNCHANGED <<day, views, tables, marks>>
      /\ t \in Measurers /\ t \notin Syncs /\ Quiet(Syncs, Switching)
  BY ConstantsAssumption DEF Begin, Measurers
<1>2. local.until = day /\ local.pipe = Nothing /\ local.flux = Nothing /\ ~local.orders /\ ~local.opps
  BY DEF Resting
<1> HIDE DEF local
<1>3. Exclusive'
  BY <1>1, StillExclusive
<1>4. Passed' /\ OneBase' /\ \A u \in Tasks : u # t => Sound(u)'
  BY <1>1, StillSound
<1>5. pc'[t] = stage /\ job'[t] = local
  BY <1>1, GoMoves DEF Inv
<1>6. Sound(t)'
  BY <1>1, <1>2, <1>5 DEF Sound, Switching, Measuring
<1>7. QED
  BY <1>3, <1>4, <1>6

LEMMA FirstNightKeeps == ASSUME Inv, NEW t \in Tasks, FirstNight(t)
                         PROVE  Exclusive' /\ Passed' /\ OneBase' /\ \A u \in Tasks : Sound(u)'
<1>1. PICK stage \in {"spare", "measure"} : Go(t, stage, job[t])
  BY DEF FirstNight
<1>2. pc[t] = "begin" /\ pc[t] \in Measuring /\ UNCHANGED <<day, views, tables, marks>>
  BY DEF FirstNight, Measuring
<1>3. stage \notin Switching
  BY DEF Switching
<1>4. Exclusive'
  BY <1>1, <1>2, <1>3, StillExclusive
<1>5. Passed' /\ OneBase' /\ \A u \in Tasks : u # t => Sound(u)'
  BY <1>1, <1>2, StillSound
<1>6. pc'[t] = stage /\ job'[t] = job[t]
  BY <1>1, GoMoves DEF Inv
<1>7. Sound(t)'
  BY <1>2, <1>6, InvFacts DEF Sound, Switching, Measuring, views
<1>8. QED
  BY <1>4, <1>5, <1>7

\* What a reconstitution begins with spares every measure of a past day.
LEMMA SpareKeeps == ASSUME Inv, NEW t \in Tasks, Spare(t)
                    PROVE  Exclusive' /\ Passed' /\ OneBase' /\ \A u \in Tasks : Sound(u)'
<1> DEFINE local == [job[t] EXCEPT !.spared = Measured(job[t].until)]
<1>1. Go(t, "rebuild", local) /\ pc[t] = "spare" /\ UNCHANGED <<day, views, tables, marks>>
      /\ pc[t] \in Measuring /\ "rebuild" \notin Switching /\ "rebuild" \in Measuring
  BY DEF Spare, Measuring, Switching
<1>2. local.spared = Measured(job[t].until) /\ local.until = job[t].until /\ local.pipe = job[t].pipe
      /\ local.orders = job[t].orders /\ local.opps = job[t].opps /\ local.flux = job[t].flux
  BY InvFacts DEF Jobs
<1> HIDE DEF local
<1>3. Exclusive'
  BY <1>1, StillExclusive
<1>4. Passed' /\ OneBase' /\ \A u \in Tasks : u # t => Sound(u)'
  BY <1>1, StillSound
<1>5. pc'[t] = "rebuild" /\ job'[t] = local
  BY <1>1, GoMoves DEF Inv
<1>6. Sound(t) /\ job[t].until = day
  BY <1>1, InvFacts DEF Sound
<1>7. \A m \in measured : m[2] < day => m \in local.spared
  BY <1>2, <1>6, InvFacts DEF Measured, TypeOK, Days
<1>8. Sound(t)'
  BY <1>1, <1>2, <1>5, <1>6, <1>7 DEF Sound, views, tables, marks, Switching
<1>9. QED
  BY <1>3, <1>4, <1>8

LEMMA RebuildKeeps == ASSUME Inv, NEW t \in Tasks, Rebuild(t)
                      PROVE  Exclusive' /\ Passed' /\ OneBase' /\ \A u \in Tasks : Sound(u)'
<1> DEFINE d == job[t].at
           value == IF <<"flux", d>> \in job[t].spared THEN Nothing ELSE orders
           stock == IF <<"pipe", d>> \in job[t].spared \/ d \notin KnownTo(WorkerOf[t]) THEN Nothing
                    ELSE photos[d]
           local == Holding(t, value, stock)
<1>1. Go(t, "rebuilt", local) /\ pc[t] = "rebuild" /\ UNCHANGED <<day, views, tables, marks>>
      /\ pc[t] \in Measuring /\ "rebuilt" \notin Switching /\ "rebuilt" \in Measuring
  BY DEF Rebuild, Measuring, Switching
<1>2. d \in Days
  BY InvFacts, ConstantsAssumption DEF Rebuild, Within, Timely, Jobs, Days
<1>3. local.flux = value /\ local.pipe = stock /\ local.spared = job[t].spared /\ local.at = d
      /\ local.until = job[t].until /\ local.orders = job[t].orders /\ local.opps = job[t].opps
  BY DEF Holding
<1>4. cut # 0 /\ d >= cut => stock # "odoo"
  BY <1>2, InvFacts DEF OneBase, Nothing
<1>5. /\ value = "odoo" => orders = "odoo"
      /\ <<"flux", d>> \in job[t].spared => value = Nothing
      /\ <<"pipe", d>> \in job[t].spared => stock = Nothing
  BY DEF Nothing
<1> HIDE DEF local, value, stock
<1>6. Exclusive'
  BY <1>1, StillExclusive
<1>7. Passed' /\ OneBase' /\ \A u \in Tasks : u # t => Sound(u)'
  BY <1>1, StillSound
<1>8. pc'[t] = "rebuilt" /\ job'[t] = local
  BY <1>1, GoMoves DEF Inv
<1>9. t \notin Syncs /\ t \in Measurers
  BY <1>1, InvFacts, ConstantsAssumption DEF Sound, Measurers
<1>10. Sound(t)'
  BY <1>1, <1>3, <1>4, <1>5, <1>8, <1>9, InvFacts DEF Sound, views, tables, marks, Switching
<1>11. QED
  BY <1>6, <1>7, <1>10

\* What Record does to the history, one value at a time.
LEMMA Recorded ==
  ASSUME Inv, NEW t \in Tasks, NEW d \in Days, Record(t, d)
  PROVE  \A e \in Days :
           /\ flux'[e] = flux[e] \/ (e = d /\ job[t].flux # Nothing /\ flux'[e] = job[t].flux)
           /\ pipe'[e] = pipe[e] \/ (e = d /\ job[t].pipe # Nothing /\ pipe'[e] = job[t].pipe)
<1>1. flux \in [Days -> Values] /\ pipe \in [Days -> Values]
  BY InvFacts DEF TypeOK
<1>2. QED
  BY <1>1 DEF Record, Put

LEMMA RebuiltKeeps == ASSUME Inv, NEW t \in Tasks, Rebuilt(t)
                      PROVE  Exclusive' /\ Passed' /\ OneBase' /\ \A u \in Tasks : Sound(u)'
<1> DEFINE local == NextDay(t)
           d == job[t].at
<1>1. Go(t, "rebuild", local) /\ pc[t] = "rebuilt" /\ UNCHANGED <<day, views, photos, marks>>
      /\ pc[t] \in Measuring /\ "rebuild" \notin Switching /\ Record(t, d)
      /\ measured' = measured \ Written(t, d)
  BY DEF Rebuilt, Measuring, Switching
<1>2. d \in Days
  BY <1>1, InvFacts, ConstantsAssumption DEF Timely, Jobs, Days
<1>3. local.pipe = Nothing /\ local.until = job[t].until /\ local.spared = job[t].spared
      /\ local.orders = job[t].orders /\ local.opps = job[t].opps
  BY DEF NextDay
<1> HIDE DEF local
<1>4. pc'[t] = "rebuild" /\ job'[t] = local /\ \A u \in Tasks : u # t => pc'[u] = pc[u] /\ job'[u] = job[u]
  BY <1>1, GoMoves DEF Inv
<1>5. Exclusive'
  BY <1>1, StillExclusive
<1>6. Sound(t) /\ \A u \in Tasks : Sound(u) /\ pc[u] \notin Switching
  BY <1>1, NoneSwitching, InvFacts
<1>7. Passed' /\ OneBase'
  <2>1. Passed'
    BY <1>1, InvFacts DEF Passed, views, marks
  <2>2. QED
    BY <1>1, <1>2, <1>6, <2>1, Recorded, InvFacts DEF OneBase, Passed, Sound, views, marks
<1>8. ASSUME NEW u \in Tasks, u # t PROVE Sound(u)'
  BY <1>1, <1>4, <1>6, <1>8 DEF Sound, views, marks, Switching
<1>9. Sound(t)'
  BY <1>1, <1>3, <1>4, <1>6 DEF Sound, views, marks, Switching, Measuring
<1>10. QED
  BY <1>5, <1>7, <1>8, <1>9

LEMMA PastKeeps == ASSUME Inv, NEW t \in Tasks, Past(t)
                   PROVE  Exclusive' /\ Passed' /\ OneBase' /\ \A u \in Tasks : Sound(u)'
<1> DEFINE goes == [Resting EXCEPT !.until = job[t].until]
<1>1. pc[t] = "rebuild" /\ UNCHANGED <<day, views, tables, marks>> /\ pc[t] \in Measuring
  BY DEF Past, Measuring
<1>2. /\ goes.pipe = Nothing /\ goes.until = job[t].until /\ ~goes.orders /\ ~goes.opps
      /\ Resting.pipe = Nothing /\ ~Resting.orders /\ ~Resting.opps
  BY DEF Resting
<1>3. PICK stage, local : /\ Go(t, stage, local)
                          /\ \/ stage = "measure" /\ local = goes
                             \/ stage = "idle" /\ local = Resting
  BY DEF Past, End
<1> HIDE DEF goes
<1>4. Exclusive'
  BY <1>1, <1>3, StillExclusive DEF Switching
<1>5. Passed' /\ OneBase' /\ \A u \in Tasks : u # t => Sound(u)'
  BY <1>1, <1>3, StillSound
<1>6. pc'[t] = stage /\ job'[t] = local
  BY <1>3, GoMoves DEF Inv
<1>7. Sound(t)'
  BY <1>1, <1>2, <1>3, <1>6, InvFacts DEF Sound, Switching, Measuring
<1>8. QED
  BY <1>4, <1>5, <1>7

LEMMA MeasureKeeps == ASSUME Inv, NEW t \in Tasks, Measure(t)
                      PROVE  Exclusive' /\ Passed' /\ OneBase' /\ \A u \in Tasks : Sound(u)'
<1> DEFINE local == Holding(t, orders, opps)
<1>1. Go(t, "measured", local) /\ pc[t] = "measure" /\ UNCHANGED <<day, views, tables, marks>>
      /\ pc[t] \in Measuring /\ "measured" \notin Switching
  BY DEF Measure, Measuring, Switching
<1>2. local.flux = orders /\ local.pipe = opps /\ local.until = job[t].until
      /\ local.orders = job[t].orders /\ local.opps = job[t].opps
  BY DEF Holding
<1> HIDE DEF local
<1>3. Exclusive'
  BY <1>1, StillExclusive
<1>4. Passed' /\ OneBase' /\ \A u \in Tasks : u # t => Sound(u)'
  BY <1>1, StillSound
<1>5. pc'[t] = "measured" /\ job'[t] = local
  BY <1>1, GoMoves DEF Inv
<1>6. t \notin Syncs /\ t \in Measurers
  BY <1>1, InvFacts, ConstantsAssumption DEF Sound, Measurers
<1>7. Sound(t)'
  BY <1>1, <1>2, <1>5, <1>6, InvFacts DEF Sound, Switching, Measuring, views
<1>8. QED
  BY <1>3, <1>4, <1>7

LEMMA CaptureKeeps == ASSUME Inv, NEW t \in Tasks, Capture(t)
                      PROVE  Exclusive' /\ Passed' /\ OneBase' /\ \A u \in Tasks : Sound(u)'
<1> DEFINE d == job[t].until
<1>1. Go(t, "idle", Resting) /\ pc[t] = "measured" /\ UNCHANGED <<day, views, photos, marks>>
      /\ pc[t] \in Measuring /\ "idle" \notin Switching /\ "idle" \notin Measuring /\ Record(t, d)
      /\ measured' = measured \cup Written(t, d)
  BY DEF Capture, End, Measuring, Switching
<1>2. d \in Days /\ d = day
  BY <1>1, InvFacts DEF Sound, Jobs
<1>3. pc'[t] = "idle" /\ job'[t] = Resting /\ \A u \in Tasks : u # t => pc'[u] = pc[u] /\ job'[u] = job[u]
  BY <1>1, GoMoves DEF Inv
<1>4. Exclusive'
  BY <1>1, StillExclusive
<1>5. Sound(t) /\ \A u \in Tasks : Sound(u) /\ pc[u] \notin Switching
  BY <1>1, NoneSwitching, InvFacts
<1>6. Passed' /\ OneBase'
  <2>1. Passed'
    BY <1>1, InvFacts DEF Passed, views, marks
  <2>2. (rebased => job[t].flux # "odoo") /\ (cut # 0 => job[t].pipe # "odoo")
    BY <1>1, <1>5, InvFacts DEF Passed, Sound
  <2>3. OneBase /\ UNCHANGED <<rebased, cut, photos>>
    BY <1>1, InvFacts DEF marks
  <2>4. Record(t, d)
    BY <1>1
  <2> HIDE DEF d
  <2>5. \A e \in Days : flux'[e] = flux[e] \/ flux'[e] = job[t].flux
    BY <1>2, <2>4, Recorded
  <2>6. \A e \in Days : pipe'[e] = pipe[e] \/ pipe'[e] = job[t].pipe
    BY <1>2, <2>4, Recorded
  <2>7. QED
    BY <2>1, <2>2, <2>3, <2>5, <2>6 DEF OneBase
<1>7. \A m \in measured' : m[2] < day => m \in measured
  BY <1>1, <1>2, InvFacts DEF Written
<1>8. ASSUME NEW u \in Tasks, u # t PROVE Sound(u)'
  BY <1>1, <1>3, <1>5, <1>7, <1>8 DEF Sound, views, marks, Switching
<1>9. Sound(t)'
  BY <1>1, <1>3 DEF Sound, Resting
<1>10. QED
  BY <1>4, <1>6, <1>8, <1>9

-----------------------------------------------------------------------------
(* The sync keeps it.                                                      *)

LEMMA SyncKeeps == ASSUME Inv, Apart, NEW t \in Tasks, Sync(t)
                   PROVE  Exclusive' /\ Passed' /\ OneBase' /\ \A u \in Tasks : Sound(u)'
<1>1. Go(t, "orders", Resting) /\ UNCHANGED <<day, views, tables, marks>>
      /\ t \in Syncs /\ t \notin Measurers /\ Quiet(Measurers, Measuring)
  BY ConstantsAssumption DEF Sync, Measurers
<1>2. Exclusive'
  BY <1>1, StillExclusive
<1>3. Passed' /\ OneBase' /\ \A u \in Tasks : u # t => Sound(u)'
  BY <1>1, StillSound
<1>4. pc'[t] = "orders" /\ job'[t] = Resting
  BY <1>1, GoMoves DEF Inv
<1>5. Sound(t)'
  BY <1>1, <1>4 DEF Sound, Resting, Measuring
<1>6. QED
  BY <1>2, <1>3, <1>5

\* A view that passes to nt360 finds no value of Odoo in hand.
LEMMA ReadKeeps ==
  ASSUME Inv, NEW t \in Tasks, NEW stage \in Switching \cup {"idle"}, NEW local, Go(t, stage, local),
         pc[t] \in Switching,
         orders' = "nt360" \/ orders' = orders, opps' = "nt360" \/ opps' = opps,
         UNCHANGED <<day, tables, marks>>
  PROVE  Exclusive' /\ Passed' /\ OneBase' /\ \A u \in Tasks : u # t => Sound(u)'
<1>1. Exclusive'
  <2>1. stage \notin Measuring
    BY DEF Switching, Measuring
  <2>2. QED
    BY <2>1, StillExclusive
<1>2. Passed' /\ OneBase'
  BY InvFacts DEF Passed, OneBase, tables, marks
<1>3. ASSUME NEW u \in Tasks, u # t PROVE Sound(u)'
  <2>1. pc'[u] = pc[u] /\ job'[u] = job[u] /\ Sound(u) /\ pc[u] \notin Measuring
    BY <1>3, GoMoves, NoneMeasuring, InvFacts
  <2>2. QED
    BY <2>1 DEF Sound, tables, marks, Measuring
<1>4. QED
  BY <1>1, <1>2, <1>3

LEMMA SyncOrdersKeeps == ASSUME Inv, NEW t \in Tasks, SyncOrders(t)
                         PROVE  Exclusive' /\ Passed' /\ OneBase' /\ \A u \in Tasks : Sound(u)'
<1> DEFINE read == [job[t] EXCEPT !.orders = TRUE]
<1>1. pc[t] = "orders" /\ pc[t] \in Switching /\ UNCHANGED <<day, opps, tables, marks>>
      /\ t \in Syncs /\ Sound(t)
  BY InvFacts DEF SyncOrders, Switching, Sound
<1>2. read.pipe = job[t].pipe /\ read.orders /\ read.opps = job[t].opps
  BY InvFacts DEF Jobs
<1>3. PICK stage \in {"opps", "idle"}, local \in {read, job[t], Resting} :
        /\ Go(t, stage, local)
        /\ \/ local = read /\ orders' = "nt360"
           \/ local \in {job[t], Resting} /\ orders' = orders
  BY DEF SyncOrders, End
<1> HIDE DEF read
<1>4. stage \in Switching \cup {"idle"}
  BY DEF Switching
<1>5. Exclusive' /\ Passed' /\ OneBase' /\ \A u \in Tasks : u # t => Sound(u)'
  BY <1>1, <1>3, <1>4, ReadKeeps
<1>6. pc'[t] = stage /\ job'[t] = local
  BY <1>3, GoMoves DEF Inv
<1>7. Resting.pipe = Nothing /\ ~Resting.orders /\ ~Resting.opps
  BY DEF Resting
<1>8. Sound(t)'
  BY <1>1, <1>2, <1>3, <1>6, <1>7 DEF Sound, Measuring
<1>9. QED
  BY <1>5, <1>8

LEMMA SyncOppsKeeps == ASSUME Inv, NEW t \in Tasks, SyncOpps(t)
                       PROVE  Exclusive' /\ Passed' /\ OneBase' /\ \A u \in Tasks : Sound(u)'
<1> DEFINE read == [job[t] EXCEPT !.opps = TRUE]
<1>1. pc[t] = "opps" /\ pc[t] \in Switching /\ UNCHANGED <<day, orders, tables, marks>>
      /\ t \in Syncs /\ Sound(t)
  BY InvFacts DEF SyncOpps, Switching, Sound
<1>2. read.pipe = job[t].pipe /\ read.opps /\ read.orders = job[t].orders
  BY InvFacts DEF Jobs
<1>3. PICK stage, local :
        /\ Go(t, stage, local)
        /\ stage = IF job[t].orders THEN "rebase" ELSE "switch"
        /\ \/ local = read /\ opps' = "nt360"
           \/ local = job[t] /\ opps' = opps
  BY DEF SyncOpps
<1> HIDE DEF read
<1>4. stage \in Switching \cup {"idle"}
  BY <1>3 DEF Switching
<1>5. Exclusive' /\ Passed' /\ OneBase' /\ \A u \in Tasks : u # t => Sound(u)'
  BY <1>1, <1>3, <1>4, ReadKeeps
<1>6. pc'[t] = stage /\ job'[t] = local
  BY <1>3, GoMoves DEF Inv
<1>7. Sound(t)'
  BY <1>1, <1>2, <1>3, <1>6 DEF Sound, Measuring
<1>8. QED
  BY <1>5, <1>7

LEMMA RebaseKeeps == ASSUME Inv, NEW t \in Tasks, Rebase(t)
                     PROVE  Exclusive' /\ Passed' /\ OneBase' /\ \A u \in Tasks : Sound(u)'
<1> DEFINE local == [job[t] EXCEPT !.until = day]
<1>1. Go(t, Rebasing, local) /\ pc[t] = "rebase" /\ pc[t] \in Switching
      /\ UNCHANGED <<day, views, tables, marks>> /\ t \in Syncs /\ Sound(t)
  BY InvFacts DEF Rebase, Switching, Sound
<1>2. local.pipe = job[t].pipe /\ local.orders = job[t].orders /\ local.opps = job[t].opps
  BY InvFacts DEF Jobs
<1> HIDE DEF local
<1>3. Rebasing \in {"switch", "wipe", "mark"}
      /\ (Rebasing = "mark" => \A d \in Days : flux[d] # "odoo")
  BY InvFacts DEF Rebasing, History, TypeOK, Nothing
<1>4. Exclusive'
  BY <1>1, <1>3, StillExclusive DEF Measuring
<1>5. Passed' /\ OneBase' /\ \A u \in Tasks : u # t => Sound(u)'
  BY <1>1, StillSound
<1>6. pc'[t] = Rebasing /\ job'[t] = local
  BY <1>1, GoMoves DEF Inv
<1>7. Sound(t)'
  BY <1>1, <1>2, <1>3, <1>6 DEF Sound, Measuring, views, tables
<1>8. QED
  BY <1>4, <1>5, <1>7

LEMMA WipeKeeps == ASSUME Inv, NEW t \in Tasks, Wipe(t)
                   PROVE  Exclusive' /\ Passed' /\ OneBase' /\ \A u \in Tasks : Sound(u)'
<1>1. Go(t, "replay", job[t]) /\ pc[t] = "wipe" /\ pc[t] \in Switching
      /\ UNCHANGED <<day, views, photos, pipe, marks>> /\ t \in Syncs /\ Sound(t)
      /\ "replay" \notin Measuring /\ measured' = {m \in measured : m[1] # "flux"}
  BY InvFacts DEF Wipe, Switching, Sound, Measuring
<1>2. \A d \in Days : flux'[d] # "odoo"
  BY DEF Wipe, Nothing
<1>3. Exclusive'
  BY <1>1, StillExclusive
<1>4. Passed' /\ OneBase'
  BY <1>1, <1>2, InvFacts DEF Passed, OneBase, views, marks
<1>5. pc'[t] = "replay" /\ job'[t] = job[t]
      /\ \A u \in Tasks : u # t => pc'[u] = pc[u] /\ job'[u] = job[u]
  BY <1>1, GoMoves DEF Inv
<1>6. ASSUME NEW u \in Tasks, u # t PROVE Sound(u)'
  BY <1>1, <1>2, <1>5, <1>6, InvFacts DEF Sound, views, marks
<1>7. Sound(t)'
  BY <1>1, <1>2, <1>5 DEF Sound, views, marks, Measuring
<1>8. QED
  BY <1>3, <1>4, <1>6, <1>7

LEMMA ReplayKeeps == ASSUME Inv, NEW t \in Tasks, Replay(t)
                     PROVE  Exclusive' /\ Passed' /\ OneBase' /\ \A u \in Tasks : Sound(u)'
<1> DEFINE held == Holding(t, orders, Nothing)
<1>1. pc[t] = "replay" /\ pc[t] \in Switching /\ UNCHANGED <<day, views, tables, marks>>
      /\ t \in Syncs /\ Sound(t)
  BY InvFacts DEF Replay, Switching, Sound
<1>2. held.flux = orders /\ held.pipe = Nothing /\ held.orders = job[t].orders /\ held.opps = job[t].opps
  BY DEF Holding
<1>3. PICK stage, local : /\ Go(t, stage, local)
                          /\ \/ stage = "replayed" /\ local = held
                             \/ stage = "mark" /\ local = job[t]
  BY DEF Replay
<1> HIDE DEF held
<1>4. Exclusive'
  BY <1>1, <1>3, StillExclusive DEF Measuring
<1>5. Passed' /\ OneBase' /\ \A u \in Tasks : u # t => Sound(u)'
  BY <1>1, <1>3, StillSound
<1>6. pc'[t] = stage /\ job'[t] = local
  BY <1>3, GoMoves DEF Inv
<1>7. Sound(t)'
  BY <1>1, <1>2, <1>3, <1>6 DEF Sound, Measuring, views, tables
<1>8. QED
  BY <1>4, <1>5, <1>7

LEMMA ReplayedKeeps == ASSUME Inv, NEW t \in Tasks, Replayed(t)
                       PROVE  Exclusive' /\ Passed' /\ OneBase' /\ \A u \in Tasks : Sound(u)'
<1> DEFINE local == NextDay(t)
           d == job[t].at
<1>1. Go(t, "replay", local) /\ pc[t] = "replayed" /\ UNCHANGED <<day, views, photos, marks>>
      /\ pc[t] \in Switching /\ "replay" \notin Measuring /\ Record(t, d)
      /\ measured' = measured \ Written(t, d) /\ t \in Syncs /\ Sound(t)
  BY InvFacts DEF Replayed, Measuring, Switching, Sound
<1>2. d \in Days
  BY <1>1, InvFacts, ConstantsAssumption DEF Timely, Jobs, Days
<1>3. local.pipe = Nothing /\ local.orders = job[t].orders /\ local.opps = job[t].opps
  BY DEF NextDay
<1> HIDE DEF local
<1>4. pc'[t] = "replay" /\ job'[t] = local /\ \A u \in Tasks : u # t => pc'[u] = pc[u] /\ job'[u] = job[u]
  BY <1>1, GoMoves DEF Inv
<1>5. Exclusive'
  BY <1>1, StillExclusive
<1>6. \A e \in Days : pipe'[e] = pipe[e] /\ (flux'[e] = flux[e] \/ flux'[e] # "odoo")
  <2>1. job[t].pipe = Nothing /\ job[t].flux # "odoo" /\ Record(t, d)
    BY <1>1 DEF Sound
  <2> HIDE DEF d
  <2>2. QED
    BY <1>2, <2>1, Recorded
<1>7. Passed' /\ OneBase'
  BY <1>1, <1>6, InvFacts DEF Passed, OneBase, views, marks
<1>8. ASSUME NEW u \in Tasks, u # t PROVE Sound(u)'
  BY <1>1, <1>4, <1>6, <1>8, InvFacts DEF Sound, views, marks
<1>9. Sound(t)'
  BY <1>1, <1>3, <1>4, <1>6 DEF Sound, views, marks, Measuring
<1>10. QED
  BY <1>5, <1>7, <1>8, <1>9

LEMMA MarkKeeps == ASSUME Inv, NEW t \in Tasks, Mark(t)
                   PROVE  Exclusive' /\ Passed' /\ OneBase' /\ \A u \in Tasks : Sound(u)'
<1>1. Go(t, "switch", job[t]) /\ pc[t] = "mark" /\ pc[t] \in Switching /\ "switch" \notin Measuring
      /\ UNCHANGED <<day, views, tables, cut>> /\ t \in Syncs /\ Sound(t)
  BY InvFacts DEF Mark, Switching, Measuring, Sound
<1>2. pc'[t] = "switch" /\ job'[t] = job[t]
      /\ \A u \in Tasks : u # t => pc'[u] = pc[u] /\ job'[u] = job[u]
  BY <1>1, GoMoves DEF Inv
<1>3. Exclusive'
  BY <1>1, StillExclusive
<1>4. Passed' /\ OneBase'
  BY <1>1, InvFacts DEF Sound, Passed, OneBase, views, tables
<1>5. ASSUME NEW u \in Tasks PROVE Sound(u)'
  BY <1>1, <1>2, <1>5, InvFacts DEF Sound, views, tables, Measuring
<1>6. QED
  BY <1>3, <1>4, <1>5

LEMMA RebaseRaisesKeeps == ASSUME Inv, NEW t \in Tasks, RebaseRaises(t)
                           PROVE  Exclusive' /\ Passed' /\ OneBase' /\ \A u \in Tasks : Sound(u)'
<1> DEFINE local == [Resting EXCEPT !.opps = job[t].opps]
<1>1. Go(t, "switch", local) /\ pc[t] \in Switching /\ "switch" \notin Measuring
      /\ UNCHANGED <<day, views, tables, marks>> /\ Sound(t) /\ t \in Syncs
  BY InvFacts DEF RebaseRaises, Switching, Measuring, Sound
<1>2. local.pipe = Nothing /\ ~local.orders /\ local.opps = job[t].opps
  BY DEF Resting
<1> HIDE DEF local
<1>3. Exclusive'
  BY <1>1, StillExclusive
<1>4. Passed' /\ OneBase' /\ \A u \in Tasks : u # t => Sound(u)'
  BY <1>1, StillSound
<1>5. pc'[t] = "switch" /\ job'[t] = local
  BY <1>1, GoMoves DEF Inv
<1>6. Sound(t)'
  BY <1>1, <1>2, <1>5 DEF Sound, Measuring, views
<1>7. QED
  BY <1>3, <1>4, <1>6

\* The photograph taken by the switch, and every later one, is of nt360.
LEMMA SwitchKeeps == ASSUME Inv, NEW t \in Tasks, Switch(t)
                     PROVE  Exclusive' /\ Passed' /\ OneBase' /\ \A u \in Tasks : Sound(u)'
<1>1. pc[t] = "switch" /\ pc[t] \in Switching /\ t \in Syncs /\ Sound(t)
      /\ UNCHANGED <<day, views, flux, pipe, measured, marks>>
  BY InvFacts DEF Switch, Switching, Sound
<1>2. Resting.pipe = Nothing /\ ~Resting.orders /\ ~Resting.opps
  BY DEF Resting
<1>3. CASE cut = 0 /\ job[t].opps
  <2>1. Go(t, "clear", Resting) /\ photos' = [photos EXCEPT ![day] = opps] /\ opps = "nt360"
    BY <1>1, <1>3 DEF Switch, Photograph, Sound
  <2>2. \A d \in Days : /\ photos'[d] = photos[d] \/ photos'[d] = "nt360"
                        /\ d >= day => photos'[d] # "odoo"
    BY <2>1, InvFacts, ConstantsAssumption DEF TypeOK, Days, Nothing
  <2>3. pc'[t] = "clear" /\ job'[t] = Resting
        /\ \A u \in Tasks : u # t => pc'[u] = pc[u] /\ job'[u] = job[u]
    BY <2>1, GoMoves DEF Inv
  <2>4. Exclusive'
    BY <1>1, <2>1, StillExclusive DEF Measuring
  <2>5. Passed' /\ OneBase'
    BY <1>1, <2>2, InvFacts DEF Passed, OneBase, views, marks
  <2>6. ASSUME NEW u \in Tasks, u # t PROVE Sound(u)'
    BY <1>1, <2>2, <2>3, <2>6, InvFacts DEF Sound, views, marks
  <2>7. Sound(t)'
    BY <1>1, <1>2, <2>1, <2>2, <2>3 DEF Sound, views, marks, Measuring
  <2>8. QED
    BY <2>4, <2>5, <2>6, <2>7
<1>4. CASE ~(cut = 0 /\ job[t].opps)
  <2>1. Go(t, "idle", Resting) /\ UNCHANGED <<day, views, tables, marks>>
    BY <1>1, <1>4 DEF Switch, End, tables
  <2>2. Exclusive'
    BY <1>1, <2>1, StillExclusive DEF Switching, Measuring
  <2>3. Passed' /\ OneBase' /\ \A u \in Tasks : u # t => Sound(u)'
    BY <2>1, StillSound
  <2>4. pc'[t] = "idle" /\ job'[t] = Resting
    BY <2>1, GoMoves DEF Inv
  <2>5. Sound(t)'
    BY <1>1, <1>2, <2>4 DEF Sound, Switching, Measuring
  <2>6. QED
    BY <2>2, <2>3, <2>5
<1>5. QED
  BY <1>3, <1>4

LEMMA ClearKeeps == ASSUME Inv, NEW t \in Tasks, Clear(t)
                    PROVE  Exclusive' /\ Passed' /\ OneBase' /\ \A u \in Tasks : Sound(u)'
<1> DEFINE local == [Resting EXCEPT !.until = day]
<1>1. Go(t, "date", local) /\ pc[t] = "clear" /\ pc[t] \in Switching /\ "date" \notin Measuring
      /\ t \in Syncs /\ Sound(t) /\ UNCHANGED <<day, views, photos, flux, marks>>
      /\ measured' \subseteq measured
  BY InvFacts DEF Clear, Switching, Measuring, Sound
<1>2. local.pipe = Nothing /\ ~local.orders /\ ~local.opps /\ local.until = day
  BY DEF Resting
<1> HIDE DEF local
<1>3. \A d \in Days : /\ pipe'[d] = pipe[d] \/ pipe'[d] = Nothing
                      /\ d >= day => pipe'[d] = Nothing
  BY InvFacts DEF Clear, Cleared, TypeOK
<1>4. pc'[t] = "date" /\ job'[t] = local
      /\ \A u \in Tasks : u # t => pc'[u] = pc[u] /\ job'[u] = job[u]
  BY <1>1, GoMoves DEF Inv
<1>5. Exclusive'
  BY <1>1, StillExclusive
<1>6. Passed' /\ OneBase'
  BY <1>1, <1>3, InvFacts DEF Passed, OneBase, views, marks, Nothing
<1>7. ASSUME NEW u \in Tasks, u # t PROVE Sound(u)'
  BY <1>1, <1>3, <1>4, <1>7, InvFacts DEF Sound, views, marks, Nothing
<1>8. Sound(t)'
  BY <1>1, <1>2, <1>3, <1>4 DEF Sound, views, marks, Measuring, Nothing
<1>9. QED
  BY <1>5, <1>6, <1>7, <1>8

LEMMA DateKeeps == ASSUME Inv, NEW t \in Tasks, Date(t)
                   PROVE  Exclusive' /\ Passed' /\ OneBase' /\ \A u \in Tasks : Sound(u)'
<1>1. Go(t, "idle", Resting) /\ pc[t] = "date" /\ pc[t] \in Switching /\ "idle" \notin Measuring
      /\ "idle" \notin Switching /\ Sound(t) /\ UNCHANGED <<day, views, tables, rebased>>
      /\ cut' = job[t].until
  BY InvFacts DEF Date, End, Switching, Measuring
<1>2. Resting.pipe = Nothing /\ ~Resting.orders /\ ~Resting.opps
  BY DEF Resting
<1>3. pc'[t] = "idle" /\ job'[t] = Resting
      /\ \A u \in Tasks : u # t => pc'[u] = pc[u] /\ job'[u] = job[u]
  BY <1>1, GoMoves DEF Inv
<1>4. Exclusive'
  BY <1>1, StillExclusive
<1>5. Passed' /\ OneBase'
  BY <1>1, InvFacts DEF Passed, OneBase, Sound, views, tables
<1>6. ASSUME NEW u \in Tasks, u # t PROVE Sound(u)'
  <2>1. Sound(u) /\ pc[u] \notin Measuring
    BY <1>1, NoneMeasuring, InvFacts
  <2>2. QED
    BY <1>1, <1>3, <1>6, <2>1 DEF Sound, views, tables, Measuring
<1>7. Sound(t)'
  BY <1>1, <1>2, <1>3 DEF Sound
<1>8. QED
  BY <1>4, <1>5, <1>6, <1>7

LEMMA SwitchRaisesKeeps == ASSUME Inv, NEW t \in Tasks, SwitchRaises(t)
                           PROVE  Exclusive' /\ Passed' /\ OneBase' /\ \A u \in Tasks : Sound(u)'
<1>1. Go(t, "idle", Resting) /\ "idle" \notin Measuring /\ "idle" \notin Switching
      /\ UNCHANGED <<day, views, tables, marks>>
  BY DEF SwitchRaises, End, Measuring, Switching
<1>2. Resting.pipe = Nothing /\ ~Resting.orders /\ ~Resting.opps
  BY DEF Resting
<1>3. Exclusive' /\ Passed' /\ OneBase' /\ \A u \in Tasks : u # t => Sound(u)'
  BY <1>1, StillExclusive, StillSound
<1>4. pc'[t] = "idle" /\ job'[t] = Resting
  BY <1>1, GoMoves DEF Inv
<1>5. Sound(t)'
  BY <1>1, <1>2, <1>4 DEF Sound
<1>6. QED
  BY <1>3, <1>5

\* A night passes over a sync: what it must still find without Odoo is of today
\* or later.
LEMMA MidnightKeeps == ASSUME Inv, Midnight
                       PROVE  Exclusive' /\ Passed' /\ OneBase' /\ \A u \in Tasks : Sound(u)'
<1>1. UNCHANGED <<orders, opps, photos, flux, pipe, measured, rebased, cut, pc, job>>
      /\ day' = day + 1 /\ Quiet(Measurers, Measuring)
  BY DEF Midnight, views, tables, marks, Measurers
<1>2. Exclusive' /\ Passed' /\ OneBase'
  BY <1>1 DEF Inv, Exclusive, Passed, OneBase
<1>3. ASSUME NEW u \in Tasks PROVE Sound(u)'
  <2>1. Sound(u) /\ pc[u] \notin Measuring /\ day \in Nat
    BY <1>1, InvFacts DEF Quiet, Sound
  <2>2. pc[u] \in {"clear", "date"} => \A d \in Days : d >= day + 1 => photos[d] # "odoo"
    BY <2>1 DEF Sound, Days
  <2>3. QED
    BY <1>1, <2>1, <2>2 DEF Sound, Measuring
<1>4. QED
  BY <1>2, <1>3

LEMMA CrashKeeps == ASSUME Inv, NEW w \in Workers, Crash(w)
                    PROVE  Exclusive' /\ Passed' /\ OneBase' /\ \A u \in Tasks : Sound(u)'
<1>1. UNCHANGED <<day, orders, opps, photos, flux, pipe, measured, rebased, cut>>
      /\ \A u \in Tasks : \/ pc'[u] = pc[u] /\ job'[u] = job[u]
                          \/ pc'[u] = "idle" /\ job'[u] = Resting
  BY DEF Crash, views, tables, marks
<1>2. "idle" \notin Switching /\ "idle" \notin Measuring
      /\ Resting.pipe = Nothing /\ ~Resting.orders /\ ~Resting.opps
  BY DEF Resting, Switching, Measuring
<1>3. Syncs \subseteq Tasks /\ Measurers \subseteq Tasks
  BY DEF Tasks, Measurers
<1>4. Exclusive' /\ Passed' /\ OneBase'
  BY <1>1, <1>2, <1>3 DEF Inv, Exclusive, Passed, OneBase
<1>5. ASSUME NEW u \in Tasks PROVE Sound(u)'
  <2>1. Sound(u)
    BY InvFacts
  <2>2. CASE pc'[u] = pc[u] /\ job'[u] = job[u]
    BY <1>1, <2>1, <2>2 DEF Sound
  <2>3. CASE pc'[u] = "idle" /\ job'[u] = Resting
    BY <1>2, <2>3 DEF Sound
  <2>4. QED
    BY <1>1, <2>2, <2>3
<1>6. QED
  BY <1>4, <1>5

LEMMA InvStep == Apart /\ Inv /\ [Next]_vars => Inv'
<1> SUFFICES ASSUME Apart, Inv, [Next]_vars PROVE Inv'
  OBVIOUS
<1> DEFINE Kept == Exclusive' /\ Passed' /\ OneBase' /\ \A u \in Tasks : Sound(u)'
<1>1. TypeInv'
  BY TypeStep DEF Inv
<1>2. CASE UNCHANGED vars
  <2>1. \A t \in Tasks : Sound(t)'
    BY <1>2 DEF Inv, Sound, vars
  <2>2. Exclusive' /\ Passed' /\ OneBase'
    BY <1>2 DEF Inv, Exclusive, Passed, OneBase, vars
  <2>3. QED
    BY <1>1, <2>1, <2>2 DEF Inv
<1>3. ASSUME NEW t \in Tasks, Photo(t) \/ Begin(t) \/ Sync(t) \/ RebaseRaises(t) \/ SwitchRaises(t)
      PROVE  Kept
  BY <1>3, PhotoKeeps, BeginKeeps, SyncKeeps, RebaseRaisesKeeps, SwitchRaisesKeeps
<1>4. ASSUME NEW t \in Tasks, Step(t) PROVE Kept
  BY <1>4, FirstNightKeeps, SpareKeeps, RebuildKeeps, RebuiltKeeps, PastKeeps, MeasureKeeps,
     CaptureKeeps, SyncOrdersKeeps, SyncOppsKeeps, RebaseKeeps, WipeKeeps, ReplayKeeps,
     ReplayedKeeps, MarkKeeps, SwitchKeeps, ClearKeeps, DateKeeps
  DEF Step
<1>5. CASE Next
  <2>1. Kept
    BY <1>3, <1>4, <1>5, MidnightKeeps, CrashKeeps DEF Next
  <2>2. QED
    BY <1>1, <2>1 DEF Inv
<1>6. QED
  BY <1>2, <1>5

LEMMA InvInit == Init => Inv
<1> SUFFICES ASSUME Init PROVE Inv
  OBVIOUS
<1>1. \A t \in Tasks : pc[t] = "idle" /\ job[t] = Resting
  BY DEF Init
<1>2. Resting.pipe = Nothing /\ ~Resting.orders /\ ~Resting.opps /\ rebased = FALSE /\ cut = 0
      /\ "idle" \notin Switching /\ "idle" \notin Measuring /\ Syncs \subseteq Tasks
  BY DEF Init, Resting, Switching, Measuring, Tasks
<1>3. Exclusive /\ Passed /\ OneBase
  BY <1>1, <1>2 DEF Exclusive, Passed, OneBase
<1>4. \A t \in Tasks : Sound(t)
  BY <1>1, <1>2 DEF Sound
<1>5. QED
  BY <1>3, <1>4, TypeInit DEF Inv

LEMMA ApartInvariant == ASSUME Apart PROVE Spec => []Inv
<1>1. Inv /\ [Next]_vars => Inv'
  BY InvStep
<1>2. QED
  BY <1>1, InvInit, PTL DEF Spec

\* When no measure or reconstitution runs while a sync does, no comparison ever
\* crosses the passage to nt360 once it is marked, whatever step of any number
\* of syncs failed or crashed.
THEOREM PassageIsClean == Apart /\ Spec => []OneBase
<1>1. Inv => OneBase
  BY DEF Inv
<1>2. Apart => (Spec => []Inv)
  BY ApartInvariant
<1>3. QED
  BY <1>1, <1>2, PTL

\* A measure of a past day is lost to a rebase only.
Kept(m) == m[2] < day /\ m \notin measured' => m[1] = "flux" /\ \E t \in Syncs : pc[t] = "wipe"

LEMMA KeptStep == Inv /\ [Next]_vars => \A m \in measured : Kept(m)
<1> SUFFICES ASSUME Inv, [Next]_vars, NEW m \in measured, m[2] < day, m \notin measured'
             PROVE  m[1] = "flux" /\ \E t \in Syncs : pc[t] = "wipe"
  BY DEF Kept
<1>1. m \in {"flux", "pipe"} \X Days
  BY DEF Inv, TypeInv, TypeOK
<1>2. ASSUME NEW t \in Tasks, Rebuilt(t) PROVE FALSE
  <2>1. pc[t] = "rebuilt" /\ measured' = measured \ Written(t, job[t].at) /\ m \in job[t].spared
    BY <1>2, InvFacts DEF Rebuilt, Sound
  <2>2. m \in Written(t, job[t].at)
    BY <2>1
  <2>3. PICK k \in {"flux", "pipe"} :
          /\ m = <<k, job[t].at>>
          /\ (IF k = "flux" THEN job[t].flux ELSE job[t].pipe) # Nothing
    BY <2>2 DEF Written
  <2>4. QED
    BY <2>1, <2>3, InvFacts DEF Sound
<1>3. ASSUME NEW t \in Tasks, Replayed(t) PROVE FALSE
  <2>1. pc[t] = "replayed" /\ measured' = measured \ Written(t, job[t].at) /\ t \in Syncs
        /\ m[1] # "flux" /\ job[t].pipe = Nothing
    BY <1>3, InvFacts DEF Replayed, Sound, Switching
  <2>2. PICK k \in {"flux", "pipe"} :
          /\ m = <<k, job[t].at>>
          /\ (IF k = "flux" THEN job[t].flux ELSE job[t].pipe) # Nothing
    BY <2>1 DEF Written
  <2>3. QED
    BY <2>1, <2>2
<1>4. ASSUME NEW t \in Tasks, Clear(t) PROVE FALSE
  BY <1>1, <1>4, InvFacts DEF Clear, Days
<1>5. ASSUME NEW t \in Tasks, Wipe(t) PROVE m[1] = "flux" /\ \E u \in Syncs : pc[u] = "wipe"
  BY <1>5, InvFacts DEF Wipe, Sound, Switching
<1>6. ASSUME NEW t \in Tasks, Capture(t) PROVE FALSE
  BY <1>6 DEF Capture
<1>7. QED
  BY <1>2, <1>3, <1>4, <1>5, <1>6
  DEF Next, Step, vars, tables, Photo, Begin, FirstNight, Spare, Rebuild, Past, Measure, Sync, SyncOrders,
      SyncOpps, Rebase, Replay, Mark, RebaseRaises, Switch, Date, SwitchRaises, Midnight, Crash

\* When no measure or reconstitution runs while a sync does, a value measured on
\* its day is never replaced on a later one, except by the rebase.
THEOREM MeasuresStay == Apart /\ Spec => MeasuredKept
<1>1. Apart => (Spec => []Inv)
  BY ApartInvariant
<1>2. Inv /\ [Next]_vars =>
        [\A m \in measured : m[2] < day /\ m \notin measured' =>
           m[1] = "flux" /\ \E t \in Syncs : pc[t] = "wipe"]_vars
  BY KeptStep DEF Kept
<1>3. QED
  BY <1>1, <1>2, PTL DEF Spec, MeasuredKept
=============================================================================
