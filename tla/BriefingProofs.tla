--------------------------- MODULE BriefingProofs ---------------------------
(***************************************************************************)
(* Theorems about Briefing: its types, the locks of refresh, and that the  *)
(* rewriting of the whole file loses no section.                           *)
(***************************************************************************)
EXTENDS Briefing, FiniteSetTheorems, TLAPS

-----------------------------------------------------------------------------
(* Types.                                                                  *)

\* What the coroutines start from is typed.
LEMMA ConstantTypes ==
  /\ First \in [Roles -> Versions] /\ Empty \in [Keys -> Sections] /\ Resting \in Jobs
  /\ Versions \subseteq Sections /\ Missing \in Sections /\ Missing \notin Versions
<1>1. 0 \in Versions /\ Missing \in Sections /\ Missing \notin Versions /\ Versions \subseteq Sections
  BY ConstantsAssumption DEF Versions, Missing, Sections
<1>2. First \in [Roles -> Versions] /\ Empty \in [Keys -> Sections]
  BY <1>1 DEF First, Empty
<1>3. (CHOOSE k \in Roles : TRUE) \in Keys
  BY ConstantsAssumption
<1>4. QED
  BY <1>1, <1>2, <1>3 DEF Resting, Jobs

\* The conjuncts of TypeOK that only say what each variable is.
Plain ==
  /\ settings \in [Roles -> Versions]
  /\ cached \subseteq Workers /\ cache \in [Workers -> [Roles -> Versions]]
  /\ file \in [Keys -> Sections] /\ readable \in BOOLEAN
  /\ locks \in [Workers -> [Keys -> Tasks \cup {NoTask}]]
  /\ pc \in [Tasks -> Stages] /\ job \in [Tasks -> Jobs]
  /\ calls \in 0..MaxCalls /\ fails \in 0..MaxFails

OneWriter ==
  \A t, u \in Tasks : pc[t] = "write" /\ pc[u] = "write" /\ WorkerOf[t] = WorkerOf[u] => t = u

\* A step of one coroutine leaves the others where they are.
LEMMA GoAlone ==
  ASSUME TypeOK, NEW t \in Tasks, NEW stage, NEW local, Go(t, stage, local)
  PROVE  /\ pc'[t] = stage /\ job'[t] = local
         /\ \A u \in Tasks : u # t => pc'[u] = pc[u] /\ job'[u] = job[u]
BY DEF TypeOK, Go

\* It keeps its types, and writes only when its worker is free.
LEMMA GoTyped ==
  ASSUME TypeOK, NEW t \in Tasks, NEW stage \in Stages, NEW local \in Jobs,
         Go(t, stage, local), stage = "write" => Free(t)
  PROVE  pc' \in [Tasks -> Stages] /\ job' \in [Tasks -> Jobs] /\ OneWriter'
<1>1. pc' \in [Tasks -> Stages] /\ job' \in [Tasks -> Jobs]
  BY DEF TypeOK, Go
<1>2. OneWriter'
  <2> SUFFICES ASSUME NEW u \in Tasks, NEW v \in Tasks, pc'[u] = "write",
                      pc'[v] = "write", WorkerOf[u] = WorkerOf[v]
               PROVE  u = v
    BY DEF OneWriter
  <2>1. CASE u # t /\ v # t
    BY <2>1, GoAlone DEF TypeOK
  <2>2. CASE u = t \/ v = t
    BY <2>2, GoAlone DEF Free
  <2>3. QED
    BY <2>1, <2>2
<1>3. QED
  BY <1>1, <1>2

LEMMA EndTyped ==
  ASSUME TypeOK, NEW t \in Tasks, End(t)
  PROVE  /\ pc' \in [Tasks -> Stages] /\ job' \in [Tasks -> Jobs] /\ OneWriter'
         /\ locks' \in [Workers -> [Keys -> Tasks \cup {NoTask}]]
<1>1. "idle" \in Stages
  BY DEF Stages
<1>2. WorkerOf[t] \in Workers
  BY ConstantsAssumption
<1>3. Unlocked(t) \in [Keys -> Tasks \cup {NoTask}]
  BY <1>2 DEF TypeOK, Unlocked
<1>4. QED
  BY <1>1, <1>2, <1>3, ConstantTypes, GoTyped DEF End, TypeOK

LEMMA DropTyped ==
  ASSUME TypeOK, NEW w \in Workers, Drop(w)
  PROVE  cached' \subseteq Workers /\ cache' \in [Workers -> [Roles -> Versions]]
BY ConstantTypes DEF TypeOK, Drop

\* Failed sections are counted.
LEMMA FailedFinite ==
  ASSUME NEW F \in SUBSET Keys
  PROVE  Cardinality(F) \in Nat /\ (Cardinality(F) = 0 => F = {})
<1>1. IsFiniteSet(F)
  BY ConstantsAssumption, FS_Subset
<1>2. QED
  BY <1>1, FS_CardinalityType, FS_EmptySet

LEMMA UnderTyped ==
  ASSUME TypeOK, NEW t \in Tasks
  PROVE  Under(t) \in [Keys -> Sections] /\ Loaded \in [Keys -> Sections]
BY ConstantTypes DEF TypeOK, Under, Loaded, Jobs

\* The payload of a generation: new sections over what was there.
Composed(t, F) ==
  [k \in Keys |-> IF k \in job[t].keys \ F THEN job[t].settings[RoleOf[k]]
                  ELSE Under(t)[k]]

LEMMA ComposedTyped ==
  ASSUME TypeOK, NEW t \in Tasks, NEW F
  PROVE  /\ Composed(t, F) \in [Keys -> Sections]
         /\ [Resting EXCEPT !.lock = job[t].lock, !.payload = Composed(t, F)] \in Jobs
<1>1. job[t] \in Jobs
  BY DEF TypeOK
<1>2. ASSUME NEW k \in Keys
      PROVE  job[t].settings[RoleOf[k]] \in Sections /\ Under(t)[k] \in Sections
  BY <1>1, ConstantTypes, ConstantsAssumption, UnderTyped DEF Jobs
<1>3. Composed(t, F) \in [Keys -> Sections]
  BY <1>2 DEF Composed
<1>4. QED
  BY <1>1, <1>3, ConstantTypes DEF Jobs

LEMMA InitTyped == Init => TypeOK
<1> SUFFICES ASSUME Init PROVE TypeOK
  OBVIOUS
<1>1. "idle" \in Stages /\ "idle" # "write"
  BY DEF Stages
<1>2. calls \in 0..MaxCalls /\ fails \in 0..MaxFails
  BY ConstantsAssumption DEF Init
<1>3. QED
  BY <1>1, <1>2, ConstantTypes DEF Init, TypeOK

\* Every step of a coroutine keeps the types.
LEMMA StepTyped ==
  ASSUME TypeOK, NEW t \in Tasks, Generate(t) \/ Step(t)
  PROVE  TypeOK'
<1> DEFINE w == WorkerOf[t]
           l == job[t]
<1>w. w \in Workers
  BY ConstantsAssumption
<1>l. l \in Jobs /\ l.lock \in Keys
  BY DEF TypeOK, Jobs
<1>s. Stages = {"idle", "invalidate", "lock", "load", "fill", "build", "write"}
  BY DEF Stages
<1>1. CASE Generate(t)
  <2>1. [Resting EXCEPT !.keys = Keys] \in Jobs
    BY ConstantTypes DEF Jobs
  <2>2. pc' \in [Tasks -> Stages] /\ job' \in [Tasks -> Jobs] /\ OneWriter'
    BY <1>1, <1>s, <2>1, GoTyped DEF Generate
  <2>3. QED
    BY <1>1, <2>2 DEF Generate, TypeOK, OneWriter, stored
<1>2. CASE Invalidate(t)
  <2>1. pc' \in [Tasks -> Stages] /\ job' \in [Tasks -> Jobs] /\ OneWriter'
    BY <1>2, <1>s, <1>l, GoTyped DEF Invalidate
  <2>2. QED
    BY <1>2, <1>w, <2>1, DropTyped DEF Invalidate, TypeOK, OneWriter, stored
<1>3. CASE Lock(t)
  <2>1. CASE Go(t, "idle", Resting) /\ UNCHANGED locks
    <3>1. pc' \in [Tasks -> Stages] /\ job' \in [Tasks -> Jobs] /\ OneWriter'
      BY <1>s, <2>1, ConstantTypes, GoTyped
    <3>2. QED
      BY <1>3, <2>1, <3>1 DEF Lock, TypeOK, OneWriter, stored
  <2>2. CASE ~ (Go(t, "idle", Resting) /\ UNCHANGED locks)
    <3> DEFINE p == IF l.lock \in Roles THEN l.payload ELSE Loaded
               m == [l EXCEPT !.payload = p]
    <3>1. p \in [Keys -> Sections]
      BY <1>l, UnderTyped DEF Jobs
    <3> HIDE DEF p
    <3>2. m \in Jobs
      BY <3>1, <1>l DEF Jobs
    <3>3. Go(t, "load", m) /\ locks' = [locks EXCEPT ![w][l.lock] = t]
      BY <1>3, <2>2 DEF Lock, p
    <3>4. pc' \in [Tasks -> Stages] /\ job' \in [Tasks -> Jobs] /\ OneWriter'
      BY <1>s, <3>2, <3>3, GoTyped
    <3>5. locks' \in [Workers -> [Keys -> Tasks \cup {NoTask}]]
      BY <3>3, <1>w, <1>l DEF TypeOK
    <3>6. QED
      BY <1>3, <3>4, <3>5 DEF Lock, TypeOK, OneWriter, stored
  <2>3. QED
    BY <2>1, <2>2
<1>4. CASE Load(t)
  <2>1. /\ [l EXCEPT !.settings = cache[w]] \in Jobs
        /\ [l EXCEPT !.settings = settings] \in Jobs
    BY <1>l, <1>w DEF TypeOK, Jobs
  <2>2. pc' \in [Tasks -> Stages] /\ job' \in [Tasks -> Jobs] /\ OneWriter'
    BY <1>4, <1>s, <2>1, GoTyped DEF Load
  <2>3. QED
    BY <1>4, <2>2 DEF Load, TypeOK, OneWriter, stored
<1>5. CASE Fill(t)
  <2>1. pc' \in [Tasks -> Stages] /\ job' \in [Tasks -> Jobs] /\ OneWriter'
    BY <1>5, <1>s, <1>l, GoTyped DEF Fill
  <2>2. cached' \subseteq Workers /\ cache' \in [Workers -> [Roles -> Versions]]
    BY <1>5, <1>w, <1>l DEF Fill, TypeOK, Jobs
  <2>3. QED
    BY <1>5, <2>1, <2>2 DEF Fill, TypeOK, OneWriter, stored
<1>6. CASE Save(t)
  <2>1. PICK F \in SUBSET l.keys :
          /\ fails' = fails + Cardinality(F) /\ fails' <= MaxFails
          /\ \/ End(t) /\ UNCHANGED readable
             \/ /\ Go(t, "write", [Resting EXCEPT !.lock = l.lock, !.payload = Composed(t, F)])
                /\ readable' = FALSE /\ UNCHANGED locks
    BY <1>6 DEF Save, Composed
  <2>2. fails' \in 0..MaxFails
    <3>1. F \in SUBSET Keys
      BY <1>l DEF Jobs
    <3>2. Cardinality(F) \in Nat
      BY <3>1, FailedFinite
    <3>3. QED
      BY <2>1, <3>2, ConstantsAssumption DEF TypeOK
  <2>3. Free(t) /\ UNCHANGED <<settings, file, cached, cache, calls>>
    BY <1>6 DEF Save, At
  <2>4. CASE End(t) /\ UNCHANGED readable
    BY <2>2, <2>3, <2>4, EndTyped DEF TypeOK, OneWriter
  <2>5. CASE ~ (End(t) /\ UNCHANGED readable)
    <3> DEFINE m == [Resting EXCEPT !.lock = l.lock, !.payload = Composed(t, F)]
    <3>1. Go(t, "write", m) /\ readable' = FALSE /\ UNCHANGED locks
      BY <2>1, <2>5
    <3>2. m \in Jobs
      BY ComposedTyped
    <3> HIDE DEF m
    <3>3. pc' \in [Tasks -> Stages] /\ job' \in [Tasks -> Jobs] /\ OneWriter'
      BY <1>s, <2>3, <3>1, <3>2, GoTyped
    <3>4. QED
      BY <2>2, <2>3, <3>1, <3>3 DEF TypeOK, OneWriter
  <2>6. QED
    BY <2>4, <2>5
<1>7. CASE Write(t)
  <2>1. file' \in [Keys -> Sections] /\ readable' \in BOOLEAN
    BY <1>7, <1>l DEF Write, Jobs
  <2>2. QED
    BY <1>7, <2>1, EndTyped DEF Write, TypeOK, OneWriter
<1>8. QED
  BY <1>1, <1>2, <1>3, <1>4, <1>5, <1>6, <1>7 DEF Step

\* The requests of users, the expiry of a cache and a restart keep the types.
LEMMA NextTyped == TypeOK /\ [Next]_vars => TypeOK'
<1> SUFFICES ASSUME TypeOK, [Next]_vars PROVE TypeOK'
  OBVIOUS
<1>s. Stages = {"idle", "invalidate", "lock", "load", "fill", "build", "write"}
  BY DEF Stages
<1>1. ASSUME NEW t \in Tasks, Generate(t) \/ Step(t) PROVE TypeOK'
  BY <1>1, StepTyped
<1>2. ASSUME NEW t \in Users, NEW r \in Changing, Put(t, r) PROVE TypeOK'
  <2>1. t \in Tasks /\ r \in Roles /\ job[t] \in Jobs
    BY ConstantsAssumption DEF Tasks, TypeOK
  <2>2. settings' \in [Roles -> Versions]
    BY <1>2, <2>1, ConstantsAssumption DEF Put, TypeOK, Versions
  <2>3. pc' \in [Tasks -> Stages] /\ job' \in [Tasks -> Jobs] /\ OneWriter'
    BY <1>2, <1>s, <2>1, GoTyped DEF Put
  <2>4. QED
    BY <1>2, <2>2, <2>3 DEF Put, TypeOK, OneWriter
<1>3. ASSUME NEW t \in Users, NEW k \in Keys, Request(t, k) PROVE TypeOK'
  <2> DEFINE ks == Asked(k)
  <2>1. t \in Tasks
    BY DEF Tasks
  <2>2. ks \in SUBSET Keys
    BY DEF Asked
  <2> HIDE DEF ks
  <2>3. [Resting EXCEPT !.lock = k, !.keys = ks] \in Jobs
    BY <2>2, ConstantTypes DEF Jobs
  <2>4. Go(t, "lock", [Resting EXCEPT !.lock = k, !.keys = ks])
    BY <1>3 DEF Request, ks
  <2>5. pc' \in [Tasks -> Stages] /\ job' \in [Tasks -> Jobs] /\ OneWriter'
    BY <1>s, <2>1, <2>3, <2>4, GoTyped
  <2>6. calls' \in 0..MaxCalls
    BY <1>3, ConstantsAssumption DEF Request, TypeOK
  <2>7. QED
    BY <1>3, <2>5, <2>6 DEF Request, TypeOK, OneWriter, stored
<1>4. ASSUME NEW w \in Workers, Expire(w) PROVE TypeOK'
  BY <1>4, DropTyped DEF Expire, TypeOK, stored
<1>5. ASSUME NEW w \in Workers, Crash(w) PROVE TypeOK'
  <2>1. pc' \in [Tasks -> Stages] /\ job' \in [Tasks -> Jobs]
    BY <1>5, <1>s, ConstantTypes DEF Crash, TypeOK
  <2>2. OneWriter'
    BY <1>5 DEF Crash, TypeOK, OneWriter
  <2>3. locks' \in [Workers -> [Keys -> Tasks \cup {NoTask}]]
    BY <1>5 DEF Crash, TypeOK
  <2>4. fails' \in 0..MaxFails
    BY <1>5, ConstantsAssumption DEF Crash, TypeOK
  <2>5. QED
    BY <1>5, <2>1, <2>2, <2>3, <2>4, DropTyped DEF Crash, TypeOK, OneWriter, stored
<1>6. CASE UNCHANGED vars
  BY <1>6 DEF vars, TypeOK
<1>7. QED
  BY <1>1, <1>2, <1>3, <1>4, <1>5, <1>6 DEF Next

\* The settings, the caches, the file and the coroutines keep their types, and
\* no two coroutines of a worker are ever writing the file at once.
THEOREM TypeCorrect == Spec => []TypeOK
BY InitTyped, NextTyped, PTL DEF Spec

-----------------------------------------------------------------------------
(* The locks of refresh.                                                   *)

Building == {"load", "fill", "build", "write"}

\* From the acquisition to the release of the lock, its holder is the request.
LockInv ==
  \A t \in Users : pc[t] \in Building => locks[WorkerOf[t]][job[t].lock] = t

\* A step that leaves the locks alone, takes no request into a generation and
\* changes the lock of none that is in one.
LEMMA LocksStay ==
  ASSUME LockInv, locks' = locks,
         \A t \in Users : pc'[t] \in Building
                            => pc[t] \in Building /\ job'[t].lock = job[t].lock
  PROVE  LockInv'
BY DEF LockInv

\* The end of a request only frees what it holds.
LEMMA EndUnlocks ==
  ASSUME TypeOK, LockInv, NEW t \in Tasks, End(t)
  PROVE  LockInv'
<1> SUFFICES ASSUME NEW u \in Users, pc'[u] \in Building
             PROVE  locks'[WorkerOf[u]][job'[u].lock] = u
  BY DEF LockInv
<1>1. u \in Tasks /\ WorkerOf[u] \in Workers /\ WorkerOf[t] \in Workers
  BY ConstantsAssumption DEF Tasks
<1>2. u # t
  BY GoAlone DEF End, Building
<1>3. pc'[u] = pc[u] /\ job'[u] = job[u]
  BY <1>1, <1>2, GoAlone DEF End
<1>4. locks[WorkerOf[u]][job[u].lock] = u /\ job[u].lock \in Keys
  BY <1>1, <1>3 DEF LockInv, TypeOK, Jobs
<1>5. locks'[WorkerOf[u]] = IF WorkerOf[u] = WorkerOf[t] THEN Unlocked(t)
                            ELSE locks[WorkerOf[u]]
  BY <1>1 DEF End, TypeOK
<1>6. QED
  BY <1>2, <1>3, <1>4, <1>5 DEF Unlocked

LEMMA LockStep == TypeOK /\ LockInv /\ [Next]_vars => LockInv'
<1> SUFFICES ASSUME TypeOK, LockInv, [Next]_vars PROVE LockInv'
  OBVIOUS
<1>0. /\ \A t \in Users : t \in Tasks /\ t \notin Nightly
      /\ Building = {"load", "fill", "build", "write"}
  BY ConstantsAssumption DEF Tasks, Building
<1>1. ASSUME NEW t \in Tasks, Generate(t) PROVE LockInv'
  <2>1. t \notin Users /\ locks' = locks
    BY <1>0, <1>1 DEF Generate
  <2>2. \A u \in Users : pc'[u] = pc[u] /\ job'[u] = job[u]
    BY <1>0, <1>1, <2>1, GoAlone DEF Generate
  <2>3. QED
    BY <2>1, <2>2, LocksStay
<1>2. ASSUME NEW t \in Tasks, Invalidate(t) PROVE LockInv'
  BY <1>0, <1>2, GoAlone, LocksStay DEF Invalidate
<1>3. ASSUME NEW t \in Tasks, Lock(t) PROVE LockInv'
  <2>1. CASE Go(t, "idle", Resting) /\ UNCHANGED locks
    BY <1>0, <2>1, GoAlone, LocksStay
  <2>2. CASE ~ (Go(t, "idle", Resting) /\ UNCHANGED locks)
    <3> DEFINE k == job[t].lock
               w == WorkerOf[t]
    <3>1. PICK m : Go(t, "load", m) /\ m.lock = k
      <4>1. Go(t, "load", [job[t] EXCEPT !.payload =
                             IF job[t].lock \in Roles THEN @ ELSE Loaded])
        BY <1>3, <2>2 DEF Lock
      <4>2. job[t] \in Jobs
        BY DEF TypeOK
      <4>3. \A p : [job[t] EXCEPT !.payload = p].lock = job[t].lock
        BY <4>2 DEF Jobs
      <4>4. QED
        BY <4>1, <4>3
    <3>2. locks' = [locks EXCEPT ![w][k] = t] /\ locks[w][k] = NoTask
      BY <1>3, <2>2 DEF Lock, Lockable
    <3>3. w \in Workers /\ k \in Keys
      BY ConstantsAssumption DEF TypeOK, Jobs
    <3> HIDE DEF k, w
    <3>4. locks'[w][k] = t
      BY <3>2, <3>3 DEF TypeOK
    <3>5. ASSUME NEW u \in Users, pc'[u] \in Building
          PROVE  locks'[WorkerOf[u]][job'[u].lock] = u
      <4>1. CASE u = t
        BY <4>1, <3>1, <3>4, GoAlone DEF w
      <4>2. CASE u # t
        <5>1. pc'[u] = pc[u] /\ job'[u] = job[u] /\ u \in Tasks
          BY <1>0, <4>2, <3>1, GoAlone
        <5>2. locks[WorkerOf[u]][job[u].lock] = u /\ job[u].lock \in Keys
              /\ WorkerOf[u] \in Workers
          BY <5>1, <3>5, ConstantsAssumption DEF LockInv, TypeOK, Jobs
        <5>3. ~ (WorkerOf[u] = w /\ job[u].lock = k)
          BY <5>1, <5>2, <3>2, ConstantsAssumption
        <5>4. locks'[WorkerOf[u]][job[u].lock] = locks[WorkerOf[u]][job[u].lock]
          BY <5>2, <5>3, <3>2, <3>3 DEF TypeOK
        <5>5. QED
          BY <5>1, <5>2, <5>4
      <4>3. QED
        BY <4>1, <4>2
    <3>6. QED
      BY <3>5 DEF LockInv
  <2>3. QED
    BY <2>1, <2>2
<1>4. ASSUME NEW t \in Tasks, Load(t) PROVE LockInv'
  <2>1. \A s : [job[t] EXCEPT !.settings = s].lock = job[t].lock
    BY DEF TypeOK, Jobs
  <2>2. pc[t] = "load" /\ locks' = locks
    BY <1>4 DEF Load, At
  <2>3. PICK stage, m : Go(t, stage, m) /\ m.lock = job[t].lock
    BY <1>4, <2>1 DEF Load
  <2>4. job'[t].lock = job[t].lock
        /\ \A u \in Tasks : u # t => pc'[u] = pc[u] /\ job'[u] = job[u]
    BY <2>3, GoAlone
  <2>5. QED
    BY <1>0, <2>2, <2>4, LocksStay
<1>5. ASSUME NEW t \in Tasks, Fill(t) PROVE LockInv'
  <2>1. pc[t] = "fill" /\ locks' = locks /\ job'[t] = job[t]
        /\ \A u \in Tasks : u # t => pc'[u] = pc[u] /\ job'[u] = job[u]
    BY <1>5, GoAlone DEF Fill, At
  <2>2. QED
    BY <1>0, <2>1, LocksStay
<1>6. ASSUME NEW t \in Tasks, Save(t) PROVE LockInv'
  <2>1. CASE End(t)
    BY <2>1, EndUnlocks
  <2>2. CASE ~ End(t)
    <3>1. PICK F \in SUBSET job[t].keys :
            /\ Go(t, "write", [Resting EXCEPT !.lock = job[t].lock, !.payload = Composed(t, F)])
            /\ UNCHANGED locks
      BY <1>6, <2>2 DEF Save, Composed
    <3>2. \A p : [Resting EXCEPT !.lock = job[t].lock, !.payload = p].lock = job[t].lock
      BY DEF Resting
    <3>3. pc[t] = "build"
      BY <1>6 DEF Save, At
    <3>4. job'[t] = [Resting EXCEPT !.lock = job[t].lock, !.payload = Composed(t, F)]
          /\ \A u \in Tasks : u # t => pc'[u] = pc[u] /\ job'[u] = job[u]
      BY <3>1, GoAlone
    <3>5. job'[t].lock = job[t].lock
      BY <3>2, <3>4
    <3>6. QED
      BY <1>0, <3>1, <3>3, <3>4, <3>5, LocksStay
  <2>3. QED
    BY <2>1, <2>2
<1>7. ASSUME NEW t \in Tasks, Write(t) PROVE LockInv'
  BY <1>7, EndUnlocks DEF Write
<1>8. ASSUME NEW t \in Users, NEW r \in Changing, Put(t, r) PROVE LockInv'
  BY <1>0, <1>8, GoAlone, LocksStay DEF Put
<1>9. ASSUME NEW t \in Users, NEW k \in Keys, Request(t, k) PROVE LockInv'
  BY <1>0, <1>9, GoAlone, LocksStay DEF Request
<1>10. ASSUME NEW w \in Workers, Crash(w) PROVE LockInv'
  <2> SUFFICES ASSUME NEW t \in Users, pc'[t] \in Building
               PROVE  locks'[WorkerOf[t]][job'[t].lock] = t
    BY DEF LockInv
  <2>1. WorkerOf[t] # w /\ pc'[t] = pc[t] /\ job'[t] = job[t]
    BY <1>0, <1>10 DEF Crash
  <2>2. WorkerOf[t] \in Workers
    BY <1>0, ConstantsAssumption
  <2>3. locks'[WorkerOf[t]] = locks[WorkerOf[t]]
    BY <1>10, <2>1, <2>2 DEF Crash, TypeOK
  <2>4. QED
    BY <2>1, <2>3 DEF LockInv
<1>11. CASE UNCHANGED <<locks, pc, job>>
  BY <1>11 DEF LockInv
<1>12. QED
  BY <1>1, <1>2, <1>3, <1>4, <1>5, <1>6, <1>7, <1>8, <1>9, <1>10, <1>11
  DEF Next, Step, Expire, vars

LEMMA InitLock == Init => LockInv
BY DEF Init, LockInv, Building, Tasks

\* However many requests wait in a worker, those that build a section at once
\* are a refresh of its role and a request of its entity: any other two have
\* their sections behind the same lock (_lock_for, service.py:38-41).
THEOREM TurnsTaken == Spec => []RequestsTakeTurns
<1>1. TypeOK /\ LockInv => RequestsTakeTurns
  <2> SUFFICES ASSUME TypeOK, LockInv, NEW t \in Users, NEW u \in Users,
                      pc[t] \in Building, pc[u] \in Building,
                      WorkerOf[t] = WorkerOf[u],
                      Asked(job[t].lock) \cap Asked(job[u].lock) # {},
                      job[t].lock \in Roles <=> job[u].lock \in Roles
               PROVE  t = u
    BY DEF RequestsTakeTurns, Building
  <2>1. job[t].lock = job[u].lock
    BY DEF Asked
  <2>2. QED
    BY <2>1 DEF LockInv
<1>2. QED
  BY <1>1, InitLock, LockStep, TypeCorrect, PTL DEF Spec

-----------------------------------------------------------------------------
(* The rewriting of the file.                                              *)

Covers(payload) == \A k \in Keys : file[k] # Missing => payload[k] # Missing

\* A night takes no lock and builds every section.
Night(stage, local) ==
  stage # "lock" /\ (stage \in {"load", "fill", "build"} => local.keys = Keys)

\* While the file is cut, some coroutine holds at least the sections it had.
\* A refresh that finds it cut starts from nothing, so the one that can answer
\* for the sections is not always the last to write.
FileInv ==
  /\ \A t \in Nightly : Night(pc[t], job[t])
  /\ fails = 0 /\ ~ readable =>
       \/ file = Empty
       \/ \E t \in Tasks : pc[t] = "write" /\ Covers(job[t].payload)

\* A step that writes nothing, and takes no writer away, keeps the file covered.
LEMMA FileStays ==
  ASSUME FileInv, file' = file, readable' = readable,
         fails' = 0 => fails = 0,
         \A t \in Tasks : fails' = 0 /\ pc[t] = "write" => pc'[t] = "write" /\ job'[t] = job[t],
         \A t \in Nightly : Night(pc'[t], job'[t])
  PROVE  FileInv'
BY DEF FileInv, Covers, Night

\* A coroutine that does not begin a write.
LEMMA FileGo ==
  ASSUME TypeOK, FileInv, NEW t \in Tasks, NEW stage, NEW local, Go(t, stage, local),
         pc[t] # "write", file' = file, readable' = readable, fails' = 0 => fails = 0,
         t \in Nightly => Night(stage, local)
  PROVE  FileInv'
<1>1. \A u \in Tasks : u # t => pc'[u] = pc[u] /\ job'[u] = job[u]
  BY GoAlone
<1>2. pc'[t] = stage /\ job'[t] = local
  BY GoAlone
<1>3. \A u \in Nightly : u \in Tasks
  BY DEF Tasks
<1>4. \A u \in Nightly : Night(pc'[u], job'[u])
  BY <1>1, <1>2, <1>3 DEF FileInv
<1>5. QED
  BY <1>1, <1>4, FileStays

\* A generation with no failed section covers the file it reads; when it reads
\* a cut one, the coroutine that cut it still does.
LEMMA SaveCovers ==
  ASSUME TypeOK, FileInv, NEW t \in Tasks, Save(t)
  PROVE  FileInv'
<1> DEFINE l == job[t]
<1>0. l \in Jobs /\ pc[t] = "build" /\ file' = file /\ l.keys \subseteq Keys
  BY DEF TypeOK, Save, At, Jobs
<1>1. PICK F \in SUBSET l.keys :
        /\ fails' = fails + Cardinality(F)
        /\ IF t \in Users /\ l.lock \in F THEN End(t) /\ UNCHANGED readable
           ELSE /\ Go(t, "write", [Resting EXCEPT !.lock = l.lock, !.payload = Composed(t, F)])
                /\ readable' = FALSE
  BY DEF Save, Composed
<1>2. Cardinality(F) \in Nat /\ (Cardinality(F) = 0 => F = {})
  BY <1>0, FailedFinite
<1>3. fails' = 0 => fails = 0 /\ F = {}
  BY <1>1, <1>2 DEF TypeOK
<1>4. CASE t \in Users /\ l.lock \in F
  <2>1. Go(t, "idle", Resting) /\ readable' = readable /\ Night("idle", Resting)
    BY <1>1, <1>4 DEF End, Night
  <2>2. QED
    BY <1>0, <1>3, <2>1, FileGo
<1>5. CASE ~ (t \in Users /\ l.lock \in F)
  <2> DEFINE p == Composed(t, F)
             m == [Resting EXCEPT !.lock = l.lock, !.payload = p]
  <2>1. m.payload = p
    BY DEF Resting
  <2>2. pc'[t] = "write" /\ job'[t] = m /\ readable' = FALSE
        /\ \A u \in Tasks : u # t => pc'[u] = pc[u] /\ job'[u] = job[u]
    BY <1>1, <1>5, GoAlone
  <2> HIDE DEF m
  <2>3. \A u \in Nightly : Night(pc'[u], job'[u])
    BY <2>2 DEF FileInv, Night, Tasks
  <2>4. ASSUME fails' = 0
        PROVE  file' = Empty \/ \E u \in Tasks : pc'[u] = "write" /\ Covers(job[u].payload)'
    <3>1. CASE readable \/ t \in Nightly
      <4>1. ASSUME NEW k \in Keys, file[k] # Missing PROVE p[k] # Missing
        <5>1. l.settings[RoleOf[k]] # Missing
          BY <1>0, ConstantTypes, ConstantsAssumption DEF Jobs
        <5>2. CASE k \in l.keys
          BY <5>1, <5>2, <1>3, <2>4 DEF Composed
        <5>3. CASE k \notin l.keys
          <6>1. t \notin Nightly
            BY <5>3, <1>0 DEF FileInv, Night
          <6>2. Under(t) = file
            BY <6>1, <3>1 DEF Under, Loaded
          <6>3. QED
            BY <4>1, <5>3, <6>2 DEF Composed
        <5>4. QED
          BY <5>2, <5>3
      <4>2. Covers(job[t].payload)'
        BY <4>1, <2>1, <2>2, <1>0 DEF Covers
      <4>3. QED
        BY <4>2, <2>2
    <3>2. CASE ~ readable
      <4>1. file = Empty \/ \E u \in Tasks : pc[u] = "write" /\ Covers(job[u].payload)
        BY <1>3, <2>4, <3>2 DEF FileInv
      <4>2. \A u \in Tasks : pc[u] = "write" => pc'[u] = "write" /\ job'[u] = job[u]
        BY <1>0, <2>2
      <4>3. QED
        BY <4>1, <4>2, <1>0 DEF Covers, Empty
    <3>3. QED
      BY <3>1, <3>2
  <2>5. QED
    BY <2>3, <2>4 DEF FileInv, Night
<1>6. QED
  BY <1>4, <1>5

LEMMA FileStep == TypeOK /\ FileInv /\ [Next]_vars => FileInv'
<1> SUFFICES ASSUME TypeOK, FileInv, [Next]_vars PROVE FileInv'
  OBVIOUS
<1>0. /\ \A t \in Users : t \in Tasks /\ t \notin Nightly
      /\ \A t \in Nightly : t \in Tasks
  BY ConstantsAssumption DEF Tasks
<1>k. \A t \in Nightly : Night(pc[t], job[t])
  BY DEF FileInv
<1>n. \A local : Night("idle", local) /\ Night("invalidate", local) /\ Night("write", local)
  BY DEF Night
<1>1. ASSUME NEW t \in Tasks, Generate(t) PROVE FileInv'
  <2>1. [Resting EXCEPT !.keys = Keys].keys = Keys
    BY DEF Resting
  <2>2. QED
    BY <1>1, <2>1, FileGo DEF Generate, At, stored, Night
<1>2. ASSUME NEW t \in Tasks, Invalidate(t) PROVE FileInv'
  BY <1>n, <1>2, FileGo DEF Invalidate, At, stored
<1>3. ASSUME NEW t \in Tasks, Lock(t) PROVE FileInv'
  <2>1. file' = file /\ readable' = readable /\ fails' = fails /\ pc[t] = "lock"
    BY <1>3 DEF Lock, At, stored
  <2>2. CASE t \in Nightly
    <3>1. FALSE
      BY <1>k, <2>1, <2>2 DEF Night
    <3>2. QED
      BY <3>1
  <2>3. CASE t \notin Nightly
    BY <1>3, <2>1, <2>3, FileGo DEF Lock
  <2>4. QED
    BY <2>2, <2>3
<1>4. ASSUME NEW t \in Tasks, Load(t) PROVE FileInv'
  <2>1. \A s : [job[t] EXCEPT !.settings = s].keys = job[t].keys
    BY DEF TypeOK, Jobs
  <2>2. file' = file /\ readable' = readable /\ fails' = fails /\ pc[t] = "load"
    BY <1>4 DEF Load, At, stored
  <2>3. t \in Nightly => job[t].keys = Keys
    BY <1>k, <2>2 DEF Night
  <2>4. QED
    BY <1>4, <2>1, <2>2, <2>3, FileGo DEF Load, Night
<1>5. ASSUME NEW t \in Tasks, Fill(t) PROVE FileInv'
  <2>1. file' = file /\ readable' = readable /\ fails' = fails /\ pc[t] = "fill"
    BY <1>5 DEF Fill, At, stored
  <2>2. QED
    BY <1>5, <1>k, <2>1, FileGo DEF Fill, Night
<1>6. ASSUME NEW t \in Tasks, Save(t) PROVE FileInv'
  BY <1>6, SaveCovers
<1>7. ASSUME NEW t \in Tasks, Write(t) PROVE FileInv'
  <2>1. readable' = TRUE /\ Go(t, "idle", Resting)
    BY <1>7 DEF Write, End
  <2>2. \A u \in Nightly : Night(pc'[u], job'[u])
    BY <1>0, <1>k, <1>n, <2>1, GoAlone
  <2>3. QED
    BY <2>1, <2>2 DEF FileInv, Night
<1>8. ASSUME NEW t \in Users, NEW r \in Changing, Put(t, r) PROVE FileInv'
  BY <1>0, <1>8, FileGo DEF Put, At
<1>9. ASSUME NEW t \in Users, NEW k \in Keys, Request(t, k) PROVE FileInv'
  BY <1>0, <1>9, FileGo DEF Request, At, stored
<1>10. ASSUME NEW w \in Workers, Crash(w) PROVE FileInv'
  <2>1. fails' # 0
    BY <1>10 DEF Crash, TypeOK
  <2>2. \A u \in Nightly : Night(pc'[u], job'[u])
    BY <1>0, <1>k, <1>n, <1>10 DEF Crash
  <2>3. QED
    BY <2>1, <2>2 DEF FileInv, Night
<1>11. CASE UNCHANGED <<stored, pc, job, fails>>
  BY <1>0, <1>k, <1>11, FileStays DEF stored
<1>12. QED
  BY <1>1, <1>2, <1>3, <1>4, <1>5, <1>6, <1>7, <1>8, <1>9, <1>10, <1>11
  DEF Next, Step, Expire, vars, stored

LEMMA InitFile == Init => FileInv
BY DEF Init, FileInv, Night, Tasks

\* As long as no section failed, no worker died and no two workers wrote at
\* once, each generation keeps every section the file had, however many
\* refreshes, nights and changes of settings it overlapped
\* (generate_role, service.py:182-185).
THEOREM SectionsKept == Spec => NoSectionLost
<1>1. ASSUME TypeOK, FileInv, Next, fails = 0,
             \A t \in Tasks : pc[t] = "write" /\ pc'[t] # "write" => Alone(t),
             NEW k \in Keys, file[k] # Missing
      PROVE  file'[k] # Missing
  <2>1. CASE file' = file
    BY <1>1, <2>1
  <2>2. CASE file' # file
    <3>1. PICK t \in Tasks : Write(t)
      BY <1>1, <2>2 DEF Next, Step, Generate, Invalidate, Lock, Load, Fill, Save, Put,
         Request, Expire, Crash, stored
    <3>2. pc[t] = "write" /\ pc'[t] = "idle" /\ file' = job[t].payload
      BY <1>1, <3>1, GoAlone DEF Write, End
    <3>3. Alone(t)
      BY <1>1, <3>2
    <3>4. file # Empty
      BY <1>1 DEF Empty
    <3>5. PICK u \in Tasks : pc[u] = "write" /\ Covers(job[u].payload)
      BY <1>1, <3>3, <3>4 DEF FileInv, Alone
    <3>6. u = t
      BY <3>3, <3>5 DEF Alone
    <3>7. QED
      BY <1>1, <3>2, <3>5, <3>6 DEF Covers
  <2>3. QED
    BY <2>1, <2>2
<1>2. TypeOK /\ FileInv /\ [Next]_vars =>
        [/\ fails = 0
         /\ \A t \in Tasks : pc[t] = "write" /\ pc'[t] # "write" => Alone(t)
         => \A k \in Keys : file[k] # Missing => file'[k] # Missing]_vars
  BY <1>1
<1>3. Spec => [](TypeOK /\ FileInv)
  BY InitFile, FileStep, TypeCorrect, PTL DEF Spec
<1>4. QED
  BY <1>2, <1>3, PTL DEF Spec, NoSectionLost
=============================================================================
