--------------------------- MODULE AccountsProofs ---------------------------
(***************************************************************************)
(* Theorems about Accounts: its types, that an active administrator is     *)
(* left unless two requests raced, and that a worker serves an outdated    *)
(* right only where OwnChangesSeen allows it.                              *)
(***************************************************************************)
EXTENDS Accounts, TLAPS

-----------------------------------------------------------------------------
(* Types.                                                                  *)

\* A request that goes on to a known stage with typed local variables keeps
\* the types of all requests.
LEMMA GoTyped ==
  ASSUME TypeOK, NEW t \in Tasks, NEW stage \in Stages, NEW local \in Jobs,
         Go(t, stage, local)
  PROVE  pc' \in [Tasks -> Stages] /\ job' \in [Tasks -> Jobs]
BY DEF TypeOK, Go

\* The blank local variables are typed.
LEMMA IdleJobTyped == IdleJob \in Jobs
BY ConstantsAssumption DEF IdleJob, Jobs

\* Ending a request keeps the types.
LEMMA DoneTyped ==
  ASSUME TypeOK, NEW t \in Tasks, Done(t)
  PROVE  pc' \in [Tasks -> Stages] /\ job' \in [Tasks -> Jobs]
<1>1. "idle" \in Stages
  BY DEF Stages
<1>2. QED
  BY <1>1, IdleJobTyped, GoTyped DEF Done

\* Entering a route leads to one of its stages.
LEMMA EnteredTyped ==
  ASSUME NEW r, NEW me
  PROVE  Entered(r, me) \in {"idle", "rights", "payload", "row", "wipe", "load"}
BY DEF Entered

LEMMA EnterTyped ==
  ASSUME TypeOK, NEW t \in Tasks, NEW me, Enter(t, me)
  PROVE  pc' \in [Tasks -> Stages] /\ job' \in [Tasks -> Jobs]
<1>1. Entered(job[t].req, me) \in Stages
  BY EnteredTyped DEF Stages
<1>2. job[t] \in Jobs
  BY DEF TypeOK
<1>3. QED
  BY <1>1, <1>2, GoTyped, DoneTyped DEF Enter

LEMMA InformedTyped ==
  ASSUME TypeOK, NEW t \in Tasks, NEW matrix, Informed(t, matrix)
  PROVE  pc' \in [Tasks -> Stages] /\ job' \in [Tasks -> Jobs]
<1>1. "row" \in Stages
  BY DEF Stages
<1>2. [job[t] EXCEPT !.matrix = {}] \in Jobs
  BY DEF TypeOK, Jobs
<1>3. QED
  BY <1>1, <1>2, GoTyped, DoneTyped DEF Informed

\* The history variable only names workers and entries.
LEMMA FillTyped ==
  ASSUME TypeOK, NEW w \in Workers, NEW key \in Users \cup {"matrix"}, NEW current,
         Fill(w, key, current)
  PROVE  excused' \subseteq Workers \X (Users \cup {"matrix"})
BY DEF TypeOK, Fill

LEMMA OvertakeTyped ==
  ASSUME TypeOK, NEW w, NEW key \in Users \cup {"matrix"}, Overtake(w, key)
  PROVE  excused' \subseteq Workers \X (Users \cup {"matrix"})
BY DEF TypeOK, Overtake

LEMMA RaceTyped ==
  ASSUME TypeOK, NEW t, Race(t)
  PROVE  raced' \in BOOLEAN
BY DEF TypeOK, Race

\* What an UPDATE leaves in an existing row is an account, even when the
\* coroutine loaded a row that is no account any more.
LEMMA PatchedTyped ==
  ASSUME NEW now \in Accounts, NEW u \in Accounts \cup {Absent, Gone}, NEW r \in Requests
  PROVE  Updated(now, u, Applied(u, r)) \in Accounts
<1> DEFINE new == Applied(u, r)
           a == IF new.active = u.active THEN now.active ELSE new.active
           o == IF new.role = u.role THEN now.role ELSE new.role
<1>1. u.active \in BOOLEAN
  <2>1. CASE u \in Accounts
    BY <2>1 DEF Accounts
  <2>2. CASE u = Absent
    BY <2>2 DEF Absent
  <2>3. CASE u = Gone
    BY <2>3 DEF Gone
  <2>4. QED
    BY <2>1, <2>2, <2>3
<1>2. new.active \in BOOLEAN
  BY <1>1 DEF Applied
<1>3. a \in BOOLEAN
  BY <1>2 DEF Accounts
<1>4. o \in Roles
  <2>1. CASE r.role = "keep"
    BY <2>1 DEF Accounts, Applied
  <2>2. CASE r.role # "keep"
    BY <2>2 DEF Accounts, Applied, Requests
  <2>3. QED
    BY <2>1, <2>2
<1>5. Updated(now, u, new) = [role |-> o, active |-> a]
  BY DEF Updated
<1> HIDE DEF a, o
<1>6. QED
  BY <1>3, <1>4, <1>5 DEF Accounts

LEMMA InitTyped == Init => TypeOK
<1> SUFFICES ASSUME Init PROVE TypeOK
  OBVIOUS
<1>1. requests \in 0..MaxRequests
  BY ConstantsAssumption DEF Init
<1>2. "idle" \in Stages
  BY DEF Stages
<1>3. QED
  BY <1>1, <1>2, IdleJobTyped, ConstantsAssumption DEF Init, TypeOK

\* Every step of a request keeps the types.
LEMMA StepTyped ==
  ASSUME TypeOK, NEW t \in Tasks, Step(t)
  PROVE  TypeOK'
<1> DEFINE w == WorkerOf[t]
           r == job[t].req
<1>w. w \in Workers
  BY ConstantsAssumption
<1>j. job[t] \in Jobs /\ r \in Requests /\ r.target \in Users /\ r.actor \in Users
      /\ r.cell \in Cells
  BY ConstantsAssumption DEF TypeOK, Jobs, Requests
<1>a. r \in Asks
  BY DEF TypeOK, Jobs
<1>s. Stages = Stages' /\ Jobs = Jobs'
  BY DEF Stages, Jobs
<1>1. CASE AuthHit(t)
  <2>1. pc' \in [Tasks -> Stages] /\ job' \in [Tasks -> Jobs]
    BY <1>1, EnterTyped DEF AuthHit
  <2>2. QED
    BY <1>1, <2>1 DEF AuthHit, TypeOK, tables, caches
<1>2. CASE AuthRead(t)
  <2>1. [job[t] EXCEPT !.user = users[r.actor]] \in Jobs
    BY <1>j DEF TypeOK, Jobs
  <2>2. "authFill" \in Stages
    BY DEF Stages
  <2>3. pc' \in [Tasks -> Stages] /\ job' \in [Tasks -> Jobs]
    BY <1>2, <2>1, <2>2, GoTyped DEF AuthRead
  <2>4. QED
    BY <1>2, <2>3 DEF AuthRead, TypeOK, tables, caches
<1>3. CASE AuthFill(t)
  <2>1. CASE job[t].user.active
    <3>1. job[t].user \in Accounts
      BY <2>1, <1>j DEF Jobs, Absent, Gone
    <3>2. pc' \in [Tasks -> Stages] /\ job' \in [Tasks -> Jobs]
      BY <1>3, <2>1, EnterTyped DEF AuthFill
    <3>3. excused' \subseteq Workers \X (Users \cup {"matrix"})
      BY <1>3, <1>w, <1>j, <2>1, FillTyped DEF AuthFill
    <3>4. userCache' \in [Workers -> [Users -> Accounts \cup {NoEntry}]]
      <4> DEFINE row == job[t].user
                 u == r.actor
      <4>1. userCache' = [userCache EXCEPT ![w][u] = row]
        BY <1>3, <2>1 DEF AuthFill
      <4>2. row \in Accounts /\ u \in Users
        BY <3>1, <1>j
      <4>3. userCache \in [Workers -> [Users -> Accounts \cup {NoEntry}]]
        BY DEF TypeOK
      <4> HIDE DEF row, u
      <4>4. QED
        BY <4>1, <4>2, <4>3, <1>w
    <3>5. QED
      BY <1>3, <3>2, <3>3, <3>4 DEF AuthFill, TypeOK, tables
  <2>2. CASE ~ job[t].user.active
    <3>1. pc' \in [Tasks -> Stages] /\ job' \in [Tasks -> Jobs]
      BY <1>3, <2>2, DoneTyped DEF AuthFill
    <3>2. QED
      BY <1>3, <2>2, <3>1 DEF AuthFill, TypeOK, tables
  <2>3. QED
    BY <2>1, <2>2
<1>4. CASE MatrixHit(t)
  <2>1. pc' \in [Tasks -> Stages] /\ job' \in [Tasks -> Jobs]
    BY <1>4, InformedTyped DEF MatrixHit
  <2>2. QED
    BY <1>4, <2>1 DEF MatrixHit, TypeOK, tables, caches
<1>5. CASE MatrixRead(t)
  <2>1. [job[t] EXCEPT !.matrix = Effective(overrides)] \in Jobs
    BY <1>j DEF Jobs, Effective
  <2>2. {"rightsFill", "payloadFill"} \subseteq Stages
    BY DEF Stages
  <2>3. pc' \in [Tasks -> Stages] /\ job' \in [Tasks -> Jobs]
    BY <1>5, <2>1, <2>2, GoTyped DEF MatrixRead
  <2>4. QED
    BY <1>5, <2>3 DEF MatrixRead, TypeOK, tables, caches
<1>6. CASE MatrixFill(t)
  <2>1. pc' \in [Tasks -> Stages] /\ job' \in [Tasks -> Jobs]
    BY <1>6, InformedTyped DEF MatrixFill
  <2>2. excused' \subseteq Workers \X (Users \cup {"matrix"})
    BY <1>6, <1>w, FillTyped DEF MatrixFill
  <2>3. matrixCache' \in [Workers -> (SUBSET Cells) \cup {NoMatrix}]
    BY <1>6, <1>j DEF MatrixFill, TypeOK, Jobs
  <2>4. QED
    BY <1>6, <2>1, <2>2, <2>3 DEF MatrixFill, TypeOK, tables
<1>7. CASE Load(t)
  <2>1. [job[t] EXCEPT !.user = users[r.target]] \in Jobs
    BY <1>j DEF TypeOK, Jobs
  <2>2. {"count", "write"} \subseteq Stages
    BY DEF Stages
  <2>3. pc' \in [Tasks -> Stages] /\ job' \in [Tasks -> Jobs]
    BY <1>7, <2>1, <2>2, GoTyped, DoneTyped DEF Load
  <2>4. QED
    BY <1>7, <2>3 DEF Load, TypeOK, tables, caches
<1>8. CASE Count(t)
  <2>1. "write" \in Stages
    BY DEF Stages
  <2>2. pc' \in [Tasks -> Stages] /\ job' \in [Tasks -> Jobs]
    BY <1>8, <1>j, <2>1, GoTyped, DoneTyped DEF Count
  <2>3. QED
    BY <1>8, <2>2 DEF Count, TypeOK, tables, caches
<1>9. CASE WriteUpdate(t)
  <2>1. "refresh" \in Stages
    BY DEF Stages
  <2>2. pc' \in [Tasks -> Stages] /\ job' \in [Tasks -> Jobs]
    BY <1>9, <1>j, <2>1, GoTyped, DoneTyped DEF WriteUpdate
  <2>3. CASE NoChange
    BY <1>9, <2>2, <2>3 DEF WriteUpdate, NoChange, TypeOK, tables
  <2>4. CASE ~ NoChange
    <3> DEFINE new == Applied(job[t].user, r)
               now == users[r.target]
    <3>1. /\ new # job[t].user /\ now \in Accounts
          /\ users' = [users EXCEPT ![r.target] = Updated(now, job[t].user, new)]
          /\ Overtake(w, r.target) /\ overrides' = overrides
      BY <1>9, <2>4 DEF WriteUpdate
    <3>2. excused' \subseteq Workers \X (Users \cup {"matrix"})
      BY <3>1, <1>j, OvertakeTyped
    <3>3. Updated(now, job[t].user, new) \in Accounts
      <4>1. now \in Accounts /\ job[t].user \in Accounts \cup {Absent, Gone}
        BY <3>1, <1>j DEF Jobs
      <4>2. QED
        BY <4>1, <1>j, PatchedTyped
    <3>4. users' \in [Users -> Accounts \cup {Absent, Gone}]
      BY <3>1, <3>3, <1>j DEF TypeOK
    <3>5. raced' \in BOOLEAN
      BY <1>9, <2>4, RaceTyped DEF WriteUpdate
    <3>6. QED
      BY <1>9, <2>2, <3>1, <3>2, <3>4, <3>5 DEF WriteUpdate, TypeOK
  <2>5. QED
    BY <2>3, <2>4
<1>10. CASE WriteDelete(t)
  <2>1. "forget" \in Stages
    BY DEF Stages
  <2>2. pc' \in [Tasks -> Stages] /\ job' \in [Tasks -> Jobs]
    BY <1>10, <1>j, <2>1, GoTyped DEF WriteDelete
  <2>3. excused' \subseteq Workers \X (Users \cup {"matrix"})
    BY <1>10, <1>j, OvertakeTyped DEF WriteDelete
  <2>4. users' \in [Users -> Accounts \cup {Absent, Gone}]
    BY <1>10, <1>j DEF WriteDelete, TypeOK
  <2>5. raced' \in BOOLEAN
    BY <1>10, RaceTyped DEF WriteDelete
  <2>6. QED
    BY <1>10, <2>2, <2>3, <2>4, <2>5 DEF WriteDelete, TypeOK
<1>11. CASE WriteCreate(t)
  <2>1. pc' \in [Tasks -> Stages] /\ job' \in [Tasks -> Jobs]
    BY <1>11, DoneTyped DEF WriteCreate
  <2>2. [role |-> r.role, active |-> TRUE] \in Accounts
    BY <1>11, <1>a, <1>j, ConstantsAssumption DEF WriteCreate, Accounts, Requests
  <2>3. QED
    BY <1>11, <2>1, <2>2, <1>j DEF WriteCreate, TypeOK, caches
<1>12. CASE Refresh(t)
  <2>1. pc' \in [Tasks -> Stages] /\ job' \in [Tasks -> Jobs]
    BY <1>12, DoneTyped DEF Refresh
  <2>2. userCache' \in [Workers -> [Users -> Accounts \cup {NoEntry}]]
    BY <1>12, <1>w, <1>j DEF Refresh, Forgotten, TypeOK
  <2>3. QED
    BY <1>12, <2>1, <2>2 DEF Refresh, TypeOK, tables
<1>13. CASE Forget(t)
  <2>1. pc' \in [Tasks -> Stages] /\ job' \in [Tasks -> Jobs]
    BY <1>13, DoneTyped DEF Forget
  <2>2. userCache' \in [Workers -> [Users -> Accounts \cup {NoEntry}]]
    BY <1>13, <1>w, <1>j DEF Forget, Forgotten, TypeOK
  <2>3. QED
    BY <1>13, <2>1, <2>2 DEF Forget, TypeOK, tables
<1>14. CASE LoadCell(t)
  <2>1. [job[t] EXCEPT !.row = overrides[r.cell]] \in Jobs
    BY <1>j DEF TypeOK, Jobs
  <2>2. "writeRow" \in Stages
    BY DEF Stages
  <2>3. pc' \in [Tasks -> Stages] /\ job' \in [Tasks -> Jobs]
    BY <1>14, <2>1, <2>2, GoTyped DEF LoadCell
  <2>4. QED
    BY <1>14, <2>3 DEF LoadCell, TypeOK, tables, caches
<1>15. CASE WriteCell(t)
  <2>1. "announce" \in Stages
    BY DEF Stages
  <2>2. pc' \in [Tasks -> Stages] /\ job' \in [Tasks -> Jobs]
    BY <1>15, <1>j, <2>1, GoTyped, DoneTyped DEF WriteCell
  <2>3. CASE NoChange
    BY <1>15, <2>2, <2>3 DEF WriteCell, NoChange, TypeOK, tables
  <2>4. CASE ~ NoChange
    <3>1. excused' \subseteq Workers \X (Users \cup {"matrix"})
      BY <1>15, <2>4, OvertakeTyped DEF WriteCell
    <3>2. overrides' \in [Cells -> {"default", "on", "off"}]
      BY <1>15, <2>4, <1>j DEF WriteCell, TypeOK
    <3>3. QED
      BY <1>15, <2>2, <2>4, <3>1, <3>2 DEF WriteCell, TypeOK
  <2>5. QED
    BY <2>3, <2>4
<1>16. CASE Wipe(t)
  <2>1. "announce" \in Stages
    BY DEF Stages
  <2>2. pc' \in [Tasks -> Stages] /\ job' \in [Tasks -> Jobs]
    BY <1>16, <1>j, <2>1, GoTyped DEF Wipe
  <2>3. excused' \subseteq Workers \X (Users \cup {"matrix"})
    BY <1>16, OvertakeTyped DEF Wipe
  <2>4. QED
    BY <1>16, <2>2, <2>3 DEF Wipe, TypeOK
<1>17. CASE Announce(t)
  <2>1. "payload" \in Stages
    BY DEF Stages
  <2>2. pc' \in [Tasks -> Stages] /\ job' \in [Tasks -> Jobs]
    BY <1>17, <1>j, <2>1, GoTyped DEF Announce
  <2>3. matrixCache' \in [Workers -> (SUBSET Cells) \cup {NoMatrix}]
    BY <1>17, <1>w DEF Announce, TypeOK
  <2>4. QED
    BY <1>17, <2>2, <2>3 DEF Announce, TypeOK, tables
<1>18. QED
  BY <1>1, <1>2, <1>3, <1>4, <1>5, <1>6, <1>7, <1>8, <1>9, <1>10, <1>11, <1>12,
     <1>13, <1>14, <1>15, <1>16, <1>17 DEF Step

\* A new request, the expiry of an entry and a restart keep the types.
LEMMA NextTyped == TypeOK /\ [Next]_vars => TypeOK'
<1> SUFFICES ASSUME TypeOK, [Next]_vars PROVE TypeOK'
  OBVIOUS
<1>1. ASSUME NEW t \in Tasks, NEW r \in Asks, Arrive(t, r) PROVE TypeOK'
  <2>1. [IdleJob EXCEPT !.req = r] \in Jobs
    BY IdleJobTyped DEF Jobs
  <2>2. "auth" \in Stages
    BY DEF Stages
  <2>3. pc' \in [Tasks -> Stages] /\ job' \in [Tasks -> Jobs]
    BY <1>1, <2>1, <2>2, GoTyped DEF Arrive
  <2>4. requests' \in 0..MaxRequests
    BY <1>1, ConstantsAssumption DEF Arrive, TypeOK
  <2>5. QED
    BY <1>1, <2>3, <2>4 DEF Arrive, TypeOK, tables, caches
<1>2. ASSUME NEW t \in Tasks, Step(t) PROVE TypeOK'
  BY <1>2, StepTyped
<1>3. ASSUME NEW w \in Workers, Crash(w) PROVE TypeOK'
  <2>1. "idle" \in Stages
    BY DEF Stages
  <2>2. pc' \in [Tasks -> Stages] /\ job' \in [Tasks -> Jobs]
    BY <1>3, <2>1, IdleJobTyped DEF Crash, TypeOK
  <2>3. userCache' \in [Workers -> [Users -> Accounts \cup {NoEntry}]]
    BY <1>3 DEF Crash, TypeOK
  <2>4. matrixCache' \in [Workers -> (SUBSET Cells) \cup {NoMatrix}]
    BY <1>3 DEF Crash, TypeOK
  <2>5. excused' \subseteq Workers \X (Users \cup {"matrix"})
    BY <1>3 DEF Crash, TypeOK
  <2>6. QED
    BY <1>3, <2>2, <2>3, <2>4, <2>5 DEF Crash, TypeOK, tables
<1>4. ASSUME NEW w \in Workers, ExpireMatrix(w) PROVE TypeOK'
  <2>1. matrixCache' \in [Workers -> (SUBSET Cells) \cup {NoMatrix}]
    BY <1>4 DEF ExpireMatrix, TypeOK
  <2>2. QED
    BY <1>4, <2>1 DEF ExpireMatrix, TypeOK, tables
<1>5. ASSUME NEW w \in Workers, NEW u \in Users, ExpireUser(w, u) PROVE TypeOK'
  <2>1. userCache' \in [Workers -> [Users -> Accounts \cup {NoEntry}]]
    BY <1>5 DEF ExpireUser, TypeOK
  <2>2. QED
    BY <1>5, <2>1 DEF ExpireUser, TypeOK, tables
<1>6. CASE UNCHANGED vars
  BY <1>6 DEF vars, TypeOK
<1>7. QED
  BY <1>1, <1>2, <1>3, <1>4, <1>5, <1>6 DEF Next

\* Accounts, caches and requests keep their types, for any number of accounts,
\* roles, views, workers and requests.
THEOREM TypeCorrect == Spec => []TypeOK
<1>1. QED
  BY InitTyped, NextTyped, PTL DEF Spec

-----------------------------------------------------------------------------
(* The last administrator.  LastAdmin is not inductive: what matters is    *)
(* what a request knows when it is about to take rights away, whether it   *)
(* has counted the administrators or loaded an account that was none, and  *)
(* that only a race can make this knowledge stale.                         *)

HasAdmin == \E u \in Users : IsAdmin(users[u])

Checked(t) ==
  pc[t] = "write" /\ Lowering(job[t].req) => OtherAdmin(job[t].req.target)

AdminInv == raced \/ (HasAdmin /\ \A t \in Tasks : Checked(t))

\* At the start no request runs and the assumption gives an administrator.
LEMMA InitAdmin == Init => AdminInv
BY ConstantsAssumption DEF Init, AdminInv, HasAdmin, Checked

\* A step that leaves the accounts alone keeps what the others know, if its
\* own request reaches a write with the knowledge it needs.
LEMMA CalmStep ==
  ASSUME TypeOK, AdminInv, NEW t \in Tasks, NEW stage, NEW local,
         Go(t, stage, local), users' = users, raced' = raced,
         stage = "write" /\ Lowering(local.req) => raced \/ OtherAdmin(local.req.target)
  PROVE  AdminInv'
<1>1. CASE raced
  BY <1>1 DEF AdminInv
<1>2. CASE ~ raced
  <2>1. HasAdmin'
    BY <1>2 DEF AdminInv, HasAdmin
  <2>2. ASSUME NEW x \in Tasks PROVE Checked(x)'
    <3>1. CASE x = t
      <4>1. pc'[x] = stage /\ job'[x] = local
        BY <3>1 DEF TypeOK, Go
      <4>2. QED
        BY <4>1, <1>2 DEF Checked, OtherAdmin
    <3>2. CASE x # t
      <4>1. pc'[x] = pc[x] /\ job'[x] = job[x] /\ Checked(x)
        BY <3>2, <1>2 DEF TypeOK, Go, AdminInv
      <4>2. QED
        BY <4>1 DEF Checked, OtherAdmin
    <3>3. QED
      BY <3>1, <3>2
  <2>3. QED
    BY <2>1, <2>2 DEF AdminInv
<1>3. QED
  BY <1>1, <1>2

\* A write that takes an administrator away leaves the one its request knows
\* of, unless another such write is pending, which is a race.
LEMMA WriteStep ==
  ASSUME TypeOK, AdminInv, NEW t \in Tasks, NEW stage, NEW local,
         Go(t, stage, local), stage # "write", pc[t] = "write", Race(t),
         NEW u \in Users, NEW new, users' = [users EXCEPT ![u] = new],
         IsAdmin(users[u]) /\ ~ IsAdmin(new) =>
           Lowering(job[t].req) /\ job[t].req.target = u
  PROVE  AdminInv'
<1>u. /\ users'[u] = new
      /\ \A v \in Users : v # u => users'[v] = users[v]
  BY DEF TypeOK
<1>o. ASSUME NEW x \in Tasks, x # t PROVE pc'[x] = pc[x] /\ job'[x] = job[x]
  BY <1>o DEF TypeOK, Go
<1>t. Checked(t)'
  BY DEF TypeOK, Go, Checked
<1>1. CASE raced'
  BY <1>1 DEF AdminInv
<1>2. CASE ~ raced' /\ IsAdmin(users[u]) /\ ~ IsAdmin(new)
  <2>1. ~ raced /\ \A x \in Tasks \ {t} : ~ (pc[x] = "write" /\ Lowering(job[x].req))
    BY <1>2, <1>u DEF Race
  <2>2. OtherAdmin(u)
    BY <1>2, <2>1 DEF AdminInv, Checked
  <2>3. HasAdmin'
    BY <2>2, <1>u DEF OtherAdmin, HasAdmin
  <2>4. ASSUME NEW x \in Tasks, x # t PROVE Checked(x)'
    BY <2>1, <2>4, <1>o DEF Checked
  <2>5. QED
    BY <2>3, <2>4, <1>t DEF AdminInv
<1>3. CASE ~ raced' /\ ~ (IsAdmin(users[u]) /\ ~ IsAdmin(new))
  <2>1. ASSUME NEW v \in Users, IsAdmin(users[v]) PROVE IsAdmin(users'[v])
    BY <1>3, <1>u, <2>1
  <2>2. HasAdmin /\ \A x \in Tasks : Checked(x)
    BY <1>3 DEF AdminInv, Race
  <2>3. HasAdmin'
    BY <2>1, <2>2 DEF HasAdmin
  <2>4. ASSUME NEW x \in Tasks, x # t PROVE Checked(x)'
    BY <2>1, <2>2, <2>4, <1>o DEF Checked, OtherAdmin
  <2>5. QED
    BY <2>3, <2>4, <1>t DEF AdminInv
<1>4. QED
  BY <1>1, <1>2, <1>3

\* No route starts at a write, and the matrix does not lead to one.
LEMMA EnterCalm ==
  ASSUME TypeOK, AdminInv, NEW t \in Tasks, NEW me, Enter(t, me),
         users' = users, raced' = raced
  PROVE  AdminInv'
<1> DEFINE next == Entered(job[t].req, me)
<1>1. next \in {"idle", "rights", "payload", "row", "wipe", "load"}
  BY EnteredTyped
<1>2. CASE next = "idle"
  BY <1>2, CalmStep DEF Enter, Done
<1>3. CASE next # "idle"
  <2>1. Go(t, next, job[t])
    BY <1>3 DEF Enter
  <2> HIDE DEF next
  <2>2. QED
    BY <2>1, <1>1, CalmStep
<1>4. QED
  BY <1>2, <1>3

LEMMA InformedCalm ==
  ASSUME TypeOK, AdminInv, NEW t \in Tasks, NEW matrix, Informed(t, matrix),
         users' = users, raced' = raced
  PROVE  AdminInv'
<1>1. CASE Done(t)
  BY <1>1, CalmStep DEF Done
<1>2. CASE ~ Done(t)
  <2>1. Go(t, "row", [job[t] EXCEPT !.matrix = {}])
    BY <1>2 DEF Informed
  <2>2. QED
    BY <2>1, CalmStep
<1>3. QED
  BY <1>1, <1>2

\* Only a request that lowers can turn an administrator into something else.
LEMMA OnlyLowering ==
  ASSUME NEW now, NEW u, NEW r \in Requests, IsAdmin(now), ~ Lowering(r), r.op = "update"
  PROVE  IsAdmin(Updated(now, u, Applied(u, r)))
<1> DEFINE new == Applied(u, r)
<1>1. r.role \in {"keep", "admin"} /\ r.active \in {"keep", "on"}
  BY DEF Lowering, Requests
<1>2. new.role = u.role \/ new.role = "admin"
  BY <1>1 DEF Applied
<1>3. new.active = u.active \/ new.active
  BY <1>1 DEF Applied
<1>4. Updated(now, u, new).role = "admin"
  BY <1>2 DEF Updated, IsAdmin
<1>5. Updated(now, u, new).active
  BY <1>3 DEF Updated, IsAdmin
<1>6. QED
  BY <1>4, <1>5 DEF IsAdmin

\* Every step of a request keeps the administrator and what is checked.
LEMMA StepAdmin ==
  ASSUME TypeOK, AdminInv, NEW t \in Tasks, Step(t)
  PROVE  AdminInv'
<1> DEFINE r == job[t].req
<1>j. job[t] \in Jobs /\ r \in Requests /\ r.target \in Users
  BY ConstantsAssumption DEF TypeOK, Jobs, Requests
<1>1. CASE AuthHit(t)
  BY <1>1, EnterCalm DEF AuthHit, tables
<1>2. CASE AuthRead(t)
  BY <1>2, CalmStep DEF AuthRead, tables
<1>3. CASE AuthFill(t)
  <2>1. CASE job[t].user.active
    BY <1>3, <2>1, EnterCalm DEF AuthFill, tables
  <2>2. CASE ~ job[t].user.active
    BY <1>3, <2>2, CalmStep DEF AuthFill, Done, tables
  <2>3. QED
    BY <2>1, <2>2
<1>4. CASE MatrixHit(t)
  BY <1>4, InformedCalm DEF MatrixHit, tables
<1>5. CASE MatrixRead(t)
  <2> DEFINE stage == IF pc[t] = "rights" THEN "rightsFill" ELSE "payloadFill"
  <2>1. /\ Go(t, stage, [job[t] EXCEPT !.matrix = Effective(overrides)])
        /\ users' = users /\ raced' = raced
    BY <1>5 DEF MatrixRead, tables
  <2>2. stage # "write"
    OBVIOUS
  <2> HIDE DEF stage
  <2>3. QED
    BY <2>1, <2>2, CalmStep
<1>6. CASE MatrixFill(t)
  BY <1>6, InformedCalm DEF MatrixFill, tables
<1>7. CASE Load(t)
  <2> DEFINE got == users[r.target]
             local == [job[t] EXCEPT !.user = got]
  <2>1. CASE Done(t)
    BY <1>7, <2>1, CalmStep DEF Load, Done, tables
  <2>2. CASE ~ Done(t)
    <3>1. PICK stage \in {"count", "write"} :
            Go(t, stage, local) /\ (stage = "write" =>
              ~ (r.op = "update" /\ Losing(got, r)) /\ ~ (r.op = "delete" /\ IsAdmin(got)))
      BY <1>7, <2>2 DEF Load
    <3>2. local.req = r
      BY <1>j DEF Jobs
    <3>3. stage = "write" /\ Lowering(r) => raced \/ OtherAdmin(r.target)
      <4>1. SUFFICES ASSUME stage = "write", Lowering(r), ~ raced PROVE OtherAdmin(r.target)
        OBVIOUS
      <4>2. ~ IsAdmin(got)
        BY <3>1, <4>1 DEF Lowering, Losing
      <4>3. QED
        BY <4>1, <4>2 DEF AdminInv, HasAdmin, OtherAdmin
    <3>4. users' = users /\ raced' = raced
      BY <1>7 DEF Load, tables
    <3> HIDE DEF local
    <3>5. QED
      BY <3>1, <3>2, <3>3, <3>4, CalmStep
  <2>3. QED
    BY <2>1, <2>2
<1>8. CASE Count(t)
  <2>1. CASE ~ OtherAdmin(r.target)
    BY <1>8, <2>1, CalmStep DEF Count, Done, tables
  <2>2. CASE OtherAdmin(r.target)
    BY <1>8, <2>2, CalmStep DEF Count, tables
  <2>3. QED
    BY <2>1, <2>2
<1>9. CASE WriteUpdate(t)
  <2> DEFINE u == r.target
             new == Updated(users[u], job[t].user, Applied(job[t].user, r))
  <2>1. CASE NoChange
    BY <1>9, <2>1, CalmStep DEF WriteUpdate, NoChange, tables, Done
  <2>2. CASE ~ NoChange
    <3>1. /\ users' = [users EXCEPT ![u] = new] /\ Race(t)
          /\ Go(t, "refresh", job[t]) /\ pc[t] = "write" /\ r.op = "update"
      BY <1>9, <2>2 DEF WriteUpdate
    <3>2. IsAdmin(users[u]) /\ ~ IsAdmin(new) => Lowering(r)
      BY <3>1, <1>j, OnlyLowering
    <3> HIDE DEF new
    <3>3. QED
      BY <3>1, <3>2, <1>j, WriteStep
  <2>3. QED
    BY <2>1, <2>2
<1>10. CASE WriteDelete(t)
  <2>1. /\ users' = [users EXCEPT ![r.target] = Gone] /\ Race(t)
        /\ Go(t, "forget", job[t]) /\ pc[t] = "write" /\ Lowering(r)
    BY <1>10 DEF WriteDelete, Lowering
  <2>2. QED
    BY <2>1, <1>j, WriteStep
<1>11. CASE WriteCreate(t)
  <2>1. raced' = raced /\ pc[t] = "write" /\ Go(t, "idle", IdleJob)
    BY <1>11 DEF WriteCreate, Done
  <2>2. ASSUME NEW v \in Users, IsAdmin(users[v]) PROVE IsAdmin(users'[v])
    BY <1>11, <2>2, <1>j DEF WriteCreate, IsAdmin, Absent, TypeOK
  <2>3. CASE raced
    BY <2>1, <2>3 DEF AdminInv
  <2>4. CASE ~ raced
    <3>1. HasAdmin'
      BY <2>2, <2>4 DEF AdminInv, HasAdmin
    <3>2. ASSUME NEW x \in Tasks PROVE Checked(x)'
      <4>1. CASE x = t
        BY <4>1, <2>1 DEF TypeOK, Go, Checked
      <4>2. CASE x # t
        <5>1. pc'[x] = pc[x] /\ job'[x] = job[x] /\ Checked(x)
          BY <4>2, <2>1, <2>4 DEF TypeOK, Go, AdminInv
        <5>2. QED
          BY <5>1, <2>2 DEF Checked, OtherAdmin
      <4>3. QED
        BY <4>1, <4>2
    <3>3. QED
      BY <3>1, <3>2 DEF AdminInv
  <2>5. QED
    BY <2>3, <2>4
<1>12. CASE Refresh(t)
  BY <1>12, CalmStep DEF Refresh, Done, tables
<1>13. CASE Forget(t)
  BY <1>13, CalmStep DEF Forget, Done, tables
<1>14. CASE LoadCell(t)
  BY <1>14, CalmStep DEF LoadCell, tables
<1>15. CASE WriteCell(t)
  <2>1. users' = users /\ raced' = raced
    BY <1>15 DEF WriteCell, NoChange, tables
  <2>2. CASE Done(t)
    BY <2>1, <2>2, CalmStep DEF Done
  <2>3. CASE ~ Done(t)
    <3>1. Go(t, "announce", job[t])
      BY <1>15, <2>3 DEF WriteCell
    <3>2. QED
      BY <2>1, <3>1, CalmStep
  <2>4. QED
    BY <2>2, <2>3
<1>16. CASE Wipe(t)
  BY <1>16, CalmStep DEF Wipe
<1>17. CASE Announce(t)
  BY <1>17, CalmStep DEF Announce, tables
<1>18. QED
  BY <1>1, <1>2, <1>3, <1>4, <1>5, <1>6, <1>7, <1>8, <1>9, <1>10, <1>11, <1>12,
     <1>13, <1>14, <1>15, <1>16, <1>17 DEF Step

\* Arrivals, caches and restarts do not touch the accounts.
LEMMA NextAdmin == TypeOK /\ AdminInv /\ [Next]_vars => AdminInv'
<1> SUFFICES ASSUME TypeOK, AdminInv, [Next]_vars PROVE AdminInv'
  OBVIOUS
<1>1. ASSUME NEW t \in Tasks, NEW r \in Asks, Arrive(t, r) PROVE AdminInv'
  <2>1. Go(t, "auth", [IdleJob EXCEPT !.req = r]) /\ users' = users /\ raced' = raced
    BY <1>1 DEF Arrive, tables
  <2>2. QED
    BY <2>1, CalmStep
<1>2. ASSUME NEW t \in Tasks, Step(t) PROVE AdminInv'
  BY <1>2, StepAdmin
<1>3. ASSUME NEW w \in Workers, Crash(w) PROVE AdminInv'
  <2>1. users' = users /\ raced' = raced
    BY <1>3 DEF Crash, tables
  <2>2. ASSUME NEW x \in Tasks
        PROVE  pc'[x] = "idle" \/ (pc'[x] = pc[x] /\ job'[x] = job[x])
    BY <1>3 DEF Crash
  <2>3. QED
    BY <2>1, <2>2 DEF AdminInv, HasAdmin, Checked, OtherAdmin
<1>4. CASE UNCHANGED <<users, raced, pc, job>>
  BY <1>4 DEF AdminInv, HasAdmin, Checked, OtherAdmin
<1>5. QED
  BY <1>1, <1>2, <1>3, <1>4 DEF Next, ExpireMatrix, ExpireUser, vars, tables

\* No sequence of demotions, deactivations, deletions and creations, overlapping
\* or not, whatever the caches hold, leaves the platform without an active
\* administrator, except two requests that take rights away and were between
\* their count and their write at once (update_user, delete_user).
THEOREM AdministratorRemains == Spec => []LastAdmin
<1>1. AdminInv => LastAdmin
  BY DEF AdminInv, HasAdmin, LastAdmin
<1>2. QED
  BY <1>1, TypeCorrect, InitAdmin, NextAdmin, PTL DEF Spec

-----------------------------------------------------------------------------
(* Rights served by the caches.                                            *)

\* A request of worker w is about to drop its entry of account u: after a
\* DELETE unconditionally, after a PATCH only if the row is still there.
Forgetting(w, u) ==
  \E t \in Tasks : WorkerOf[t] = w /\ pc[t] = "forget" /\ job[t].req.target = u

Refreshing(w, u) ==
  \E t \in Tasks : WorkerOf[t] = w /\ pc[t] = "refresh" /\ job[t].req.target = u

Announcing(w) == \E t \in Tasks : WorkerOf[t] = w /\ pc[t] = "announce"

\* OwnChangesSeen alone is not inductive: a refresh that finds the row deleted
\* leaves the cache as it is, so it is the DELETE that must answer for it.
EntryInv(w, u) ==
  \/ userCache[w][u] = NoEntry
  \/ <<w, u>> \in excused
  \/ Forgetting(w, u)
  \/ users[u] \in Accounts /\ (userCache[w][u] = users[u] \/ Refreshing(w, u))

MatrixInv(w) ==
  \/ matrixCache[w] \in {NoMatrix, Effective(overrides)}
  \/ <<w, "matrix">> \in excused
  \/ Announcing(w)

CacheInv == \A w \in Workers : MatrixInv(w) /\ \A u \in Users : EntryInv(w, u)

\* A step of one request leaves where the others are and what they hold.
OthersStay(t) == \A x \in Tasks \ {t} : pc'[x] = pc[x] /\ job'[x] = job[x]

LEMMA GoAlone ==
  ASSUME TypeOK, NEW t \in Tasks, NEW stage, NEW local, Go(t, stage, local)
  PROVE  OthersStay(t) /\ pc'[t] = stage /\ job'[t] = local
BY DEF TypeOK, Go, OthersStay

LEMMA DoneAlone ==
  ASSUME TypeOK, NEW t \in Tasks, Done(t)
  PROVE  OthersStay(t)
BY GoAlone DEF Done

LEMMA EnterAlone ==
  ASSUME TypeOK, NEW t \in Tasks, NEW me, Enter(t, me)
  PROVE  OthersStay(t)
BY GoAlone, DoneAlone DEF Enter

LEMMA InformedAlone ==
  ASSUME TypeOK, NEW t \in Tasks, NEW matrix, Informed(t, matrix)
  PROVE  OthersStay(t)
BY GoAlone, DoneAlone DEF Informed

\* An entry that a step neither fills nor makes older stays accounted for,
\* unless the step is the one that was to drop it.
LEMMA EntryKept ==
  ASSUME TypeOK, NEW t \in Tasks, OthersStay(t), NEW w \in Workers, NEW u \in Users,
         EntryInv(w, u), userCache'[w][u] = userCache[w][u], users'[u] = users[u],
         <<w, u>> \in excused => <<w, u>> \in excused',
         pc[t] \notin {"refresh", "forget"} \/ WorkerOf[t] # w \/ job[t].req.target # u
  PROVE  EntryInv(w, u)'
<1>1. Forgetting(w, u) => Forgetting(w, u)'
  BY DEF Forgetting, OthersStay
<1>2. Refreshing(w, u) => Refreshing(w, u)'
  BY DEF Refreshing, OthersStay
<1>3. QED
  BY <1>1, <1>2 DEF EntryInv

LEMMA MatrixKept ==
  ASSUME TypeOK, NEW t \in Tasks, OthersStay(t), NEW w \in Workers, MatrixInv(w),
         matrixCache'[w] = matrixCache[w], overrides' = overrides,
         <<w, "matrix">> \in excused => <<w, "matrix">> \in excused',
         pc[t] # "announce" \/ WorkerOf[t] # w
  PROVE  MatrixInv(w)'
<1>1. Announcing(w) => Announcing(w)'
  BY DEF Announcing, OthersStay
<1>2. Effective(overrides)' = Effective(overrides)
  BY DEF Effective
<1>3. QED
  BY <1>1, <1>2 DEF MatrixInv

\* Steps that touch neither the tables nor the caches.
LEMMA QuietStep ==
  ASSUME TypeOK, CacheInv, NEW t \in Tasks, OthersStay(t),
         UNCHANGED <<tables, caches>>, pc[t] \notin {"refresh", "forget", "announce"}
  PROVE  CacheInv'
<1>1. UNCHANGED <<users, overrides, userCache, matrixCache, excused>>
  BY DEF tables, caches
<1>2. ASSUME NEW w \in Workers, NEW u \in Users PROVE EntryInv(w, u)'
  BY <1>1, EntryKept DEF CacheInv
<1>3. ASSUME NEW w \in Workers PROVE MatrixInv(w)'
  BY <1>1, MatrixKept DEF CacheInv
<1>4. QED
  BY <1>2, <1>3 DEF CacheInv

\* A filled cache holds what the database holds, or is excused; nothing else
\* loses its excuse.
LEMMA Filled ==
  ASSUME TypeOK, NEW w \in Workers, NEW key, NEW current, Fill(w, key, current)
  PROVE  /\ current \/ <<w, key>> \in excused'
         /\ \A e \in excused : e # <<w, key>> => e \in excused'
BY DEF Fill

\* A change excuses the entries of every other worker.
LEMMA Overtaken ==
  ASSUME NEW w \in Workers, NEW key, Overtake(w, key)
  PROVE  /\ \A x \in Workers : x # w => <<x, key>> \in excused'
         /\ \A e \in excused : e \in excused'
BY DEF Overtake

\* A worker that changes the matrix is about to announce it.
LEMMA MatrixChanged ==
  ASSUME TypeOK, CacheInv, NEW t \in Tasks, Go(t, "announce", job[t]),
         Overtake(WorkerOf[t], "matrix"), pc[t] \in {"writeRow", "wipe"},
         UNCHANGED <<users, userCache, matrixCache>>
  PROVE  CacheInv'
<1> DEFINE w == WorkerOf[t]
<1>w. w \in Workers
  BY ConstantsAssumption
<1>1. /\ \A x \in Workers : x # w => <<x, "matrix">> \in excused'
      /\ \A e \in excused : e \in excused'
  BY <1>w, Overtaken
<1>2. OthersStay(t) /\ pc'[t] = "announce"
  BY GoAlone
<1>3. ASSUME NEW x \in Workers, NEW u \in Users PROVE EntryInv(x, u)'
  BY <1>1, <1>2, EntryKept DEF CacheInv
<1>4. ASSUME NEW x \in Workers PROVE MatrixInv(x)'
  <2>1. CASE x = w
    BY <2>1, <1>2 DEF MatrixInv, Announcing
  <2>2. CASE x # w
    BY <2>2, <1>1 DEF MatrixInv
  <2>3. QED
    BY <2>1, <2>2
<1>5. QED
  BY <1>3, <1>4 DEF CacheInv

\* Every step of a request keeps the caches accounted for.
LEMMA StepCache ==
  ASSUME TypeOK, CacheInv, NEW t \in Tasks, Step(t)
  PROVE  CacheInv'
<1> DEFINE w == WorkerOf[t]
           r == job[t].req
<1>w. w \in Workers
  BY ConstantsAssumption
<1>j. job[t] \in Jobs /\ r \in Requests /\ r.target \in Users /\ r.actor \in Users
  BY ConstantsAssumption DEF TypeOK, Jobs, Requests
<1>i. (\A x \in Workers : MatrixInv(x)) /\ \A x \in Workers, u \in Users : EntryInv(x, u)
  BY DEF CacheInv
<1>m. \A u \in Users : u # "matrix"
  BY ConstantsAssumption
<1>1. CASE AuthHit(t)
  BY <1>1, EnterAlone, QuietStep DEF AuthHit
<1>2. CASE AuthRead(t)
  BY <1>2, GoAlone, QuietStep DEF AuthRead
<1>3. CASE AuthFill(t)
  <2>1. CASE ~ job[t].user.active
    <3>1. OthersStay(t) /\ UNCHANGED <<tables, caches>>
      BY <1>3, <2>1, DoneAlone DEF AuthFill, tables, caches
    <3>2. QED
      BY <1>3, <3>1, QuietStep DEF AuthFill
  <2>2. CASE job[t].user.active
    <3> DEFINE row == job[t].user
               a == r.actor
    <3>1. /\ userCache' = [userCache EXCEPT ![w][a] = row] /\ Fill(w, a, row = users[a])
          /\ UNCHANGED <<users, overrides, matrixCache>> /\ pc[t] = "authFill"
          /\ OthersStay(t)
      BY <1>3, <2>2, EnterAlone DEF AuthFill, tables
    <3>2. row \in Accounts
      BY <2>2, <1>j DEF Jobs, Absent, Gone
    <3>3. row = users[a] \/ <<w, a>> \in excused'
      BY <3>1, <1>w, Filled
    <3>4. \A e \in excused : e # <<w, a>> => e \in excused'
      BY <3>1, <1>w, Filled
    <3>5. userCache'[w][a] = row
      BY <3>1, <1>w, <1>j DEF TypeOK
    <3> HIDE DEF row, a
    <3>6. ASSUME NEW x \in Workers, NEW u \in Users PROVE EntryInv(x, u)'
      <4>1. CASE x = w /\ u = a
        <5>1. users'[u] = users[u]
          BY <3>1
        <5>2. QED
          BY <4>1, <5>1, <3>2, <3>3, <3>5 DEF EntryInv
      <4>2. CASE x # w \/ u # a
        <5>1. userCache'[x][u] = userCache[x][u]
          BY <4>2, <3>1, <1>w DEF TypeOK
        <5>2. <<x, u>> \in excused => <<x, u>> \in excused'
          BY <4>2, <3>4
        <5>3. QED
          BY <5>1, <5>2, <3>1, <1>i, EntryKept
      <4>3. QED
        BY <4>1, <4>2
    <3>7. ASSUME NEW x \in Workers PROVE MatrixInv(x)'
      <4>1. <<x, "matrix">> \in excused => <<x, "matrix">> \in excused'
        BY <3>4, <1>m, <1>j DEF a
      <4>2. QED
        BY <4>1, <3>1, <1>i, MatrixKept
    <3>8. QED
      BY <3>6, <3>7 DEF CacheInv
  <2>3. QED
    BY <2>1, <2>2
<1>4. CASE MatrixHit(t)
  BY <1>4, InformedAlone, QuietStep DEF MatrixHit
<1>5. CASE MatrixRead(t)
  BY <1>5, GoAlone, QuietStep DEF MatrixRead
<1>6. CASE MatrixFill(t)
  <2> DEFINE matrix == job[t].matrix
  <2>1. /\ matrixCache' = [matrixCache EXCEPT ![w] = matrix]
        /\ Fill(w, "matrix", matrix = Effective(overrides))
        /\ UNCHANGED <<users, overrides, userCache>>
        /\ pc[t] \in {"rightsFill", "payloadFill"} /\ OthersStay(t)
    BY <1>6, InformedAlone DEF MatrixFill, tables
  <2>2. matrix = Effective(overrides) \/ <<w, "matrix">> \in excused'
    BY <2>1, <1>w, Filled
  <2>3. \A e \in excused : e # <<w, "matrix">> => e \in excused'
    BY <2>1, <1>w, Filled
  <2>4. Effective(overrides)' = Effective(overrides)
    BY <2>1 DEF Effective
  <2> HIDE DEF matrix
  <2>5. ASSUME NEW x \in Workers, NEW u \in Users PROVE EntryInv(x, u)'
    <3>1. <<x, u>> \in excused => <<x, u>> \in excused'
      BY <2>3, <1>m
    <3>2. QED
      BY <3>1, <2>1, <1>i, EntryKept
  <2>6. ASSUME NEW x \in Workers PROVE MatrixInv(x)'
    <3>1. CASE x = w
      <4>1. matrixCache'[w] = matrix
        BY <2>1, <1>w DEF TypeOK
      <4>2. QED
        BY <3>1, <4>1, <2>2, <2>4 DEF MatrixInv
    <3>2. CASE x # w
      <4>1. matrixCache'[x] = matrixCache[x]
        BY <3>2, <2>1 DEF TypeOK
      <4>2. <<x, "matrix">> \in excused => <<x, "matrix">> \in excused'
        BY <3>2, <2>3
      <4>3. QED
        BY <4>1, <4>2, <2>1, <1>i, MatrixKept
    <3>3. QED
      BY <3>1, <3>2
  <2>7. QED
    BY <2>5, <2>6 DEF CacheInv
<1>7. CASE Load(t)
  <2>1. OthersStay(t)
    BY <1>7, GoAlone, DoneAlone DEF Load
  <2>2. QED
    BY <1>7, <2>1, QuietStep DEF Load
<1>8. CASE Count(t)
  <2>1. OthersStay(t)
    BY <1>8, GoAlone, DoneAlone DEF Count
  <2>2. QED
    BY <1>8, <2>1, QuietStep DEF Count
<1>9. CASE WriteUpdate(t)
  <2> DEFINE u == r.target
             new == Applied(job[t].user, r)
  <2>1. pc[t] = "write" /\ OthersStay(t) /\ UNCHANGED <<userCache, matrixCache, overrides>>
    BY <1>9, GoAlone, DoneAlone DEF WriteUpdate, NoChange, tables
  <2>2. CASE NoChange
    BY <2>1, <2>2, QuietStep DEF NoChange, tables, caches
  <2>3. CASE ~ NoChange
    <3>1. /\ users' = [users EXCEPT ![u] = Updated(users[u], job[t].user, new)]
          /\ Overtake(w, u) /\ Go(t, "refresh", job[t])
      BY <1>9, <2>3 DEF WriteUpdate
    <3>2. users'[u] \in Accounts
      <4>1. users[u] \in Accounts /\ job[t].user \in Accounts \cup {Absent, Gone}
        BY <1>9, <1>j, <2>3 DEF WriteUpdate, Jobs
      <4>2. Updated(users[u], job[t].user, new) \in Accounts
        BY <4>1, <1>j, PatchedTyped
      <4>3. QED
        BY <4>2, <3>1, <1>j DEF TypeOK
    <3>3. /\ \A x \in Workers : x # w => <<x, u>> \in excused'
          /\ \A e \in excused : e \in excused'
      BY <3>1, <1>w, Overtaken
    <3>4. pc'[t] = "refresh" /\ job'[t] = job[t]
      BY <3>1, GoAlone
    <3>5. ASSUME NEW x \in Workers, NEW v \in Users PROVE EntryInv(x, v)'
      <4>1. CASE v # u
        <5>1. users'[v] = users[v]
          BY <4>1, <3>1 DEF TypeOK
        <5>2. QED
          BY <5>1, <2>1, <3>3, <1>i, EntryKept
      <4>2. CASE v = u /\ x # w
        BY <4>2, <3>3 DEF EntryInv
      <4>3. CASE v = u /\ x = w
        <5>1. Refreshing(x, v)'
          BY <4>3, <3>4 DEF Refreshing
        <5>2. users'[v] \in Accounts
          BY <4>3, <3>2
        <5>3. QED
          BY <5>1, <5>2 DEF EntryInv
      <4>4. QED
        BY <4>1, <4>2, <4>3
    <3>6. ASSUME NEW x \in Workers PROVE MatrixInv(x)'
      BY <2>1, <3>3, <1>i, MatrixKept
    <3>7. QED
      BY <3>5, <3>6 DEF CacheInv
  <2>4. QED
    BY <2>2, <2>3
<1>10. CASE WriteDelete(t)
  <2> DEFINE u == r.target
  <2>1. /\ pc[t] = "write" /\ users' = [users EXCEPT ![u] = Gone] /\ Overtake(w, u)
        /\ Go(t, "forget", job[t]) /\ UNCHANGED <<userCache, matrixCache, overrides>>
    BY <1>10 DEF WriteDelete
  <2>2. /\ \A x \in Workers : x # w => <<x, u>> \in excused'
        /\ \A e \in excused : e \in excused'
    BY <2>1, <1>w, Overtaken
  <2>3. OthersStay(t) /\ pc'[t] = "forget" /\ job'[t] = job[t]
    BY <2>1, GoAlone
  <2>4. ASSUME NEW x \in Workers, NEW v \in Users PROVE EntryInv(x, v)'
    <3>1. CASE v # u
      <4>1. users'[v] = users[v]
        BY <3>1, <2>1 DEF TypeOK
      <4>2. QED
        BY <4>1, <2>1, <2>2, <2>3, <1>i, EntryKept
    <3>2. CASE v = u /\ x # w
      BY <3>2, <2>2 DEF EntryInv
    <3>3. CASE v = u /\ x = w
      <4>1. Forgetting(x, v)'
        BY <3>3, <2>3 DEF Forgetting
      <4>2. QED
        BY <4>1 DEF EntryInv
    <3>4. QED
      BY <3>1, <3>2, <3>3
  <2>5. ASSUME NEW x \in Workers PROVE MatrixInv(x)'
    BY <2>1, <2>2, <2>3, <1>i, MatrixKept
  <2>6. QED
    BY <2>4, <2>5 DEF CacheInv
<1>11. CASE WriteCreate(t)
  <2> DEFINE u == r.target
  <2>1. OthersStay(t) /\ pc[t] = "write"
        /\ UNCHANGED <<overrides, userCache, matrixCache, excused>>
    BY <1>11, DoneAlone DEF WriteCreate, caches
  <2>2. ASSUME NEW x \in Workers, NEW v \in Users PROVE EntryInv(x, v)'
    <3>1. CASE users'[v] = users[v]
      BY <2>1, <3>1, <1>i, EntryKept
    <3>2. CASE users'[v] # users[v]
      <4>1. users[v] = Absent
        BY <3>2, <1>11, <1>j DEF WriteCreate, TypeOK
      <4>2. users[v] \notin Accounts
        BY <4>1, ConstantsAssumption DEF Absent, Accounts, Roles
      <4>3. Forgetting(x, v) => Forgetting(x, v)'
        BY <2>1 DEF Forgetting, OthersStay
      <4>4. EntryInv(x, v)
        BY <1>i
      <4>5. QED
        BY <4>2, <4>3, <4>4, <2>1 DEF EntryInv
    <3>3. QED
      BY <3>1, <3>2
  <2>3. ASSUME NEW x \in Workers PROVE MatrixInv(x)'
    BY <2>1, <1>i, MatrixKept
  <2>4. QED
    BY <2>2, <2>3 DEF CacheInv
<1>12. CASE Refresh(t)
  <2> DEFINE u == r.target
  <2>1. OthersStay(t) /\ pc[t] = "refresh"
        /\ UNCHANGED <<users, overrides, matrixCache, excused>>
    BY <1>12, DoneAlone DEF Refresh, tables
  <2>2. ASSUME NEW x \in Workers, NEW v \in Users PROVE EntryInv(x, v)'
    <3>1. CASE x # w \/ v # u
      <4>1. userCache'[x][v] = userCache[x][v]
        BY <3>1, <1>12, <1>w DEF Refresh, Forgotten, TypeOK
      <4>2. QED
        BY <3>1, <4>1, <2>1, <1>i, EntryKept
    <3>2. CASE x = w /\ v = u /\ users[u] \in Accounts
      <4>1. userCache'[w][u] = NoEntry
        BY <3>2, <1>12, <1>w, <1>j DEF Refresh, Forgotten, TypeOK
      <4>2. QED
        BY <3>2, <4>1 DEF EntryInv
    <3>3. CASE x = w /\ v = u /\ users[u] \notin Accounts
      <4>1. userCache' = userCache
        BY <3>3, <1>12 DEF Refresh
      <4>2. Forgetting(x, v) => Forgetting(x, v)'
        BY <2>1 DEF Forgetting, OthersStay
      <4>3. EntryInv(x, v) /\ users[v] \notin Accounts
        BY <3>3, <1>i
      <4>4. QED
        BY <4>1, <4>2, <4>3, <2>1 DEF EntryInv
    <3>4. QED
      BY <3>1, <3>2, <3>3
  <2>3. ASSUME NEW x \in Workers PROVE MatrixInv(x)'
    BY <2>1, <1>i, MatrixKept
  <2>4. QED
    BY <2>2, <2>3 DEF CacheInv
<1>13. CASE Forget(t)
  <2> DEFINE u == r.target
  <2>1. OthersStay(t) /\ pc[t] = "forget"
        /\ UNCHANGED <<users, overrides, matrixCache, excused>>
    BY <1>13, DoneAlone DEF Forget, tables
  <2>2. ASSUME NEW x \in Workers, NEW v \in Users PROVE EntryInv(x, v)'
    <3>1. CASE x # w \/ v # u
      <4>1. userCache'[x][v] = userCache[x][v]
        BY <3>1, <1>13, <1>w DEF Forget, Forgotten, TypeOK
      <4>2. QED
        BY <3>1, <4>1, <2>1, <1>i, EntryKept
    <3>2. CASE x = w /\ v = u
      <4>1. userCache'[w][u] = NoEntry
        BY <1>13, <1>w, <1>j DEF Forget, Forgotten, TypeOK
      <4>2. QED
        BY <3>2, <4>1 DEF EntryInv
    <3>3. QED
      BY <3>1, <3>2
  <2>3. ASSUME NEW x \in Workers PROVE MatrixInv(x)'
    BY <2>1, <1>i, MatrixKept
  <2>4. QED
    BY <2>2, <2>3 DEF CacheInv
<1>14. CASE LoadCell(t)
  BY <1>14, GoAlone, QuietStep DEF LoadCell
<1>15. CASE WriteCell(t)
  <2>1. pc[t] = "writeRow" /\ OthersStay(t) /\ UNCHANGED <<users, userCache, matrixCache>>
    BY <1>15, GoAlone, DoneAlone DEF WriteCell, NoChange, tables
  <2>2. CASE NoChange
    BY <2>1, <2>2, QuietStep DEF NoChange, tables, caches
  <2>3. CASE ~ NoChange
    <3>1. Overtake(w, "matrix") /\ Go(t, "announce", job[t])
      BY <1>15, <2>3 DEF WriteCell
    <3>2. QED
      BY <2>1, <3>1, MatrixChanged
  <2>4. QED
    BY <2>2, <2>3
<1>16. CASE Wipe(t)
  <2>1. /\ pc[t] = "wipe" /\ UNCHANGED <<users, userCache, matrixCache>>
        /\ Overtake(w, "matrix") /\ Go(t, "announce", job[t])
    BY <1>16 DEF Wipe
  <2>2. QED
    BY <2>1, MatrixChanged
<1>17. CASE Announce(t)
  <2>1. OthersStay(t) /\ pc[t] = "announce"
        /\ UNCHANGED <<users, overrides, userCache, excused>>
    BY <1>17, GoAlone DEF Announce, tables
  <2>2. ASSUME NEW x \in Workers, NEW v \in Users PROVE EntryInv(x, v)'
    BY <2>1, <1>i, EntryKept
  <2>3. ASSUME NEW x \in Workers PROVE MatrixInv(x)'
    <3>1. CASE x = w
      <4>1. matrixCache'[w] = NoMatrix
        BY <1>17, <1>w DEF Announce, TypeOK
      <4>2. QED
        BY <3>1, <4>1 DEF MatrixInv
    <3>2. CASE x # w
      <4>1. matrixCache'[x] = matrixCache[x]
        BY <3>2, <1>17 DEF Announce, TypeOK
      <4>2. QED
        BY <3>2, <4>1, <2>1, <1>i, MatrixKept
    <3>3. QED
      BY <3>1, <3>2
  <2>4. QED
    BY <2>2, <2>3 DEF CacheInv
<1>18. QED
  BY <1>1, <1>2, <1>3, <1>4, <1>5, <1>6, <1>7, <1>8, <1>9, <1>10, <1>11, <1>12,
     <1>13, <1>14, <1>15, <1>16, <1>17 DEF Step

LEMMA InitCache == Init => CacheInv
<1> SUFFICES ASSUME Init PROVE CacheInv
  OBVIOUS
<1>1. \A w \in Workers : matrixCache[w] = NoMatrix /\ \A u \in Users : userCache[w][u] = NoEntry
  BY DEF Init
<1>2. QED
  BY <1>1 DEF CacheInv, MatrixInv, EntryInv

LEMMA NextCache == TypeOK /\ CacheInv /\ [Next]_vars => CacheInv'
<1> SUFFICES ASSUME TypeOK, CacheInv, [Next]_vars PROVE CacheInv'
  OBVIOUS
<1>1. ASSUME NEW t \in Tasks, NEW r \in Asks, Arrive(t, r) PROVE CacheInv'
  <2>1. OthersStay(t)
    BY <1>1, GoAlone DEF Arrive
  <2>2. QED
    BY <1>1, <2>1, QuietStep DEF Arrive
<1>2. ASSUME NEW t \in Tasks, Step(t) PROVE CacheInv'
  BY <1>2, StepCache
<1>3. ASSUME NEW w \in Workers, Crash(w) PROVE CacheInv'
  <2>1. UNCHANGED <<users, overrides>> /\ Effective(overrides)' = Effective(overrides)
    BY <1>3 DEF Crash, tables, Effective
  <2>2. ASSUME NEW x \in Workers PROVE MatrixInv(x)'
    <3>1. CASE x = w
      BY <3>1, <1>3 DEF Crash, TypeOK, MatrixInv
    <3>2. CASE x # w
      <4>1. matrixCache'[x] = matrixCache[x]
        BY <3>2, <1>3 DEF Crash, TypeOK
      <4>2. Announcing(x) => Announcing(x)'
        BY <3>2, <1>3 DEF Crash, Announcing
      <4>3. <<x, "matrix">> \in excused => <<x, "matrix">> \in excused'
        BY <3>2, <1>3 DEF Crash
      <4>4. QED
        BY <4>1, <4>2, <4>3, <2>1 DEF CacheInv, MatrixInv
    <3>3. QED
      BY <3>1, <3>2
  <2>3. ASSUME NEW x \in Workers, NEW u \in Users PROVE EntryInv(x, u)'
    <3>1. CASE x = w
      BY <3>1, <1>3 DEF Crash, TypeOK, EntryInv
    <3>2. CASE x # w
      <4>1. userCache'[x][u] = userCache[x][u]
        BY <3>2, <1>3 DEF Crash, TypeOK
      <4>2. Forgetting(x, u) => Forgetting(x, u)'
        BY <3>2, <1>3 DEF Crash, Forgetting
      <4>3. Refreshing(x, u) => Refreshing(x, u)'
        BY <3>2, <1>3 DEF Crash, Refreshing
      <4>4. <<x, u>> \in excused => <<x, u>> \in excused'
        BY <3>2, <1>3 DEF Crash
      <4>5. QED
        BY <4>1, <4>2, <4>3, <4>4, <2>1 DEF CacheInv, EntryInv
    <3>3. QED
      BY <3>1, <3>2
  <2>4. QED
    BY <2>2, <2>3 DEF CacheInv
<1>4. ASSUME NEW w \in Workers, ExpireMatrix(w) PROVE CacheInv'
  <2>1. UNCHANGED <<users, overrides, userCache, pc, job>>
        /\ \A e \in excused : e # <<w, "matrix">> => e \in excused'
    BY <1>4 DEF ExpireMatrix, tables
  <2>2. ASSUME NEW x \in Workers PROVE MatrixInv(x)'
    <3>1. CASE x = w
      BY <3>1, <1>4 DEF ExpireMatrix, TypeOK, MatrixInv
    <3>2. CASE x # w
      <4>1. matrixCache'[x] = matrixCache[x] /\ Effective(overrides)' = Effective(overrides)
        BY <3>2, <1>4, <2>1 DEF ExpireMatrix, TypeOK, Effective
      <4>2. <<x, "matrix">> \in excused => <<x, "matrix">> \in excused'
        BY <3>2, <2>1
      <4>3. QED
        BY <4>1, <4>2, <2>1 DEF CacheInv, MatrixInv, Announcing
    <3>3. QED
      BY <3>1, <3>2
  <2>3. ASSUME NEW x \in Workers, NEW u \in Users PROVE EntryInv(x, u)'
    <3>1. <<x, u>> \in excused => <<x, u>> \in excused'
      BY <2>1, ConstantsAssumption
    <3>2. QED
      BY <3>1, <2>1 DEF CacheInv, EntryInv, Forgetting, Refreshing
  <2>4. QED
    BY <2>2, <2>3 DEF CacheInv
<1>5. ASSUME NEW w \in Workers, NEW u \in Users, ExpireUser(w, u) PROVE CacheInv'
  <2>1. UNCHANGED <<users, overrides, matrixCache, pc, job>>
        /\ \A e \in excused : e # <<w, u>> => e \in excused'
    BY <1>5 DEF ExpireUser, tables
  <2>2. ASSUME NEW x \in Workers PROVE MatrixInv(x)'
    <3>1. <<x, "matrix">> \in excused => <<x, "matrix">> \in excused'
      BY <2>1, ConstantsAssumption
    <3>2. QED
      BY <3>1, <2>1 DEF CacheInv, MatrixInv, Announcing, Effective
  <2>3. ASSUME NEW x \in Workers, NEW v \in Users PROVE EntryInv(x, v)'
    <3>1. CASE x = w /\ v = u
      BY <3>1, <1>5 DEF ExpireUser, TypeOK, EntryInv
    <3>2. CASE x # w \/ v # u
      <4>1. userCache'[x][v] = userCache[x][v]
        BY <3>2, <1>5 DEF ExpireUser, TypeOK
      <4>2. <<x, v>> \in excused => <<x, v>> \in excused'
        BY <3>2, <2>1
      <4>3. QED
        BY <4>1, <4>2, <2>1 DEF CacheInv, EntryInv, Forgetting, Refreshing
    <3>3. QED
      BY <3>1, <3>2
  <2>4. QED
    BY <2>2, <2>3 DEF CacheInv
<1>6. CASE UNCHANGED vars
  <2>1. UNCHANGED <<users, overrides, userCache, matrixCache, pc, job, excused>>
    BY <1>6 DEF vars
  <2>2. Effective(overrides)' = Effective(overrides)
    BY <2>1 DEF Effective
  <2>3. ASSUME NEW w \in Workers PROVE MatrixInv(w)'
    BY <2>1, <2>2 DEF CacheInv, MatrixInv, Announcing
  <2>4. ASSUME NEW w \in Workers, NEW u \in Users PROVE EntryInv(w, u)'
    BY <2>1 DEF CacheInv, EntryInv, Forgetting, Refreshing
  <2>5. QED
    BY <2>3, <2>4 DEF CacheInv
<1>7. QED
  BY <1>1, <1>2, <1>3, <1>4, <1>5, <1>6 DEF Next

\* Whatever requests, expiries and restarts interleave in any number of
\* workers, a worker serves a right the database no longer holds only for an
\* excused entry or until the request that changed it has invalidated its
\* cache (dependencies.py:41-50, permissions.py:67).
THEOREM OwnChangesAreSeen == Spec => []OwnChangesSeen
<1>1. CacheInv => OwnChangesSeen
  <2> SUFFICES ASSUME CacheInv PROVE OwnChangesSeen
    OBVIOUS
  <2>1. ASSUME NEW w \in Workers, NEW u \in Users,
               userCache[w][u] \notin {NoEntry, users[u]}
        PROVE  <<w, u>> \in excused \/ Changing(w, u)
    <3>1. <<w, u>> \in excused \/ Forgetting(w, u) \/ Refreshing(w, u)
      BY <2>1 DEF CacheInv, EntryInv
    <3>2. QED
      BY <3>1 DEF Changing, Forgetting, Refreshing
  <2>2. ASSUME NEW w \in Workers, matrixCache[w] \notin {NoMatrix, Effective(overrides)}
        PROVE  <<w, "matrix">> \in excused \/ Changing(w, "matrix")
    <3>1. <<w, "matrix">> \in excused \/ Announcing(w)
      BY <2>2 DEF CacheInv, MatrixInv
    <3>2. QED
      BY <3>1 DEF Changing, Announcing
  <2>3. QED
    BY <2>1, <2>2 DEF OwnChangesSeen
<1>2. QED
  BY <1>1, InitCache, NextCache, TypeCorrect, PTL DEF Spec
=============================================================================
