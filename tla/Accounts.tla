------------------------------ MODULE Accounts ------------------------------
(***************************************************************************)
(* Accounts and rights: the administration routes of api/v1/auth.py, the   *)
(* user cache of api/v1/dependencies.py and the cached matrix of           *)
(* config/permissions.py, in every uvicorn worker.                         *)
(*                                                                         *)
(* A task is a request.  One action is the code from one await on SQLite   *)
(* to the next; a SELECT opens no transaction, so it sees what is          *)
(* committed when it runs and the coroutine goes on with a copy.  A cache  *)
(* entry older than its TTL counts as dropped (ExpireUser, ExpireMatrix).  *)
(* Names, emails, passwords and the journal admin_audit are left out, and  *)
(* with them /login and the changes of these columns alone.                *)
(***************************************************************************)
EXTENDS Naturals, FiniteSets

CONSTANTS
  Users,        \* accounts
  Personas,     \* EDITABLE_ROLES (the legacy roles user and viewer are left out)
  Views,        \* views of the cockpit
  DefaultAccess,\* DEFAULT_MODULE_ACCESS: the cells <<view, role>> allowed
  Workers,      \* uvicorn worker processes
  Tasks,        \* concurrent requests
  WorkerOf,     \* the worker a request reached
  InitialUsers, \* tables of users to start from
  Asks,         \* the requests that are made
  MaxRequests   \* bound on administration requests

Roles    == Personas \cup {"admin"}
Cells    == Views \X Personas
Accounts == [role : Roles, active : BOOLEAN]
Absent   == [role |-> "none", active |-> FALSE]
Gone     == [role |-> "gone", active |-> FALSE]
NoEntry  == [role |-> "unknown", active |-> FALSE]
NoMatrix == {<<"unknown", "unknown">>}

AdminOps == {"update", "delete", "create", "setCell", "reset"}
Ops      == AdminOps \cup {"matrix", "see"}

\* What a request asks: a change of role or of is_active may be left out of a
\* PATCH ("keep"); cell and allowed are those of PATCH /permissions, and cell
\* is the page that op "see" asks for.
Requests == [op : Ops, actor : Users, target : Users,
             role : Roles \cup {"keep"}, active : {"keep", "on", "off"},
             cell : Cells, allowed : BOOLEAN]

IsAdmin(a) == a.role = "admin" /\ a.active

ASSUME ConstantsAssumption ==
  /\ {"admin", "none", "gone", "unknown", "keep"} \cap Personas = {}
  /\ Asks \subseteq Requests /\ Asks # {}
  /\ \A r \in Asks : r.op = "create" => r.role # "keep"
  /\ InitialUsers \subseteq [Users -> Accounts \cup {Absent}]
  /\ \A i \in InitialUsers : \E u \in Users : IsAdmin(i[u])
  /\ "matrix" \notin Users /\ DefaultAccess \subseteq Cells
  /\ WorkerOf \in [Tasks -> Workers] /\ MaxRequests \in Nat

VARIABLES
  users,        \* table users; Absent: not created yet, Gone: deleted
  overrides,    \* table module_permissions: "default" when a cell has no row
  userCache,    \* _user_cache of each worker
  matrixCache,  \* _matrix_cache of each worker
  pc, job,      \* each request: where it is, its local variables
  requests,     \* administration requests so far
  excused,      \* history: cache entries that may be out of date, see Overtake
  raced         \* history: two requests took rights away at once, see Race

tables == <<users, overrides, raced>>
caches == <<userCache, matrixCache, excused>>
vars   == <<users, overrides, userCache, matrixCache, pc, job, requests, excused, raced>>

\* Local variables of a request: itself, the row of users read last, the row
\* of module_permissions read last, the matrix.
Jobs == [req : Asks, user : Accounts \cup {Absent, Gone},
         row : {"default", "on", "off"}, matrix : SUBSET Cells]

\* A request is at "auth" (get_current_user), "authFill" (its SELECT is back),
\* "rights" and "rightsFill" (get_module_access), "load", "count", "write",
\* "refresh" and "forget" (accounts), "row", "writeRow", "wipe" and "announce"
\* (matrix) and "payload", "payloadFill" (_matrix_payload).
Stages == {"idle", "auth", "authFill", "rights", "rightsFill", "load", "count",
           "write", "refresh", "forget", "row", "writeRow", "wipe", "announce",
           "payload", "payloadFill"}

\* The tables, the caches and what the requests hold keep their types.
TypeOK ==
  /\ users \in [Users -> Accounts \cup {Absent, Gone}]
  /\ overrides \in [Cells -> {"default", "on", "off"}]
  /\ requests \in 0..MaxRequests
  /\ userCache \in [Workers -> [Users -> Accounts \cup {NoEntry}]]
  /\ matrixCache \in [Workers -> (SUBSET Cells) \cup {NoMatrix}]
  /\ pc \in [Tasks -> Stages]
  /\ job \in [Tasks -> Jobs]
  /\ excused \subseteq Workers \X (Users \cup {"matrix"}) /\ raced \in BOOLEAN

-----------------------------------------------------------------------------
(* What the code computes.                                                 *)

\* The matrix in force: the defaults, overridden cell by cell.
Effective(ov) ==
  {c \in Cells : ov[c] = "on" \/ (ov[c] = "default" /\ c \in DefaultAccess)}

Applied_Kept(acc, r) ==
  [role |-> r.role, active |-> IF r.active = "keep" THEN acc.active ELSE r.active = "on"]

\* The row a PATCH /users turns acc into, for a coroutine that loaded acc.
Applied(acc, r) ==
  [role   |-> IF r.role = "keep" THEN acc.role ELSE r.role,
   active |-> IF r.active = "keep" THEN acc.active ELSE r.active = "on"]

Losing_RoleOnly(acc, r) == IsAdmin(acc) /\ r.role \notin {"keep", "admin"}

\* losing_admin
Losing(acc, r) ==
  IsAdmin(acc) /\ (r.role \notin {"keep", "admin"} \/ r.active = "off")

\* _count_other_active_admins # 0
OtherAdmin(u) == \E x \in Users \ {u} : IsAdmin(users[x])

\* An UPDATE only writes the columns that differ from what was loaded.
Updated(now, loaded, new) ==
  [role   |-> IF new.role = loaded.role THEN now.role ELSE new.role,
   active |-> IF new.active = loaded.active THEN now.active ELSE new.active]

\* The views left to a role once a cell is refused.
Remaining(matrix, cell) == {c \in matrix : c[2] = cell[2] /\ c # cell}

Forgotten_Nothing(cache, w, u) == cache

\* invalidate_user_cache, of the worker that runs it
Forgotten(cache, w, u) == [cache EXCEPT ![w][u] = NoEntry]

-----------------------------------------------------------------------------
(* Requests.                                                               *)

Go(t, stage, local) ==
  /\ pc' = [pc EXCEPT ![t] = stage]
  /\ job' = [job EXCEPT ![t] = local]

IdleJob ==
  [req |-> CHOOSE r \in Asks : TRUE, user |-> Absent, row |-> "default", matrix |-> {}]

Done(t) == Go(t, "idle", IdleJob)

Arrive(t, r) ==
  /\ pc[t] = "idle"
  /\ r.op \in AdminOps => requests < MaxRequests
  /\ requests' = IF r.op \in AdminOps THEN requests + 1 ELSE requests
  /\ Go(t, "auth", [IdleJob EXCEPT !.req = r])
  /\ UNCHANGED <<tables, caches>>

\* Where a request goes once current_user is known: _require_admin, then the
\* first await of its route.  An administrator sees every page; the legacy
\* roles, which see none or all without the matrix, are left out.
Entered(r, me) ==
  CASE r.op = "see"                           -> IF me = "admin" THEN "idle" ELSE "rights"
    [] r.op # "see" /\ me # "admin"           -> "idle"
    [] r.op = "matrix"                        -> "payload"
    [] r.op = "delete" /\ r.target = r.actor  -> "idle"
    [] r.op = "setCell" /\ r.allowed          -> "row"
    [] r.op = "setCell" /\ ~ r.allowed        -> "rights"
    [] r.op = "reset"                         -> "wipe"
    [] OTHER                                  -> "load"

Enter(t, me) ==
  LET next == Entered(job[t].req, me) IN
  IF next = "idle" THEN Done(t) ELSE Go(t, next, job[t])

\* _get_cached_user
AuthHit(t) ==
  LET hit == userCache[WorkerOf[t]][job[t].req.actor] IN
  /\ pc[t] = "auth" /\ hit # NoEntry
  /\ Enter(t, hit.role)
  /\ UNCHANGED <<tables, caches, requests>>

AuthRead(t) ==
  LET u == job[t].req.actor IN
  /\ pc[t] = "auth" /\ userCache[WorkerOf[t]][u] = NoEntry
  /\ Go(t, "authFill", [job[t] EXCEPT !.user = users[u]])
  /\ UNCHANGED <<tables, caches, requests>>

\* excused records that a cache is filled with what has changed meanwhile.
Fill(w, key, current) ==
  excused' = IF current THEN excused \ {<<w, key>>} ELSE excused \cup {<<w, key>>}

AuthFill(t) ==
  LET u == job[t].req.actor
      w == WorkerOf[t]
      row == job[t].user IN
  /\ pc[t] = "authFill"
  /\ IF row.active
     THEN /\ userCache' = [userCache EXCEPT ![w][u] = row]
          /\ Fill(w, u, row = users[u])
          /\ Enter(t, row.role)
     ELSE Done(t) /\ UNCHANGED <<userCache, excused>>
  /\ UNCHANGED <<tables, matrixCache, requests>>

\* After get_module_access: can_access, the last-view guard, or the answer.
Informed(t, matrix) ==
  IF pc[t] \in {"rights", "rightsFill"} /\ job[t].req.op = "setCell"
     /\ Remaining(matrix, job[t].req.cell) # {}
  THEN Go(t, "row", [job[t] EXCEPT !.matrix = {}])
  ELSE Done(t)

MatrixHit(t) ==
  LET hit == matrixCache[WorkerOf[t]] IN
  /\ pc[t] \in {"rights", "payload"} /\ hit # NoMatrix
  /\ Informed(t, hit)
  /\ UNCHANGED <<tables, caches, requests>>

MatrixRead(t) ==
  /\ pc[t] \in {"rights", "payload"} /\ matrixCache[WorkerOf[t]] = NoMatrix
  /\ Go(t, IF pc[t] = "rights" THEN "rightsFill" ELSE "payloadFill",
        [job[t] EXCEPT !.matrix = Effective(overrides)])
  /\ UNCHANGED <<tables, caches, requests>>

MatrixFill(t) ==
  LET w == WorkerOf[t] IN
  /\ pc[t] \in {"rightsFill", "payloadFill"}
  /\ matrixCache' = [matrixCache EXCEPT ![w] = job[t].matrix]
  /\ Fill(w, "matrix", job[t].matrix = Effective(overrides))
  /\ Informed(t, job[t].matrix)
  /\ UNCHANGED <<tables, userCache, requests>>

Load_DeleteUncounted(t) ==
  LET r == job[t].req
      got == users[r.target] IN
  /\ pc[t] = "load"
  /\ IF (r.op = "create") = (got = Absent) /\ (r.op # "create" => got # Gone)
     THEN Go(t, IF r.op = "update" /\ Losing(got, r) THEN "count" ELSE "write",
             [job[t] EXCEPT !.user = got])
     ELSE Done(t)
  /\ UNCHANGED <<tables, caches, requests>>

\* SELECT of the row of users that a PATCH, a DELETE or a POST is about.
Load(t) ==
  LET r == job[t].req
      got == users[r.target]
      next == CASE r.op = "update" -> IF Losing(got, r) THEN "count" ELSE "write"
                [] r.op = "delete" -> IF IsAdmin(got) THEN "count" ELSE "write"
                [] OTHER           -> "write" IN
  /\ pc[t] = "load"
  /\ IF (r.op = "create") = (got = Absent)
        /\ (r.op # "create" => got # Gone)
     THEN Go(t, next, [job[t] EXCEPT !.user = got])
     ELSE Done(t)                                          \* 404, 409
  /\ UNCHANGED <<tables, caches, requests>>

Count(t) ==
  /\ pc[t] = "count"
  /\ IF OtherAdmin(job[t].req.target) THEN Go(t, "write", job[t]) ELSE Done(t)
  /\ UNCHANGED <<tables, caches, requests>>

\* A change made by worker w: the entries the other workers hold are older now.
Overtake(w, key) ==
  excused' = excused \cup {<<x, key>> : x \in Workers \ {w}}

NoChange == UNCHANGED <<tables, excused>>

\* What a request may take away, whatever it has loaded.
Lowering(r) ==
  r.op = "delete" \/ (r.op = "update" /\ (r.role \notin {"keep", "admin"} \/ r.active = "off"))

\* The count of the other administrators and the write are two transactions:
\* raced records that t took an administrator away while another request that
\* takes rights away was past its own count.
Race(t) ==
  raced' = (raced \/ (/\ \E u \in Users : IsAdmin(users[u]) /\ ~ IsAdmin(users'[u])
                     /\ \E x \in Tasks \ {t} : pc[x] = "write" /\ Lowering(job[x].req)))

\* The flush of update_user: columns that did not change are not written, and
\* an UPDATE that finds no row raises.
WriteUpdate(t) ==
  LET r == job[t].req
      new == Applied(job[t].user, r)
      now == users[r.target] IN
  /\ pc[t] = "write" /\ r.op = "update"
  /\ IF new = job[t].user THEN NoChange /\ Go(t, "refresh", job[t])
     ELSE IF now \notin Accounts THEN NoChange /\ Done(t)
     ELSE /\ users' = [users EXCEPT ![r.target] = Updated(now, job[t].user, new)]
          /\ Race(t) /\ Overtake(WorkerOf[t], r.target)
          /\ Go(t, "refresh", job[t])
          /\ UNCHANGED overrides
  /\ UNCHANGED <<userCache, matrixCache, requests>>

\* A DELETE that finds no row is only a warning.
WriteDelete(t) ==
  LET u == job[t].req.target IN
  /\ pc[t] = "write" /\ job[t].req.op = "delete"
  /\ users' = [users EXCEPT ![u] = Gone]
  /\ Race(t) /\ Overtake(WorkerOf[t], u)
  /\ Go(t, "forget", job[t])
  /\ UNCHANGED <<overrides, userCache, matrixCache, requests>>

\* The email is UNIQUE: the second of two creations fails.
WriteCreate(t) ==
  LET r == job[t].req IN
  /\ pc[t] = "write" /\ r.op = "create"
  /\ users' = IF users[r.target] = Absent
              THEN [users EXCEPT ![r.target] = [role |-> r.role, active |-> TRUE]]
              ELSE users
  /\ Done(t)
  /\ UNCHANGED <<overrides, raced, caches, requests>>

\* session.refresh, which raises if the row is gone, then the invalidation.
Refresh(t) ==
  LET u == job[t].req.target IN
  /\ pc[t] = "refresh"
  /\ userCache' = IF users[u] \in Accounts THEN Forgotten(userCache, WorkerOf[t], u)
                  ELSE userCache
  /\ Done(t)
  /\ UNCHANGED <<tables, matrixCache, requests, excused>>

Forget(t) ==
  /\ pc[t] = "forget"
  /\ userCache' = Forgotten(userCache, WorkerOf[t], job[t].req.target)
  /\ Done(t)
  /\ UNCHANGED <<tables, matrixCache, requests, excused>>

\* update_permission: the SELECT of the cell's row, then its INSERT or UPDATE.
LoadCell(t) ==
  /\ pc[t] = "row"
  /\ Go(t, "writeRow", [job[t] EXCEPT !.row = overrides[job[t].req.cell]])
  /\ UNCHANGED <<tables, caches, requests>>

\* Neither an INSERT of a row that has appeared nor an UPDATE of one that has
\* gone succeeds; an UPDATE to the value loaded leaves the column alone.
WriteCell(t) ==
  LET r == job[t].req
      asked == IF r.allowed THEN "on" ELSE "off"
      loaded == job[t].row
      now == overrides[r.cell] IN
  /\ pc[t] = "writeRow"
  /\ IF (loaded = "default") # (now = "default") THEN NoChange /\ Done(t)
     ELSE /\ overrides' = [overrides EXCEPT ![r.cell] =
                             IF asked = loaded THEN now ELSE asked]
          /\ Overtake(WorkerOf[t], "matrix")
          /\ Go(t, "announce", job[t])
          /\ UNCHANGED <<users, raced>>
  /\ UNCHANGED <<userCache, matrixCache, requests>>

\* reset_permissions
Wipe(t) ==
  /\ pc[t] = "wipe"
  /\ overrides' = [c \in Cells |-> "default"]
  /\ Overtake(WorkerOf[t], "matrix")
  /\ Go(t, "announce", job[t])
  /\ UNCHANGED <<users, raced, userCache, matrixCache, requests>>

\* invalidate_permissions_cache, and the answer reads the matrix again.
Announce(t) ==
  /\ pc[t] = "announce"
  /\ matrixCache' = [matrixCache EXCEPT ![WorkerOf[t]] = NoMatrix]
  /\ Go(t, "payload", job[t])
  /\ UNCHANGED <<tables, userCache, requests, excused>>

-----------------------------------------------------------------------------
(* Expiry of the caches (60 s and 30 s, or 1024 users), restarts.          *)

ExpireUser_Never(w, u) == FALSE /\ UNCHANGED vars

ExpireUser(w, u) ==
  /\ userCache[w][u] # NoEntry
  /\ userCache' = [userCache EXCEPT ![w][u] = NoEntry]
  /\ excused' = excused \ {<<w, u>>}
  /\ UNCHANGED <<tables, matrixCache, pc, job, requests>>

ExpireMatrix(w) ==
  /\ matrixCache[w] # NoMatrix
  /\ matrixCache' = [matrixCache EXCEPT ![w] = NoMatrix]
  /\ excused' = excused \ {<<w, "matrix">>}
  /\ UNCHANGED <<tables, userCache, pc, job, requests>>

Crash(w) ==
  /\ pc' = [t \in Tasks |-> IF WorkerOf[t] = w THEN "idle" ELSE pc[t]]
  /\ job' = [t \in Tasks |-> IF WorkerOf[t] = w THEN IdleJob ELSE job[t]]
  /\ userCache' = [userCache EXCEPT ![w] = [u \in Users |-> NoEntry]]
  /\ matrixCache' = [matrixCache EXCEPT ![w] = NoMatrix]
  /\ excused' = {e \in excused : e[1] # w}
  /\ UNCHANGED <<tables, requests>>

-----------------------------------------------------------------------------

Init ==
  /\ users \in InitialUsers
  /\ overrides = [c \in Cells |-> "default"]
  /\ userCache = [w \in Workers |-> [u \in Users |-> NoEntry]]
  /\ matrixCache = [w \in Workers |-> NoMatrix]
  /\ pc = [t \in Tasks |-> "idle"] /\ job = [t \in Tasks |-> IdleJob]
  /\ requests = 0 /\ excused = {} /\ raced = FALSE

Step(t) ==
  \/ AuthHit(t) \/ AuthRead(t) \/ AuthFill(t)
  \/ MatrixHit(t) \/ MatrixRead(t) \/ MatrixFill(t)
  \/ Load(t) \/ Count(t) \/ WriteUpdate(t) \/ WriteDelete(t) \/ WriteCreate(t)
  \/ Refresh(t) \/ Forget(t)
  \/ LoadCell(t) \/ WriteCell(t) \/ Wipe(t) \/ Announce(t)

Next ==
  \/ \E t \in Tasks, r \in Asks : Arrive(t, r)
  \/ \E t \in Tasks : Step(t)
  \/ \E w \in Workers : Crash(w) \/ ExpireMatrix(w)
  \/ \E w \in Workers, u \in Users : ExpireUser(w, u)

Spec == Init /\ [][Next]_vars

\* SQLite answers, and time passes.
Fairness ==
  /\ \A t \in Tasks : WF_vars(Step(t))
  /\ \A w \in Workers : WF_vars(ExpireMatrix(w))
  /\ \A w \in Workers, u \in Users : WF_vars(ExpireUser(w, u))

FairSpec == Spec /\ Fairness

-----------------------------------------------------------------------------
(* Properties.                                                             *)

\* The platform loses its last administrator only when two requests that take
\* rights away were between their count and their write at once (auth.py:561).
\* Nothing else does: not an actor whose rights are only in a stale cache, nor
\* an account changed after a request has loaded it (update_user, delete_user).
LastAdmin == raced \/ \E u \in Users : IsAdmin(users[u])

Changing(w, key) ==
  \E t \in Tasks : WorkerOf[t] = w /\
    \/ pc[t] \in {"refresh", "forget"} /\ job[t].req.target = key
    \/ pc[t] = "announce" /\ key = "matrix"

\* A worker serves a right that is no longer that of the database only when
\* the change is another worker's, when the cache was filled by a read that
\* the change overtook, or while the request that made it is still between
\* its commit and its invalidation (dependencies.py:41-50, permissions.py:67).
OwnChangesSeen ==
  \A w \in Workers :
    /\ \A u \in Users : userCache[w][u] \notin {NoEntry, users[u]} =>
         <<w, u>> \in excused \/ Changing(w, u)
    /\ matrixCache[w] \notin {NoMatrix, Effective(overrides)} =>
         <<w, "matrix">> \in excused \/ Changing(w, "matrix")

\* Once the administrators have stopped, every worker ends up applying the
\* rights of the database, without a restart (permissions.py:66).
EventuallyCurrent ==
  <>[](\A w \in Workers :
         /\ matrixCache[w] \in {NoMatrix, Effective(overrides)}
         /\ \A u \in Users : userCache[w][u] \in {NoEntry, users[u]})
=============================================================================
