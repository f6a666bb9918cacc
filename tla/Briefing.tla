------------------------------ MODULE Briefing ------------------------------
(***************************************************************************)
(* The daily briefing: one file, latest.json, that every generation writes *)
(* again whole (uc_briefing/service.py, store.py), from settings kept in   *)
(* the database behind a cache of each worker (preferences.py, seuils.py). *)
(*                                                                         *)
(* One action is what a coroutine does between two awaits; the writing of  *)
(* the file is two, since another worker can read it between: no coroutine *)
(* of the same worker can.  A role's preferences and thresholds are one    *)
(* version, and so is a section: the version of the settings it was        *)
(* composed with.                                                          *)
(***************************************************************************)
EXTENDS Naturals, FiniteSets

CONSTANTS
  Roles,
  Keys,       \* sections: the roles, and those of their entities (dg@CI)
  RoleOf,     \* the role of each
  Workers,
  Nightly,    \* coroutines of the scheduler, Users of the requests
  Users,
  WorkerOf,   \* the process of each
  Changing,   \* roles whose settings are changed
  MaxVersion, \* bound on the changes of a role's settings
  MaxCalls,   \* bound on the refreshes that users ask for
  MaxFails    \* bound on the failed sections and the crashes

Tasks    == Nightly \cup Users
NoTask   == "none"
Versions == 0..MaxVersion
Missing  == MaxVersion + 1
Sections == 0..Missing

ASSUME ConstantsAssumption ==
  /\ Roles # {} /\ IsFiniteSet(Keys)
  /\ Roles \subseteq Keys /\ RoleOf \in [Keys -> Roles] /\ \A r \in Roles : RoleOf[r] = r
  /\ Changing \subseteq Roles
  /\ Nightly \cap Users = {} /\ NoTask \notin Tasks /\ WorkerOf \in [Tasks -> Workers]
  /\ MaxVersion \in Nat /\ MaxCalls \in Nat /\ MaxFails \in Nat

VARIABLES
  settings, \* briefing_preferences and briefing_seuils: of each role, its version
  cached,   \* workers whose cache is filled and less than 30 s old
  cache,    \* of each worker
  file,     \* latest.json: of each section its version, or Missing
  readable, \* whether it is there and whole
  locks,    \* _REFRESH_LOCKS of each worker: the holder, or NoTask
  pc, job,  \* each coroutine
  calls, fails

stored == <<settings, file, readable>>
vars   == <<settings, cached, cache, file, readable, locks, pc, job, calls, fails>>

\* keys are the sections to build, lock the key whose lock is held, settings
\* the composition, payload what is to be written.
Jobs == [keys : SUBSET Keys, lock : Keys, settings : [Roles -> Versions],
         payload : [Keys -> Sections]]

Stages == {"idle", "invalidate", "lock", "load", "fill", "build", "write"}

\* The settings, the caches, the file, the locks and the coroutines keep their
\* types, and a worker writes one file at a time.
TypeOK ==
  /\ settings \in [Roles -> Versions]
  /\ cached \subseteq Workers /\ cache \in [Workers -> [Roles -> Versions]]
  /\ file \in [Keys -> Sections] /\ readable \in BOOLEAN
  /\ locks \in [Workers -> [Keys -> Tasks \cup {NoTask}]]
  /\ pc \in [Tasks -> Stages] /\ job \in [Tasks -> Jobs]
  /\ calls \in 0..MaxCalls /\ fails \in 0..MaxFails
  /\ \A t, u \in Tasks : pc[t] = "write" /\ pc[u] = "write" /\ WorkerOf[t] = WorkerOf[u] => t = u

Empty == [k \in Keys |-> Missing]
First == [r \in Roles |-> 0]

Resting == [keys |-> {}, lock |-> CHOOSE k \in Roles : TRUE,
            settings |-> First, payload |-> Empty]

-----------------------------------------------------------------------------

Free_Always(t) == TRUE

\* The event loop of t's worker is free: write_text does not await.
Free(t) == \A u \in Tasks \ {t} : WorkerOf[u] = WorkerOf[t] => pc[u] # "write"

Go(t, stage, local) ==
  /\ pc' = [pc EXCEPT ![t] = stage]
  /\ job' = [job EXCEPT ![t] = local]

At(t, stage) == pc[t] = stage /\ Free(t)

Holds(t) == \E k \in Keys : locks[WorkerOf[t]][k] = t

Unlocked(t) == [k \in Keys |-> IF locks[WorkerOf[t]][k] = t THEN NoTask ELSE locks[WorkerOf[t]][k]]

End(t) ==
  /\ Go(t, "idle", Resting)
  /\ locks' = [locks EXCEPT ![WorkerOf[t]] = Unlocked(t)]

Drop(w) == cached' = cached \ {w} /\ cache' = [cache EXCEPT ![w] = First]

-----------------------------------------------------------------------------
(* The settings.                                                           *)

\* PUT /briefing/preferences or /seuils: one transaction, then the cache.
Put(t, r) ==
  /\ At(t, "idle") /\ settings[r] < MaxVersion
  /\ settings' = [settings EXCEPT ![r] = @ + 1]
  /\ Go(t, "invalidate", job[t])
  /\ UNCHANGED <<cached, cache, file, readable, locks, calls, fails>>

Invalidate(t) ==
  /\ At(t, "invalidate")
  /\ Drop(WorkerOf[t])
  /\ Go(t, "idle", job[t])
  /\ UNCHANGED <<stored, locks, calls, fails>>

Expired_Never(w) == FALSE

\* time.monotonic() - _cache_at < _CACHE_TTL
Expired(w) == w \in cached

Expire(w) ==
  /\ Expired(w) /\ Drop(w)
  /\ UNCHANGED <<stored, locks, pc, job, calls, fails>>

\* load_all and charger_tous, from the cache or by a SELECT.
Load(t) ==
  /\ At(t, "load")
  /\ IF WorkerOf[t] \in cached
     THEN Go(t, "build", [job[t] EXCEPT !.settings = cache[WorkerOf[t]]])
     ELSE Go(t, "fill", [job[t] EXCEPT !.settings = settings])
  /\ UNCHANGED <<stored, cached, cache, locks, calls, fails>>

\* What the SELECT answered goes to the cache, whatever was saved since.
Fill(t) ==
  /\ At(t, "fill")
  /\ cached' = cached \cup {WorkerOf[t]}
  /\ cache' = [cache EXCEPT ![WorkerOf[t]] = job[t].settings]
  /\ Go(t, "build", job[t])
  /\ UNCHANGED <<stored, locks, calls, fails>>

-----------------------------------------------------------------------------
(* The generations.                                                        *)

\* The job of midnight, and the first GET when there is no file: no lock.
Generate(t) ==
  /\ t \in Nightly /\ At(t, "idle")
  /\ Go(t, "load", [Resting EXCEPT !.keys = Keys])
  /\ UNCHANGED <<stored, cached, cache, locks, calls, fails>>

\* A refresh of the dg builds the sections of its entities too.
Asked(k) == IF k \in Roles THEN {l \in Keys : RoleOf[l] = k} ELSE {k}

\* POST /briefing/refresh of a role, or GET of an entity that has no section.
Request(t, k) ==
  /\ t \in Users /\ At(t, "idle") /\ calls < MaxCalls /\ calls' = calls + 1
  /\ Go(t, "lock", [Resting EXCEPT !.lock = k, !.keys = Asked(k)])
  /\ UNCHANGED <<stored, cached, cache, locks, fails>>

\* store.load, and the empty payload when there is nothing to read
Loaded == IF readable THEN file ELSE Empty

Lockable_Any(t) == TRUE

Lockable(t) == locks[WorkerOf[t]][job[t].lock] = NoTask

\* An entity's section is looked up again under the lock.
Lock(t) ==
  /\ At(t, "lock") /\ Lockable(t)
  /\ IF job[t].lock \notin Roles /\ Loaded[job[t].lock] # Missing
     THEN Go(t, "idle", Resting) /\ UNCHANGED locks
     ELSE /\ Go(t, "load", [job[t] EXCEPT !.payload = IF job[t].lock \in Roles THEN @ ELSE Loaded])
          /\ locks' = [locks EXCEPT ![WorkerOf[t]][job[t].lock] = t]
  /\ UNCHANGED <<stored, cached, cache, calls, fails>>

Under_Own(t) == job[t].payload

\* What the new sections are put over: nothing, the file, or when it cannot be
\* read what an entity's request had read first.
Under(t) ==
  IF t \in Nightly THEN Empty
  ELSE IF job[t].lock \notin Roles /\ ~readable THEN job[t].payload
  ELSE Loaded

\* The facts and the texts of the sections are there, but for those of F: they
\* are left out, save that a role's own raises.  The rest is put over Under and
\* written; write_text truncates the file first.
Save(t) ==
  /\ At(t, "build")
  /\ \E F \in SUBSET job[t].keys :
       /\ fails' = fails + Cardinality(F) /\ fails' <= MaxFails
       /\ IF t \in Users /\ job[t].lock \in F
          THEN End(t) /\ UNCHANGED readable
          ELSE /\ Go(t, "write", [Resting EXCEPT !.lock = job[t].lock, !.payload =
                    [k \in Keys |-> IF k \in job[t].keys \ F THEN job[t].settings[RoleOf[k]]
                                    ELSE Under(t)[k]]])
               /\ readable' = FALSE /\ UNCHANGED locks
  /\ UNCHANGED <<settings, file, cached, cache, calls>>

Write(t) ==
  /\ pc[t] = "write"
  /\ file' = job[t].payload /\ readable' = TRUE
  /\ End(t)
  /\ UNCHANGED <<settings, cached, cache, calls, fails>>

\* A worker dies with its coroutines, its cache and its locks.
Crash(w) ==
  /\ fails < MaxFails /\ fails' = fails + 1
  /\ pc' = [t \in Tasks |-> IF WorkerOf[t] = w THEN "idle" ELSE pc[t]]
  /\ job' = [t \in Tasks |-> IF WorkerOf[t] = w THEN Resting ELSE job[t]]
  /\ locks' = [locks EXCEPT ![w] = [k \in Keys |-> NoTask]]
  /\ Drop(w)
  /\ UNCHANGED <<stored, calls>>

-----------------------------------------------------------------------------

Init ==
  /\ settings = First
  /\ cached = {} /\ cache = [w \in Workers |-> First]
  /\ file = Empty /\ readable = FALSE
  /\ locks = [w \in Workers |-> [k \in Keys |-> NoTask]]
  /\ pc = [t \in Tasks |-> "idle"] /\ job = [t \in Tasks |-> Resting]
  /\ calls = 0 /\ fails = 0

Step(t) == Invalidate(t) \/ Lock(t) \/ Load(t) \/ Fill(t) \/ Save(t) \/ Write(t)

Next ==
  \/ \E t \in Tasks : Generate(t) \/ Step(t)
  \/ \E t \in Users : (\E r \in Changing : Put(t, r)) \/ (\E k \in Keys : Request(t, k))
  \/ \E w \in Workers : Expire(w) \/ Crash(w)

Spec == Init /\ [][Next]_vars

\* Midnight comes again, coroutines are scheduled and caches grow old.
FairSpec ==
  /\ Spec
  /\ \A t \in Tasks : WF_vars(Step(t)) /\ WF_vars(Generate(t))
  /\ \A w \in Workers : WF_vars(Expire(w))

-----------------------------------------------------------------------------
(* Properties.                                                             *)

\* In one worker no two requests build a section at once, where they would
\* overwrite each other in store.save (service.py:38-41), whatever fails or dies
\* meanwhile; save a refresh of a role with a request of one of its entities,
\* which do, since their locks are not the same (service.py:194, 242).
RequestsTakeTurns ==
  \A t, u \in Users :
    /\ pc[t] \in {"load", "fill", "build", "write"}
    /\ pc[u] \in {"load", "fill", "build", "write"}
    /\ WorkerOf[t] = WorkerOf[u]
    /\ Asked(job[t].lock) \cap Asked(job[u].lock) # {}
    => t = u \/ (job[t].lock \in Roles <=> job[u].lock \notin Roles)

\* t is the only one to write latest.json, and nobody wrote it since it began.
Alone(t) == ~readable /\ \A u \in Tasks \ {t} : pc[u] # "write"

\* A section leaves the briefing only when a section failed, a worker died or
\* two workers wrote at once: a refresh of one role, however long it took and
\* whatever was generated meanwhile, keeps the sections of the others
\* (generate_role, service.py:182-185).
NoSectionLost ==
  [][/\ fails = 0
     /\ \A t \in Tasks : pc[t] = "write" /\ pc'[t] # "write" => Alone(t)
     => \A k \in Keys : file[k] # Missing => file'[k] # Missing]_vars

\* Whatever a refresh, a stale cache, a cut file or a generation begun before
\* did to the sections, the nights after the last change repair it: the file
\* can always be read again, and then holds every section, composed with the
\* settings of its role.
Current == readable => \A k \in Keys : file[k] = settings[RoleOf[k]]

EventuallyCurrent == <>[]Current /\ []<>readable
=============================================================================
