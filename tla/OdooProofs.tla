----------------------------- MODULE OdooProofs -----------------------------
(***************************************************************************)
(* Proofs about OdooMirror, for any records, versions, clock, syncs and    *)
(* webhooks: the types, and that the watermark passes over no change but   *)
(* those of the records lost; and about OdooViews, that the views add up   *)
(* in whatever states the mirror goes through.                             *)
(***************************************************************************)
EXTENDS OdooViews, FiniteSetTheorems, WellFoundedInduction, TLAPS

\* Nine sections, each with its name.
LEMMA StepsFacts ==
  /\ DOMAIN Steps = 1..9 /\ Len(Steps) = 9
  /\ \A i \in 1..9 : Steps[i] \in Kinds
  /\ \A k \in Kinds : \E i \in 1..9 : Steps[i] = k
  /\ \A i, j \in 1..9 : Steps[i] = Steps[j] => i = j
<1>1. DOMAIN Steps = 1..9 /\ Len(Steps) = 9
  BY DEF Steps
<1>2. \A i \in 1..9 : Steps[i] \in Kinds
  BY <1>1 DEF Kinds
<1>3. \A k \in Kinds : \E i \in 1..9 : Steps[i] = k
  BY <1>1 DEF Kinds
<1>4. \A i, j \in 1..9 : Steps[i] = Steps[j] => i = j
  BY DEF Steps
<1> QED BY <1>1, <1>2, <1>3, <1>4

\* A set of sections that is not empty has a first one.
LEMMA FirstFacts ==
  ASSUME NEW S \in SUBSET (1..9), S # {}
  PROVE  First(S) \in S /\ \A j \in S : First(S) <= j
<1>1. \E i \in S : \A j \in S : i <= j
  <2>1. SUFFICES ASSUME \A i \in S : \E j \in S : j < i PROVE FALSE
    OBVIOUS
  <2>2. 1 \notin S
    BY <2>1
  <2>3. 2 \notin S
    BY <2>1, <2>2
  <2>4. 3 \notin S
    BY <2>1, <2>2, <2>3
  <2>5. 4 \notin S
    BY <2>1, <2>2, <2>3, <2>4
  <2>6. 5 \notin S
    BY <2>1, <2>2, <2>3, <2>4, <2>5
  <2>7. 6 \notin S
    BY <2>1, <2>2, <2>3, <2>4, <2>5, <2>6
  <2>8. 7 \notin S
    BY <2>1, <2>2, <2>3, <2>4, <2>5, <2>6, <2>7
  <2>9. 8 \notin S
    BY <2>1, <2>2, <2>3, <2>4, <2>5, <2>6, <2>7, <2>8
  <2>10. 9 \notin S
    BY <2>1, <2>2, <2>3, <2>4, <2>5, <2>6, <2>7, <2>8, <2>9
  <2>11. \A x \in 1..9 : \/ x = 1 \/ x = 2 \/ x = 3 \/ x = 4 \/ x = 5
                        \/ x = 6 \/ x = 7 \/ x = 8 \/ x = 9
    OBVIOUS
  <2>12. \A x \in 1..9 : x \notin S
    BY <2>2, <2>3, <2>4, <2>5, <2>6, <2>7, <2>8, <2>9, <2>10, <2>11
  <2> QED BY <2>12
<1> QED BY <1>1 DEF First

\* The section of each record.
Section(r) == CHOOSE i \in 1..9 : Steps[i] = KindOf[r]

LEMMA SectionFacts ==
  ASSUME NEW r \in Records
  PROVE  /\ KindOf[r] \in Kinds
         /\ Section(r) \in 1..9 /\ Steps[Section(r)] = KindOf[r]
         /\ \A i \in 1..9 : Steps[i] = KindOf[r] => i = Section(r)
<1>1. KindOf[r] \in Kinds
  BY ConstantsAssumption
<1>2. Section(r) \in 1..9 /\ Steps[Section(r)] = KindOf[r]
  BY <1>1, StepsFacts DEF Section
<1> QED BY <1>1, <1>2, StepsFacts

-----------------------------------------------------------------------------
(* Types.                                                                  *)

\* Only the section in hand is held, and the excluded stay out.
Sorted(step, got) == \A r \in Records : got[r] # None => KindOf[r] = Steps[step]

Excludes == \A r \in Excluded : KindOf[r] \in FullOnly \/ rows[r] = None

LEMMA NothingTyped ==
  /\ Nothing \in [Records -> Versions]
  /\ \A r \in Records : Nothing[r] = None
BY ConstantsAssumption DEF Nothing, Versions, None

LEMMA RestingTyped == Resting \in Jobs /\ Sorted(Resting.step, Resting.got)
BY ConstantsAssumption, NothingTyped, StepsFacts
   DEF Resting, Jobs, NoMark, Sorted

LEMMA LocalTyped ==
  ASSUME TypeOK, NEW p \in Processes, NEW step \in 1..9,
         NEW got \in [Records -> Versions], NEW content \in [Records -> Versions],
         Sorted(step, got)
  PROVE  /\ Local(p, step, got, content) \in Jobs
         /\ Sorted(Local(p, step, got, content).step, Local(p, step, got, content).got)
         /\ Local(p, step, got, content).since = job[p].since
         /\ Local(p, step, got, content).start = job[p].start
         /\ Local(p, step, got, content).step = step
         /\ Local(p, step, got, content).got = got
<1>1. job[p] \in Jobs
  BY DEF TypeOK
<1>2. job[p].since \in 0..NoMark /\ job[p].start \in 0..MaxNow
  BY <1>1 DEF Jobs
<1> QED BY <1>2, StepsFacts DEF Local, Jobs

\* A process that goes on: it alone moves, and keeps its types.
Moves(p) ==
  /\ pc' \in [Processes -> Stages] /\ job' \in [Processes -> Jobs]
  /\ \A q \in Processes : Sorted(job'[q].step, job'[q].got)
  /\ \A q \in Processes \ {p} : pc'[q] = pc[q] /\ job'[q] = job[q]

LEMMA GoFacts ==
  ASSUME TypeOK, NEW p \in Processes, NEW stage \in Stages, NEW local \in Jobs,
         Sorted(local.step, local.got), Go(p, stage, local)
  PROVE  Moves(p) /\ pc'[p] = stage /\ job'[p] = local
<1>1. pc' \in [Processes -> Stages] /\ job' \in [Processes -> Jobs]
  BY DEF TypeOK, Go
<1>2. pc'[p] = stage /\ job'[p] = local
  BY DEF TypeOK, Go
<1>3. \A q \in Processes \ {p} : pc'[q] = pc[q] /\ job'[q] = job[q]
  BY DEF TypeOK, Go
<1>4. \A q \in Processes : Sorted(job[q].step, job[q].got)
  BY DEF TypeOK, Sorted
<1>5. \A q \in Processes : Sorted(job'[q].step, job'[q].got)
  <2> TAKE q \in Processes
  <2>1. CASE q = p
    BY <2>1, <1>2
  <2>2. CASE q # p
    BY <2>2, <1>3, <1>4
  <2> QED BY <2>1, <2>2
<1> QED BY <1>1, <1>2, <1>3, <1>5 DEF Moves

LEMMA EndFacts ==
  ASSUME TypeOK, NEW p \in Processes, End(p)
  PROVE  Moves(p) /\ pc'[p] = "idle"
<1>1. "idle" \in Stages
  BY DEF Stages
<1> QED BY <1>1, RestingTyped, GoFacts DEF End

\* The sections a sync has passed.
Behind(p, r) == pc[p] = "save" \/ Section(r) < job[p].step

\* The step after the section in hand leaves no section between.
LEMMA NextStepFacts ==
  ASSUME TypeOK, NEW p \in Processes, NextStep(p)
  PROVE  /\ Moves(p) /\ pc'[p] \in {"idle", "list", "save"}
         /\ pc'[p] # "idle" => /\ job'[p].since = job[p].since /\ job'[p].start = job[p].start
                               /\ \A r \in Records : Behind(p, r)' => Section(r) <= job[p].step
<1>1. CASE p \in Hooks
  BY <1>1, EndFacts DEF NextStep
<1>2. CASE p \notin Hooks
  <2>1. job[p].step \in 1..9
    BY StepsFacts DEF TypeOK, Jobs
  <2>2. Left(p) \in SUBSET (1..9)
    BY StepsFacts DEF Left
  <2>3. Sorted(job[p].step, Nothing)
    BY NothingTyped DEF Sorted
  <2>4. CASE Left(p) = {}
    <3> DEFINE local == Local(p, job[p].step, Nothing, Nothing)
    <3>1. Go(p, "save", local)
      BY <1>2, <2>4 DEF NextStep
    <3>2. /\ local \in Jobs /\ Sorted(local.step, local.got)
          /\ local.since = job[p].since /\ local.start = job[p].start
      BY <2>1, <2>3, NothingTyped, LocalTyped
    <3> HIDE DEF local
    <3>3. "save" \in Stages
      BY DEF Stages
    <3>4. Moves(p) /\ pc'[p] = "save" /\ job'[p] = local
      BY <3>1, <3>2, <3>3, GoFacts
    <3>5. \A r \in Records : Section(r) <= job[p].step
      BY <2>1, <2>4, SectionFacts, StepsFacts DEF Left
    <3> QED BY <3>2, <3>4, <3>5
  <2>5. CASE Left(p) # {}
    <3> DEFINE step == First(Left(p))
               local == Local(p, step, Nothing, Nothing)
    <3>1. Go(p, "list", local)
      BY <1>2, <2>5 DEF NextStep
    <3>2. step \in Left(p) /\ \A j \in Left(p) : step <= j
      BY <2>2, <2>5, FirstFacts
    <3>3. step \in 1..9
      BY <2>2, <3>2
    <3> HIDE DEF step
    <3>4. Sorted(step, Nothing)
      BY NothingTyped DEF Sorted
    <3>5. /\ local \in Jobs /\ Sorted(local.step, local.got) /\ local.step = step
          /\ local.since = job[p].since /\ local.start = job[p].start
      BY <3>3, <3>4, NothingTyped, LocalTyped
    <3> HIDE DEF local
    <3>6. "list" \in Stages
      BY DEF Stages
    <3>7. Moves(p) /\ pc'[p] = "list" /\ job'[p] = local
      BY <3>1, <3>5, <3>6, GoFacts
    <3>8. ASSUME NEW r \in Records, Section(r) < step PROVE Section(r) <= job[p].step
      <4>1. Section(r) \in 1..9 /\ Steps[Section(r)] = KindOf[r]
        BY SectionFacts
      <4>2. Section(r) \notin Left(p)
        BY <3>2, <3>3, <3>8, <4>1
      <4> QED BY <2>1, <4>1, <4>2, StepsFacts DEF Left
    <3>9. \A r \in Records : Behind(p, r)' => Section(r) <= job[p].step
      BY <3>5, <3>7, <3>8 DEF Behind, Section
    <3> QED BY <3>5, <3>7, <3>9
  <2> QED BY <2>4, <2>5
<1> QED BY <1>1, <1>2

\* Records read are the current ones of those the list holds.
Answer(R) == [r \in Records |-> IF r \in R THEN odoo[r] ELSE None]

Holding(p) == pc[p] \in {"lines", "write"}

LEMMA HandFacts == \A k : Hand(k) \in {"lines", "write"} /\ Hand(k) \in Stages
BY DEF Hand, Stages

\* Listed records are not deleted.
LEMMA ListedTyped == Listed \subseteq Versions /\ Gone \notin Listed /\ None \notin Listed
BY ConstantsAssumption DEF Versions, Gone, None

LEMMA AnsweredFacts ==
  ASSUME TypeOK, NEW p \in Processes, NEW R \in SUBSET AskedFor(p), Answered(p, R)
  PROVE  /\ Moves(p)
         /\ \/ NextStep(p) /\ R = {}
            \/ /\ pc'[p] \in {"lines", "write"} /\ job'[p].step = job[p].step
               /\ job'[p].since = job[p].since /\ job'[p].start = job[p].start
               /\ job'[p].got = Answer(R)
<1> DEFINE got == Answer(R)
<1>0. \A r \in R : r \in Records /\ Asked(p, r)
  BY DEF AskedFor
<1>1. got \in [Records -> Versions]
  <2>1. \A r \in R : odoo[r] \in Versions
    BY <1>0, ListedTyped DEF Asked
  <2>2. None \in Versions
    BY ConstantsAssumption DEF None, Versions
  <2> QED BY <2>1, <2>2 DEF Answer
<1>2. CASE R = {}
  BY <1>2, NextStepFacts DEF Answered
<1>3. CASE R # {}
  <2> DEFINE local == Local(p, job[p].step, got, Nothing)
  <2>1. Go(p, Hand(KindAt(p)), local)
    BY <1>3 DEF Answered, Answer
  <2>2. job[p].step \in 1..9
    BY StepsFacts DEF TypeOK, Jobs
  <2>3. Sorted(job[p].step, got)
    BY <1>0 DEF Sorted, Answer, Asked, KindAt, None
  <2> HIDE DEF got
  <2>4. /\ local \in Jobs /\ Sorted(local.step, local.got)
        /\ local.since = job[p].since /\ local.start = job[p].start
        /\ local.step = job[p].step /\ local.got = got
    BY <1>1, <2>2, <2>3, NothingTyped, LocalTyped
  <2> HIDE DEF local
  <2>5. Moves(p) /\ pc'[p] = Hand(KindAt(p)) /\ job'[p] = local
    BY <2>1, <2>4, HandFacts, GoFacts
  <2> QED BY <2>4, <2>5, HandFacts DEF got
<1> QED BY <1>2, <1>3

\* A list holds records asked for.
LEMMA AnswersFacts == \A s : Answers(s) \subseteq SUBSET AskedFor(s)
BY DEF Answers

LEMMA LoseTyped ==
  ASSUME TypeOK, NEW S \in SUBSET Records, Lose(S)
  PROVE  lost' \subseteq Records
BY DEF Lose, TypeOK

LEMMA ReadLinesFacts ==
  ASSUME TypeOK, NEW p \in Processes, ReadLines(p)
  PROVE  /\ Moves(p) /\ pc'[p] = "write" /\ job'[p].step = job[p].step
         /\ job'[p].since = job[p].since /\ job'[p].start = job[p].start
         /\ job'[p].got = job[p].got
<1>1. job[p] \in Jobs /\ Sorted(job[p].step, job[p].got) /\ job[p].step \in 1..9
      /\ job[p].got \in [Records -> Versions]
  BY StepsFacts DEF TypeOK, Jobs, Sorted
<1>2. "write" \in Stages
  BY DEF Stages
<1>3. CASE Go(p, "write", job[p])
  BY <1>1, <1>2, <1>3, GoFacts
<1>4. ASSUME NEW content \in [Records -> Versions],
             Go(p, "write", Local(p, job[p].step, job[p].got, content))
      PROVE  /\ Moves(p) /\ pc'[p] = "write" /\ job'[p].step = job[p].step
             /\ job'[p].since = job[p].since /\ job'[p].start = job[p].start
             /\ job'[p].got = job[p].got
  <2> DEFINE local == Local(p, job[p].step, job[p].got, content)
  <2>1. /\ local \in Jobs /\ Sorted(local.step, local.got)
        /\ local.since = job[p].since /\ local.start = job[p].start
        /\ local.step = job[p].step /\ local.got = job[p].got
    BY <1>1, LocalTyped
  <2>2. Go(p, "write", local)
    BY <1>4
  <2> HIDE DEF local
  <2> QED BY <1>2, <2>1, <2>2, GoFacts
<1>5. [r \in Records |-> IF job[p].got[r] # None /\ Exists(r) THEN odoo[r] ELSE None]
        \in [Records -> Versions]
  BY ConstantsAssumption DEF Exists, Versions, None
<1> QED BY <1>3, <1>4, <1>5 DEF ReadLines

LEMMA StartedFacts ==
  ASSUME TypeOK, NEW s \in Syncs, NEW since \in 0..NoMark, Started(s, since)
  PROVE  /\ Moves(s) /\ pc'[s] = "list"
         /\ job'[s].since = since /\ job'[s].start = now
         /\ \A r \in Records : job'[s].step <= Section(r)
<1> DEFINE S == {i \in DOMAIN Steps : \E r \in Records : KindOf[r] = Steps[i]}
           local == [step |-> First(S), since |-> since, start |-> now,
                     got |-> Nothing, content |-> Nothing]
<1>1. S \in SUBSET (1..9)
  BY StepsFacts
<1>2. \A r \in Records : Section(r) \in S
  BY SectionFacts, StepsFacts
<1>3. S # {}
  BY <1>2, ConstantsAssumption
<1>4. Go(s, "list", local)
  BY DEF Started
<1> HIDE DEF S
<1>5. First(S) \in 1..9 /\ \A j \in S : First(S) <= j
  BY <1>1, <1>3, FirstFacts
<1>6. Sorted(First(S), Nothing)
  BY NothingTyped DEF Sorted
<1>7. now \in 0..MaxNow
  BY DEF TypeOK
<1>8. local \in Jobs /\ Sorted(local.step, local.got)
  BY <1>5, <1>6, <1>7, NothingTyped, StepsFacts DEF Jobs
<1>9. local.step = First(S) /\ local.since = since /\ local.start = now
  OBVIOUS
<1> HIDE DEF local
<1>10. "list" \in Stages /\ s \in Processes
  BY DEF Stages, Processes
<1>11. Moves(s) /\ pc'[s] = "list" /\ job'[s] = local
  BY <1>4, <1>8, <1>10, GoFacts
<1> QED BY <1>2, <1>5, <1>9, <1>11

LEMMA NotifyFacts ==
  ASSUME TypeOK, NEW h \in Hooks, NEW r \in Records, Notify(h, r)
  PROVE  Moves(h) /\ job'[h].got = [Nothing EXCEPT ![r] = odoo[r]]
<1> DEFINE step == CHOOSE i \in DOMAIN Steps : Steps[i] = KindOf[r]
           got == [Nothing EXCEPT ![r] = odoo[r]]
           local == Local(h, step, got, Nothing)
<1>1. step \in 1..9 /\ Steps[step] = KindOf[r]
  BY StepsFacts, SectionFacts
<1>2. got \in [Records -> Versions]
  BY NothingTyped, ConstantsAssumption DEF Notify, Exists, Versions
<1>3. Sorted(step, got)
  BY <1>1, NothingTyped DEF Sorted
<1>4. Go(h, Hand(KindOf[r]), local)
  BY DEF Notify
<1>5. h \in Processes
  BY DEF Processes
<1> HIDE DEF step, got
<1>6. local \in Jobs /\ Sorted(local.step, local.got) /\ local.got = got
  BY <1>1, <1>2, <1>3, <1>5, NothingTyped, LocalTyped
<1> HIDE DEF local
<1>7. Moves(h) /\ job'[h] = local
  BY <1>4, <1>5, <1>6, HandFacts, GoFacts
<1> QED BY <1>6, <1>7 DEF got

\* A process moves, Odoo and the clock do not.
LEMMA MovesTyped ==
  ASSUME TypeOK, NEW p \in Processes, Moves(p), UNCHANGED source,
         rows' \in [Records -> Versions], lines' \in [Records -> Versions], Excludes',
         lost' \subseteq Records, mark' \in 0..NoMark, fails' \in 0..MaxFails, calls' \in 0..MaxCalls
  PROVE  TypeOK'
BY DEF TypeOK, Moves, Sorted, Excludes, source

LEMMA WriteTyped ==
  ASSUME TypeOK, NEW p \in Processes, Write(p)
  PROVE  /\ rows' \in [Records -> Versions] /\ lines' \in [Records -> Versions]
         /\ lost' \subseteq Records /\ Excludes'
<1>1. /\ job[p].got \in [Records -> Versions] /\ job[p].content \in [Records -> Versions]
      /\ rows \in [Records -> Versions] /\ lines \in [Records -> Versions] /\ Excludes
  BY DEF TypeOK, Jobs, Excludes
<1>2. rows' \in [Records -> Versions] /\ lines' \in [Records -> Versions]
  BY <1>1 DEF Write, Replaced
<1>3. Excludes'
  BY <1>1, ConstantsAssumption DEF Excludes, Write, Taken
<1>4. lost' \subseteq Records
  BY DEF Write, Taken, TypeOK
<1> QED BY <1>2, <1>3, <1>4

LEMMA CountersTyped ==
  ASSUME TypeOK
  PROVE  /\ fails < MaxFails => fails + 1 \in 0..MaxFails
         /\ calls < MaxCalls => calls + 1 \in 0..MaxCalls
         /\ fails \in 0..MaxFails /\ calls \in 0..MaxCalls /\ mark \in 0..NoMark
BY ConstantsAssumption DEF TypeOK

LEMMA TypeInit == Init => TypeOK
<1> SUFFICES ASSUME Init PROVE TypeOK
  OBVIOUS
<1>1. Nothing \in [Records -> 0..Gone] /\ Nothing \in [Records -> 0..MaxNow]
  BY ConstantsAssumption DEF Nothing, None, Gone
<1>2. "idle" \in Stages
  BY DEF Stages
<1>3. pc \in [Processes -> Stages] /\ job \in [Processes -> Jobs]
  BY <1>2, RestingTyped DEF Init
<1>4. \A p \in Processes : Sorted(job[p].step, job[p].got)
  BY RestingTyped DEF Init
<1>5. odoo \in [Records -> 0..Gone]
  BY ConstantsAssumption DEF Init, None, Gone
<1> QED BY <1>1, <1>3, <1>4, <1>5, NothingTyped, ConstantsAssumption DEF Init, TypeOK, Sorted, NoMark

LEMMA TypeNext == TypeOK /\ [Next]_vars => TypeOK'
<1> SUFFICES ASSUME TypeOK, [Next]_vars PROVE TypeOK'
  OBVIOUS
<1> USE DEF Sorted
<1>0. /\ rows \in [Records -> Versions] /\ lines \in [Records -> Versions] /\ Excludes
      /\ lost \subseteq Records
  BY DEF TypeOK, Excludes
<1>1. ASSUME NEW r \in Records, Change(r) PROVE TypeOK'
  <2>1. odoo' \in [Records -> 0..Gone] /\ written' \in [Records -> 0..MaxNow]
    <3>1. odoo[r] \in 0..Gone /\ Last[r] \in 1..MaxVersion /\ MaxVersion \in Nat
      BY ConstantsAssumption DEF TypeOK
    <3>2. odoo[r] + 1 \in 0..Gone
      BY <1>1, <3>1 DEF Change, Gone
    <3>3. now \in 0..MaxNow
      BY DEF TypeOK
    <3> QED BY <1>1, <3>2, <3>3 DEF Change, TypeOK
  <2> QED BY <1>1, <2>1 DEF Change, TypeOK
<1>2. ASSUME NEW r \in Records, Delete(r) PROVE TypeOK'
  <2>1. odoo' \in [Records -> 0..Gone]
    BY <1>2, ConstantsAssumption DEF Delete, TypeOK, Gone
  <2> QED BY <1>2, <2>1 DEF Delete, TypeOK, mirror
<1>3. ASSUME NEW r \in Records, Unlink(r) PROVE TypeOK'
  <2>1. rows' \in [Records -> Versions]
    BY <1>0, <1>3, ConstantsAssumption DEF Unlink, Versions, None
  <2>2. Excludes'
    BY <1>0, <1>3 DEF Excludes, Unlink
  <2>3. calls' \in 0..MaxCalls
    BY <1>3, CountersTyped DEF Unlink
  <2> QED BY <1>3, <2>1, <2>2, <2>3 DEF Unlink, TypeOK, source, Excludes
<1>4. ASSUME Tick PROVE TypeOK'
  BY <1>4, ConstantsAssumption DEF Tick, TypeOK, mirror
<1>5. ASSUME NEW s \in Syncs, Begin(s) PROVE TypeOK'
  <2>1. Moves(s) /\ s \in Processes
    BY <1>5, CountersTyped, StartedFacts DEF Begin, Processes
  <2> QED BY <1>0, <1>5, <2>1, CountersTyped, MovesTyped DEF Begin, Started, mirror, Excludes
<1>6. ASSUME NEW s \in Syncs, ForceSync(s) PROVE TypeOK'
  <2>1. NoMark \in 0..NoMark
    BY ConstantsAssumption DEF NoMark
  <2>2. Moves(s) /\ s \in Processes
    BY <1>6, <2>1, StartedFacts DEF ForceSync, Processes
  <2> QED BY <1>0, <1>6, <2>2, CountersTyped, MovesTyped DEF ForceSync, Started, mirror, Excludes
<1>7. ASSUME NEW s \in Syncs, List(s) PROVE TypeOK'
  <2>1. PICK R \in SUBSET AskedFor(s) : Answered(s, R)
    BY <1>7, AnswersFacts DEF List
  <2>2. Moves(s) /\ s \in Processes
    BY <2>1, AnsweredFacts DEF Processes
  <2>3. lost' \subseteq Records
    BY <2>1, LoseTyped DEF Answered, AskedFor
  <2> QED BY <1>0, <1>7, <2>2, <2>3, CountersTyped, MovesTyped DEF List, Excludes
<1>8. ASSUME NEW s \in Syncs, ListInPart(s) PROVE TypeOK'
  <2>1. PICK R \in SUBSET AskedFor(s) : Answered(s, R)
    BY <1>8 DEF ListInPart
  <2>2. Moves(s) /\ s \in Processes
    BY <2>1, AnsweredFacts DEF Processes
  <2>3. lost' \subseteq Records
    BY <2>1, LoseTyped DEF Answered, AskedFor
  <2> QED BY <1>0, <1>8, <2>2, <2>3, CountersTyped, MovesTyped DEF ListInPart, Excludes
<1>9. ASSUME NEW p \in Processes, ReadLines(p) PROVE TypeOK'
  <2>1. Moves(p)
    BY <1>9, ReadLinesFacts
  <2>2. fails' \in 0..MaxFails
    BY <1>9, CountersTyped DEF ReadLines
  <2> QED BY <1>0, <1>9, <2>1, <2>2, CountersTyped, MovesTyped DEF ReadLines, mirror, Excludes
<1>10. ASSUME NEW p \in Processes, Write(p) PROVE TypeOK'
  <2>1. Moves(p)
    BY <1>10, NextStepFacts DEF Write
  <2>2. /\ rows' \in [Records -> Versions] /\ lines' \in [Records -> Versions]
        /\ lost' \subseteq Records /\ Excludes'
    BY <1>10, WriteTyped
  <2> QED BY <1>10, <2>1, <2>2, CountersTyped, MovesTyped DEF Write
<1>11. ASSUME NEW s \in Syncs, Raise(s) PROVE TypeOK'
  <2>1. Moves(s) /\ s \in Processes
    BY <1>11, NextStepFacts, EndFacts DEF Raise, Processes
  <2>2. lost' \subseteq Records
    BY <1>0, <1>11, LoseTyped DEF Raise, AskedFor
  <2> QED BY <1>0, <1>11, <2>1, <2>2, CountersTyped, MovesTyped DEF Raise, Excludes
<1>12. ASSUME NEW s \in Syncs, Save(s) PROVE TypeOK'
  <2>1. Moves(s) /\ s \in Processes
    BY <1>12, EndFacts DEF Save, Processes
  <2>2. mark' \in 0..NoMark
    BY <1>12, <2>1, ConstantsAssumption DEF Save, Saved, TypeOK, Jobs, NoMark
  <2> QED BY <1>0, <1>12, <2>1, <2>2, CountersTyped, MovesTyped DEF Save, mirror, Excludes
<1>13. ASSUME NEW h \in Hooks, NEW r \in Records, Notify(h, r) PROVE TypeOK'
  <2>1. Moves(h) /\ h \in Processes
    BY <1>13, NotifyFacts DEF Processes
  <2> QED BY <1>0, <1>13, <2>1, CountersTyped, MovesTyped DEF Notify, mirror, Excludes
<1>14. ASSUME NEW p \in Processes, Crash(p) PROVE TypeOK'
  <2>1. Moves(p)
    BY <1>14, EndFacts DEF Crash
  <2>2. mark' \in 0..NoMark
    BY <1>14, CountersTyped, ConstantsAssumption DEF Crash, NoMark
  <2> QED BY <1>0, <1>14, <2>1, <2>2, CountersTyped, MovesTyped DEF Crash, mirror, Excludes
<1>15. CASE UNCHANGED vars
  BY <1>15 DEF vars, TypeOK
<1> QED
  BY <1>1, <1>2, <1>3, <1>4, <1>5, <1>6, <1>7, <1>8, <1>9, <1>10, <1>11, <1>12, <1>13, <1>14, <1>15
  DEF Next, SyncStep, HookStep, Processes

\* Odoo's copy, the file and the processes keep their types, whatever the syncs,
\* webhooks, failures and crashes.
THEOREM TypeCorrect == Spec => []TypeOK
<1> QED BY TypeInit, TypeNext, PTL DEF Spec

-----------------------------------------------------------------------------
(* The watermark.                                                          *)

\* Current, changed since t, or lost; the same in the rows of the next state.
CurrentSince(r, t) == odoo[r] \in Listed => rows[r] = odoo[r] \/ written[r] >= t \/ r \in lost
Kept(r, t) == odoo[r] \in Listed => rows'[r] = odoo[r] \/ written[r] >= t \/ r \in lost'

\* A version in hand is current, or the record changed since t.
FreshSince(v, r, t) == odoo[r] \in Listed => v = odoo[r] \/ written[r] >= t

\* The records a sync has passed: of the sections before, and of the one in
\* hand those it does not hold.
Passed(s, r) ==
  Behind(s, r) \/ (Holding(s) /\ Section(r) = job[s].step /\ job[s].got[r] = None)

\* What an active sync knows of a record.
Knows(s, r) ==
  /\ job[s].since # NoMark => CurrentSince(r, job[s].since)
  /\ Passed(s, r) => CurrentSince(r, job[s].start)
  /\ Holding(s) /\ job[s].got[r] # None => FreshSince(job[s].got[r], r, job[s].start)

Sound(s) ==
  pc[s] # "idle" =>
    /\ job[s].start <= now
    /\ job[s].since # NoMark => job[s].since <= job[s].start
    /\ \A r \in Watched : Knows(s, r)

Inv ==
  /\ TypeOK
  /\ mark # NoMark => mark <= now /\ NothingMissed
  /\ \A s \in Syncs : Sound(s)

LEMMA Numbers ==
  ASSUME TypeOK
  PROVE  /\ now \in Nat /\ mark \in Nat /\ NoMark \in Nat /\ now < NoMark
         /\ \A r \in Records : written[r] \in Nat
         /\ \A p \in Processes : /\ job[p].start \in Nat /\ job[p].start < NoMark
                                 /\ job[p].since \in Nat
                                 /\ job[p].step \in 1..9
                                 /\ job[p].got \in [Records -> Versions]
BY ConstantsAssumption, StepsFacts DEF TypeOK, Jobs, NoMark

LEMMA WatchedFacts ==
  \A r \in Watched : r \in Records /\ r \notin Excluded /\ KindOf[r] \notin Whole \cup FullOnly
BY DEF Watched

\* The mirror, the file and what is in the hands are as they were for the
\* records but for those of Odoo that changed now: all stays sound.
LEMMA SourceMoves ==
  ASSUME Inv, TypeOK', UNCHANGED <<lines, mark, pc, job>>, now' >= now,
         \A r \in Records :
           \/ /\ odoo'[r] = odoo[r] /\ written'[r] = written[r] /\ rows'[r] = rows[r]
              /\ r \in lost => r \in lost'
           \/ odoo'[r] \notin Listed
           \/ written'[r] = now
  PROVE  Inv'
<1> USE Numbers, WatchedFacts
<1>0. now' \in Nat /\ TypeOK
  BY ConstantsAssumption DEF TypeOK, Inv
<1>1. \A r \in Watched : \A t \in Nat : t <= now /\ CurrentSince(r, t) => CurrentSince(r, t)'
  BY DEF CurrentSince, Inv
<1>2. \A r \in Watched : \A v, t : t \in Nat /\ t <= now /\ FreshSince(v, r, t) => FreshSince(v, r, t)'
  BY DEF FreshSince, Inv
<1>3. mark' # NoMark => mark' <= now' /\ NothingMissed'
  BY <1>0, <1>1 DEF Inv, NothingMissed, CurrentSince
<1>4. ASSUME NEW s \in Syncs PROVE Sound(s)'
  <2>1. Sound(s) /\ s \in Processes
    BY DEF Inv, Processes
  <2>2. \A r : Passed(s, r)' = Passed(s, r) /\ Holding(s)' = Holding(s)
    BY DEF Passed, Behind, Holding, Section
  <2>3. SUFFICES ASSUME pc[s] # "idle"
        PROVE  /\ job[s].start <= now'
               /\ job[s].since # NoMark => job[s].since <= job[s].start
               /\ \A r \in Watched : Knows(s, r)'
    BY DEF Sound
  <2>4. job[s].since \in Nat /\ job[s].start \in Nat /\ job[s].start <= now /\ now \in Nat
    BY <1>0, <2>1, <2>3 DEF Sound
  <2>5. job[s].start <= now'
    BY <1>0, <2>4
  <2>6. \A r \in Watched : Knows(s, r)'
    BY <1>1, <1>2, <2>1, <2>2, <2>3, <2>4 DEF Knows, Sound
  <2> QED BY <2>1, <2>3, <2>5, <2>6 DEF Sound
<1> QED BY <1>3, <1>4 DEF Inv

\* The tables keep current what was, or tell what they lost.
Keeps == \A r \in Watched : \A t \in Nat : CurrentSince(r, t) => Kept(r, t)

LEMMA KeepsAll == ASSUME UNCHANGED mirror PROVE Keeps
BY DEF Keeps, CurrentSince, Kept, mirror

LEMMA LoseKeeps == ASSUME NEW S, Lose(S), rows' = rows PROVE Keeps
BY DEF Keeps, CurrentSince, Kept, Lose

\* A version written is current, or what it replaces was not, or it is lost.
LEMMA WriteKeeps == ASSUME NEW p \in Processes, Write(p) PROVE Keeps
<1> SUFFICES ASSUME NEW r \in Watched, NEW t \in Nat, CurrentSince(r, t), odoo[r] \in Listed
             PROVE  rows'[r] = odoo[r] \/ written[r] >= t \/ r \in lost'
  BY DEF Keeps, Kept
<1>1. rows[r] = odoo[r] \/ written[r] >= t \/ r \in lost
  BY DEF CurrentSince
<1>2. rows'[r] = IF r \in Taken(p) THEN job[p].got[r] ELSE rows[r]
  BY WatchedFacts DEF Write
<1>3. r \in lost' <=> /\ r \in lost \/ (r \in Taken(p) /\ job[p].got[r] # odoo[r] /\ rows[r] = odoo[r])
                      /\ ~(r \in Taken(p) /\ job[p].got[r] = odoo[r])
  BY DEF Write
<1> QED BY <1>1, <1>2, <1>3

\* A sync begins where the file was left.
Begun(p) == job'[p].since \in {mark, NoMark} /\ job'[p].start = now

\* What a sync that goes on must know of a record.
Learns(p, r) ==
  /\ Passed(p, r)' => Kept(r, job'[p].start)
  /\ Holding(p)' /\ job'[p].got[r] # None => FreshSince(job'[p].got[r], r, job'[p].start)

LEMMA ProcessMoves ==
  ASSUME Inv, TypeOK', NEW p \in Processes, Moves(p), UNCHANGED source, Keeps,
         \/ mark' \in {mark, NoMark}
         \/ p \in Syncs /\ pc[p] = "save" /\ mark' = job[p].start,
         pc'[p] # "idle" /\ p \in Syncs =>
           /\ \/ pc[p] # "idle" /\ job'[p].since = job[p].since /\ job'[p].start = job[p].start
              \/ Begun(p)
           /\ \A r \in Watched : Learns(p, r)
  PROVE  Inv'
<1> USE WatchedFacts
<1>0. TypeOK /\ now' = now /\ odoo' = odoo /\ written' = written
  BY DEF Inv, source
<1>1. mark # NoMark => mark <= now /\ \A r \in Watched : Kept(r, mark)
  BY <1>0, Numbers DEF Inv, NothingMissed, Keeps, CurrentSince
<1>2. ASSUME NEW s \in Syncs, pc[s] # "idle"
      PROVE  /\ job[s].start <= now
             /\ job[s].since # NoMark => job[s].since <= job[s].start
             /\ \A r \in Watched :
                  /\ job[s].since # NoMark => Kept(r, job[s].since)
                  /\ Passed(s, r) => Kept(r, job[s].start)
                  /\ Holding(s) /\ job[s].got[r] # None
                       => FreshSince(job[s].got[r], r, job[s].start)
  <2>1. Sound(s) /\ job[s].since \in Nat /\ job[s].start \in Nat
    BY <1>0, Numbers DEF Inv, Processes
  <2> QED BY <1>2, <2>1 DEF Sound, Knows, Keeps
<1>3. mark' # NoMark => mark' <= now' /\ NothingMissed'
  <2>1. SUFFICES ASSUME mark' # NoMark
        PROVE  mark' <= now /\ \A r \in Watched : Kept(r, mark')
    BY <1>0 DEF NothingMissed, Kept
  <2>2. CASE mark' = mark
    BY <1>1, <2>1, <2>2
  <2>3. CASE p \in Syncs /\ pc[p] = "save" /\ mark' = job[p].start
    <3>1. \A r \in Watched : Passed(p, r)
      BY <2>3 DEF Passed, Behind
    <3> QED BY <1>2, <2>3, <3>1
  <2> QED BY <2>1, <2>2, <2>3
<1>4. ASSUME NEW s \in Syncs PROVE Sound(s)'
  <2>0. s \in Processes
    BY DEF Processes
  <2>1. SUFFICES ASSUME pc'[s] # "idle"
        PROVE  /\ job'[s].start <= now
               /\ job'[s].since # NoMark => job'[s].since <= job'[s].start
               /\ \A r \in Watched : /\ job'[s].since # NoMark => Kept(r, job'[s].since)
                                     /\ Learns(s, r)
    BY <1>0 DEF Sound, Knows, Learns, CurrentSince, Kept, FreshSince
  <2>2. CASE s # p
    <3>1. pc'[s] = pc[s] /\ job'[s] = job[s]
      BY <2>0, <2>2 DEF Moves
    <3>2. \A r : Passed(s, r)' = Passed(s, r) /\ Holding(s)' = Holding(s)
      BY <3>1 DEF Passed, Behind, Holding, Section
    <3> QED BY <1>2, <2>1, <3>1, <3>2 DEF Learns
  <2>3. CASE s = p /\ pc[p] # "idle" /\ job'[p].since = job[p].since /\ job'[p].start = job[p].start
    BY <1>2, <2>1, <2>3
  <2>4. CASE s = p /\ Begun(p)
    <3>1. now \in Nat /\ \A r \in Watched : Learns(p, r)
      BY <1>0, <2>1, <2>4, Numbers
    <3> QED BY <1>1, <2>4, <3>1 DEF Begun
  <2> QED BY <2>1, <2>2, <2>3, <2>4
<1> QED BY <1>3, <1>4 DEF Inv

\* The next section: what is passed was passed before, or is of the section
\* in hand.
LEMMA PassesOn ==
  ASSUME TypeOK, NEW p \in Processes, NextStep(p), pc'[p] # "idle",
         NEW r \in Records, Passed(p, r)'
  PROVE  Behind(p, r) \/ Section(r) = job[p].step
<1>1. ~Holding(p)'
  BY NextStepFacts DEF Holding
<1>2. Section(r) <= job[p].step
  BY <1>1, NextStepFacts DEF Passed
<1>3. Section(r) \in 1..9 /\ job[p].step \in 1..9
  BY SectionFacts, Numbers
<1> QED BY <1>2, <1>3 DEF Behind

\* What a sync has passed stays so; what was not asked for, or was and is now
\* lost if it is not current, can be passed too.
LEMMA Passing ==
  ASSUME Inv, Keeps, NEW s \in Syncs, pc[s] # "idle", NEW r \in Watched
  PROVE  /\ Passed(s, r) => Kept(r, job[s].start)
         /\ Section(r) = job[s].step /\ ~Asked(s, r) => Kept(r, job[s].start)
<1>1. /\ r \in Records /\ KindOf[r] \notin FullOnly /\ s \in Processes /\ Knows(s, r)
      /\ written[r] \in Nat /\ job[s].start \in Nat /\ job[s].since \in Nat
  BY WatchedFacts, Numbers DEF Processes, Inv, Sound
<1>2. ASSUME Passed(s, r) PROVE Kept(r, job[s].start)
  BY <1>1, <1>2 DEF Knows, Keeps
<1>3. ASSUME Section(r) = job[s].step, ~Asked(s, r), odoo[r] \in Listed
      PROVE  CurrentSince(r, job[s].start)
  <2>1. KindOf[r] = KindAt(s)
    BY <1>1, <1>3, SectionFacts DEF KindAt
  <2>2. job[s].since # NoMark /\ ~(written[r] >= job[s].since)
    BY <1>1, <1>3, <2>1 DEF Asked, Since
  <2> QED BY <1>1, <2>2 DEF Knows, CurrentSince
<1>4. ASSUME Section(r) = job[s].step, ~Asked(s, r) PROVE Kept(r, job[s].start)
  BY <1>1, <1>3, <1>4 DEF Keeps, Kept
<1> QED BY <1>2, <1>4

\* A record asked for and not held is lost, unless it is current.
LEMMA LostKept ==
  ASSUME NEW S, Lose(S), rows' = rows, NEW r \in Watched, r \in S, NEW t
  PROVE  Kept(r, t)
BY DEF Lose, Kept, Watched

LEMMA StartNext ==
  ASSUME Inv, TypeOK', NEW s \in Syncs, NEW since \in {mark, NoMark}, Started(s, since)
  PROVE  Inv'
<1>1. s \in Processes /\ since \in 0..NoMark /\ TypeOK
  BY ConstantsAssumption DEF Processes, Inv, TypeOK, NoMark
<1>2. /\ Moves(s) /\ pc'[s] = "list" /\ job'[s].since = since /\ job'[s].start = now
      /\ \A r \in Records : job'[s].step <= Section(r)
  BY <1>1, StartedFacts
<1>3. Begun(s) /\ ~Holding(s)'
  BY <1>2 DEF Begun, Holding
<1>4. ASSUME NEW r \in Watched PROVE Learns(s, r)
  <2>1. Section(r) \in 1..9 /\ job'[s].step \in 1..9
    BY <1>1, WatchedFacts, SectionFacts, StepsFacts DEF TypeOK, Jobs
  <2>2. ~Passed(s, r)'
    BY <1>2, <1>3, <2>1, WatchedFacts DEF Passed, Behind, Section
  <2> QED BY <1>3, <2>2 DEF Learns
<1>5. Keeps /\ UNCHANGED source /\ mark' = mark
  BY KeepsAll DEF Started
<1> QED BY <1>1, <1>2, <1>3, <1>4, <1>5, ProcessMoves

LEMMA AnsweredNext ==
  ASSUME Inv, TypeOK', NEW s \in Syncs, NEW R \in SUBSET AskedFor(s), pc[s] = "list",
         Answered(s, R), UNCHANGED <<source, rows, mark>>
  PROVE  Inv'
<1>1. s \in Processes /\ TypeOK /\ Lose(AskedFor(s) \ R) /\ Keeps
  BY LoseKeeps DEF Processes, Inv, Answered
<1>2. /\ Moves(s)
      /\ \/ NextStep(s) /\ R = {}
         \/ /\ pc'[s] \in {"lines", "write"} /\ job'[s].step = job[s].step
            /\ job'[s].since = job[s].since /\ job'[s].start = job[s].start
            /\ job'[s].got = Answer(R)
  BY <1>1, AnsweredFacts
<1>3. pc'[s] # "idle" => job'[s].since = job[s].since /\ job'[s].start = job[s].start
  BY <1>1, <1>2, NextStepFacts
<1>4. ASSUME pc'[s] # "idle", NEW r \in Watched, Passed(s, r)' PROVE Kept(r, job'[s].start)
  <2>1. Behind(s, r) \/ (Section(r) = job[s].step /\ r \notin R)
    <3>1. r \in R => Asked(s, r) /\ odoo[r] # None
      BY ListedTyped DEF AskedFor, Asked
    <3>2. CASE NextStep(s) /\ R = {}
      BY <1>1, <1>4, <3>2, WatchedFacts, PassesOn
    <3>3. CASE pc'[s] \in {"lines", "write"} /\ job'[s].step = job[s].step /\ job'[s].got = Answer(R)
      <4>1. job'[s].got[r] = None => r \notin R
        BY <3>1, <3>3, WatchedFacts DEF Answer
      <4> QED BY <1>4, <3>3, <4>1 DEF Passed, Behind, Section
    <3> QED BY <1>2, <3>2, <3>3
  <2>2. CASE Behind(s, r)
    BY <1>1, <1>3, <1>4, <2>2, Passing DEF Passed
  <2>3. CASE Section(r) = job[s].step /\ r \notin R
    <3>1. CASE Asked(s, r)
      BY <1>1, <2>3, <3>1, WatchedFacts, LostKept DEF AskedFor
    <3>2. CASE ~Asked(s, r)
      BY <1>1, <1>3, <1>4, <2>3, <3>2, Passing
    <3> QED BY <3>1, <3>2
  <2> QED BY <2>1, <2>2, <2>3
<1>5. Holding(s)' => \A r \in Watched : job'[s].got[r] # None => job'[s].got[r] = odoo[r]
  BY <1>1, <1>2, WatchedFacts, NextStepFacts DEF Holding, Answer
<1>6. pc'[s] # "idle" => \A r \in Watched : Learns(s, r)
  BY <1>4, <1>5 DEF Learns, FreshSince
<1> QED BY <1>1, <1>2, <1>3, <1>6, ProcessMoves

LEMMA ReadLinesNext ==
  ASSUME Inv, TypeOK', NEW p \in Processes, ReadLines(p)
  PROVE  Inv'
<1>1. /\ Moves(p) /\ pc'[p] = "write" /\ job'[p].step = job[p].step
      /\ job'[p].since = job[p].since /\ job'[p].start = job[p].start
      /\ job'[p].got = job[p].got
  BY ReadLinesFacts DEF Inv
<1>2. pc[p] = "lines" /\ Keeps /\ UNCHANGED source /\ mark' = mark
  BY KeepsAll DEF ReadLines
<1>3. Holding(p) /\ \A r : Passed(p, r)' = Passed(p, r)
  BY <1>1, <1>2 DEF Passed, Behind, Holding, Section
<1>4. p \in Syncs => \A r \in Watched : Learns(p, r)
  BY <1>1, <1>2, <1>3, Passing DEF Inv, Sound, Knows, Learns
<1> QED BY <1>1, <1>2, <1>4, ProcessMoves

LEMMA WriteNext ==
  ASSUME Inv, TypeOK', NEW p \in Processes, Write(p)
  PROVE  Inv'
<1>1. TypeOK /\ NextStep(p) /\ Holding(p) /\ Keeps /\ UNCHANGED source /\ mark' = mark
  BY WriteKeeps DEF Inv, Write, Holding
<1>2. /\ Moves(p) /\ ~Holding(p)'
      /\ pc'[p] # "idle" => job'[p].since = job[p].since /\ job'[p].start = job[p].start
  BY <1>1, NextStepFacts DEF Holding
<1>3. pc[p] # "idle"
  BY <1>1 DEF Holding
<1>4. ASSUME p \in Syncs, pc'[p] # "idle", NEW r \in Watched, Passed(p, r)'
      PROVE  Kept(r, job'[p].start)
  <2>1. Behind(p, r) \/ Section(r) = job[p].step
    BY <1>1, <1>4, WatchedFacts, PassesOn
  <2>2. CASE Passed(p, r)
    BY <1>1, <1>2, <1>3, <1>4, <2>2, Passing
  <2>3. CASE job[p].got[r] # None
    <3>1. FreshSince(job[p].got[r], r, job[p].start)
      BY <1>1, <1>3, <1>4, <2>3 DEF Inv, Sound, Knows
    <3>2. rows'[r] = job[p].got[r]
      BY <2>3, WatchedFacts DEF Write, Taken
    <3> QED BY <1>2, <1>4, <3>1, <3>2 DEF FreshSince, Kept
  <2> QED BY <1>1, <2>1, <2>2, <2>3 DEF Passed
<1>5. p \in Syncs /\ pc'[p] # "idle" => \A r \in Watched : Learns(p, r)
  BY <1>2, <1>4 DEF Learns
<1> QED BY <1>1, <1>2, <1>3, <1>5, ProcessMoves

\* What an optional section leaves behind is lost, unless it is current.
LEMMA RaiseNext ==
  ASSUME Inv, TypeOK', NEW s \in Syncs, Raise(s)
  PROVE  Inv'
<1>1. s \in Processes /\ TypeOK /\ UNCHANGED source /\ mark' = mark /\ rows' = rows
      /\ pc[s] # "idle"
  BY DEF Processes, Inv, Raise
<1>2. CASE KindAt(s) \notin Optional
  <2>1. Moves(s) /\ pc'[s] = "idle" /\ Keeps
    BY <1>1, <1>2, EndFacts, KeepsAll DEF Raise, mirror
  <2> QED BY <1>1, <2>1, ProcessMoves
<1>3. CASE KindAt(s) \in Optional
  <2> DEFINE S == IF pc[s] = "list" THEN AskedFor(s) ELSE {r \in Records : job[s].got[r] # None}
  <2>1. Lose(S) /\ NextStep(s)
    BY <1>3 DEF Raise
  <2>2. pc[s] \in {"list", "write"}
    BY DEF Raise
  <2>3. Keeps /\ Moves(s) /\ ~Holding(s)'
    BY <1>1, <2>1, LoseKeeps, NextStepFacts DEF Holding
  <2>4. pc'[s] # "idle" => job'[s].since = job[s].since /\ job'[s].start = job[s].start
    BY <1>1, <2>1, NextStepFacts
  <2>5. ASSUME pc'[s] # "idle", NEW r \in Watched, Passed(s, r)' PROVE Kept(r, job'[s].start)
    <3>1. Behind(s, r) \/ Section(r) = job[s].step
      BY <1>1, <2>1, <2>5, WatchedFacts, PassesOn
    <3>2. CASE r \in S
      BY <1>1, <2>1, <3>2, LostKept
    <3>3. CASE r \notin S /\ Section(r) = job[s].step
      <4>1. CASE pc[s] = "list"
        <5>1. ~Asked(s, r)
          BY <3>3, <4>1, WatchedFacts DEF AskedFor
        <5> QED BY <1>1, <2>3, <2>4, <2>5, <3>3, <5>1, Passing
      <4>2. CASE pc[s] = "write"
        <5>1. Passed(s, r)
          BY <3>3, <4>2, WatchedFacts DEF Passed, Holding
        <5> QED BY <1>1, <2>3, <2>4, <2>5, <5>1, Passing
      <4> QED BY <2>2, <4>1, <4>2
    <3>4. CASE Behind(s, r)
      BY <1>1, <2>3, <2>4, <2>5, <3>4, Passing DEF Passed
    <3> QED BY <3>1, <3>2, <3>3, <3>4
  <2>6. pc'[s] # "idle" => \A r \in Watched : Learns(s, r)
    BY <2>3, <2>5 DEF Learns
  <2> QED BY <1>1, <2>3, <2>4, <2>6, ProcessMoves
<1> QED BY <1>2, <1>3

\* A process that ends, by saving, raising or dying.
LEMMA EndNext ==
  ASSUME Inv, TypeOK', NEW p \in Processes, End(p), UNCHANGED <<source, mirror>>,
         \/ mark' \in {mark, NoMark}
         \/ p \in Syncs /\ pc[p] = "save" /\ mark' = job[p].start
  PROVE  Inv'
<1>1. Moves(p) /\ pc'[p] = "idle" /\ Keeps
  BY EndFacts, KeepsAll DEF Inv
<1> QED BY <1>1, ProcessMoves

LEMMA NotifyNext ==
  ASSUME Inv, TypeOK', NEW h \in Hooks, NEW r \in Records, Notify(h, r)
  PROVE  Inv'
<1>1. /\ h \in Processes /\ h \notin Syncs /\ Keeps /\ UNCHANGED source /\ mark' = mark
      /\ Moves(h)
  BY KeepsAll, NotifyFacts, ConstantsAssumption DEF Processes, Notify, Inv
<1> QED BY <1>1, ProcessMoves

-----------------------------------------------------------------------------

LEMMA InvInit == Init => Inv
<1> SUFFICES ASSUME Init PROVE Inv
  OBVIOUS
<1>1. TypeOK /\ mark = NoMark
  BY TypeInit DEF Init
<1>2. \A p \in Processes : pc[p] = "idle"
  BY DEF Init
<1> QED BY <1>1, <1>2 DEF Inv, NothingMissed, Sound, Processes

LEMMA InvNext == Inv /\ [Next]_vars => Inv'
<1> SUFFICES ASSUME Inv, [Next]_vars PROVE Inv'
  OBVIOUS
<1>0. TypeOK /\ TypeOK'
  BY TypeNext DEF Inv
<1>1. ASSUME NEW r \in Records, Change(r) PROVE Inv'
  BY <1>0, <1>1, SourceMoves, Numbers DEF Change, TypeOK
<1>2. ASSUME NEW r \in Records, Delete(r) PROVE Inv'
  BY <1>0, <1>2, SourceMoves, Numbers, ListedTyped DEF Delete, TypeOK, mirror
<1>3. ASSUME NEW r \in Records, Unlink(r) PROVE Inv'
  <2>1. \A q \in Records \ {r} : rows'[q] = rows[q]
    BY <1>0, <1>3 DEF Unlink, TypeOK
  <2>2. odoo' = odoo /\ written' = written /\ now' = now /\ odoo[r] \notin Listed
        /\ UNCHANGED <<lines, lost, mark, pc, job>>
    BY <1>3, ListedTyped DEF Unlink, source
  <2>3. now' >= now
    BY <1>0, <2>2, Numbers
  <2> QED BY <1>0, <2>1, <2>2, <2>3, SourceMoves
<1>4. ASSUME Tick PROVE Inv'
  BY <1>0, <1>4, SourceMoves, Numbers DEF Tick, mirror
<1>5. ASSUME NEW s \in Syncs, Begin(s) PROVE Inv'
  BY <1>0, <1>5, StartNext DEF Begin
<1>6. ASSUME NEW s \in Syncs, ForceSync(s) PROVE Inv'
  BY <1>0, <1>6, StartNext DEF ForceSync
<1>7. ASSUME NEW s \in Syncs, List(s) PROVE Inv'
  <2>1. PICK R \in SUBSET AskedFor(s) : Answered(s, R)
    BY <1>7, AnswersFacts DEF List
  <2> QED BY <1>0, <1>7, <2>1, AnsweredNext DEF List
<1>8. ASSUME NEW s \in Syncs, ListInPart(s) PROVE Inv'
  <2>1. PICK R \in SUBSET AskedFor(s) : Answered(s, R)
    BY <1>8 DEF ListInPart
  <2> QED BY <1>0, <1>8, <2>1, AnsweredNext DEF ListInPart
<1>9. ASSUME NEW p \in Processes, ReadLines(p) PROVE Inv'
  BY <1>0, <1>9, ReadLinesNext
<1>10. ASSUME NEW p \in Processes, Write(p) PROVE Inv'
  BY <1>0, <1>10, WriteNext
<1>11. ASSUME NEW s \in Syncs, Raise(s) PROVE Inv'
  BY <1>0, <1>11, RaiseNext
<1>12. ASSUME NEW s \in Syncs, Save(s) PROVE Inv'
  BY <1>0, <1>12, EndNext DEF Save, Saved, Processes
<1>13. ASSUME NEW h \in Hooks, NEW r \in Records, Notify(h, r) PROVE Inv'
  BY <1>0, <1>13, NotifyNext
<1>14. ASSUME NEW p \in Processes, Crash(p) PROVE Inv'
  BY <1>0, <1>14, EndNext DEF Crash
<1>15. CASE UNCHANGED vars
  BY <1>0, <1>15, SourceMoves, Numbers DEF vars
<1> QED
  BY <1>1, <1>2, <1>3, <1>4, <1>5, <1>6, <1>7, <1>8, <1>9, <1>10, <1>11, <1>12, <1>13, <1>14, <1>15
  DEF Next, SyncStep, HookStep, Processes

\* For any number of syncs and webhooks, overlapping or not, and whatever fails
\* or crashes, the watermark passes over no change but those of the records
\* lost: left out of a list at its limit, of a page or an optional section that
\* failed, or written over by an older version.
THEOREM WatermarkIsSafe == Spec => []NothingMissed
<1>1. Inv => NothingMissed
  BY DEF Inv, NothingMissed
<1> QED BY <1>1, InvInit, InvNext, PTL DEF Spec

-----------------------------------------------------------------------------
(* Sums over finite sets.  The sum of the community modules takes elements *)
(* away one at a time, in the order of a CHOOSE; what is proved of it here *)
(* rests on the least number of a set of naturals.                         *)

\* The element taken away, one step of the sum, the sums of the subsets of S,
\* and the sum of v over S.
Picked(s) == CHOOSE x \in s : TRUE
Added(v, g, s) == IF s = {} THEN 0 ELSE v[Picked(s)] + g[s \ {Picked(s)}]
Summing(v, S) == CHOOSE g : g = [s \in SUBSET S |-> Added(v, g, s)]
SumOf(v, S) == Summing(v, S)[S]

\* A set of naturals has a least element: this is what induction rests on.
LEMMA LeastNumber ==
  ASSUME NEW T, T \subseteq Nat, T # {}
  PROVE  \E n \in T : \A m \in T : n <= m
<1>1. PICK n \in T : \A m \in T : ~(<<m, n>> \in OpToRel(<, Nat))
  BY WFMin, NatLessThanWellFounded
<1>2. \A m \in T : ~(m < n)
  BY <1>1 DEF OpToRel
<1> QED BY <1>2

\* Taking an element away.
LEMMA OneLess ==
  ASSUME NEW S, IsFiniteSet(S), NEW x \in S
  PROVE  /\ IsFiniteSet(S \ {x})
         /\ Cardinality(S) \in Nat /\ Cardinality(S \ {x}) \in Nat
         /\ Cardinality(S \ {x}) = Cardinality(S) - 1
BY FS_RemoveElement, FS_CardinalityType

\* A set that is not empty gives one of its elements.
LEMMA PickedIn == \A s : s # {} => Picked(s) \in s
BY DEF Picked

\* The recursive function of a sum exists.
LEMMA SummingIs ==
  ASSUME NEW v, NEW S, IsFiniteSet(S)
  PROVE  Summing(v, S) = [s \in SUBSET S |-> Added(v, Summing(v, S), s)]
<1> DEFINE Solves(g, n) ==
             \A s \in SUBSET S : Cardinality(s) <= n => g[s] = Added(v, g, s)
           T == {n \in Nat : ~ \E g : Solves(g, n)}
<1>0. \A s \in SUBSET S : IsFiniteSet(s) /\ Cardinality(s) \in Nat
                          /\ Cardinality(s) <= Cardinality(S)
  BY FS_Subset, FS_CardinalityType
<1>1. T = {}
  <2> SUFFICES ASSUME T # {} PROVE FALSE
    OBVIOUS
  <2>1. PICK n \in T : \A m \in T : n <= m
    BY LeastNumber
  <2>2. CASE n = 0
    <3> DEFINE g == [s \in SUBSET S |-> 0]
    <3>1. Solves(g, 0)
      <4> SUFFICES ASSUME NEW s \in SUBSET S, Cardinality(s) <= 0
                   PROVE  g[s] = Added(v, g, s)
        OBVIOUS
      <4>1. s = {}
        BY <1>0, FS_EmptySet
      <4> QED BY <4>1 DEF Added
    <3> QED BY <2>2, <3>1
  <2>3. CASE n # 0
    <3>1. n - 1 \in Nat /\ n - 1 \notin T
      BY <2>1, <2>3
    <3>2. PICK g : Solves(g, n - 1)
      BY <3>1
    <3> DEFINE h == [s \in SUBSET S |-> Added(v, g, s)]
    <3>3. Solves(h, n)
      <4> SUFFICES ASSUME NEW s \in SUBSET S, Cardinality(s) <= n
                   PROVE  h[s] = Added(v, h, s)
        OBVIOUS
      <4>1. CASE s = {}
        BY <4>1 DEF Added
      <4>2. CASE s # {}
        <5> DEFINE r == s \ {Picked(s)}
        <5>1. Picked(s) \in s
          BY <4>2, PickedIn
        <5>2. r \in SUBSET S /\ Cardinality(r) <= n - 1
          BY <1>0, <5>1, OneLess
        <5>3. g[r] = Added(v, g, r) /\ h[r] = Added(v, g, r)
          BY <3>2, <5>2
        <5>4. h[s] = Added(v, g, s)
          OBVIOUS
        <5> HIDE DEF h
        <5> QED BY <4>2, <5>3, <5>4 DEF Added
      <4> QED BY <4>1, <4>2
    <3> QED BY <3>3
  <2> QED BY <2>2, <2>3
<1>2. Cardinality(S) \in Nat
  BY FS_CardinalityType
<1>3. PICK g : Solves(g, Cardinality(S))
  BY <1>1, <1>2
<1> DEFINE h == [s \in SUBSET S |-> g[s]]
<1>4. h = [s \in SUBSET S |-> Added(v, h, s)]
  <2> SUFFICES ASSUME NEW s \in SUBSET S PROVE g[s] = Added(v, h, s)
    OBVIOUS
  <2>1. g[s] = Added(v, g, s)
    BY <1>0, <1>3
  <2>2. s \ {Picked(s)} \in SUBSET S
    OBVIOUS
  <2>3. h[s \ {Picked(s)}] = g[s \ {Picked(s)}]
    BY <2>2
  <2> HIDE DEF h
  <2> QED BY <2>1, <2>3 DEF Added
<1> HIDE DEF h
<1> QED BY <1>4 DEF Summing

\* Its value at a subset.
LEMMA SummingAt ==
  ASSUME NEW v, NEW S, IsFiniteSet(S), NEW s \in SUBSET S
  PROVE  Summing(v, S)[s] = Added(v, Summing(v, S), s)
<1> DEFINE g == Summing(v, S)
<1>1. g = [q \in SUBSET S |-> Added(v, g, q)]
  BY SummingIs
<1> HIDE DEF g
<1>2. [q \in SUBSET S |-> Added(v, g, q)][s] = Added(v, g, s)
  OBVIOUS
<1>3. g[s] = Added(v, g, s)
  BY <1>1, <1>2
<1> QED BY <1>3 DEF g

\* Induction over the subsets of a finite set.
LEMMA SubsetInduction ==
  ASSUME NEW S, IsFiniteSet(S), NEW Good, {} \in Good,
         \A r \in SUBSET S :
           r # {} /\ (\A x \in r : r \ {x} \in Good) => r \in Good
  PROVE  \A r \in SUBSET S : r \in Good
<1> DEFINE Bad == {r \in SUBSET S : r \notin Good}
           T == {n \in Nat : \E r \in Bad : Cardinality(r) = n}
<1> SUFFICES ASSUME NEW q \in Bad PROVE FALSE
  OBVIOUS
<1>1. \A r \in SUBSET S : IsFiniteSet(r) /\ Cardinality(r) \in Nat
  BY FS_Subset, FS_CardinalityType
<1>2. T # {}
  BY <1>1
<1>3. PICK n \in T : \A m \in T : n <= m
  BY <1>2, LeastNumber
<1>4. PICK r \in Bad : Cardinality(r) = n
  BY <1>3
<1>5. ASSUME NEW x \in r, r \ {x} \in Bad PROVE FALSE
  <2>1. Cardinality(r \ {x}) \in T /\ Cardinality(r \ {x}) = n - 1
    BY <1>1, <1>4, <1>5, OneLess
  <2>2. n <= n - 1 /\ n \in Nat
    BY <1>3, <2>1
  <2> QED BY <2>2
<1>6. r \in SUBSET S /\ r \notin Good
  BY <1>4
<1>7. ASSUME NEW x \in r PROVE r \ {x} \in Good
  BY <1>5, <1>6
<1>8. r # {}
  BY <1>6
<1> QED BY <1>6, <1>7, <1>8

\* A sum is taken over subsets alike whatever the set it began with.
LEMMA SumLocal ==
  ASSUME NEW v, NEW S, IsFiniteSet(S), NEW r \in SUBSET S
  PROVE  Summing(v, S)[r] = SumOf(v, r)
<1> DEFINE Good == {q \in SUBSET S : \A A, B \in SUBSET S :
             q \subseteq A /\ q \subseteq B => Summing(v, A)[q] = Summing(v, B)[q]}
<1>1. ASSUME NEW A \in SUBSET S, NEW q \in SUBSET A
      PROVE  Summing(v, A)[q] = Added(v, Summing(v, A), q)
  <2>1. IsFiniteSet(A)
    BY FS_Subset
  <2> QED BY <2>1, SummingAt
<1>2. {} \in Good
  <2>1. ASSUME NEW A \in SUBSET S PROVE Summing(v, A)[{}] = 0
    <3>1. {} \in SUBSET A
      OBVIOUS
    <3>2. Summing(v, A)[{}] = Added(v, Summing(v, A), {})
      BY <1>1, <3>1
    <3> QED BY <3>2 DEF Added
  <2> QED BY <2>1
<1>3. ASSUME NEW q \in SUBSET S, q # {}, \A x \in q : q \ {x} \in Good
      PROVE  q \in Good
  <2> SUFFICES ASSUME NEW A \in SUBSET S, NEW B \in SUBSET S,
                      q \subseteq A, q \subseteq B
               PROVE  Summing(v, A)[q] = Summing(v, B)[q]
    OBVIOUS
  <2>1. q \ {Picked(q)} \in Good
    BY <1>3, PickedIn
  <2>2. Summing(v, A)[q \ {Picked(q)}] = Summing(v, B)[q \ {Picked(q)}]
    BY <2>1
  <2>3. /\ Summing(v, A)[q] = Added(v, Summing(v, A), q)
        /\ Summing(v, B)[q] = Added(v, Summing(v, B), q)
    BY <1>1
  <2> QED BY <1>3, <2>2, <2>3 DEF Added
<1> HIDE DEF Good
<1>4. r \in Good
  BY <1>2, <1>3, SubsetInduction
<1> QED BY <1>4 DEF Good, SumOf

\* An empty sum is zero.
LEMMA SumEmpty == \A v : SumOf(v, {}) = 0
<1> TAKE v
<1>1. IsFiniteSet({})
  BY FS_EmptySet
<1>2. {} \in SUBSET {}
  OBVIOUS
<1>3. Summing(v, {})[{}] = Added(v, Summing(v, {}), {})
  BY <1>1, <1>2, SummingAt
<1> QED BY <1>3 DEF SumOf, Added

\* A sum is its first element and the sum of the others.
LEMMA SumPicked ==
  ASSUME NEW v, NEW S, IsFiniteSet(S), S # {}
  PROVE  SumOf(v, S) = v[Picked(S)] + SumOf(v, S \ {Picked(S)})
<1>0. S \in SUBSET S /\ S \ {Picked(S)} \in SUBSET S
  OBVIOUS
<1>1. Summing(v, S)[S] = Added(v, Summing(v, S), S)
  BY <1>0, SummingAt
<1>2. Summing(v, S)[S \ {Picked(S)}] = SumOf(v, S \ {Picked(S)})
  BY <1>0, SumLocal
<1> QED BY <1>1, <1>2 DEF SumOf, Added

\* Sums of integers are integers.
LEMMA SumType ==
  ASSUME NEW v, NEW S, IsFiniteSet(S), \A x \in S : v[x] \in Int
  PROVE  SumOf(v, S) \in Int
<1> DEFINE Good == {q \in SUBSET S : SumOf(v, q) \in Int}
<1>1. {} \in Good
  BY SumEmpty
<1>2. ASSUME NEW q \in SUBSET S, q # {}, \A x \in q : q \ {x} \in Good
      PROVE  q \in Good
  <2>1. Picked(q) \in q /\ IsFiniteSet(q)
    BY <1>2, PickedIn, FS_Subset
  <2>2. SumOf(v, q) = v[Picked(q)] + SumOf(v, q \ {Picked(q)})
    BY <1>2, <2>1, SumPicked
  <2> QED BY <1>2, <2>1, <2>2
<1> HIDE DEF Good
<1>3. \A q \in SUBSET S : q \in Good
  BY <1>1, <1>2, SubsetInduction
<1>4. S \in SUBSET S
  OBVIOUS
<1> QED BY <1>3, <1>4 DEF Good

\* Any element can be the one that is taken away.
LEMMA SumWithout ==
  ASSUME NEW v, NEW S, IsFiniteSet(S), \A x \in S : v[x] \in Int, NEW a \in S
  PROVE  SumOf(v, S) = v[a] + SumOf(v, S \ {a})
<1> DEFINE Good == {q \in SUBSET S :
             \A x \in q : SumOf(v, q) = v[x] + SumOf(v, q \ {x})}
<1>1. {} \in Good
  OBVIOUS
<1>2. ASSUME NEW q \in SUBSET S, q # {}, \A x \in q : q \ {x} \in Good
      PROVE  q \in Good
  <2> SUFFICES ASSUME NEW x \in q
               PROVE  SumOf(v, q) = v[x] + SumOf(v, q \ {x})
    OBVIOUS
  <2> DEFINE y == Picked(q)
  <2>1. y \in q
    BY PickedIn
  <2>2. SumOf(v, q) = v[y] + SumOf(v, q \ {y})
    BY FS_Subset, SumPicked
  <2> HIDE DEF y
  <2>3. CASE x = y
    BY <2>2, <2>3
  <2>4. CASE x # y
    <3>1. q \ {y} \in Good /\ q \ {x} \in Good /\ x \in q \ {y} /\ y \in q \ {x}
      BY <1>2, <2>1, <2>4
    <3>2. /\ SumOf(v, q \ {y}) = v[x] + SumOf(v, (q \ {y}) \ {x})
          /\ SumOf(v, q \ {x}) = v[y] + SumOf(v, (q \ {x}) \ {y})
      BY <3>1
    <3>3. (q \ {y}) \ {x} = (q \ {x}) \ {y}
      OBVIOUS
    <3>4. SumOf(v, (q \ {x}) \ {y}) \in Int
      BY FS_Subset, SumType
    <3>5. v[x] \in Int /\ v[y] \in Int
      BY <2>1
    <3> DEFINE r == SumOf(v, (q \ {x}) \ {y})
    <3>6. SumOf(v, q \ {y}) = v[x] + r /\ SumOf(v, q \ {x}) = v[y] + r /\ r \in Int
      BY <3>2, <3>3, <3>4
    <3> HIDE DEF r
    <3>7. v[y] + (v[x] + r) = v[x] + (v[y] + r)
      BY <3>5, <3>6
    <3> QED BY <2>2, <3>6, <3>7
  <2> QED BY <2>3, <2>4
<1> HIDE DEF Good
<1>3. \A q \in SUBSET S : q \in Good
  BY <1>1, <1>2, SubsetInduction
<1>4. S \in SUBSET S
  OBVIOUS
<1> QED BY <1>3, <1>4 DEF Good

\* The images of S by h, each worth in w k times what it is worth in v.
Renamed(h, S) == {h[x] : x \in S}

Renames(v, S, w, h, k) ==
  /\ IsFiniteSet(S) /\ k \in Int /\ \A x \in S : v[x] \in Int /\ w[h[x]] = v[x] * k
  /\ \A x, y \in S : h[x] = h[y] => x = y

\* Their sum is k times the sum over S.
LEMMA SumRenamed ==
  ASSUME NEW v, NEW S, NEW w, NEW h, NEW k, Renames(v, S, w, h, k)
  PROVE  /\ IsFiniteSet(Renamed(h, S))
         /\ SumOf(w, Renamed(h, S)) = SumOf(v, S) * k
<1> DEFINE Image(q) == {h[x] : x \in q}
           Good == {q \in SUBSET S : /\ IsFiniteSet(Image(q))
                                     /\ SumOf(w, Image(q)) = SumOf(v, q) * k}
<1>0. /\ IsFiniteSet(S) /\ k \in Int /\ \A x \in S : v[x] \in Int /\ w[h[x]] = v[x] * k
      /\ \A x, y \in S : h[x] = h[y] => x = y
  BY DEF Renames
<1>1. {} \in Good
  <2>1. Image({}) = {}
    OBVIOUS
  <2>2. IsFiniteSet(Image({})) /\ SumOf(w, Image({})) = 0 /\ SumOf(v, {}) * k = 0
    <3>1. IsFiniteSet(Image({}))
      BY <2>1, FS_EmptySet
    <3>2. SumOf(w, Image({})) = 0
      BY <2>1, SumEmpty
    <3>3. SumOf(v, {}) = 0
      BY SumEmpty
    <3>4. 0 * k = 0
      BY <1>0
    <3> QED BY <3>1, <3>2, <3>3, <3>4
  <2> QED BY <2>2
<1>2. ASSUME NEW q \in SUBSET S, q # {}, \A x \in q : q \ {x} \in Good
      PROVE  q \in Good
  <2>1. PICK x \in q : TRUE
    BY <1>2
  <2>2. Image(q) = Image(q \ {x}) \cup {h[x]} /\ h[x] \notin Image(q \ {x})
        /\ Image(q) \ {h[x]} = Image(q \ {x})
    BY <1>0
  <2>3. IsFiniteSet(Image(q \ {x}))
        /\ SumOf(w, Image(q \ {x})) = SumOf(v, q \ {x}) * k
    BY <1>2
  <2>4. IsFiniteSet(Image(q)) /\ IsFiniteSet(q) /\ IsFiniteSet(q \ {x})
    BY <1>0, <2>2, <2>3, FS_AddElement, FS_Subset
  <2>5. SumOf(v, q) = v[x] + SumOf(v, q \ {x})
        /\ SumOf(v, q \ {x}) \in Int /\ v[x] \in Int
    BY <1>0, <2>4, SumWithout, SumType
  <2>6. \A z \in Image(q) : w[z] \in Int
    BY <1>0
  <2>7. SumOf(w, Image(q)) = w[h[x]] + SumOf(w, Image(q) \ {h[x]})
    BY <2>2, <2>4, <2>6, SumWithout
  <2>8. SumOf(w, Image(q)) = v[x] * k + SumOf(v, q \ {x}) * k
    BY <1>0, <2>2, <2>3, <2>7
  <2>9. SumOf(w, Image(q)) = (v[x] + SumOf(v, q \ {x})) * k
    BY <1>0, <2>5, <2>8
  <2> QED BY <2>4, <2>5, <2>9
<1> HIDE DEF Good
<1>3. \A q \in SUBSET S : q \in Good
  BY <1>0, <1>1, <1>2, SubsetInduction
<1>4. S \in SUBSET S
  OBVIOUS
<1> QED BY <1>3, <1>4 DEF Good, Renamed

\* A function that answers for the sums of its subsets is theirs.
LEMMA SumUnique ==
  ASSUME NEW v, NEW S, IsFiniteSet(S), NEW g,
         \A s \in SUBSET S : g[s] = Added(v, g, s)
  PROVE  g[S] = SumOf(v, S)
<1> DEFINE Good == {q \in SUBSET S : g[q] = SumOf(v, q)}
<1>1. {} \in Good
  <2>1. g[{}] = Added(v, g, {})
    OBVIOUS
  <2>2. g[{}] = 0
    BY <2>1 DEF Added
  <2> QED BY <2>2, SumEmpty
<1>2. ASSUME NEW q \in SUBSET S, q # {}, \A x \in q : q \ {x} \in Good
      PROVE  q \in Good
  <2>1. Picked(q) \in q /\ IsFiniteSet(q)
    BY <1>2, PickedIn, FS_Subset
  <2>2. g[q] = v[Picked(q)] + g[q \ {Picked(q)}]
    BY <1>2 DEF Added
  <2>3. SumOf(v, q) = v[Picked(q)] + SumOf(v, q \ {Picked(q)})
    BY <1>2, <2>1, SumPicked
  <2> QED BY <1>2, <2>1, <2>2, <2>3
<1> HIDE DEF Good
<1>3. \A q \in SUBSET S : q \in Good
  BY <1>1, <1>2, SubsetInduction
<1>4. S \in SUBSET S
  OBVIOUS
<1> QED BY <1>3, <1>4 DEF Good

\* The two sums of the views, as the community module spells them out.
SubtotalFold(table, o, S) ==
  CHOOSE g : g = [s \in SUBSET S |->
    IF s = {} THEN 0 ELSE table[o][Picked(s)].subtotal + g[s \ {Picked(s)}]]

NumFold(S) ==
  CHOOSE g : g = [s \in SUBSET S |->
    IF s = {} THEN 0 ELSE Picked(s).num + g[s \ {Picked(s)}]]

\* The total of an order is such a sum.
LEMMA TotalUnfolds ==
  ASSUME NEW table, NEW o
  PROVE  Total(table, o) = SubtotalFold(table, o, Products(table, o))[Products(table, o)]
BY Zenon DEF Total, MapThenSumSet, MapThenFoldSet, SubtotalFold, Picked

\* So is the sum of the rows of v_lignes_commande.
LEMMA NumUnfolds ==
  ASSUME NEW S
  PROVE  MapThenSumSet(LAMBDA r : r.num, S) = NumFold(S)[S]
BY Zenon DEF MapThenSumSet, MapThenFoldSet, NumFold, Picked

\* Both are SumOf any function that agrees on S.
LEMMA SubtotalSum ==
  ASSUME NEW table, NEW o, NEW S, IsFiniteSet(S), NEW v,
         \A i \in S : v[i] = table[o][i].subtotal
  PROVE  SubtotalFold(table, o, S)[S] = SumOf(v, S)
<1> DEFINE Fold(g) == [s \in SUBSET S |->
             IF s = {} THEN 0 ELSE table[o][Picked(s)].subtotal + g[s \ {Picked(s)}]]
           f == SubtotalFold(table, o, S)
<1>1. ASSUME NEW g PROVE Fold(g) = [s \in SUBSET S |-> Added(v, g, s)]
  <2> SUFFICES ASSUME NEW s \in SUBSET S
               PROVE  Fold(g)[s] = Added(v, g, s)
    OBVIOUS
  <2>1. s # {} => Picked(s) \in S
    BY PickedIn
  <2> QED BY <2>1 DEF Added
<1>2. Summing(v, S) = Fold(Summing(v, S))
  BY <1>1, SummingIs
<1>3. f = Fold(f)
  BY <1>2, Zenon DEF SubtotalFold
<1> HIDE DEF f
<1>4. f = [s \in SUBSET S |-> Added(v, f, s)]
  BY <1>1, <1>3
<1>5. \A s \in SUBSET S : [q \in SUBSET S |-> Added(v, f, q)][s] = Added(v, f, s)
  OBVIOUS
<1>6. \A s \in SUBSET S : f[s] = Added(v, f, s)
  BY <1>4, <1>5
<1>7. f[S] = SumOf(v, S)
  BY <1>6, SumUnique
<1> QED BY <1>7 DEF f

LEMMA NumSum ==
  ASSUME NEW S, IsFiniteSet(S), NEW v, \A r \in S : v[r] = r.num
  PROVE  NumFold(S)[S] = SumOf(v, S)
<1> DEFINE Fold(g) == [s \in SUBSET S |->
             IF s = {} THEN 0 ELSE Picked(s).num + g[s \ {Picked(s)}]]
           f == NumFold(S)
<1>1. ASSUME NEW g PROVE Fold(g) = [s \in SUBSET S |-> Added(v, g, s)]
  <2> SUFFICES ASSUME NEW s \in SUBSET S
               PROVE  Fold(g)[s] = Added(v, g, s)
    OBVIOUS
  <2>1. s # {} => Picked(s) \in S
    BY PickedIn
  <2> QED BY <2>1 DEF Added
<1>2. Summing(v, S) = Fold(Summing(v, S))
  BY <1>1, SummingIs
<1>3. f = Fold(f)
  BY <1>2, Zenon DEF NumFold
<1> HIDE DEF f
<1>4. f = [s \in SUBSET S |-> Added(v, f, s)]
  BY <1>1, <1>3
<1>5. \A s \in SUBSET S : [q \in SUBSET S |-> Added(v, f, q)][s] = Added(v, f, s)
  OBVIOUS
<1>6. \A s \in SUBSET S : f[s] = Added(v, f, s)
  BY <1>4, <1>5
<1>7. f[S] = SumOf(v, S)
  BY <1>6, SumUnique
<1> QED BY <1>7 DEF f

-----------------------------------------------------------------------------
(* The views.                                                              *)

Lines == [subtotal : Int, product : BOOLEAN]

\* What the mirror hands to the views: one order per name, sequences of lines.
Joinable(ords, table) ==
  /\ IsFiniteSet(DOMAIN ords)
  /\ \A o, p \in DOMAIN ords : ords[o].name = ords[p].name => o = p
  /\ NoOrder \notin DOMAIN table
  /\ \A o \in DOMAIN table : table[o] \in Seq(Lines)

Amounts(cas) == IsFiniteSet(DOMAIN cas) /\ \A fp \in DOMAIN cas : cas[fp] \in Int

\* The lines that count, and what they are worth.
Worth(table, o) == [i \in Products(table, o) |-> table[o][i].subtotal]

\* The lines that count are finitely many, and their total is their sum.
LEMMA ProductsFacts ==
  ASSUME NEW ords, NEW table, Joinable(ords, table), NEW o
  PROVE  /\ IsFiniteSet(Products(table, o))
         /\ \A i \in Products(table, o) : i # 0 /\ table[o][i].subtotal \in Int
         /\ Total(table, o) = SumOf(Worth(table, o), Products(table, o))
         /\ Total(table, o) \in Int
         /\ Products(table, o) = {} => Total(table, o) = 0
<1> DEFINE S == Products(table, o)
           v == Worth(table, o)
<1>1. ASSUME o \in DOMAIN table
      PROVE  IsFiniteSet(S) /\ \A i \in S : i # 0 /\ table[o][i].subtotal \in Int
  <2>1. table[o] \in Seq(Lines)
    BY <1>1 DEF Joinable
  <2>2. Len(table[o]) \in Nat /\ DOMAIN table[o] = 1..Len(table[o])
    BY <2>1
  <2>3. \A i \in 1..Len(table[o]) : table[o][i] \in Lines
    BY <2>1
  <2>4. S \in SUBSET (1..Len(table[o]))
    BY <2>2 DEF Products
  <2>5. IsFiniteSet(1..Len(table[o]))
    BY <2>2, FS_Interval, 1 \in Int, Len(table[o]) \in Int
  <2>6. IsFiniteSet(S)
    BY <2>4, <2>5, FS_Subset
  <2>7. \A i \in S : i # 0 /\ table[o][i].subtotal \in Int
    BY <2>3, <2>4 DEF Lines
  <2> QED BY <2>6, <2>7
<1>2. IsFiniteSet(S) /\ \A i \in S : i # 0 /\ table[o][i].subtotal \in Int
  <2>1. o \notin DOMAIN table => S = {}
    BY DEF Products
  <2>2. IsFiniteSet({})
    BY FS_EmptySet
  <2> QED BY <1>1, <2>1, <2>2
<1> HIDE DEF S
<1>3. \A i \in S : v[i] = table[o][i].subtotal
  BY DEF S, Worth
<1> HIDE DEF v
<1>4. SubtotalFold(table, o, S)[S] = SumOf(v, S)
  BY <1>2, <1>3, SubtotalSum
<1>5. Total(table, o) = SumOf(v, S)
  BY <1>4, TotalUnfolds DEF S
<1>6. Total(table, o) \in Int
  BY <1>2, <1>3, <1>5, SumType
<1>7. S = {} => Total(table, o) = 0
  BY <1>5, SumEmpty
<1> QED BY <1>2, <1>5, <1>6, <1>7 DEF S, v

\* The order of a FP, or none.
OrderOf(fp, ords) == CHOOSE o : o \in Joined(fp, ords)

\* The join by name gives one row per FP.
LEMMA JoinedOne ==
  ASSUME NEW ords, NEW table, Joinable(ords, table), NEW fp
  PROVE  Joined(fp, ords) = {OrderOf(fp, ords)}
<1> DEFINE found == {o \in DOMAIN ords : ords[o].name = fp}
<1>1. CASE found = {}
  <2>1. Joined(fp, ords) = {NoOrder}
    BY <1>1 DEF Joined
  <2> QED BY <2>1 DEF OrderOf
<1>2. CASE found # {}
  <2>1. Joined(fp, ords) = found
    BY <1>2 DEF Joined
  <2>2. \A o, p \in found : o = p
    BY DEF Joinable
  <2>3. OrderOf(fp, ords) \in found
    BY <1>2, <2>1 DEF OrderOf
  <2> QED BY <2>1, <2>2, <2>3
<1> QED BY <1>1, <1>2

\* The row of v_commandes for a FP.
Commande(cas, ords, table, fp) ==
  LET o == OrderOf(fp, ords)  total == Total(table, o) IN
  [fp |-> fp, order |-> o, montant |-> cas[fp],
   num |-> IF Recalable(cas[fp], total) THEN cas[fp] ELSE 1,
   den |-> IF Recalable(cas[fp], total) THEN total ELSE 1,
   ajustement |-> IF Recalable(cas[fp], total) THEN 0 ELSE cas[fp] - total]

\* v_commandes has these rows and no other.
LEMMA CommandesFacts ==
  ASSUME NEW cas, NEW ords, NEW table, Joinable(ords, table)
  PROVE  VCommandes(cas, ords, table) = {Commande(cas, ords, table, fp) : fp \in DOMAIN cas}
<1> DEFINE J == UNION {{fp} \X Joined(fp, ords) : fp \in DOMAIN cas}
           Row(j) ==
             LET total == Total(table, j[2]) IN
             [fp |-> j[1], order |-> j[2], montant |-> cas[j[1]],
              num |-> IF Recalable(cas[j[1]], total) THEN cas[j[1]] ELSE 1,
              den |-> IF Recalable(cas[j[1]], total) THEN total ELSE 1,
              ajustement |-> IF Recalable(cas[j[1]], total) THEN 0 ELSE cas[j[1]] - total]
<1>1. J = {<<fp, OrderOf(fp, ords)>> : fp \in DOMAIN cas}
  BY JoinedOne
<1>2. VCommandes(cas, ords, table) = {Row(j) : j \in J}
  BY Zenon DEF VCommandes
<1>3. \A fp : Row(<<fp, OrderOf(fp, ords)>>) = Commande(cas, ords, table, fp)
  BY DEF Commande
<1> HIDE DEF Row
<1>4. {Row(j) : j \in J} = {Row(<<fp, OrderOf(fp, ords)>>) : fp \in DOMAIN cas}
  <2> HIDE DEF J
  <2> QED BY <1>1
<1>5. {Row(<<fp, OrderOf(fp, ords)>>) : fp \in DOMAIN cas}
        = {Commande(cas, ords, table, fp) : fp \in DOMAIN cas}
  BY <1>3
<1> QED BY <1>2, <1>4, <1>5

\* One row of v_sale_orders per FP.
LEMMA SaleFacts ==
  ASSUME NEW cas, NEW ords, NEW table, Joinable(ords, table), Amounts(cas), ~Fallback(cas)
  PROVE  /\ {<<c.name, c.amount>> : c \in VSaleOrders(cas, ords, table)}
              = {<<fp, cas[fp]>> : fp \in DOMAIN cas}
         /\ Cardinality(VSaleOrders(cas, ords, table)) = Cardinality(DOMAIN cas)
<1> DEFINE Sale(fp) == [order |-> OrderOf(fp, ords), name |-> fp, amount |-> cas[fp]]
           sale == VSaleOrders(cas, ords, table)
           h == [fp \in DOMAIN cas |-> Sale(fp)]
<1>1. \A fp : LET c == Commande(cas, ords, table, fp) IN
        [order |-> c.order, name |-> c.fp, amount |-> c.montant] = Sale(fp)
  BY DEF Commande
<1>2. sale = {[order |-> c.order, name |-> c.fp, amount |-> c.montant] :
                 c \in VCommandes(cas, ords, table)}
  BY DEF VSaleOrders
<1> HIDE DEF sale
<1>3. sale = {Sale(fp) : fp \in DOMAIN cas}
  <2> DEFINE As(c) == [order |-> c.order, name |-> c.fp, amount |-> c.montant]
             C(fp) == Commande(cas, ords, table, fp)
  <2>1. sale = {As(c) : c \in {C(fp) : fp \in DOMAIN cas}}
    BY <1>2, CommandesFacts
  <2>2. \A fp : As(C(fp)) = Sale(fp)
    BY <1>1
  <2> HIDE DEF As, C, Sale
  <2> QED BY <2>1, <2>2
<1>4. {<<c.name, c.amount>> : c \in sale} = {<<fp, cas[fp]>> : fp \in DOMAIN cas}
  <2>1. \A fp : <<Sale(fp).name, Sale(fp).amount>> = <<fp, cas[fp]>>
    OBVIOUS
  <2> HIDE DEF Sale
  <2>2. {<<c.name, c.amount>> : c \in sale}
          = {<<Sale(fp).name, Sale(fp).amount>> : fp \in DOMAIN cas}
    BY <1>3
  <2> QED BY <2>1, <2>2
<1>5. h \in Bijection(DOMAIN cas, sale)
  BY <1>3 DEF Bijection, Injection, Surjection, IsInjective
<1>6. Cardinality(sale) = Cardinality(DOMAIN cas)
  BY <1>5, FS_Bijection DEF Amounts, ExistsBijection
<1> QED BY <1>4, <1>6 DEF sale

\* The rows of v_lignes_commande: of a row of v_commandes, its lines and what
\* they do not explain; of an order, when nt360 has never synced.
Detailed(table, c) ==
  {[fp |-> c.fp, line |-> <<c.order, i>>,
    num |-> table[c.order][i].subtotal * c.num, den |-> c.den] : i \in Products(table, c.order)}

Raw(ords, table, o) ==
  {[fp |-> ords[o].name, line |-> <<o, i>>, num |-> table[o][i].subtotal, den |-> 1] :
     i \in Products(table, o)}

Rest(c) == IF Distance(c.ajustement, 0) > 1
           THEN {[fp |-> c.fp, line |-> <<c.order, 0>>, num |-> c.ajustement, den |-> 1]}
           ELSE {}

\* The lines of a FP are those of its row of v_commandes.
LEMMA DetailFacts ==
  ASSUME NEW cas, NEW ords, NEW table, Joinable(ords, table), ~Fallback(cas)
  PROVE  LET detail == VLignesCommande(cas, ords, table) IN
         /\ {l.fp : l \in detail} \subseteq DOMAIN cas
         /\ \A fp \in DOMAIN cas :
              LET c == Commande(cas, ords, table, fp) IN
              {l \in detail : l.fp = fp} = Detailed(table, c) \cup Rest(c)
<1> DEFINE detail == VLignesCommande(cas, ords, table)
           C(fp) == Commande(cas, ords, table, fp)
           Of(c) == Detailed(table, c) \cup Rest(c)
<1>0. detail = (UNION {Of(c) : c \in VCommandes(cas, ords, table)})
                \cup (UNION {Raw(ords, table, o) :
                           o \in {o \in DOMAIN ords : ords[o].sold /\ Fallback(cas)}})
  BY Zenon DEF VLignesCommande, Detailed, Rest, Raw
<1>1. detail = UNION {Of(c) : c \in VCommandes(cas, ords, table)}
  BY <1>0
<1>2. detail = UNION {Of(C(fp)) : fp \in DOMAIN cas}
  BY <1>1, CommandesFacts
<1>3. \A fp : C(fp).fp = fp
  BY DEF Commande
<1>4. \A c : \A l \in Of(c) : l.fp = c.fp
  BY DEF Detailed, Rest
<1> HIDE DEF detail, C, Of
<1>5. \A fp : \A l \in Of(C(fp)) : l.fp = fp
  BY <1>3, <1>4
<1>6. {l.fp : l \in detail} \subseteq DOMAIN cas
  BY <1>2, <1>5
<1>7. \A fp \in DOMAIN cas : {l \in detail : l.fp = fp} = Of(C(fp))
  BY <1>2, <1>5
<1> QED BY <1>6, <1>7 DEF detail, C, Of

\* The lines that detail a row add up to num times their worth.
LEMMA DetailedSum ==
  ASSUME NEW ords, NEW table, Joinable(ords, table), NEW c, c.num \in Int,
         NEW w, \A r \in Detailed(table, c) : w[r] = r.num
  PROVE  /\ IsFiniteSet(Detailed(table, c))
         /\ SumOf(w, Detailed(table, c)) = Total(table, c.order) * c.num
         /\ \A r \in Detailed(table, c) :
              r.num \in Int /\ r.den = c.den /\ r.line # <<c.order, 0>>
<1> DEFINE S == Products(table, c.order)
           v == Worth(table, c.order)
           Line(i) == [fp |-> c.fp, line |-> <<c.order, i>>,
                       num |-> table[c.order][i].subtotal * c.num, den |-> c.den]
           h == [i \in S |-> Line(i)]
<1>1. /\ IsFiniteSet(S) /\ \A i \in S : i # 0 /\ table[c.order][i].subtotal \in Int
      /\ Total(table, c.order) = SumOf(v, S)
  BY ProductsFacts
<1>2. \A i \in S : v[i] = table[c.order][i].subtotal
  BY DEF Worth
<1> HIDE DEF S, v
<1>3. \A i \in S : v[i] \in Int
  BY <1>1, <1>2
<1>4. \A i \in S : h[i] \in Detailed(table, c) /\ h[i].num = v[i] * c.num
  BY <1>2 DEF Detailed, S
<1>5. \A i, j \in S : h[i] = h[j] => i = j
  <2>1. \A i \in S : h[i].line = <<c.order, i>>
    OBVIOUS
  <2> QED BY <2>1
<1>6. Detailed(table, c) = Renamed(h, S)
  BY DEF Detailed, S, Renamed
<1>7. \A i \in S : w[h[i]] = v[i] * c.num
  BY <1>4
<1>8. \A r \in Detailed(table, c) : r.num \in Int /\ r.den = c.den /\ r.line # <<c.order, 0>>
  BY <1>1 DEF Detailed, S
<1> HIDE DEF h
<1> DEFINE k == c.num
<1>9. Renames(v, S, w, h, k)
  BY <1>1, <1>3, <1>5, <1>7 DEF Renames
<1> HIDE DEF k
<1>10. IsFiniteSet(Renamed(h, S)) /\ SumOf(w, Renamed(h, S)) = SumOf(v, S) * k
  BY <1>9, SumRenamed
<1> QED BY <1>1, <1>6, <1>8, <1>10 DEF k

\* Rescaled, or completed by what they do not explain, the lines of a FP add up
\* to its amount.
LEMMA RowsAddUp ==
  ASSUME NEW cas, NEW ords, NEW table, Joinable(ords, table), Amounts(cas),
         NEW fp \in DOMAIN cas, NEW c, c = Commande(cas, ords, table, fp)
  PROVE  SumTo(Detailed(table, c) \cup Rest(c), cas[fp])
<1> DEFINE a == cas[fp]
           o == c.order
           total == Total(table, o)
           D == Detailed(table, c)
           R == D \cup Rest(c)
           w == [r \in R |-> r.num]
           sum == SumOf(w, R)
<1>1. /\ c.num = IF Recalable(a, total) THEN a ELSE 1
      /\ c.den = IF Recalable(a, total) THEN total ELSE 1
      /\ c.ajustement = IF Recalable(a, total) THEN 0 ELSE a - total
  BY DEF Commande
<1>2. a \in Int /\ total \in Int /\ (Products(table, o) = {} => total = 0)
  BY ProductsFacts DEF Amounts
<1> HIDE DEF a, o, total
<1>3. c.num \in Int /\ c.ajustement \in Int
  BY <1>1, <1>2
<1>4. /\ IsFiniteSet(D) /\ SumOf(w, D) = total * c.num
      /\ \A r \in D : r.num \in Int /\ r.den = c.den /\ r.line # <<o, 0>>
  <2>1. \A r \in D : w[r] = r.num
    OBVIOUS
  <2> HIDE DEF w
  <2> QED BY <1>3, <2>1, DetailedSum DEF total, o
<1>5. \A r \in R : w[r] = r.num
  OBVIOUS
<1> HIDE DEF w
<1>6. SUFFICES /\ IsFiniteSet(R)
               /\ \E d \in {1} \cup {r.den : r \in R} :
                    (\A r \in R : r.den = d) /\ Distance(sum, a * d) <= d
  <2>1. ASSUME IsFiniteSet(R) PROVE NumFold(R)[R] = sum
    <3> HIDE DEF R
    <3> QED BY <1>5, <2>1, NumSum DEF sum
  <2> QED BY <2>1, NumUnfolds, Zenon DEF SumTo, a
<1>7. CASE Recalable(a, total)
  <2>1. Rest(c) = {}
    BY <1>1, <1>7 DEF Rest, Distance
  <2>2. total > 0 /\ Products(table, o) # {}
    BY <1>2, <1>7 DEF Recalable
  <2>3. PICK i \in Products(table, o) : TRUE
    BY <2>2
  <2>4. \E r \in R : r.den = total
    <3>1. [fp |-> c.fp, line |-> <<c.order, i>>,
           num |-> table[c.order][i].subtotal * c.num, den |-> c.den] \in D
      BY <2>3 DEF Detailed, o
    <3> QED BY <1>1, <1>4, <1>7, <3>1
  <2>5. sum = total * a
    BY <1>1, <1>4, <1>7, <2>1
  <2>6. total * a \in Int /\ total * a = a * total
    BY <1>2
  <2>7. Distance(sum, a * total) <= total
    BY <1>2, <2>2, <2>5, <2>6 DEF Distance
  <2>8. \A r \in R : r.den = total
    BY <1>1, <1>4, <1>7, <2>1
  <2>9. IsFiniteSet(R)
    BY <1>4, <2>1
  <2> QED BY <2>4, <2>7, <2>8, <2>9
<1>8. CASE ~Recalable(a, total)
  <2>1. c.num = 1 /\ c.den = 1 /\ c.ajustement = a - total
    BY <1>1, <1>8
  <2>2. SumOf(w, D) = total
    BY <1>2, <1>4, <2>1
  <2>3. CASE Distance(c.ajustement, 0) > 1
    <3> DEFINE x == [fp |-> c.fp, line |-> <<c.order, 0>>, num |-> c.ajustement, den |-> 1]
    <3>1. Rest(c) = {x}
      BY <2>3 DEF Rest
    <3>2. x.num = a - total /\ x.den = 1 /\ x.line = <<o, 0>>
      BY <2>1 DEF o
    <3> HIDE DEF x
    <3>3. x \notin D
      BY <1>4, <3>2
    <3>4. x \in R /\ R \ {x} = D /\ R = D \cup {x}
      BY <3>1, <3>3
    <3>5. IsFiniteSet(R)
      BY <1>4, <3>4, FS_AddElement
    <3>6. \A r \in R : w[r] \in Int /\ r.den = 1
      BY <1>2, <1>4, <1>5, <2>1, <3>1, <3>2
    <3>7. sum = w[x] + SumOf(w, R \ {x})
      BY <3>4, <3>5, <3>6, SumWithout
    <3>8. sum = (a - total) + total
      BY <1>5, <2>2, <3>2, <3>4, <3>7
    <3> HIDE DEF sum, R
    <3>9. Distance(sum, a * 1) <= 1
      BY <1>2, <3>8 DEF Distance
    <3> QED BY <3>5, <3>6, <3>9
  <2>4. CASE ~(Distance(c.ajustement, 0) > 1)
    <3>1. R = D
      BY <2>4 DEF Rest
    <3>2. sum = total
      BY <2>2, <3>1
    <3>3. Distance(a - total, 0) <= 1
      BY <1>2, <2>1, <2>4 DEF Distance
    <3>4. Distance(sum, a * 1) <= 1
      BY <1>2, <3>2, <3>3 DEF Distance
    <3>5. IsFiniteSet(R) /\ \A r \in R : r.den = 1
      BY <1>4, <2>1, <3>1
    <3> QED BY <3>4, <3>5
  <2> QED BY <2>3, <2>4
<1> QED BY <1>7, <1>8

\* Before nt360 has synced, the views are the orders of Odoo.
AsInOdoo(cas, ords, table) ==
  /\ {c.order : c \in VSaleOrders(cas, ords, table)} = DOMAIN ords
  /\ Cardinality(VSaleOrders(cas, ords, table)) = Cardinality(DOMAIN ords)
  /\ \A l \in VLignesCommande(cas, ords, table) :
       \E o \in DOMAIN ords : ords[o].sold /\ ords[o].name = l.fp

LEMMA FallbackFacts ==
  ASSUME NEW cas, NEW ords, NEW table, Joinable(ords, table), Fallback(cas)
  PROVE  AsInOdoo(cas, ords, table)
<1> DEFINE Sale(o) == [order |-> o, name |-> ords[o].name, amount |-> ords[o].amount]
           sale == VSaleOrders(cas, ords, table)
           h == [o \in DOMAIN ords |-> Sale(o)]
<1>1. VCommandes(cas, ords, table) = {}
  BY CommandesFacts DEF Fallback
<1>2. sale = {Sale(o) : o \in DOMAIN ords}
  BY <1>1 DEF VSaleOrders
<1> HIDE DEF sale
<1>3. {c.order : c \in sale} = DOMAIN ords
  <2>1. \A o : Sale(o).order = o
    OBVIOUS
  <2> HIDE DEF Sale
  <2>2. {c.order : c \in sale} = {Sale(o).order : o \in DOMAIN ords}
    BY <1>2
  <2> QED BY <2>1, <2>2
<1>4. h \in Bijection(DOMAIN ords, sale)
  BY <1>2 DEF Bijection, Injection, Surjection, IsInjective
<1>5. Cardinality(sale) = Cardinality(DOMAIN ords)
  BY <1>4, FS_Bijection DEF Joinable, ExistsBijection
<1>6. \A l \in VLignesCommande(cas, ords, table) :
        \E o \in DOMAIN ords : ords[o].sold /\ ords[o].name = l.fp
  <2>1. VLignesCommande(cas, ords, table) =
          (UNION {Detailed(table, c) \cup Rest(c) : c \in VCommandes(cas, ords, table)})
          \cup (UNION {Raw(ords, table, o) :
                     o \in {o \in DOMAIN ords : ords[o].sold /\ Fallback(cas)}})
    BY Zenon DEF VLignesCommande, Detailed, Rest, Raw
  <2>2. \A o : \A l \in Raw(ords, table, o) : l.fp = ords[o].name
    BY DEF Raw
  <2> QED BY <1>1, <2>1, <2>2
<1> QED BY <1>3, <1>5, <1>6 DEF sale, AsInOdoo

\* What the mirror holds, at any time, is what the views need.
LEMMA MirrorFits == TypeOK => Joinable(orders, orderLines)
<1> SUFFICES ASSUME TypeOK PROVE Joinable(orders, orderLines)
  OBVIOUS
<1>1. DOMAIN orders = Rows(rows) /\ DOMAIN orderLines = Rows(lines)
  BY DEF orders, orderLines
<1>2. Rows(rows) \in SUBSET Records /\ Rows(lines) \in SUBSET Records
  BY DEF Rows
<1>3. IsFiniteSet(DOMAIN orders)
  BY <1>1, <1>2, ViewsAssumption, FS_Subset
<1>4. \A o, p \in DOMAIN orders : orders[o].name = orders[p].name => o = p
  <2>1. \A o \in Rows(rows) : orders[o].name = NameOf[o]
    BY DEF orders
  <2>2. \A o \in Rows(rows) : o \in Records /\ KindOf[o] = "order"
    BY DEF Rows
  <2> QED BY <1>1, <2>1, <2>2, ViewsAssumption
<1>5. NoOrder \notin DOMAIN orderLines
  BY <1>1, <1>2, ViewsAssumption
<1>6. \A o \in DOMAIN orderLines : orderLines[o] \in Seq(Lines)
  <2> SUFFICES ASSUME NEW o \in Rows(lines) PROVE orderLines[o] \in Seq(Lines)
    BY <1>1
  <2>1. lines[o] \in 1..MaxVersion
    BY <1>2, ConstantsAssumption DEF TypeOK, Versions, Rows, None
  <2>2. LinesOf \in [1..MaxVersion -> Seq(Lines)]
    BY ViewsAssumption DEF Lines
  <2>3. orderLines[o] = LinesOf[lines[o]]
    BY DEF orderLines
  <2> QED BY <2>1, <2>2, <2>3
<1> QED BY <1>3, <1>4, <1>5, <1>6 DEF Joinable

\* Whatever the mirror was left with and whatever nt360 has synced, the views
\* hold one row per FP of nt360, worth its amount, and the lines of each FP add
\* up to it (views.py:12-15); before the first sync, the orders of Odoo as they
\* are.
THEOREM ViewsAlwaysAddUp == Spec => []ViewsAddUp
<1>1. TypeOK => ViewsAddUp
  <2> SUFFICES ASSUME TypeOK, NEW cas \in Tables
               PROVE  LET sale   == VSaleOrders(cas, orders, orderLines)
                          detail == VLignesCommande(cas, orders, orderLines)
                      IN IF Fallback(cas)
                         THEN /\ {c.order : c \in sale} = DOMAIN orders
                              /\ Cardinality(sale) = Cardinality(DOMAIN orders)
                              /\ \A l \in detail :
                                   \E o \in DOMAIN orders :
                                     orders[o].sold /\ orders[o].name = l.fp
                         ELSE /\ {<<c.name, c.amount>> : c \in sale}
                                   = {<<fp, cas[fp]>> : fp \in DOMAIN cas}
                              /\ Cardinality(sale) = Cardinality(DOMAIN cas)
                              /\ {l.fp : l \in detail} \subseteq DOMAIN cas
                              /\ \A fp \in DOMAIN cas :
                                   SumTo({l \in detail : l.fp = fp}, cas[fp])
    BY Zenon DEF ViewsAddUp
  <2> DEFINE ords == orders
             table == orderLines
             sale == VSaleOrders(cas, ords, table)
             detail == VLignesCommande(cas, ords, table)
  <2>1. Joinable(ords, table)
    BY MirrorFits
  <2>2. Amounts(cas)
    BY ViewsAssumption DEF Amounts
  <2> HIDE DEF ords, table
  <2>3. CASE Fallback(cas)
    <3>1. AsInOdoo(cas, ords, table)
      BY <2>1, <2>3, FallbackFacts
    <3> QED BY <2>3, <3>1, Zenon DEF ords, table, AsInOdoo
  <2>4. CASE ~Fallback(cas)
    <3>1. /\ {<<c.name, c.amount>> : c \in sale} = {<<fp, cas[fp]>> : fp \in DOMAIN cas}
          /\ Cardinality(sale) = Cardinality(DOMAIN cas)
      BY <2>1, <2>2, <2>4, SaleFacts
    <3>2. /\ {l.fp : l \in detail} \subseteq DOMAIN cas
          /\ \A fp \in DOMAIN cas :
               {l \in detail : l.fp = fp}
                 = Detailed(table, Commande(cas, ords, table, fp))
                   \cup Rest(Commande(cas, ords, table, fp))
      BY <2>1, <2>4, DetailFacts
    <3>3. ASSUME NEW fp \in DOMAIN cas
          PROVE  SumTo({l \in detail : l.fp = fp}, cas[fp])
      <4> DEFINE c == Commande(cas, ords, table, fp)
      <4>1. {l \in detail : l.fp = fp} = Detailed(table, c) \cup Rest(c)
        BY <3>2
      <4> HIDE DEF c, detail
      <4>2. SumTo(Detailed(table, c) \cup Rest(c), cas[fp])
        BY <2>1, <2>2, RowsAddUp DEF c
      <4> QED BY <4>1, <4>2, Zenon
    <3> QED BY <2>4, <3>1, <3>2, <3>3, Zenon DEF ords, table
  <2> QED BY <2>3, <2>4
<1>2. QED
  BY <1>1, TypeCorrect, PTL
=============================================================================
