-------------------------- MODULE NarrationsProofs --------------------------
(***************************************************************************)
(* Theorems about Narrations: its types, that it implements TextStore, and *)
(* that a worker writes a text on demand once.                             *)
(***************************************************************************)
EXTENDS Narrations, TLAPS

-----------------------------------------------------------------------------
(* Types.                                                                  *)

\* The blank local variables are typed.
LEMMA IdleJobTyped == IdleJob \in Jobs
<1>1. (CHOOSE k \in Keys : TRUE) \in Keys
  BY ConstantsAssumption
<1>2. 0 \in Figures
  BY ConstantsAssumption DEF Figures
<1>3. QED
  BY <1>1, <1>2 DEF IdleJob, Jobs

\* A task that goes on to a known stage with typed local variables keeps the
\* types of all tasks.
LEMMA GoTyped ==
  ASSUME TypeOK, NEW t \in Tasks, NEW stage \in Stages, NEW local \in Jobs,
         Go(t, stage, local)
  PROVE  pc' \in [Tasks -> Stages] /\ job' \in [Tasks -> Jobs]
BY DEF TypeOK, Go

LEMMA DoneTyped ==
  ASSUME TypeOK, NEW t \in Tasks, Done(t)
  PROVE  pc' \in [Tasks -> Stages] /\ job' \in [Tasks -> Jobs]
<1>1. "idle" \in Stages
  BY DEF Stages
<1>2. QED
  BY <1>1, IdleJobTyped, GoTyped DEF Done

\* The slot and the lock of a task exist.
LEMMA SlotTyped ==
  ASSUME TypeOK, NEW t \in Tasks
  PROVE  Slot(t) \in Slots /\ Name(t) \in Names /\ WorkerOf[t] \in Workers
<1>1. job[t].key \in Sections \cup Dossiers /\ job[t].figures \in Figures /\ today \in Days
  BY DEF TypeOK, Jobs, Keys
<1>2. QED
  BY <1>1, ConstantsAssumption DEF Slot, Slots, Name, Names

\* Releasing a lock keeps the types.
LEMMA UnlockTyped ==
  ASSUME TypeOK, NEW t \in Tasks, Unlock(t)
  PROVE  lock' \in [Workers -> [Names -> Tasks \cup {Free}]]
<1> DEFINE n == Name(t)
           w == WorkerOf[t]
<1>1. n \in Names /\ w \in Workers
  BY SlotTyped
<1>2. lock' = [lock EXCEPT ![w][n] = Free]
  BY DEF Unlock
<1> HIDE DEF n, w
<1>3. QED
  BY <1>1, <1>2 DEF TypeOK

\* A text that may be frozen is a text, and saving dates it.
LEMMA SavedTyped ==
  ASSUME TypeOK, NEW text \in Texts \cup {NoText}, Figeable(text)
  PROVE  Saved(text) \in Texts /\ Saved(text).source = "llm"
         /\ Saved(text).saved = today /\ Saved(text).figures = text.figures
<1>1. text \in Texts
  BY DEF Figeable, NoText
<1>2. QED
  BY <1>1 DEF Figeable, Saved, Texts, TypeOK

LEMMA InitTyped == Init => TypeOK
<1> SUFFICES ASSUME Init PROVE TypeOK
  OBVIOUS
<1>1. today \in Days /\ figures \in Figures /\ starts \in 0..MaxStarts
  BY ConstantsAssumption DEF Init, Days, Figures
<1>2. "idle" \in Stages
  BY DEF Stages
<1>3. QED
  BY <1>1, <1>2, IdleJobTyped DEF Init, TypeOK

\* A draft is a text.
LEMMA DraftTyped ==
  ASSUME NEW f \in Figures, NEW o \in Outcomes
  PROVE  [figures |-> f, source |-> o, saved |-> 0] \in Texts
BY ConstantsAssumption DEF Texts, Outcomes, Days

\* A job whose local variables are set stays one.
LEMMA JobWith ==
  ASSUME NEW j \in Jobs
  PROVE  /\ \A S \in SUBSET Sections : [j EXCEPT !.todo = S] \in Jobs
         /\ \A D \in [Sections -> Texts \cup {NoText}] : [j EXCEPT !.drafts = D] \in Jobs
         /\ \A k \in Keys : [j EXCEPT !.key = k] \in Jobs
         /\ \A f \in Figures : [j EXCEPT !.figures = f] \in Jobs
BY DEF Jobs

LEMMA StepTyped ==
  ASSUME TypeOK, NEW t \in Tasks, Step(t)
  PROVE  TypeOK'
<1>j. job[t] \in Jobs
  BY DEF TypeOK
<1>n. TypeOK => Slot(t) \in Slots /\ Name(t) \in Names /\ WorkerOf[t] \in Workers
  BY SlotTyped
<1>1. CASE Load(t)
  <2>1. "lock" \in Stages
    BY DEF Stages
  <2>2. pc' \in [Tasks -> Stages] /\ job' \in [Tasks -> Jobs]
    BY <1>1, <1>j, <2>1, GoTyped, DoneTyped DEF Load
  <2>3. QED
    BY <1>1, <2>2 DEF Load, TypeOK
<1>2. CASE LoadAgain(t)
  <2>1. "draft" \in Stages
    BY DEF Stages
  <2>2. pc' \in [Tasks -> Stages] /\ job' \in [Tasks -> Jobs]
    BY <1>2, <1>j, <2>1, GoTyped, DoneTyped DEF LoadAgain
  <2>3. lock' \in [Workers -> [Names -> Tasks \cup {Free}]]
    <3> DEFINE n == Name(t)
               w == WorkerOf[t]
    <3>1. n \in Names /\ w \in Workers
      BY <1>n
    <3>2. lock' = lock \/ lock' = [lock EXCEPT ![w][n] = t]
      BY <1>2 DEF LoadAgain
    <3> HIDE DEF n, w
    <3>3. QED
      BY <3>1, <3>2 DEF TypeOK
  <2>4. QED
    BY <1>2, <2>2, <2>3 DEF LoadAgain, TypeOK
<1>3. CASE Save(t)
  <2>1. pc' \in [Tasks -> Stages] /\ job' \in [Tasks -> Jobs]
    BY <1>3, DoneTyped DEF Save
  <2>2. lock' \in [Workers -> [Names -> Tasks \cup {Free}]]
    BY <1>3, UnlockTyped DEF Save
  <2>3. rows' \in [Slots -> Texts \cup {NoText}]
    BY <1>3, <1>j, <1>n, SavedTyped DEF Save, TypeOK, Jobs
  <2>4. called' \subseteq Workers \X Slots
    BY <1>3, <1>n DEF Save, TypeOK
  <2>5. QED
    BY <1>3, <2>1, <2>2, <2>3, <2>4 DEF Save, TypeOK
<1>4. CASE ServeUnsaved(t)
  <2>1. pc' \in [Tasks -> Stages] /\ job' \in [Tasks -> Jobs]
    BY <1>4, DoneTyped DEF ServeUnsaved
  <2>2. lock' \in [Workers -> [Names -> Tasks \cup {Free}]]
    BY <1>4, UnlockTyped DEF ServeUnsaved
  <2>3. QED
    BY <1>4, <2>1, <2>2 DEF ServeUnsaved, TypeOK
<1>5. CASE PurgeSections(t)
  <2>1. pc' \in [Tasks -> Stages] /\ job' \in [Tasks -> Jobs]
    BY <1>5, DoneTyped DEF PurgeSections
  <2>2. QED
    BY <1>5, <2>1 DEF PurgeSections, TypeOK
<1>6. ASSUME NEW o \in Outcomes, Draft(t, o) PROVE TypeOK'
  <2> DEFINE said == IF job[t].key \in Sections THEN figures ELSE job[t].figures
             text == [figures |-> said, source |-> o, saved |-> 0]
             local == [job[t] EXCEPT !.text = text]
  <2>1. said \in Figures
    BY <1>j DEF TypeOK, Jobs
  <2>2. text \in Texts
    BY <2>1, DraftTyped
  <2>3. Go(t, "save", local)
    BY <1>6 DEF Draft
  <2> HIDE DEF text
  <2>4. local \in Jobs
    BY <2>2, <1>j DEF Jobs
  <2>5. "save" \in Stages
    BY DEF Stages
  <2> HIDE DEF local
  <2>6. pc' \in [Tasks -> Stages] /\ job' \in [Tasks -> Jobs]
    BY <2>3, <2>4, <2>5, GoTyped
  <2>7. QED
    BY <1>6, <2>6 DEF Draft, TypeOK
<1>7. ASSUME NEW k \in Sections, NEW o \in Outcomes, DraftSection(t, k, o) PROVE TypeOK'
  <2> DEFINE left == job[t].todo \ {k}
             text == [figures |-> figures, source |-> o, saved |-> 0]
             rest == [job[t] EXCEPT !.todo = left]
             drafts == [rest.drafts EXCEPT ![k] = text]
             local == [rest EXCEPT !.drafts = drafts]
             stage == IF left = {} THEN "store" ELSE "gather"
  <2>1. text \in Texts
    BY DraftTyped DEF TypeOK
  <2>2. Go(t, stage, local)
    BY <1>7 DEF DraftSection
  <2>3. left \subseteq Sections
    BY <1>j DEF Jobs
  <2> HIDE DEF text, left
  <2>4. rest \in Jobs
    BY <1>j, <2>3, JobWith
  <2> HIDE DEF rest
  <2>5. drafts \in [Sections -> Texts \cup {NoText}]
    BY <2>1, <2>4 DEF Jobs
  <2> HIDE DEF drafts
  <2>6. local \in Jobs
    BY <2>4, <2>5, JobWith
  <2>7. stage \in Stages
    BY DEF Stages
  <2> HIDE DEF local, stage
  <2>8. pc' \in [Tasks -> Stages] /\ job' \in [Tasks -> Jobs]
    BY <2>2, <2>6, <2>7, GoTyped
  <2>9. QED
    BY <1>7, <2>8 DEF DraftSection, TypeOK
<1>8. ASSUME NEW k \in Sections, StoreSection(t, k) PROVE TypeOK'
  <2> DEFINE text == job[t].drafts[k]
             drafts == [job[t].drafts EXCEPT ![k] = NoText]
             local == [job[t] EXCEPT !.drafts[k] = NoText]
  <2>1. Figeable(text) /\ text \in Texts \cup {NoText}
    BY <1>8, <1>j DEF StoreSection, Kept, Jobs
  <2>2. Saved(text) \in Texts
    BY <2>1, SavedTyped
  <2>3. <<k, today>> \in Slots
    BY DEF Slots, TypeOK
  <2>4. rows' \in [Slots -> Texts \cup {NoText}]
    BY <1>8, <2>2, <2>3 DEF StoreSection, TypeOK
  <2>5. local = [key |-> job[t].key, figures |-> job[t].figures, text |-> job[t].text,
                 todo |-> job[t].todo, drafts |-> drafts]
    BY <1>j DEF Jobs
  <2>6. drafts \in [Sections -> Texts \cup {NoText}]
    BY <1>j DEF Jobs
  <2> HIDE DEF drafts
  <2>7. local \in Jobs
    BY <2>5, <2>6, <1>j DEF Jobs
  <2>8. "store" \in Stages /\ Go(t, "store", local)
    BY <1>8 DEF Stages, StoreSection
  <2> HIDE DEF local
  <2>9. pc' \in [Tasks -> Stages] /\ job' \in [Tasks -> Jobs]
    BY <2>7, <2>8, GoTyped
  <2>10. QED
    BY <1>8, <2>4, <2>9 DEF StoreSection, TypeOK
<1>9. QED
  BY <1>1, <1>2, <1>3, <1>4, <1>5, <1>6, <1>7, <1>8 DEF Step

LEMMA NextTyped == TypeOK /\ [Next]_vars => TypeOK'
<1> SUFFICES ASSUME TypeOK, [Next]_vars PROVE TypeOK'
  OBVIOUS
<1>1. ASSUME NEW t \in Tasks, NEW k \in Keys, Ask(t, k) PROVE TypeOK'
  <2> DEFINE first == [IdleJob EXCEPT !.key = k]
             local == [first EXCEPT !.figures = figures]
  <2>1. first \in Jobs
    BY IdleJobTyped, JobWith
  <2> HIDE DEF first
  <2>2. local \in Jobs
    BY <2>1, JobWith DEF TypeOK
  <2> USE DEF first
  <2>3. "load" \in Stages /\ Go(t, "load", local)
    BY <1>1 DEF Ask, Stages
  <2> HIDE DEF local
  <2>4. pc' \in [Tasks -> Stages] /\ job' \in [Tasks -> Jobs]
    BY <2>2, <2>3, GoTyped
  <2>5. starts' \in 0..MaxStarts
    BY <1>1, ConstantsAssumption DEF Ask, TypeOK
  <2>6. QED
    BY <1>1, <2>4, <2>5 DEF Ask, TypeOK
<1>2. ASSUME NEW t \in Tasks, GenerateAll(t) PROVE TypeOK'
  <2> DEFINE local == [IdleJob EXCEPT !.todo = Sections]
  <2>1. local \in Jobs
    BY IdleJobTyped DEF Jobs
  <2>2. "gather" \in Stages /\ Go(t, "gather", local)
    BY <1>2 DEF GenerateAll, Stages
  <2> HIDE DEF local
  <2>3. pc' \in [Tasks -> Stages] /\ job' \in [Tasks -> Jobs]
    BY <2>1, <2>2, GoTyped
  <2>4. starts' \in 0..MaxStarts
    BY <1>2, ConstantsAssumption DEF GenerateAll, TypeOK
  <2>5. QED
    BY <1>2, <2>3, <2>4 DEF GenerateAll, TypeOK
<1>3. ASSUME NEW t \in Tasks, Step(t) PROVE TypeOK'
  BY <1>3, StepTyped
<1>4. ASSUME NEW w \in Workers, Crash(w) PROVE TypeOK'
  <2>1. "idle" \in Stages
    BY DEF Stages
  <2>2. pc' \in [Tasks -> Stages] /\ job' \in [Tasks -> Jobs]
    BY <1>4, <2>1, IdleJobTyped DEF Crash, TypeOK
  <2>3. lock' \in [Workers -> [Names -> Tasks \cup {Free}]]
    BY <1>4 DEF Crash, TypeOK
  <2>4. QED
    BY <1>4, <2>2, <2>3 DEF Crash, TypeOK
<1>5. CASE PurgeDossiers
  BY <1>5 DEF PurgeDossiers, TypeOK
<1>6. CASE Midnight
  BY <1>6, ConstantsAssumption DEF Midnight, TypeOK, Days, Texts, Slots, Jobs
<1>7. CASE FiguresMove
  BY <1>7, ConstantsAssumption DEF FiguresMove, TypeOK, Figures
<1>8. CASE UNCHANGED vars
  BY <1>8 DEF vars, TypeOK
<1>9. QED
  BY <1>1, <1>2, <1>3, <1>4, <1>5, <1>6, <1>7, <1>8 DEF Next

\* The tables, the locks and the tasks keep their types, for any number of
\* sections, dossiers, workers and tasks.
THEOREM TypeCorrect == Spec => []TypeOK
<1>1. QED
  BY InitTyped, NextTyped, PTL DEF Spec

-----------------------------------------------------------------------------
(* One call per worker.                                                    *)

\* A slot written on demand still has its text, or its day is over.
CalledKept ==
  \A c \in called :
    /\ c[2][1] \in Sections => c[2][2] <= today
    /\ rows[c[2]] # NoText \/ (c[2][1] \in Sections /\ c[2][2] < today)

\* A task that asks the model holds its lock, for a slot its worker has not
\* written; the text of a dossier is about the figures of its slot.
Asking(t) == pc[t] \in {"draft", "save"}

Holds ==
  \A t \in Tasks : Asking(t) => /\ lock[WorkerOf[t]][Name(t)] = t
                                /\ <<WorkerOf[t], Slot(t)>> \notin called

Faithful ==
  \A t \in Tasks : pc[t] = "save" /\ job[t].key \notin Sections
                     => job[t].text.figures = job[t].figures

Inv == TypeOK /\ CalledKept /\ Holds /\ Faithful

\* Two tasks of a worker that ask for one slot are the same task.
LEMMA OneHolder ==
  ASSUME Inv, NEW t \in Tasks, NEW u \in Tasks, Asking(t), Asking(u),
         WorkerOf[t] = WorkerOf[u], Name(t) = Name(u)
  PROVE  t = u
BY DEF Inv, Holds

LEMMA SameSlotSameName ==
  ASSUME TypeOK, NEW t \in Tasks, NEW u \in Tasks, Slot(t) = Slot(u)
  PROVE  Name(t) = Name(u)
<1>1. job[t].key \in Keys /\ job[u].key \in Keys
  BY DEF TypeOK, Jobs
<1>2. QED
  BY <1>1 DEF Slot, Name

\* The second load finds no text: its worker has not written the slot.
LEMMA NotCalled ==
  ASSUME Inv, NEW t \in Tasks, rows[Slot(t)] = NoText
  PROVE  <<WorkerOf[t], Slot(t)>> \notin called
<1> SUFFICES ASSUME <<WorkerOf[t], Slot(t)>> \in called PROVE FALSE
  OBVIOUS
<1>1. Slot(t)[1] \in Sections /\ Slot(t)[2] < today
  BY DEF Inv, CalledKept
<1>2. Slot(t)[2] = today
  BY <1>1 DEF Slot
<1>3. today \in Nat
  BY ConstantsAssumption DEF Inv, TypeOK, Days
<1>4. QED
  BY <1>1, <1>2, <1>3

LEMMA SaveKeepsText ==
  ASSUME Inv, NEW text \in Texts \cup {NoText}, Figeable(text)
  PROVE  Saved(text) # NoText
BY SavedTyped DEF Inv, NoText

\* What a task that does not move keeps.
LEMMA Still ==
  ASSUME NEW t \in Tasks, pc'[t] = pc[t], job'[t] = job[t]
  PROVE  /\ Asking(t)' <=> Asking(t)
         /\ Name(t)' = Name(t)
         /\ today' = today => Slot(t)' = Slot(t)
BY DEF Asking, Name, Slot

LEMMA StepMovesOne ==
  ASSUME TypeOK, NEW t \in Tasks, NEW stage \in Stages, NEW local, Go(t, stage, local)
  PROVE  /\ pc'[t] = stage /\ job'[t] = local
         /\ \A u \in Tasks \ {t} : pc'[u] = pc[u] /\ job'[u] = job[u]
BY DEF Go, TypeOK

\* A task that leaves for a stage where the model is not asked, and touches
\* neither the locks nor the history.
LEMMA LeaveHolds ==
  ASSUME Inv, NEW t \in Tasks, NEW stage \in Stages, NEW local, Go(t, stage, local),
         stage \notin {"draft", "save"}, UNCHANGED <<lock, called, today>>
  PROVE  Holds' /\ Faithful'
<1>1. pc'[t] = stage /\ \A u \in Tasks \ {t} : pc'[u] = pc[u] /\ job'[u] = job[u]
  BY StepMovesOne DEF Inv
<1>2. ~ Asking(t)' /\ pc'[t] # "save"
  BY <1>1 DEF Asking
<1>3. Holds'
  <2> SUFFICES ASSUME NEW u \in Tasks, Asking(u)'
               PROVE  lock'[WorkerOf[u]][Name(u)'] = u /\ <<WorkerOf[u], Slot(u)'>> \notin called'
    BY DEF Holds
  <2>1. u # t
    BY <1>2
  <2>2. Asking(u) /\ Name(u)' = Name(u) /\ Slot(u)' = Slot(u)
    BY <1>1, <2>1, Still
  <2>3. QED
    BY <2>2 DEF Inv, Holds
<1>4. Faithful'
  BY <1>1, <1>2 DEF Inv, Faithful
<1>5. QED
  BY <1>3, <1>4

\* A task that releases its lock and ends.
LEMMA EndHolds ==
  ASSUME Inv, NEW t \in Tasks, Asking(t), Unlock(t), Done(t), UNCHANGED today,
         called' \subseteq called \cup {<<WorkerOf[t], Slot(t)>>}
  PROVE  Holds' /\ Faithful'
<1>1. pc'[t] = "idle" /\ \A u \in Tasks \ {t} : pc'[u] = pc[u] /\ job'[u] = job[u]
  BY StepMovesOne DEF Inv, Done, Stages
<1>2. ~ Asking(t)' /\ pc'[t] # "save"
  BY <1>1 DEF Asking
<1>3. Holds'
  <2> SUFFICES ASSUME NEW u \in Tasks, Asking(u)'
               PROVE  lock'[WorkerOf[u]][Name(u)'] = u /\ <<WorkerOf[u], Slot(u)'>> \notin called'
    BY DEF Holds
  <2>1. u # t
    BY <1>2
  <2>2. Asking(u) /\ Name(u)' = Name(u) /\ Slot(u)' = Slot(u)
    BY <1>1, <2>1, Still
  <2>3. lock[WorkerOf[u]][Name(u)] = u /\ <<WorkerOf[u], Slot(u)>> \notin called
    BY <2>2 DEF Inv, Holds
  <2>4. ~ (WorkerOf[u] = WorkerOf[t] /\ Name(u) = Name(t))
    BY <2>1, <2>2, OneHolder
  <2>5. <<WorkerOf[u], Slot(u)>> # <<WorkerOf[t], Slot(t)>>
    BY <2>4, SameSlotSameName DEF Inv
  <2>6. lock'[WorkerOf[u]][Name(u)] = lock[WorkerOf[u]][Name(u)]
    <3> DEFINE n == Name(t)
               m == Name(u)
               w == WorkerOf[t]
    <3>1. n \in Names /\ m \in Names /\ w \in Workers /\ WorkerOf[u] \in Workers
      BY SlotTyped DEF Inv
    <3>2. lock' = [lock EXCEPT ![w][n] = Free] /\ ~ (WorkerOf[u] = w /\ m = n)
      BY <2>4 DEF Unlock
    <3> HIDE DEF n, m, w
    <3>3. lock'[WorkerOf[u]][m] = lock[WorkerOf[u]][m]
      BY <3>1, <3>2 DEF Inv, TypeOK
    <3>4. QED
      BY <3>3 DEF m
  <2>7. QED
    BY <2>2, <2>3, <2>5, <2>6
<1>4. Faithful'
  BY <1>1, <1>2 DEF Inv, Faithful
<1>5. QED
  BY <1>3, <1>4

\* The history and the tables together, when neither moves.
LEMMA SameCalledKept ==
  ASSUME Inv, UNCHANGED <<rows, called, today>>
  PROVE  CalledKept'
BY DEF Inv, CalledKept

LEMMA StepKeepsCalled ==
  ASSUME Inv, NEW t \in Tasks, Step(t)
  PROVE  CalledKept'
<1>1. TypeOK /\ job[t] \in Jobs
  BY DEF Inv, TypeOK
<1>2. CASE Save(t)
  <2> DEFINE text == Saved(job[t].text)
             s == Slot(t)
  <2>1. text # NoText
    BY <1>1, <1>2, SaveKeepsText DEF Save, Jobs
  <2>2. s[1] \in Sections => s[2] = today
    BY DEF Slot
  <2>3. /\ rows' = [rows EXCEPT ![s] = text] /\ today' = today
        /\ called' = called \cup {<<WorkerOf[t], s>>}
    BY <1>2 DEF Save
  <2>4. today \in Nat
    BY <1>1, ConstantsAssumption DEF TypeOK, Days
  <2>6. s \in Slots
    BY <1>1, SlotTyped
  <2> HIDE DEF s, text
  <2>5. \A c \in called' : c \in called \/ c[2] = s
    BY <2>3
  <2>7. rows'[s] = text /\ \A r \in Slots : r # s => rows'[r] = rows[r]
    BY <1>1, <2>3, <2>6 DEF TypeOK
  <2>8. \A c \in called : c[2] \in Slots
    BY <1>1 DEF TypeOK
  <2>9. s[1] \in Sections => s[2] <= today
    BY <2>2, <2>4
  <2>10. QED
    BY <2>1, <2>3, <2>5, <2>7, <2>8, <2>9 DEF Inv, CalledKept
<1>3. ASSUME NEW k \in Sections, StoreSection(t, k) PROVE CalledKept'
  <2> DEFINE draft == job[t].drafts[k]
             text == Saved(draft)
  <2>1. Figeable(draft) /\ draft \in Texts \cup {NoText}
    BY <1>1, <1>3 DEF StoreSection, Kept, Jobs
  <2>2. text # NoText
    BY <2>1, SaveKeepsText
  <2>3. rows' = [rows EXCEPT ![<<k, today>>] = text] /\ UNCHANGED <<called, today>>
    BY <1>3 DEF StoreSection
  <2> HIDE DEF text
  <2>4. \A r \in Slots : rows'[r] = rows[r] \/ rows'[r] = text
    BY <1>1, <2>3 DEF TypeOK
  <2>5. \A c \in called : c[2] \in Slots
    BY <1>1 DEF TypeOK
  <2>6. QED
    BY <2>2, <2>3, <2>4, <2>5 DEF Inv, CalledKept
<1>4. CASE PurgeSections(t)
  <2>1. UNCHANGED <<called, today>>
        /\ rows' = [s \in Slots |-> IF s[1] \in Sections /\ Past(s[2]) THEN NoText ELSE rows[s]]
    BY <1>4 DEF PurgeSections
  <2>2. ASSUME NEW s \in Slots, s[1] \in Sections, Past(s[2]) PROVE s[2] < today
    BY <1>1, <2>2, ConstantsAssumption DEF Past, Slots, TypeOK, Days
  <2>3. \A c \in called : c[2] \in Slots
    BY <1>1 DEF TypeOK
  <2>4. QED
    BY <2>1, <2>2, <2>3 DEF Inv, CalledKept
<1>5. CASE ~ (Save(t) \/ PurgeSections(t) \/ \E k \in Sections : StoreSection(t, k))
  <2>1. UNCHANGED <<rows, called, today>>
    BY <1>5 DEF Step, Load, LoadAgain, Draft, ServeUnsaved, DraftSection
  <2>2. QED
    BY <2>1, SameCalledKept
<1>6. QED
  BY <1>2, <1>3, <1>4, <1>5

\* Taking the lock with no text to read.
LEMMA TakeHolds ==
  ASSUME Inv, NEW t \in Tasks, LoadAgain(t)
  PROVE  Holds' /\ Faithful'
<1>1. CASE Found(t)
  BY <1>1, LeaveHolds DEF LoadAgain, Done, Stages
<1>2. CASE ~ Found(t)
  <2> DEFINE w == WorkerOf[t]
             n == Name(t)
  <2>1. /\ lock[w][n] = Free /\ lock' = [lock EXCEPT ![w][n] = t]
        /\ Go(t, "draft", job[t]) /\ UNCHANGED <<today, called>>
    BY <1>2 DEF LoadAgain
  <2>2. pc'[t] = "draft" /\ job'[t] = job[t]
        /\ \A u \in Tasks \ {t} : pc'[u] = pc[u] /\ job'[u] = job[u]
    BY <2>1, StepMovesOne DEF Inv, Stages
  <2>3. Name(t)' = n /\ Slot(t)' = Slot(t)
    BY <2>1, <2>2 DEF Name, Slot
  <2>4. <<w, Slot(t)>> \notin called
    BY <1>2, NotCalled DEF Found
  <2>5. n \in Names /\ w \in Workers
    BY SlotTyped DEF Inv
  <2> HIDE DEF n, w
  <2>6. lock'[w][n] = t /\ \A v \in Workers, m \in Names :
                              ~ (v = w /\ m = n) => lock'[v][m] = lock[v][m]
    BY <2>1, <2>5 DEF Inv, TypeOK
  <2>7. ASSUME NEW u \in Tasks \ {t}, Asking(u)'
        PROVE  lock'[WorkerOf[u]][Name(u)'] = u /\ <<WorkerOf[u], Slot(u)'>> \notin called'
    <3>1. Asking(u) /\ Name(u)' = Name(u) /\ Slot(u)' = Slot(u)
      BY <2>1, <2>2, <2>7, Still
    <3>2. lock[WorkerOf[u]][Name(u)] = u /\ <<WorkerOf[u], Slot(u)>> \notin called
      BY <3>1 DEF Inv, Holds
    <3>3. ~ (WorkerOf[u] = w /\ Name(u) = n)
      BY <2>1, <3>2, ConstantsAssumption
    <3>4. WorkerOf[u] \in Workers /\ Name(u) \in Names
      BY SlotTyped DEF Inv
    <3>5. QED
      BY <2>1, <2>6, <3>1, <3>2, <3>3, <3>4
  <2>8. lock'[WorkerOf[t]][Name(t)'] = t /\ <<WorkerOf[t], Slot(t)'>> \notin called'
    BY <2>1, <2>3, <2>4, <2>6 DEF w
  <2>9. Holds'
    BY <2>7, <2>8 DEF Holds
  <2>10. Faithful'
    BY <2>2 DEF Inv, Faithful
  <2>11. QED
    BY <2>9, <2>10
<1>3. QED
  BY <1>1, <1>2

\* The draft is about the figures of its dossier.
LEMMA DraftHolds ==
  ASSUME Inv, NEW t \in Tasks, NEW o \in Outcomes, Draft(t, o)
  PROVE  Holds' /\ Faithful'
<1> DEFINE said == IF job[t].key \in Sections THEN figures ELSE job[t].figures
           text == [figures |-> said, source |-> o, saved |-> 0]
           local == [job[t] EXCEPT !.text = text]
<1>1. Go(t, "save", local) /\ pc[t] = "draft" /\ UNCHANGED <<lock, called, today>>
  BY DEF Draft
<1>2. job[t] \in Jobs
  BY DEF Inv, TypeOK
<1>3. local.key = job[t].key /\ local.figures = job[t].figures /\ local.text = text
  BY <1>2 DEF Jobs
<1>4. job[t].key \notin Sections => text.figures = job[t].figures
  OBVIOUS
<1> HIDE DEF local, text
<1>5. pc'[t] = "save" /\ job'[t] = local
      /\ \A u \in Tasks \ {t} : pc'[u] = pc[u] /\ job'[u] = job[u]
  BY <1>1, StepMovesOne DEF Inv, Stages
<1>6. ASSUME NEW u \in Tasks
      PROVE  (Asking(u)' => Asking(u)) /\ Name(u)' = Name(u) /\ Slot(u)' = Slot(u)
  BY <1>1, <1>3, <1>5 DEF Asking, Name, Slot
<1>7. Holds'
  BY <1>1, <1>6 DEF Inv, Holds
<1>8. Faithful'
  BY <1>3, <1>4, <1>5 DEF Inv, Faithful
<1>9. QED
  BY <1>7, <1>8

LEMMA StepKeepsHolds ==
  ASSUME Inv, NEW t \in Tasks, Step(t)
  PROVE  Holds' /\ Faithful'
<1>1. {"idle", "lock", "gather", "store"} \subseteq Stages
  BY DEF Stages
<1>2. CASE Load(t)
  BY <1>1, <1>2, LeaveHolds DEF Load, Done
<1>3. CASE LoadAgain(t)
  BY <1>3, TakeHolds
<1>4. CASE Save(t)
  BY <1>4, EndHolds DEF Save, Asking
<1>5. CASE ServeUnsaved(t)
  BY <1>5, EndHolds DEF ServeUnsaved, Asking
<1>6. CASE PurgeSections(t)
  BY <1>1, <1>6, LeaveHolds DEF PurgeSections, Done
<1>7. ASSUME NEW o \in Outcomes, Draft(t, o) PROVE Holds' /\ Faithful'
  BY <1>7, DraftHolds
<1>8. ASSUME NEW k \in Sections, NEW o \in Outcomes, DraftSection(t, k, o)
      PROVE  Holds' /\ Faithful'
  <2>1. \E stage \in {"store", "gather"} : \E local : Go(t, stage, local)
    BY <1>8 DEF DraftSection
  <2>2. QED
    BY <1>1, <1>8, <2>1, LeaveHolds DEF DraftSection
<1>9. ASSUME NEW k \in Sections, StoreSection(t, k) PROVE Holds' /\ Faithful'
  <2>1. \E local : Go(t, "store", local)
    BY <1>9 DEF StoreSection
  <2>2. QED
    BY <1>1, <1>9, <2>1, LeaveHolds DEF StoreSection
<1>10. QED
  BY <1>2, <1>3, <1>4, <1>5, <1>6, <1>7, <1>8, <1>9 DEF Step

LEMMA AskHolds ==
  ASSUME Inv, NEW t \in Tasks, NEW stage \in Stages, NEW local, Go(t, stage, local),
         stage \notin {"draft", "save"}, UNCHANGED <<rows, lock, called, today>>
  PROVE  CalledKept' /\ Holds' /\ Faithful'
BY SameCalledKept, LeaveHolds

LEMMA NextInv == Inv /\ [Next]_vars => Inv'
<1> SUFFICES ASSUME Inv, [Next]_vars PROVE CalledKept' /\ Holds' /\ Faithful'
  BY NextTyped DEF Inv
<1>0. {"load", "gather"} \subseteq Stages
  BY DEF Stages
<1>1. ASSUME NEW t \in Tasks, NEW k \in Keys, Ask(t, k) PROVE CalledKept' /\ Holds' /\ Faithful'
  <2>1. \E local : Go(t, "load", local)
    BY <1>1 DEF Ask
  <2>2. QED
    BY <1>0, <1>1, <2>1, AskHolds DEF Ask
<1>2. ASSUME NEW t \in Tasks, GenerateAll(t) PROVE CalledKept' /\ Holds' /\ Faithful'
  <2>1. \E local : Go(t, "gather", local)
    BY <1>2 DEF GenerateAll
  <2>2. QED
    BY <1>0, <1>2, <2>1, AskHolds DEF GenerateAll
<1>3. ASSUME NEW t \in Tasks, Step(t) PROVE CalledKept' /\ Holds' /\ Faithful'
  BY <1>3, StepKeepsCalled, StepKeepsHolds
<1>4. ASSUME NEW w \in Workers, Crash(w) PROVE CalledKept' /\ Holds' /\ Faithful'
  <2>1. UNCHANGED <<rows, called, today>>
    BY <1>4 DEF Crash
  <2>2. \A u \in Tasks : IF WorkerOf[u] = w THEN pc'[u] = "idle"
                        ELSE pc'[u] = pc[u] /\ job'[u] = job[u]
    BY <1>4 DEF Crash, Inv, TypeOK
  <2>3. \A v \in Workers : v # w => lock'[v] = lock[v]
    BY <1>4 DEF Crash, Inv, TypeOK
  <2>4. ASSUME NEW u \in Tasks, Asking(u)'
        PROVE  lock'[WorkerOf[u]][Name(u)'] = u /\ <<WorkerOf[u], Slot(u)'>> \notin called'
    <3>1. WorkerOf[u] # w /\ pc'[u] = pc[u] /\ job'[u] = job[u]
      BY <2>2, <2>4 DEF Asking
    <3>2. Asking(u) /\ Name(u)' = Name(u) /\ Slot(u)' = Slot(u)
      BY <2>1, <2>4, <3>1, Still
    <3>3. WorkerOf[u] \in Workers
      BY SlotTyped DEF Inv
    <3>4. QED
      BY <2>1, <2>3, <3>1, <3>2, <3>3 DEF Inv, Holds
  <2>5. Holds'
    BY <2>4 DEF Holds
  <2>6. Faithful'
    BY <2>2 DEF Inv, Faithful
  <2>7. QED
    BY <2>1, <2>5, <2>6, SameCalledKept
<1>5. CASE PurgeDossiers
  <2>1. CalledKept'
    <3>1. \A c \in called' : c \in called /\ c[2] \notin Outdated /\ c[2] \in Slots
      BY <1>5 DEF PurgeDossiers, Inv, TypeOK
    <3>2. \A s \in Slots \ Outdated : rows'[s] = rows[s]
      BY <1>5 DEF PurgeDossiers
    <3>3. QED
      BY <1>5, <3>1, <3>2 DEF PurgeDossiers, Inv, CalledKept
  <2>2. called' \subseteq called /\ UNCHANGED <<lock, pc, job, today>>
    BY <1>5 DEF PurgeDossiers
  <2>3. Holds' /\ Faithful'
    BY <2>2 DEF Inv, Holds, Faithful, Asking, Name, Slot
  <2>4. QED
    BY <2>1, <2>3
<1>6. CASE Midnight
  <2>1. today' = today + 1 /\ today \in Nat /\ UNCHANGED <<rows, lock, pc, job, called>>
    BY <1>6, ConstantsAssumption DEF Midnight, Inv, TypeOK, Days
  <2>2. \A c \in called : c[2][1] \in Sections => c[2][2] \in Nat
    BY ConstantsAssumption DEF Inv, TypeOK, Slots, Days
  <2>3. CalledKept'
    BY <2>1, <2>2 DEF Inv, CalledKept
  <2>4. ASSUME NEW u \in Tasks, Asking(u)
        PROVE  <<WorkerOf[u], Slot(u)'>> \notin called
    <3>1. CASE job[u].key \in Sections
      <4>1. Slot(u)' = <<job[u].key, today + 1>>
        BY <2>1, <3>1 DEF Slot
      <4>2. QED
        BY <2>1, <3>1, <4>1 DEF Inv, CalledKept
    <3>2. CASE job[u].key \notin Sections
      BY <2>1, <2>4, <3>2 DEF Slot, Inv, Holds
    <3>3. QED
      BY <3>1, <3>2
  <2>5. Holds'
    BY <2>1, <2>4 DEF Inv, Holds, Asking, Name
  <2>6. QED
    BY <2>1, <2>3, <2>5 DEF Inv, Faithful
<1>7. CASE FiguresMove
  BY <1>7, SameCalledKept DEF FiguresMove, Inv, Holds, Faithful, Asking, Name, Slot
<1>8. CASE UNCHANGED vars
  BY <1>8, SameCalledKept DEF vars, Inv, Holds, Faithful, Asking, Name, Slot
<1>9. QED
  BY <1>1, <1>2, <1>3, <1>4, <1>5, <1>6, <1>7, <1>8 DEF Next

LEMMA InitInv == Init => Inv
BY InitTyped DEF Init, Inv, CalledKept, Holds, Faithful, Asking

\* A worker asks the model at most once for a text it has kept, whatever the
\* tasks, the midnights and the crashes.
THEOREM CalledOnce == Spec => OneCallPerWorker
<1>1. Inv /\ [Next]_vars
      => [\A t \in Tasks : Save(t) => <<WorkerOf[t], Slot(t)>> \notin called]_vars
  BY DEF Inv, Holds, Asking, Save
<1>2. QED
  BY <1>1, InitInv, NextInv, PTL DEF Spec, OneCallPerWorker

-----------------------------------------------------------------------------
(* The refinement.                                                         *)

LEMMA WriteRefines ==
  ASSUME Inv, NEW s \in Slots, NEW draft \in Texts \cup {NoText}, Figeable(draft),
         rows' = [rows EXCEPT ![s] = Saved(draft)], UNCHANGED today,
         IF s[1] \in Sections THEN s[2] = today ELSE draft.figures = s[2]
  PROVE  Store!Next
<1> DEFINE text == Saved(draft)
<1>1. /\ text \in Texts /\ text.source = "llm" /\ text.saved = today
      /\ text.figures = draft.figures
  BY SavedTyped DEF Inv
<1>2. rows' = [rows EXCEPT ![s] = text]
  OBVIOUS
<1> HIDE DEF text
<1>3. Store!Write(s, text)
  BY <1>1, <1>2 DEF Store!Write
<1>4. text \in Store!Texts /\ s \in Store!Slots
  BY <1>1 DEF Store!Texts, Store!Slots, Texts, Slots
<1>5. QED
  BY <1>3, <1>4 DEF Store!Next

LEMMA SectionsDropped ==
  ASSUME Inv, NEW t \in Tasks, PurgeSections(t)
  PROVE  Store!Next
<1> DEFINE S == {s \in Slots : s[1] \in Sections /\ Past(s[2]) /\ rows[s] # NoText}
<1>1. rows' = [s \in Store!Slots |-> IF s \in S THEN Store!NoText ELSE rows[s]]
  BY DEF PurgeSections, Store!Slots, Slots, Store!NoText, NoText
<1>2. \A s \in S : rows[s] # Store!NoText
                   /\ Store!Past(IF s[1] \in Sections THEN s[2] ELSE rows[s].saved)
  BY DEF Store!NoText, NoText, Store!Past, Past
<1>3. S \in SUBSET Store!Slots /\ UNCHANGED today
  BY DEF PurgeSections, Store!Slots, Slots
<1> HIDE DEF S
<1>4. QED
  BY <1>1, <1>2, <1>3 DEF Store!Next, Store!Drop

LEMMA DossiersDropped ==
  ASSUME Inv, PurgeDossiers
  PROVE  Store!Next
<1>1. rows' = [s \in Store!Slots |-> IF s \in Outdated THEN Store!NoText ELSE rows[s]]
  BY DEF PurgeDossiers, Store!Slots, Slots, Store!NoText, NoText
<1>2. \A s \in Outdated : rows[s] # Store!NoText
                   /\ Store!Past(IF s[1] \in Sections THEN s[2] ELSE rows[s].saved)
  BY ConstantsAssumption DEF Outdated, Store!NoText, NoText, Store!Past, Past
<1>3. Outdated \in SUBSET Store!Slots /\ UNCHANGED today
  BY DEF PurgeDossiers, Outdated, Store!Slots, Slots
<1>4. QED
  BY <1>1, <1>2, <1>3 DEF Store!Next, Store!Drop

LEMMA NextRefines == Inv /\ [Next]_vars => [Store!Next]_<<rows, today>>
<1> SUFFICES ASSUME Inv, [Next]_vars PROVE Store!Next \/ UNCHANGED <<rows, today>>
  OBVIOUS
<1>1. ASSUME NEW t \in Tasks, Save(t) PROVE Store!Next
  <2> DEFINE s == Slot(t)
             draft == job[t].text
  <2>1. job[t] \in Jobs
    BY DEF Inv, TypeOK
  <2>2. draft \in Texts \cup {NoText} /\ s \in Slots
    BY <2>1, SlotTyped DEF Jobs, Inv
  <2>3. Figeable(draft) /\ rows' = [rows EXCEPT ![s] = Saved(draft)] /\ UNCHANGED today
    BY <1>1 DEF Save
  <2>4. job[t].key \in Sections \cup Dossiers
    BY <2>1 DEF Jobs, Keys
  <2>5. IF s[1] \in Sections THEN s[2] = today ELSE draft.figures = s[2]
    BY <1>1, <2>4 DEF Save, Slot, Inv, Faithful
  <2> HIDE DEF s, draft
  <2>6. QED
    BY <2>2, <2>3, <2>5, WriteRefines
<1>2. ASSUME NEW t \in Tasks, NEW k \in Sections, StoreSection(t, k) PROVE Store!Next
  <2> DEFINE s == <<k, today>>
             draft == job[t].drafts[k]
  <2>1. draft \in Texts \cup {NoText} /\ s \in Slots
    BY DEF Inv, TypeOK, Jobs, Slots
  <2>2. Figeable(draft) /\ rows' = [rows EXCEPT ![s] = Saved(draft)] /\ UNCHANGED today
    BY <1>2 DEF StoreSection, Kept
  <2>3. s[1] \in Sections /\ s[2] = today
    OBVIOUS
  <2> HIDE DEF s, draft
  <2>4. QED
    BY <2>1, <2>2, <2>3, WriteRefines
<1>3. ASSUME NEW t \in Tasks, PurgeSections(t) PROVE Store!Next
  BY <1>3, SectionsDropped
<1>4. CASE PurgeDossiers
  BY <1>4, DossiersDropped
<1>5. CASE Midnight
  BY <1>5 DEF Midnight, Store!Next, Store!Tomorrow
<1>6. ASSUME NEW t \in Tasks, Step(t), ~ Save(t), ~ PurgeSections(t),
             \A k \in Sections : ~ StoreSection(t, k)
      PROVE  UNCHANGED <<rows, today>>
  BY <1>6 DEF Step, Load, LoadAgain, Draft, ServeUnsaved, DraftSection
<1>7. CASE \/ \E t \in Tasks, k \in Keys : Ask(t, k)
           \/ \E t \in Tasks : GenerateAll(t)
           \/ \E w \in Workers : Crash(w)
           \/ FiguresMove \/ UNCHANGED vars
  BY <1>7 DEF Ask, GenerateAll, Crash, FiguresMove, vars
<1>8. QED
  BY <1>1, <1>2, <1>3, <1>4, <1>5, <1>6, <1>7 DEF Next

LEMMA InitRefines == Init => Store!Init
BY DEF Init, Store!Init, Store!Slots, Slots, Store!NoText, NoText

\* The tables implement TextStore: no text is lost before its time, frozen
\* without the model, or filed under another day or other figures.
THEOREM Refinement == Spec => StoreSpec
BY InitInv, NextInv, InitRefines, NextRefines, PTL DEF Spec, StoreSpec, Store!Spec
=============================================================================
