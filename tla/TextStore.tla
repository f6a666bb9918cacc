----------------------------- MODULE TextStore ------------------------------
(***************************************************************************)
(* What the tables daily_analyses and arbitrage_narrations promise, with   *)
(* no worker, lock or model call in sight (uc_daily_analysis/store.py:1-10 *)
(* and 108-114, uc_arbitrage/narration_store.py:12-16 and 102-108):        *)
(*   - a slot holds one text, and only a text the model wrote;             *)
(*   - the text of a cockpit section is written on the day of its slot;    *)
(*   - the text of a dossier says the figures that are its slot;           *)
(*   - a text is replaced by another or, past its retention, dropped: a    *)
(*     failure of the model never costs one.                               *)
(***************************************************************************)
EXTENDS Naturals

CONSTANTS
  Sections,  \* cockpit sections, frozen by day
  Dossiers,  \* arbitration dossiers, frozen by their figures
  Days,      \* days since the start
  Figures,   \* successive states of the figures
  Retention  \* RETENTION_JOURS

Slots  == (Sections \X Days) \cup (Dossiers \X Figures)
Texts  == [figures : Figures, source : {"llm", "repli"}, saved : Days]
NoText == [figures |-> 0, source |-> "none", saved |-> 0]

VARIABLES
  texts,     \* the text of each slot, or NoText
  today

Past(day) == day + Retention < today

Write(s, text) ==
  /\ text.source = "llm" /\ text.saved = today
  /\ IF s[1] \in Sections THEN s[2] = today ELSE text.figures = s[2]
  /\ texts' = [texts EXCEPT ![s] = text]
  /\ UNCHANGED today

\* A section's text goes with its day, a dossier's with the day it was saved.
Drop(S) ==
  /\ \A s \in S : texts[s] # NoText
                  /\ Past(IF s[1] \in Sections THEN s[2] ELSE texts[s].saved)
  /\ texts' = [s \in Slots |-> IF s \in S THEN NoText ELSE texts[s]]
  /\ UNCHANGED today

Tomorrow == today' = today + 1 /\ UNCHANGED texts

Init == texts = [s \in Slots |-> NoText] /\ today = 0

Next ==
  \/ \E s \in Slots, text \in Texts : Write(s, text)
  \/ \E S \in SUBSET Slots : Drop(S)
  \/ Tomorrow

Spec == Init /\ [][Next]_<<texts, today>>
=============================================================================
