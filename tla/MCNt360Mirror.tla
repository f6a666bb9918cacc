--------------------------- MODULE MCNt360Mirror ---------------------------
(* Small instances of Nt360Mirror.                                         *)
EXTENDS Nt360Mirror, TLC

CONSTANTS w1, w2, lead, saisie1, saisie2, fp1, fp2

\* lead is an odoo_crm.lead:* which nt360 lists before the saisie_genord_* of
\* the orders; it carries the number of order fp1.
TwoOrders   == (lead :> fp1) @@ (saisie1 :> fp1) @@ (saisie2 :> fp2)
TwoSaisies  == (fp1 :> saisie1) @@ (fp2 :> saisie2)
ThreeRanks  == (lead :> 1) @@ (saisie1 :> 2) @@ (saisie2 :> 3)
OneOrder    == (lead :> NoFp) @@ (saisie1 :> fp1)
OneSaisie   == fp1 :> saisie1
TwoRanks    == (lead :> 1) @@ (saisie1 :> 2)

\* The same, lead carrying no order number.
LeadWithoutOrder == [TwoOrders EXCEPT ![lead] = NoFp]

WorkerSymmetry == Permutations(Workers)
=============================================================================
