------------------------------- MODULE MCOdoo -------------------------------
(* The instance of OdooViews that TLC checks.                              *)
EXTENDS OdooViews, TLC

MCKindOf == [r \in Records |-> CASE r \in {"so", "in"} -> "order" [] r = "po" -> "purchase"
                                 [] r = "opp" -> "opportunity"]

\* A second order cuts the list.
MCLimit == [k \in Capped |-> 1]

MCLast == [r \in Records |-> IF r = "so" THEN 2 ELSE 1]

MCNameOf == [r \in Records |-> IF r = "in" THEN "FP3" ELSE "FP1"]

\* Half francs, for the versions 1 and 2 of the order.
MCAmountOf == <<11, 9>>

Line(subtotal, product) == [subtotal |-> subtotal, product |-> product]
MCLinesOf == << <<Line(4, TRUE), Line(6, TRUE), Line(0, FALSE)>>, <<Line(9, TRUE)>> >>

\* Never synced; without the order; worth a little more than its lines (rescaled);
\* more than twice (adjusted); less than nothing; half a franc.
MCTables == {<<>>, "FP2" :> 3} \cup
            {("FP1" :> cas) @@ ("FP2" :> 1) : cas \in {11, 30, -3, 1}}
=============================================================================
