------------------------------- MODULE Views --------------------------------
(***************************************************************************)
(* The views of db/views.py over the two mirrors of the sale orders: nt360 *)
(* says which orders exist and what each is worth (cas), Odoo details them *)
(* by lines.  Operators only; OdooViews evaluates them in its states.      *)
(*                                                                         *)
(*   cas     nt360_commandes: the amount of each FP, a function of the FPs *)
(*   orders  sale_orders: of each order, its name (FP), its amount and     *)
(*           whether it is sold (state sale or done)                       *)
(*   lines   sale_order_lines: of each order, a sequence; a line has its   *)
(*           subtotal and whether it is a product (display_type IS NULL)   *)
(*                                                                         *)
(* Amounts are integers in half francs: 0.5 is 1.  An amount of a line is  *)
(* the fraction num / den.                                                 *)
(***************************************************************************)
EXTENDS Integers, FiniteSetsExt

Distance(a, b) == IF a < b THEN b - a ELSE a - b

\* Lines of an order that count, WHERE display_type IS NULL.
Products(lines, o) ==
  IF o \in DOMAIN lines THEN {i \in DOMAIN lines[o] : lines[o][i].product} ELSE {}

\* lignes.total, 0 for the NULL of an order without lines
Total(lines, o) == MapThenSumSet(LAMBDA i : lines[o][i].subtotal, Products(lines, o))

Recalable_NoTotal(amount, total) == amount >= 0

\* COEF_MAX = 2
Recalable(amount, total) == total > 0 /\ amount >= 0 /\ amount <= 2 * total

NoOrder == "none"

\* sale_orders joined by name: the orders of a FP, or none.
Joined(fp, orders) ==
  LET found == {o \in DOMAIN orders : orders[o].name = fp} IN
  IF found = {} THEN {NoOrder} ELSE found

VCommandes(cas, orders, lines) ==
  {LET total == Total(lines, j[2]) IN
   [fp |-> j[1], order |-> j[2], montant |-> cas[j[1]],
    num |-> IF Recalable(cas[j[1]], total) THEN cas[j[1]] ELSE 1,
    den |-> IF Recalable(cas[j[1]], total) THEN total ELSE 1,
    ajustement |-> IF Recalable(cas[j[1]], total) THEN 0 ELSE cas[j[1]] - total] :
   j \in UNION {{fp} \X Joined(fp, orders) : fp \in DOMAIN cas}}

\* NOT EXISTS (SELECT 1 FROM nt360_commandes)
Fallback(cas) == DOMAIN cas = {}

VSaleOrders(cas, orders, lines) ==
  {[order |-> c.order, name |-> c.fp, amount |-> c.montant] : c \in VCommandes(cas, orders, lines)}
  \cup
  {[order |-> o, name |-> orders[o].name, amount |-> orders[o].amount] :
     o \in {o \in DOMAIN orders : Fallback(cas)}}

\* One row per line, and one for what they do not explain.
VLignesCommande(cas, orders, lines) ==
  LET commandes == VCommandes(cas, orders, lines)
      detailed(c) == {[fp |-> c.fp, line |-> <<c.order, i>>,
                       num |-> lines[c.order][i].subtotal * c.num, den |-> c.den] :
                      i \in Products(lines, c.order)}
      rest(c) == IF Distance(c.ajustement, 0) > 1
                 THEN {[fp |-> c.fp, line |-> <<c.order, 0>>, num |-> c.ajustement, den |-> 1]}
                 ELSE {}
      raw(o) == {[fp |-> orders[o].name, line |-> <<o, i>>,
                  num |-> lines[o][i].subtotal, den |-> 1] : i \in Products(lines, o)}
  IN (UNION {detailed(c) \cup rest(c) : c \in commandes})
     \cup (UNION {raw(o) : o \in {o \in DOMAIN orders : orders[o].sold /\ Fallback(cas)}})

-----------------------------------------------------------------------------

\* The rows add up to amount, within half a franc.
SumTo(rows, amount) ==
  \E d \in {1} \cup {r.den : r \in rows} :
    /\ \A r \in rows : r.den = d
    /\ Distance(MapThenSumSet(LAMBDA r : r.num, rows), amount * d) <= d
=============================================================================
