----------------------------- MODULE OdooViews ------------------------------
(***************************************************************************)
(* The views of Views over what OdooMirror leaves in the tables, whatever  *)
(* nt360 has synced: an order without its lines, lines without their       *)
(* order, an order cancelled since.                                        *)
(***************************************************************************)
EXTENDS OdooMirror, Views

CONSTANTS
  NameOf,   \* the FP of each order
  AmountOf, \* its amount, by version
  LinesOf,  \* its lines, by version
  Tables    \* what nt360_commandes can hold

\* An order's name is its own (views.py:8, "unique côté Odoo").
ASSUME ViewsAssumption ==
  /\ IsFiniteSet(Records) /\ NoOrder \notin Records
  /\ \A o, p \in Records :
       KindOf[o] = "order" /\ KindOf[p] = "order" /\ NameOf[o] = NameOf[p] => o = p
  /\ LinesOf \in [1..MaxVersion -> Seq([subtotal : Int, product : BOOLEAN])]
  /\ \A cas \in Tables :
       IsFiniteSet(DOMAIN cas) /\ \A fp \in DOMAIN cas : cas[fp] \in Int

Rows(table) == {r \in Records : KindOf[r] = "order" /\ table[r] # None}

\* sale_orders
orders == [o \in Rows(rows) |->
             [name |-> NameOf[o], amount |-> AmountOf[rows[o]], sold |-> rows[o] \in Listed]]

\* sale_order_lines
orderLines == [o \in Rows(lines) |-> LinesOf[lines[o]]]

-----------------------------------------------------------------------------

\* Whatever the mirror was left with, once nt360 has synced, the views hold one
\* order per FP of nt360 and no other, worth cas, and the lines of each add up
\* to cas (views.py:12-15); before, the orders of Odoo as they are (121-126).
ViewsAddUp ==
  \A cas \in Tables :
    LET sale   == VSaleOrders(cas, orders, orderLines)
        detail == VLignesCommande(cas, orders, orderLines)
    IN IF Fallback(cas)
       THEN /\ {c.order : c \in sale} = DOMAIN orders
            /\ Cardinality(sale) = Cardinality(DOMAIN orders)
            /\ \A l \in detail : \E o \in DOMAIN orders : orders[o].sold /\ orders[o].name = l.fp
       ELSE /\ {<<c.name, c.amount>> : c \in sale} = {<<fp, cas[fp]>> : fp \in DOMAIN cas}
            /\ Cardinality(sale) = Cardinality(DOMAIN cas)
            /\ {l.fp : l \in detail} \subseteq DOMAIN cas
            /\ \A fp \in DOMAIN cas : SumTo({l \in detail : l.fp = fp}, cas[fp])
=============================================================================
