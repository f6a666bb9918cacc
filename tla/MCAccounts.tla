----------------------------- MODULE MCAccounts -----------------------------
(* The instance of Accounts that TLC checks: two accounts, two views.      *)
EXTENDS Accounts, TLC

MCDefaultAccess == {<<"clients", "dg">>}
MCTwoWorkers == [t \in Tasks |-> IF t = "t3" THEN "w2" ELSE "w1"]

MCAdmin == [role |-> "admin", active |-> TRUE]
MCInitial ==
  {[u \in Users |-> IF u = "u1" THEN MCAdmin ELSE other] :
     other \in {MCAdmin, [role |-> "dg", active |-> TRUE], Absent}}

\* What u1 asks, and what u2 does: a page, and the deletion of u1.
MCNone == [op |-> "see", actor |-> "u2", target |-> "u2", role |-> "keep",
           active |-> "keep", cell |-> <<"clients", "dg">>, allowed |-> TRUE]
MCByAdmin(o) == [MCNone EXCEPT !.op = o, !.actor = "u1"]
MCAsks ==
  {MCNone, [MCByAdmin("update") EXCEPT !.target = "u1", !.active = "off"],
   [MCNone EXCEPT !.op = "delete", !.target = "u1"]}
  \cup {MCByAdmin(o) : o \in {"delete", "reset"}}
  \cup {[MCByAdmin("create") EXCEPT !.role = "dg"]}
  \cup {[MCByAdmin("update") EXCEPT !.role = p] : p \in Roles}
  \cup {[MCByAdmin("setCell") EXCEPT !.allowed = FALSE],
        [MCByAdmin("setCell") EXCEPT !.cell = <<"forecast", "dg">>]}
=============================================================================
