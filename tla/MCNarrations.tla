---------------------------- MODULE MCNarrations ----------------------------
(* The instance of Narrations that TLC checks.                             *)
EXTENDS Narrations, TLC

MCWorkerOf == [t \in Tasks |-> IF t = "t3" THEN "w2" ELSE "w1"]
=============================================================================
