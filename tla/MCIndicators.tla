---------------------------- MODULE MCIndicators ----------------------------
(* The instance of Indicators that TLC checks: a sync in each of two        *)
(* workers, the night of one and an administrator's request to the other.   *)
EXTENDS Indicators, TLC

MCWorkerOf == "s1" :> "w1" @@ "night" :> "w1" @@ "s2" :> "w2" @@ "admin" :> "w2"
=============================================================================
