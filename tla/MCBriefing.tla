----------------------------- MODULE MCBriefing -----------------------------
(* The instance of Briefing that TLC checks: the dg, who has sections of    *)
(* entities, and the daf, who has none; the nights and a user of one worker *)
(* and a user of another.                                                   *)
EXTENDS Briefing, TLC

MCRoleOf   == "dg" :> "dg" @@ "dg@CI" :> "dg" @@ "daf" :> "daf"
MCWorkerOf == "night" :> "w2" @@ "u1" :> "w1" @@ "u2" :> "w1"
=============================================================================
