------------------------------ MODULE MCCampaign ------------------------------
(* Campaign for TLC: three eligible tasks of two repositories, one of them   *)
(* with several targets, and a task without any; a silent operator that may   *)
(* find no anchor and the loud one, whose witness falls on either side.     *)
EXTENDS Campaign

RepoTable == [t \in 1..3 |-> IF t <= 1 THEN "django" ELSE "sympy"]
Ops2   == <<"kwonly", "rename">>
Says2  == [kwonly |-> {[verdict |-> "UNVALIDATED", p2p |-> "none"]},
           rename |-> {[verdict |-> "NOT_APPLICABLE", p2p |-> "none"],
                       [verdict |-> "WITNESS", p2p |-> "coupled"]}]
=============================================================================
