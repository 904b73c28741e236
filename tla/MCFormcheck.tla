----------------------------- MODULE MCFormcheck -----------------------------
(* Formcheck for TLC: an operator without anchor, a silent one and two      *)
(* anchors of the loud one, in the order of FAMILY; a task with one test to *)
(* make pass and two to keep passing, of which a grading names one.         *)
EXTENDS Formcheck, TLC

Slots4 == <<"kwonly", "rename1", "rename2", "reverse">>
=============================================================================
