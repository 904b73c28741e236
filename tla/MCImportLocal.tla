---------------------------- MODULE MCImportLocal ----------------------------
(* ImportLocal for TLC: two pairs of one task, one of another; a symbol     *)
(* that stands twice in the witnesses, one that cannot be moved.            *)
EXTENDS ImportLocal

Walk    == <<"p", "q", "p", "r">>
TaskTable == [x \in {"p", "q", "r"} |-> IF x = "r" THEN "t2" ELSE "t1"]
File(i, u) == [imported |-> i, uses |-> u]
Files   == [x \in {"p", "q", "r"} |->
              CASE x = "p" -> {File(TRUE, {"body"}), File(TRUE, {"body", "default"})}
                [] x = "q" -> {File(TRUE, {"body", "module"})}
                [] x = "r" -> {File(TRUE, {"body"})}]
=============================================================================
