----------------------------- MODULE MCRepairGate -----------------------------
(* RepairGate for TLC: two mutants, two graded tests; a rename that lists    *)
(* one file of two, in libraries where it suffices and where it does not.    *)
EXTENDS RepairGate

Mutants2 == <<"off_by_one", "no_check">>
Paths    == <<"core">>
Lib(a, b) == [f \in {"core", "util"} |-> IF f = "core" THEN a ELSE b]
Libs     == {Lib({"symbol", "longer"}, {"longer"}), Lib({"symbol"}, {"symbol"}),
             Lib({"symbol", "new"}, {}), Lib({"symbol"}, {"new"}), Lib({"longer"}, {})}
Counts   == [Range(Mutants2) -> {1}] \cup {[m \in Range(Mutants2) |-> IF m = "no_check" THEN n ELSE 1] : n \in {0, 2}}

End(a, b, n) == [status |-> [t \in {"t1", "t2"} |-> IF t = "t1" THEN a ELSE b], names |-> n]
MutantEnds == {End("failed", "passed", FALSE), End("passed", "failed", FALSE),
               End("absent", "absent", FALSE), End("failed", "failed", TRUE),
               End("passed", "passed", FALSE)}
EndTable == [s \in {"gold", "gold_renamed"} \cup Range(Mutants2) |->
               IF s = "gold" THEN {End("passed", "passed", FALSE), End("failed", "passed", FALSE)}
               ELSE IF s = "gold_renamed"
                 THEN {End("passed", "passed", FALSE), End("absent", "absent", TRUE)}
               ELSE MutantEnds]
=============================================================================
