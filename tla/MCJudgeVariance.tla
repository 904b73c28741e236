--------------------------- MODULE MCJudgeVariance ---------------------------
(* JudgeVariance for TLC: three of five tasks, two calls each.              *)
EXTENDS JudgeVariance

Prefix  == [i \in {"a1", "a2", "b1", "c1", "c2"} |->
              IF i \in {"a1", "a2"} THEN "a" ELSE IF i = "b1" THEN "b" ELSE "c"]
Pops    == {<<"a1", "a2", "b1", "c1">>, <<"a1", "a2", "b1">>, <<"a1", "c1", "c2">>}
Frozen3 == <<"a1", "b1", "c1">>

Says(p, rej, cap, obj, s) ==
  [payload |-> p, refused |-> rej, cap |-> cap, object |-> obj, score |-> s]
Cold == {Says("asked", FALSE, FALSE, TRUE, 5), Says("asked", FALSE, TRUE, FALSE, 0)}
Warm == {Says("asked", FALSE, FALSE, TRUE, s) : s \in {0, 2, 5, 11}}
          \cup {Says("default", TRUE, FALSE, TRUE, 2), Says(None, FALSE, FALSE, FALSE, 0)}
Answers2 == [a \in {"0.0", "1.0"} |-> IF a = "0.0" THEN Cold ELSE Warm]
=============================================================================
