---------------------------- MODULE MCRenameVerdict ----------------------------
(* RenameVerdict for TLC: a class with a method and a function, a method that *)
(* shares the function's name; every patch of up to two changed lines of one *)
(* file, two-file patches with a deleted file and with files that are no     *)
(* production source; the trees of one instance in full, and on one tree     *)
(* every run of a suite of three to five tests under each runner, of which   *)
(* the grading names at most two of PASS_TO_PASS.                            *)
EXTENDS RenameVerdict

Names  == [d \in {"C", "C.m", "C.f", "f", "g"} |->
             IF d = "C" THEN "C" ELSE IF d = "C.m" THEN "m" ELSE IF d = "g" THEN "g" ELSE "f"]
SortOf == [d \in DOMAIN Names |->
             IF d = "C" THEN "class" ELSE IF d = "f" THEN "def" ELSE IF d = "g" THEN "async" ELSE "nested"]

Path(i, d, l) == [id |-> i, dir |-> d, leaf |-> l]
Core  == Path(2, "_pkg", "mod")
Api   == Path(3, "pkg", "mod")
Init_ == Path(4, "pkg", "mod")
Conf  == Path(5, "pkg", "conftest")
Test  == Path(6, "tests", "test_")
Note  == Path(1, "pkg", "text")

LayoutA == << {"C"}, {"C", "C.m"}, {"C", "C.m"}, {"f"}, {"f"} >>
LayoutB == << {"g"}, {"C"}, {"C", "C.f"}, {}, {"f"} >>

Lines(layout, ops) == [i \in 1..5 |-> [op |-> ops[i], own |-> layout[i]]]
Hideable(ops) == {i \in 1..5 : \A j \in {i - 1, i, i + 1} \cap 1..5 : ops[j] = "keep"}
Patched(p, layout, ops, hide) ==
  [path |-> p, lines |-> Lines(layout, ops), hidden |-> IF hide THEN Hideable(ops) ELSE {}]

Ops(n)   == {o \in [1..5 -> {"keep", "add", "del"}] : Cardinality({i \in 1..5 : o[i] # "keep"}) \in 1..n}
One(i, op) == [j \in 1..5 |-> IF j = i THEN op ELSE "keep"]
Gone5    == [j \in 1..5 |-> "del"]

Row(gold, tests, overlay, issue) == [gold |-> gold, tests |-> tests, overlay |-> overlay, issue |-> issue]
Main  == <<Patched(Core, LayoutB, One(5, "add"), TRUE)>>
Single == {Row(<<Patched(Core, lay, o, h)>>, {Test}, None, {}) :
             lay \in {LayoutA, LayoutB}, o \in Ops(2), h \in BOOLEAN}
SecondFiles == {Patched(q, LayoutA, o, TRUE) : q \in {Api, Conf, Test, Note}, o \in {One(1, "del"), One(4, "add"), Gone5}}
FirstFiles == {Patched(Core, LayoutB, o, TRUE) : o \in {One(3, "add"), One(3, "del"), Gone5}}
Double == {Row(<<a, b>>, {Test}, None, {}) : a \in FirstFiles, b \in SecondFiles}
          \cup {Row(<<b, a>>, {Test}, None, {}) : a \in FirstFiles, b \in SecondFiles}
Overlaid == {Row(Main, t, ov, {}) : t \in {{Test}, {Test, Core}}, ov \in {{}, {Test}, {Core}, {Test, Core}, {Conf}}}
Contract == {Row(Main, {Test}, None, {"f"})}
MainRow  == Row(Main, {Test}, None, {})
Rows_    == Single \cup Double \cup Overlaid \cup Contract \cup {MainRow}
            \cup {Row(<<b>>, {Test}, None, {}) : b \in SecondFiles}

Util      == Path(7, "_pkg", "mod")
Unpatched == {Init_, Util}
UpTo(n) == {S \in SUBSET Occurrence : Cardinality(S) <= n}
FewTrees(paths) == {[p \in paths |-> {"def", "name"}]}
AllTrees ==
  {Core :> ({"def"} \cup c) @@ Init_ :> i @@ Util :> u :
     c \in {{}, {"name", "longer"}, {"all"}, {"param"}, {"attr"}}, i \in UpTo(2), u \in UpTo(1)}
TreesOf(i, paths) == IF i = MainRow /\ paths = {Core, Init_, Util} THEN AllTrees ELSE FewTrees(paths)

\* A module path that has another's in it, two modules of one leaf, a class of a module's leaf.
T(mod, cls, base, par, p2p) == [mod |-> mod, cls |-> cls, base |-> base, par |-> par, p2p |-> p2p]
Tests == [r \in {"pytest", "unittest", "sympy"} |->
  IF r = "pytest" THEN {T("a", "", "x", "1", TRUE), T("a", "", "x", "2", TRUE),
                        T("b", "K", "x", "1", TRUE),
                        T("a", "", "y", "1.5", FALSE), T("b", "K", "z", "1.5", TRUE)}
  ELSE IF r = "unittest" THEN {T("a", "K", "x", "", TRUE), T("a", "c", "x", "", TRUE),
                               T("b", "K", "y", "", FALSE), T("c", "K", "x", "", TRUE)}
  ELSE {T("a", "", "x", "", TRUE), T("a", "", "y", "", FALSE), T("b", "", "x", "", TRUE)}]
Modules_ == [m \in {"a", "b", "c"} |->
  IF m = "c" THEN [leaf |-> "c", parts |-> {"c"}, holders |-> {"c"}]
  ELSE [leaf |-> "m", parts |-> {"m", m}, holders |-> {m, "b"}]]

\* At most three tests fail on their own, one of them in a fixture or with nothing printed;
\* pytest runs nothing when a module does not import.
Of(f, fates) == Cardinality({t \in DOMAIN f : f[t] \in fates})
Fates(r) == {f \in [Tests[r] -> IF r = "pytest" THEN Fate ELSE Fate \ AtSetup] :
  /\ IF r = "pytest" /\ Of(f, {"import"}) > 0 THEN Of(f, {"import", "silent"}) = Cardinality(DOMAIN f)
     ELSE Of(f, Printed \cup {"silent"}) <= 3 /\ Of(f, {"silent"} \cup AtSetup) <= 1
  /\ \A t, u \in Tests[r] : t.mod = u.mod => (f[t] = "import" <=> f[u] = "import")}

\* The first two PASS_TO_PASS failures, in one order of the row's list, and all of FAIL_TO_PASS.
FirstTwo(P) == LET s == SetToSeq(P) IN {s[i] : i \in DOMAIN s \cap 1..2}
NamedOf(f)  == LET fails == {t \in DOMAIN f : f[t] # "pass"} IN (fails \ P2P(fails)) \cup FirstTwo(P2P(fails))

SuitesIn(r) == {s \in UNION {
    {[runner |-> r, fate |-> f, importNames |-> n, order |-> o, named |-> NamedOf(f)] :
        n \in [{t.mod : t \in {u \in Tests[r] : f[u] = "import"}} -> BOOLEAN],
        o \in SetToSeqs({t \in Tests[r] : f[t] \in Printed})} : f \in Fates(r)} : IsRun(s)}
AllSuites == UNION {SuitesIn(r) : r \in DOMAIN Tests}
FewSuites == {s \in SuitesIn("unittest") : Range(s.fate) \subseteq {"pass", "name"} /\ Len(s.order) <= 1}
PlainTree == Core :> {"def", "name", "longer"} @@ Init_ :> {"name"} @@ Util :> {}
Suites(i, t) == IF i = MainRow /\ DOMAIN t = DOMAIN PlainTree /\ \A p \in DOMAIN t : DOMAIN t[p] = PlainTree[p]
                THEN AllSuites ELSE FewSuites
=============================================================================
