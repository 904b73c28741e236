------------------------------ MODULE Attribution ------------------------------
(***************************************************************************)
(* Why did a test fail on the renamed tree?  The log of the suite is cut    *)
(* into failure blocks, in the dialects of four runners (repro/             *)
(* f4_formcheck.py failure_sections); each failing test is given a block    *)
(* (section_for), and the block says whether the test fails because the     *)
(* symbol's name changed, because behaviour did, or cannot be read          *)
(* (container_task.py classify_failures).                                   *)
(*                                                                         *)
(* A line is what the scanners tell apart: an underscore rule with a        *)
(* header, a line of = signs, a label ERROR: or FAIL:, or text, which may    *)
(* name the symbol.  A block is what its text says: names it, does not.     *)
(***************************************************************************)
EXTENDS Naturals, Sequences, FiniteSets, SequencesExt

CONSTANTS
  Dialect,     \* of each runner, its tests: [mod, cls, base, par, p2p]
  Layout,      \* of each module: leaf, the name a runner gives it that cannot import it;
               \* parts, the components of its dotted path; holders, the modules whose
               \* path has its path in it
  LIMIT,       \* PASS_TO_PASS failures a grading names
  NoBlock

(* A run of the suite: the runner, what became of each test, whether the     *)
(* import of a module says the name, the failing tests the grading names and *)
(* the order in which the runner prints.  A failing test says the name in    *)
(* its block or does not ("name", "other"), in pytest perhaps in the block   *)
(* of a fixture ("nameAtSetup", "otherAtSetup", printed first); its module   *)
(* does not import, which takes all tests of it along ("import"); or nothing *)
(* is printed of it ("silent"): it never ran, a block of its class says why, *)
(* or the runner prints no blocks.                                           *)
AtSetup == {"nameAtSetup", "otherAtSetup"}
Printed == {"name", "other"} \cup AtSetup
Saying  == {"name", "nameAtSetup"}
Fate    == {"pass", "import", "silent"} \cup Printed
Suffering(s, fates) == {t \in DOMAIN s.fate : s.fate[t] \in fates}
ModulesIn(s) == {t.mod : t \in Suffering(s, {"import"})}
P2P(S) == {t \in S : t.p2p}
IsRun(s) ==
  /\ s # NoBlock
  /\ s.runner \in {"pytest", "unittest", "sympy"} \cap DOMAIN Dialect
  /\ s.fate \in [Dialect[s.runner] -> Fate]
  /\ s.runner # "pytest" => Suffering(s, AtSetup) = {}
  /\ \A t, u \in DOMAIN s.fate : t.mod = u.mod => (s.fate[t] = "import" <=> s.fate[u] = "import")
  /\ s.importNames \in [ModulesIn(s) -> BOOLEAN]
  /\ s.order \in SetToSeqs(Suffering(s, Printed))
  /\ \A i, j \in DOMAIN s.order :
       i < j /\ s.fate[s.order[j]] \in AtSetup => s.fate[s.order[i]] \in AtSetup
  /\ LET fails == Suffering(s, Fate \ {"pass"}) IN
       /\ s.named \subseteq fails /\ \A t \in fails \ s.named : t.p2p
       /\ Cardinality(P2P(s.named)) = IF Cardinality(P2P(fails)) <= LIMIT
                                      THEN Cardinality(P2P(fails)) ELSE LIMIT

VARIABLES
  suite,       \* the run of the suite
  log,         \* and the log it left
  read,        \* lines read, by the first pass and by the second
  open,        \* the header whose block is open, or NoBlock
  buf,         \* the text of the open block
  sections,    \* the blocks, in the order of their headers: <<[h, body]>>
  asked,       \* named tests already attributed
  why          \* [attributed tests -> "coupled", "broke" or "unparsed"]

attributionVars == <<suite, log, read, open, buf, sections, asked, why>>

-----------------------------------------------------------------------------
Text(names)     == [k |-> "text", names |-> names]
Own(t)          == Text(suite.fate[t] \in Saying)
Failing         == {t \in DOMAIN suite.fate : suite.fate[t] # "pass"}
Broken          == SetToSeq(ModulesIn(suite))

Blank == ""   \* no class, no parameter, or no module in a header

\* Headers: the test, its fixture, path:test, the module that does not import.
H(kind, t) ==
  [kind |-> kind, mod |-> IF kind \in {"test", "fixture"} THEN Blank ELSE t.mod,
   cls |-> IF kind = "path" THEN Blank ELSE t.cls, base |-> t.base,
   par |-> IF kind \in {"test", "fixture"} THEN t.par ELSE Blank]
HModule(kind, m) == [kind |-> kind, mod |-> IF kind = "FailedTest" THEN Layout[m].leaf ELSE m,
                     cls |-> Blank, base |-> Blank, par |-> Blank]

\* A header and a text are no absence of one.
ASSUME Unlike ==
  /\ \A body \in SUBSET BOOLEAN : NoBlock # body
  /\ \A r \in DOMAIN Dialect : /\ IsFiniteSet(Dialect[r])
                              /\ \A t \in Dialect[r] :
                                   /\ NoBlock \notin {H(kind, t) : kind \in {"test", "fixture", "case", "path"}}
                                   /\ NoBlock \notin {HModule(kind, t.mod) : kind \in {"collecting", "FailedTest"}}

\* unittest has no parameters; a module is in its own path.
ASSUME Told == \A r \in DOMAIN Dialect : \A t \in Dialect[r] :
  /\ t.mod \in Layout[t.mod].holders /\ Layout[t.mod].leaf \in Layout[t.mod].parts
  /\ r = "unittest" => \A u \in Dialect[r] : t.mod = u.mod /\ t.cls = u.cls /\ t.base = u.base => t = u

Block(t) ==
  CASE suite.runner = "pytest"   ->
         << [k |-> "rule", h |-> H(IF suite.fate[t] \in AtSetup THEN "fixture" ELSE "test", t)], Own(t) >>
    [] suite.runner = "unittest" -> << [k |-> "eq"], [k |-> "label", h |-> H("case", t)], Own(t) >>
    [] suite.runner = "sympy"    -> << [k |-> "rule", h |-> H("path", t)], Own(t) >>

ModuleBlock(m) ==
  CASE suite.runner = "pytest"   -> << [k |-> "rule", h |-> HModule("collecting", m)], Text(suite.importNames[m]) >>
    [] suite.runner = "unittest" -> << [k |-> "eq"], [k |-> "label", h |-> HModule("FailedTest", m)],
                                       Text(suite.importNames[m]) >>
    [] suite.runner = "sympy"    -> << Text(suite.importNames[m]) >>

\* pytest -rA ends with one line per failing test, its message included.
Summary ==
  IF suite.runner # "pytest" THEN << >>
  ELSE << Text(\E t \in Failing : IF suite.fate[t] = "import" THEN suite.importNames[t.mod]
                                             ELSE suite.fate[t] \in Saying) >>

Blocks == [i \in DOMAIN Broken |-> ModuleBlock(Broken[i])]
          \o [i \in DOMAIN suite.order |-> Block(suite.order[i])]
Log    == FlattenSeq(Append(Blocks, Summary))

-----------------------------------------------------------------------------
\* failure_sections.

Headers == {sections[i].h : i \in DOMAIN sections}

\* A dict keeps the place of the first of two equal headers, and the last body.
Put(secs, h, body) ==
  IF \E i \in DOMAIN secs : secs[i].h = h
  THEN [i \in DOMAIN secs |-> IF secs[i].h = h THEN [h |-> h, body |-> body] ELSE secs[i]]
  ELSE Append(secs, [h |-> h, body |-> body])
Close == IF open = NoBlock THEN sections ELSE Put(sections, open, buf)

NotRead == /\ suite = NoBlock /\ log = <<>> /\ read = 0 /\ open = NoBlock /\ buf = {} /\ sections = <<>>
           /\ asked = {} /\ why = [t \in {} |-> "unparsed"]

Scan(k) ==
  /\ read < Len(log) /\ log[read + 1].k \in k /\ read' = read + 1
  /\ UNCHANGED <<suite, log, asked, why>>

ScanRule_Appends ==
  /\ Scan({"rule"})
  /\ sections' = Close /\ open' = log[read + 1].h /\ UNCHANGED buf
ScanRule ==
  /\ Scan({"rule"})
  /\ sections' = Close /\ open' = log[read + 1].h /\ buf' = {}

\* Any other line belongs to the open block, if one is open.
ScanText ==
  /\ Scan({"text", "eq", "label"})
  /\ buf' = IF open # NoBlock /\ log[read + 1].k = "text" THEN buf \cup {log[read + 1].names} ELSE buf
  /\ UNCHANGED <<sections, open>>

\* The last block ends with the log.
ScanEnd ==
  /\ read = Len(log) /\ read' = read + 1
  /\ sections' = Close /\ open' = NoBlock
  /\ UNCHANGED <<suite, log, buf, asked, why>>

\* The second pass, over labels: a block runs to the next line of = signs, and an
\* underscore block of the same header is kept.
LabelBody(i) == {log[j].names : j \in {n \in (i + 1)..Len(log) :
                   log[n].k = "text" /\ \A m \in (i + 1)..n : log[m].k # "eq"}}
SetDefault(secs, i) ==
  IF log[i].k # "label" \/ \E n \in DOMAIN secs : secs[n].h = log[i].h THEN secs
  ELSE Append(secs, [h |-> log[i].h, body |-> LabelBody(i)])
LogRead == read = 2 * Len(log) + 1
ScanLabel ==
  /\ read \in (Len(log) + 1)..(2 * Len(log)) /\ read' = read + 1
  /\ sections' = SetDefault(sections, read - Len(log))
  /\ UNCHANGED <<suite, log, open, buf, asked, why>>

-----------------------------------------------------------------------------
\* section_for: the first block that matches, in this order of preference.

\* The part after the last dot of Class.test[par]; a dot in par leaves nothing of it, and
\* "ERROR at setup of test[par]" is all one part.
Dotted(par) == par = "1.5"

NamesTest(h, t) ==
  CASE h.kind = "test" -> h.base = t.base /\ (~Dotted(h.par) \/ (h.cls = Blank /\ h.par = t.par))
    [] h.kind = "fixture" -> h.base = t.base /\ h.cls # Blank /\ ~Dotted(h.par)
    [] h.kind = "case" -> h.base = t.base /\ h.mod = t.mod /\ h.cls = t.cls
    [] OTHER -> FALSE
NamesPath(h, t)   == h.kind = "path" /\ h.base = t.base

\* The path of the test is part of the header's; the header is a component of mod.Class.
NamesModule(h, t) == h.kind = "collecting" /\ h.mod \in Layout[t.mod].holders
NamesFailed(h, t) == h.kind = "FailedTest" /\ h.mod \in Layout[t.mod].parts \cup {t.cls}

FirstOf(hit) == sections[CHOOSE i \in hit : \A j \in hit : i <= j].body

SectionFor(t) ==
  LET At(pass) == {i \in DOMAIN sections :
                     CASE pass = 1 -> NamesTest(sections[i].h, t)
                       [] pass = 2 -> NamesPath(sections[i].h, t)
                       [] pass = 3 -> NamesModule(sections[i].h, t)
                       [] pass = 4 -> NamesFailed(sections[i].h, t)}
      passes == {pass \in 1..4 : At(pass) # {}}
  IN IF passes = {} THEN NoBlock
     ELSE FirstOf(At(CHOOSE pass \in passes : \A other \in passes : pass <= other))

NamesSymbol(body) == TRUE \in body

\* classify_failures, one test that the grading names after the other.
Reason_Assumes(body) == IF body = NoBlock \/ NamesSymbol(body) THEN "coupled" ELSE "broke"
Reason(body) == IF body = NoBlock THEN "unparsed" ELSE IF NamesSymbol(body) THEN "coupled" ELSE "broke"

Attribute ==
  /\ LogRead /\ asked # suite.named
  /\ LET t == CHOOSE u \in suite.named : u \notin asked IN
       /\ asked' = asked \cup {t}
       /\ why' = [u \in asked' |-> IF u = t THEN Reason(SectionFor(t)) ELSE why[u]]
  /\ UNCHANGED <<suite, log, read, open, buf, sections>>

AttributionNext == ScanRule \/ ScanText \/ ScanEnd \/ ScanLabel \/ Attribute

Partitioned == suite # NoBlock /\ LogRead /\ asked = suite.named
Called(c)   == {t \in asked : why[t] = c}

\* SuiteOracle.check: TRUE, FALSE, or no judgement.
Satisfied == IF Called("unparsed") # {} THEN "none"
             ELSE IF Called("broke") = {} THEN "yes" ELSE "no"

\* run_case of the earlier phase, from the same blocks; it counts failures that are not
\* named.
P2PFails  == P2P(Failing)
PhaseFour ==
  IF P2PFails # {} /\ Called("broke") \cup Called("unparsed") # {} THEN "INVALID"
  ELSE IF P2PFails # {} THEN "WITNESS"
  ELSE IF Failing = {} THEN "CLEAN" ELSE "WITNESS"

-----------------------------------------------------------------------------
AttributionTypeOK ==
  suite # NoBlock =>
  /\ read \in 0..(2 * Len(log) + 1)
  /\ open \in Headers \cup {log[i].h : i \in {n \in 1..Len(log) : log[n].k = "rule"}} \cup {NoBlock}
  /\ \A i, j \in DOMAIN sections : sections[i].h = sections[j].h => i = j
  /\ asked \subseteq suite.named /\ why \in [asked -> {"coupled", "broke", "unparsed"}]

\* A block that section_for finds for t before any module's: of the test itself, not behind
\* a class with a dot in the parameter, and of its fixture only behind a class without one.
HasOwn(t) ==
  \/ suite.fate[t] \in {"name", "other"} /\ (suite.runner = "pytest" /\ Dotted(t.par) => t.cls = Blank)
  \/ suite.fate[t] \in AtSetup /\ t.cls # Blank /\ ~Dotted(t.par)
Findable(t) == HasOwn(t) \/ (suite.fate[t] = "import" /\ suite.runner # "sympy")

\* Another test with a block shares the bare name of t: its block is t's, whatever its
\* parameters, its class and its file (pytest), or its file (sympy).
Shadowed(t) == suite.runner # "unittest" /\ \E u \in Range(suite.order) : u # t /\ u.base = t.base

\* t has no block of its own, and another module that does not import is taken for its:
\* the path of that one has the path of t's in it (pytest), its leaf is a part of mod.Class
\* of t (unittest).
SharesModule(t) ==
  /\ ~HasOwn(t)
  /\ \E m \in ModulesIn(suite) \ {t.mod} :
       \/ suite.runner = "pytest" /\ m \in Layout[t.mod].holders
       \/ suite.runner = "unittest" /\ Layout[m].leaf \in Layout[t.mod].parts \cup {t.cls}

\* The last underscore block has no end: the summary of the run is part of it.
LastBlock(t) == /\ suite.runner = "pytest" /\ suite.order # <<>>
           /\ suite.order[Len(suite.order)].base = t.base
LastModule(m) == suite.runner = "pytest" /\ suite.order = <<>> /\ Broken[Len(Broken)] = m

SaysName(t) == IF suite.fate[t] = "import" THEN suite.importNames[t.mod] ELSE suite.fate[t] \in Saying

(* A test is called broken only for a failure of its own, or of its own      *)
(* module's import, that does not name the symbol; where another test has    *)
(* the same bare name, or another module that does not import a path that    *)
(* has its own in it, the block may be the other's (f4_formcheck.py          *)
(* section_for).                                                             *)
BrokeIsOwn == \A t \in Called("broke") : ~SaysName(t) \/ Shadowed(t) \/ SharesModule(t)

(* A test is called coupled only for a failure of its own, or of its own     *)
(* module's import, that names the symbol; the same two cases are exempt,    *)
(* and pytest's last block, which ends in the run's summary.                 *)
Excused(t) == Shadowed(t) \/ SharesModule(t) \/ LastBlock(t) \/ LastModule(t.mod)
CoupledIsOwn == \A t \in Called("coupled") : SaysName(t) \/ Excused(t)

(* A test is left unread exactly when the log has no block of its own or of  *)
(* its module's that section_for can find, and none that it takes for one:   *)
(* nothing is printed of it, a file does not import in sympy, a dotted       *)
(* parameter behind a class or a fixture without a class in pytest.  Such a  *)
(* run is never a verdict (container_task.py:495-509, test_partition.py:     *)
(* "Fail toward INVALID, never toward WITNESS").                             *)
UnreadIsUnjudged ==
  Partitioned =>
    /\ \A t \in Called("unparsed") : ~Findable(t)
    /\ \A t \in suite.named : ~Findable(t) /\ ~Shadowed(t) /\ ~SharesModule(t) => t \in Called("unparsed")
    /\ Satisfied = "none" <=> \E t \in suite.named : SectionFor(t) = NoBlock

(* Each test that the grading names is judged by a block of its own, or by   *)
(* one of the blocks that section_for takes for it, and by nothing else.     *)
AttributedAsOwn == AttributionTypeOK /\ BrokeIsOwn /\ CoupledIsOwn /\ UnreadIsUnjudged
=============================================================================
