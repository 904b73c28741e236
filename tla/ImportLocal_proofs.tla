-------------------------- MODULE ImportLocal_proofs --------------------------
(***************************************************************************)
(* The measurement for any witnesses, tests, outcomes and order of faults: *)
(* its rows are measured against their own control, one per pair, and a    *)
(* run that ends well leaves nothing in docker.                            *)
(***************************************************************************)
EXTENDS ImportLocal, TLAPS

InTry   == {"prepare", "control", "measure"}
InTask  == InTry \cup {"run", "finally", "rmi"}
InPair  == InTask \cup {"record"}
Running == InPair \cup {"pick", "dump"}

PairsOf(rs) == {rs[i].pair : i \in DOMAIN rs}

-----------------------------------------------------------------------------
\* The inductive invariant, in five parts.

GoodControl(c) ==
  /\ c # None /\ Reported(c.grading) = {}
  /\ c.tree = [patched |-> TRUE, local |-> FALSE, renamed |-> TRUE]

GoodRow(r) ==
  /\ r \in RowType
  /\ r.measured # None =>
       GoodControl(r.control) /\ r.measured.tree = [r.control.tree EXCEPT !.local = TRUE]
  /\ r.outcome = "helper_coupled" => \A t \in Graded : r.measured.grading[t] = "names"

GoodRows(rs) ==
  /\ rs \in Seq(RowType)
  /\ \A i \in DOMAIN rs : GoodRow(rs[i])
  /\ \A i, j \in DOMAIN rs : rs[i].pair = rs[j].pair => i = j

\* What is in memory and what is on disk are rows of different pairs.
Rows ==
  /\ at \in 1..(Len(Witnesses) + 1) /\ done \subseteq Pair /\ faults \in 0..FAULTS
  /\ GoodRows(rows)
  /\ out \notin {None, Torn} => GoodRows(out)

\* The row under way has what its place in run_task says, and is of a new pair.
UnderWay ==
  /\ row # None => row \in RowType
  /\ pc \in InPair \cup {"dump"} => GoodRow(row)
  /\ pc \in {"run", "prepare", "control"} => row = Blank(row.pair)
  /\ pc = "measure" => /\ row.measured = None /\ row.outcome = "error"
                       /\ GoodControl(row.control)
  /\ pc \in InPair => row.pair \in Range(Witnesses) \ PairsOf(rows)

\* No pair of a row is taken again, in this run or in the next.
Stored == IF out = None THEN {} ELSE PairsOf(out)
Taken ==
  /\ pc \in Running => PairsOf(rows) \subseteq done
  /\ pc \in InPair => row.pair \in done
  /\ pc \in Running \ {"dump"} /\ out # Torn => Stored \subseteq PairsOf(rows)
  /\ pc = "dump" => out = Torn

\* An image on the host is of a task that docker did not start, that is under way, or
\* that this or the next run will come to.
TasksOf(S) == {TaskOf[p] : p \in S}
Ahead == {Witnesses[n] : n \in at..Len(Witnesses)} \ done
Docker ==
  /\ container # None => container \in [task : images, tree : Trees]
  /\ pc \in InTry => container \in [task : {Task}, tree : Trees] /\ Task \in images
  /\ pc = "rmi" => container = None
  /\ pc \in InTask => images \subseteq unstarted \cup TasksOf(Ahead) \cup {Task}
  /\ pc \in (Running \ InTask) \cup {"exit0"} => images \subseteq unstarted \cup TasksOf(Ahead)
  /\ pc \in {"idle", "killed", "exit1"} /\ out # Torn =>
       images \subseteq unstarted \cup TasksOf(Range(Witnesses) \ Stored)

\* A defect stops the walk at its row.
Walk ==
  /\ begun \in Nat
  /\ pc \in (Running \ {"dump"}) \cup {"exit0"} =>
       \A i \in (begun + 1)..Len(rows) : rows[i].outcome \notin Bad
  /\ pc = "dump" => /\ Len(rows) > 0 /\ rows[Len(rows)] = row
                    /\ \A i \in (begun + 1)..(Len(rows) - 1) : rows[i].outcome \notin Bad
  /\ pc = "exit0" => at > Len(Witnesses)

IInv == Rows /\ UnderWay /\ Taken /\ Docker /\ Walk

-----------------------------------------------------------------------------
LEMMA Witnessed ==
  /\ Len(Witnesses) \in Nat /\ Range(Witnesses) \subseteq Pair
  /\ \A n \in 1..Len(Witnesses) : Witnesses[n] \in Range(Witnesses)
  /\ Range(Witnesses) = {Witnesses[n] : n \in 1..Len(Witnesses)}
  BY Input DEF Range

\* A blank row is a good one.
LEMMA BlankGood == \A p \in Pair : GoodRow(Blank(p)) /\ Blank(p).pair = p
  BY DEF GoodRow, Blank, RowType, Outcomes, Bad

\* A row of a new pair may be appended.
LEMMA AppendGood ==
  ASSUME NEW rs, NEW r, GoodRows(rs), GoodRow(r), r.pair \notin PairsOf(rs)
  PROVE  /\ GoodRows(Append(rs, r)) /\ PairsOf(Append(rs, r)) = PairsOf(rs) \cup {r.pair}
         /\ Len(Append(rs, r)) = Len(rs) + 1 /\ Append(rs, r)[Len(rs) + 1] = r
         /\ \A i \in 1..Len(rs) : Append(rs, r)[i] = rs[i]
  <1> DEFINE s == Append(rs, r)
  <1>1. rs \in Seq(RowType) /\ r \in RowType /\ Len(rs) \in Nat /\ DOMAIN rs = 1..Len(rs)
    BY DEF GoodRows, GoodRow
  <1>2. /\ s \in Seq(RowType) /\ Len(s) = Len(rs) + 1 /\ s[Len(rs) + 1] = r
        /\ \A i \in 1..Len(rs) : s[i] = rs[i]
        /\ DOMAIN s = 1..(Len(rs) + 1)
    BY <1>1
  <1> HIDE DEF s
  <1>3. \A i \in DOMAIN s : GoodRow(s[i])
    BY <1>1, <1>2 DEF GoodRows
  <1>4. \A i, j \in DOMAIN s : s[i].pair = s[j].pair => i = j
    BY <1>1, <1>2 DEF GoodRows, PairsOf
  <1>5. PairsOf(s) = PairsOf(rs) \cup {r.pair}
    <2>1. PairsOf(s) \subseteq PairsOf(rs) \cup {r.pair}
      BY <1>1, <1>2 DEF PairsOf
    <2>2. ASSUME NEW p \in PairsOf(rs) PROVE p \in PairsOf(s)
      <3>1. PICK i \in 1..Len(rs) : p = rs[i].pair
        BY <1>1 DEF PairsOf
      <3>2. i \in DOMAIN s /\ s[i] = rs[i]
        BY <1>1, <1>2, <3>1
      <3>3. QED
        BY <3>1, <3>2 DEF PairsOf
    <2>3. r.pair \in PairsOf(s)
      <3>1. Len(rs) + 1 \in DOMAIN s
        BY <1>1, <1>2
      <3>2. QED
        BY <1>2, <3>1 DEF PairsOf
    <2>4. QED
      BY <2>1, <2>2, <2>3
  <1>6. QED
    BY <1>2, <1>3, <1>4, <1>5 DEF GoodRows, s

LEMMA RowsTyped ==
  ASSUME NEW rs, GoodRows(rs)
  PROVE  rs \in Seq(RowType) /\ Len(rs) \in Nat /\ PairsOf(rs) \subseteq Pair
  <1>1. rs \in Seq(RowType) /\ Len(rs) \in Nat /\ DOMAIN rs = 1..Len(rs)
    BY DEF GoodRows
  <1>2. \A i \in DOMAIN rs : rs[i] \in RowType
    BY <1>1
  <1>3. QED
    BY <1>1, <1>2 DEF PairsOf, RowType

LEMMA Initial == Init => IInv
  <1> SUFFICES ASSUME Init PROVE IInv
    OBVIOUS
  <1>1. GoodRows(<<>>)
    BY DEF GoodRows
  <1>2. Rows
    BY <1>1, Witnessed, Input DEF Init, Rows
  <1>3. UnderWay /\ Taken /\ Walk
    BY DEF Init, UnderWay, Taken, Walk, Running, InPair, InTask, InTry
  <1>4. Docker
    BY DEF Init, Docker, Running, InPair, InTask, InTry
  <1>5. QED
    BY <1>2, <1>3, <1>4 DEF IInv

-----------------------------------------------------------------------------
\* One lemma per action that does more than move on.

LEMMA StartStep == IInv /\ Start => IInv'
  <1> SUFFICES ASSUME IInv, Start PROVE IInv'
    OBVIOUS
  <1> USE DEF IInv
  <1>1. CASE out = Torn
    <2>1. pc' = "broken" /\ UNCHANGED <<at, done, rows, begun, out, row, docker, kept, unstarted, faults>>
      BY <1>1 DEF Start
    <2>2. Rows' /\ UnderWay' /\ Taken' /\ Walk'
      BY <2>1 DEF docker, Rows, UnderWay, Taken, Walk, Running, InPair, InTask, InTry
    <2>3. Docker'
      BY <2>1 DEF docker, Docker, Running, InPair, InTask, InTry
    <2>4. QED
      BY <2>2, <2>3
  <1>2. CASE out # Torn
    <2>1. /\ pc \in {"idle", "killed", "exit1"} /\ pc' = "pick" /\ at' = 1
          /\ rows' = (IF out = None THEN <<>> ELSE out)
          /\ done' = PairsOf(rows') /\ begun' = Len(rows')
          /\ UNCHANGED <<out, row, docker, kept, unstarted, faults>>
      BY <1>2 DEF Start, PairsOf
    <2>2. GoodRows(rows')
      <3>1. GoodRows(<<>>)
        BY DEF GoodRows
      <3>2. QED
        BY <1>2, <2>1, <3>1 DEF Rows
    <2>3. rows' \in Seq(RowType) /\ Len(rows') \in Nat /\ PairsOf(rows') \subseteq Pair
      BY <2>2, RowsTyped
    <2>4. PairsOf(rows') = Stored
      BY <2>1 DEF PairsOf, Stored
    <2>5. Rows'
      BY <2>1, <2>2, <2>3, Witnessed DEF Rows
    <2>6. UnderWay'
      BY <2>1 DEF UnderWay, InPair, InTask, InTry
    <2>7. Taken'
      BY <2>1, <2>4 DEF Taken, Stored, PairsOf, InPair, InTask, InTry
    <2>8. Docker'
      <3>1. Ahead' = Range(Witnesses) \ Stored
        BY <2>1, <2>4, Witnessed DEF Ahead
      <3>2. images \subseteq unstarted \cup TasksOf(Range(Witnesses) \ Stored)
        BY <1>2, <2>1 DEF Docker
      <3>3. images' \subseteq unstarted' \cup TasksOf(Ahead')
        BY <2>1, <3>1, <3>2 DEF docker
      <3>4. container' # None => container' \in [task : images', tree : Trees]
        BY <2>1 DEF Docker, docker
      <3>5. QED
        BY <2>1, <3>3, <3>4 DEF Docker, TasksOf, Running, InPair, InTask, InTry
    <2>9. Walk'
      BY <2>1, <2>3 DEF Walk
    <2>10. QED
      BY <2>5, <2>6, <2>7, <2>8, <2>9
  <1>3. QED
    BY <1>1, <1>2

LEMMA PickStep == IInv /\ Pick => IInv'
  <1> SUFFICES ASSUME IInv, Pick PROVE IInv'
    OBVIOUS
  <1> USE DEF IInv
  <1>1. /\ pc = "pick" /\ UNCHANGED <<rows, out, docker, kept, begun, unstarted, faults>>
        /\ at \in 1..(Len(Witnesses) + 1) /\ Len(Witnesses) \in Nat
    BY Witnessed DEF Pick, Rows
  <1>2. CASE at > Len(Witnesses)
    <2>1. pc' = "exit0" /\ UNCHANGED <<at, done, row>>
      BY <1>2 DEF Pick
    <2>2. Rows' /\ UnderWay' /\ Taken' /\ Walk'
      BY <1>1, <1>2, <2>1 DEF docker, Rows, UnderWay, Taken, Walk, Running, InPair, InTask, InTry
    <2>3. Docker'
      BY <1>1, <2>1 DEF docker, Docker, Ahead, Running, InPair, InTask, InTry
    <2>4. QED
      BY <2>2, <2>3
  <1>3. CASE ~(at > Len(Witnesses))
    <2> DEFINE p == Witnesses[at]
    <2>1. /\ at' = at + 1 /\ done' = done \cup {p}
          /\ IF p \in done THEN pc' = pc /\ row' = row ELSE pc' = "run" /\ row' = Blank(p)
      BY <1>3 DEF Pick
    <2>2. at \in 1..Len(Witnesses) /\ p \in Range(Witnesses) /\ p \in Pair
      BY <1>1, <1>3, Witnessed
    <2>3. Ahead' = Ahead \ {p}
      BY <1>1, <2>1, <2>2 DEF Ahead
    <2>4. p \notin done => p \in Ahead
      BY <1>1, <2>2 DEF Ahead
    <2> HIDE DEF p
    <2>5. Rows'
      BY <1>1, <2>1, <2>2 DEF Rows
    <2>6. CASE p \in done
      <3>1. Ahead' = Ahead
        BY <2>3, <2>6 DEF Ahead
      <3>2. UnderWay' /\ Taken' /\ Walk'
        BY <1>1, <2>1, <2>6 DEF UnderWay, Taken, Walk, Stored, Running, InPair, InTask, InTry
      <3>3. Docker'
        BY <1>1, <2>1, <2>6, <3>1 DEF docker, Docker, Running, InPair, InTask, InTry
      <3>4. QED
        BY <2>5, <3>2, <3>3
    <2>7. CASE p \notin done
      <3>1. pc' = "run" /\ row' = Blank(p) /\ GoodRow(row') /\ row'.pair = p
        BY <2>1, <2>2, <2>7, BlankGood
      <3>2. UnderWay'
        <4>1. p \notin PairsOf(rows)
          BY <1>1, <2>7 DEF Taken, Running
        <4>2. QED
          BY <1>1, <2>2, <3>1, <4>1 DEF UnderWay, GoodRow, InPair, InTask, InTry
      <3>3. Taken' /\ Walk'
        BY <1>1, <2>1, <3>1 DEF Taken, Walk, Stored, Running, InPair, InTask, InTry
      <3>4. Docker'
        <4>1. images \subseteq unstarted \cup TasksOf(Ahead)
          BY <1>1 DEF Docker, Running, InPair, InTask, InTry
        <4>2. TasksOf(Ahead) \subseteq TasksOf(Ahead') \cup {TaskOf[p]}
          BY <2>3 DEF TasksOf
        <4>3. Task' = TaskOf[p]
          BY <3>1 DEF Task
        <4>4. QED
          BY <1>1, <3>1, <4>1, <4>2, <4>3 DEF docker, Docker, Running, InPair, InTask, InTry
      <3>5. QED
        BY <2>5, <3>2, <3>3, <3>4
    <2>8. QED
      BY <2>6, <2>7
  <1>4. QED
    BY <1>2, <1>3

LEMMA RunStep == IInv /\ (Run \/ RunFails) => IInv'
  <1> SUFFICES ASSUME IInv, Run \/ RunFails PROVE IInv'
    OBVIOUS
  <1> USE DEF IInv
  <1>1. Pristine \in Trees
    BY DEF Pristine, Trees
  <1>2. CASE Run
    <2>1. Rows' /\ UnderWay' /\ Taken' /\ Walk'
      BY <1>2 DEF Run, Rows, UnderWay, Taken, Walk, Stored, Running, InPair, InTask, InTry
    <2>2. /\ pc = "run" /\ pc' = "prepare" /\ UNCHANGED <<at, done, row, unstarted>>
          /\ container' = [task |-> Task, tree |-> Pristine] /\ images' = images \cup {Task}
      BY <1>2 DEF Run
    <2>3. Ahead' = Ahead /\ Task' = Task
      BY <2>2 DEF Ahead, Task
    <2>4. images \subseteq unstarted \cup TasksOf(Ahead) \cup {Task}
      BY <2>2 DEF Docker, InTask
    <2>5. Docker'
      BY <1>1, <2>2, <2>3, <2>4 DEF Docker, Running, InPair, InTask, InTry
    <2>6. QED
      BY <2>1, <2>5
  <1>3. CASE RunFails
    <2>1. Rows' /\ UnderWay' /\ Taken' /\ Walk'
      BY <1>3, Input DEF RunFails, Rows, UnderWay, Taken, Walk, Stored, Running, InPair, InTask, InTry
    <2>2. /\ pc = "run" /\ pc' = "record" /\ UNCHANGED <<at, done, row>>
          /\ unstarted' = unstarted \cup {Task}
          /\ \/ container' = None /\ images' = images
             \/ /\ container' \in {None, [task |-> Task, tree |-> Pristine]}
                /\ images' = images \cup {Task}
      BY <1>3 DEF RunFails
    <2>3. Ahead' = Ahead /\ Task' = Task
      BY <2>2 DEF Ahead, Task
    <2>4. images \subseteq unstarted \cup TasksOf(Ahead) \cup {Task}
      BY <2>2 DEF Docker, InTask
    <2>5. Docker'
      BY <1>1, <2>2, <2>3, <2>4 DEF Docker, Running, InPair, InTask, InTry
    <2>6. QED
      BY <2>1, <2>5
  <1>4. QED
    BY <1>2, <1>3

\* What a step inside the try keeps of the container.
LEMMA TryDocker ==
  ASSUME Docker, pc \in InTry, pc' \in InTask \ {"rmi"}, UNCHANGED <<at, done, images, unstarted>>,
         row'.pair = row.pair, container' \in [task : {Task}, tree : Trees] \/ container' = container
  PROVE  Docker'
  <1>1. Ahead' = Ahead /\ Task' = Task
    BY DEF Ahead, Task
  <1>2. container \in [task : {Task}, tree : Trees] /\ Task \in images
    BY DEF Docker
  <1>3. container' \in [task : {Task}, tree : Trees]
    BY <1>2
  <1>4. container # None => container \in [task : images, tree : Trees]
    BY DEF Docker
  <1>5. QED
    BY <1>1, <1>2, <1>3 DEF Docker, Running, InPair, InTask, InTry

LEMMA PrepareStep == IInv /\ Prepare => IInv'
  <1> SUFFICES ASSUME IInv, Prepare PROVE IInv'
    OBVIOUS
  <1> USE DEF IInv
  <1>1. /\ pc = "prepare" /\ row = Blank(row.pair) /\ GoodRow(row) /\ container \in [task : {Task}, tree : Trees]
        /\ container' = [container EXCEPT !.tree = Reset(FALSE)]
        /\ UNCHANGED <<at, done, rows, out, images, kept, begun, unstarted, faults>>
    BY DEF Prepare, UnderWay, Docker, InPair, InTask, InTry
  <1>2. container' \in [task : {Task}, tree : Trees]
    BY <1>1 DEF Reset, Trees
  <1>3. \/ pc' = "control" /\ row' = row
        \/ pc' = "finally" /\ row' = [row EXCEPT !.outcome = "not_applicable"]
    BY DEF Prepare, Finish
  <1>4. /\ GoodRow(row') /\ row'.pair = row.pair /\ row' \in RowType
        /\ pc' = "control" => row' = Blank(row'.pair)
    <2>1. CASE pc' = "control" /\ row' = row
      BY <1>1, <2>1 DEF GoodRow
    <2>2. CASE pc' = "finally" /\ row' = [row EXCEPT !.outcome = "not_applicable"]
      BY <1>1, <2>2 DEF GoodRow, RowType, Outcomes
    <2>3. QED
      BY <1>3, <2>1, <2>2
  <1>5. UnderWay'
    BY <1>1, <1>3, <1>4 DEF UnderWay, PairsOf, InPair, InTask, InTry
  <1>6. Docker'
    BY <1>1, <1>2, <1>3, <1>4, TryDocker DEF InTask, InTry
  <1>7. Rows' /\ Taken' /\ Walk'
    BY <1>1, <1>3, <1>4 DEF Rows, Taken, Walk, Stored, Running, InPair, InTask, InTry
  <1>8. QED
    BY <1>5, <1>6, <1>7

\* Trees are records of three flags; one flag of one may be set.
LEMMA Flagged ==
  ASSUME NEW p \in BOOLEAN, NEW l \in BOOLEAN, NEW q \in BOOLEAN, NEW x \in BOOLEAN
  PROVE  LET r == [patched |-> p, local |-> l, renamed |-> q]
         IN /\ [r EXCEPT !.renamed = x] = [patched |-> p, local |-> l, renamed |-> x]
            /\ [r EXCEPT !.local = x] = [patched |-> p, local |-> x, renamed |-> q]
  <1> DEFINE r == [patched |-> p, local |-> l, renamed |-> q]
  <1>1. r \in Trees /\ r.patched = p /\ r.local = l /\ r.renamed = q
    BY DEF Trees
  <1> HIDE DEF r
  <1>2. [r EXCEPT !.renamed = x] = [patched |-> r.patched, local |-> r.local, renamed |-> x]
    BY <1>1 DEF Trees
  <1>3. [r EXCEPT !.local = x] = [patched |-> r.patched, local |-> x, renamed |-> r.renamed]
    BY <1>1 DEF Trees
  <1>4. [r EXCEPT !.renamed = x] = [patched |-> p, local |-> l, renamed |-> x]
    BY <1>1, <1>2
  <1>5. [r EXCEPT !.local = x] = [patched |-> p, local |-> x, renamed |-> q]
    BY <1>1, <1>3
  <1>6. QED
    BY <1>4, <1>5 DEF r

\* A grading's tree has the rename on it, and the moved import if asked for.
LEMMA GradeTree ==
  ASSUME NEW local \in BOOLEAN, NEW g, Grade(local, g), container \in [task : {Task}, tree : Trees]
  PROVE  /\ container' \in [task : {Task}, tree : Trees] /\ g \in Gradings
         /\ container'.tree = [patched |-> TRUE, local |-> local, renamed |-> TRUE]
         /\ Seen(g) \in [tree : Trees, grading : Gradings] /\ Seen(g) # None
         /\ Seen(g).grading = g
         /\ Seen(g).tree = [patched |-> TRUE, local |-> local, renamed |-> TRUE]
  <1>1. container' = [container EXCEPT !.tree = [patched |-> TRUE, local |-> local, renamed |-> TRUE]]
        /\ g \in Gradings
    <2>1. Rename(Reset(local)) = [patched |-> TRUE, local |-> local, renamed |-> TRUE]
      <3>1. [[patched |-> TRUE, local |-> local, renamed |-> FALSE] EXCEPT !.renamed = TRUE]
              = [patched |-> TRUE, local |-> local, renamed |-> TRUE]
        BY Flagged, Zenon
      <3>2. QED
        BY <3>1, Zenon DEF Rename, Reset
    <2>2. QED
      BY <2>1, Zenon DEF Grade
  <1>2. [patched |-> TRUE, local |-> local, renamed |-> TRUE] \in Trees
    BY DEF Trees
  <1>3. /\ container' \in [task : {Task}, tree : Trees]
        /\ container'.tree = [patched |-> TRUE, local |-> local, renamed |-> TRUE]
    BY <1>1, <1>2
  <1>4. Seen(g) = [tree |-> container'.tree, grading |-> g]
    BY DEF Seen
  <1>5. Seen(g) \in [tree : Trees, grading : Gradings]
    BY <1>1, <1>2, <1>3, <1>4
  <1>6. /\ Seen(g).grading = g
        /\ Seen(g).tree = [patched |-> TRUE, local |-> local, renamed |-> TRUE]
    BY <1>3, <1>4
  <1>7. Seen(g) # None
    BY <1>5, Outside
  <1>8. QED
    BY <1>1, <1>3, <1>5, <1>6, <1>7

LEMMA ControlStep == IInv /\ Control => IInv'
  <1> SUFFICES ASSUME IInv, Control PROVE IInv'
    OBVIOUS
  <1> USE DEF IInv
  <1>1. /\ pc = "control" /\ row = Blank(row.pair) /\ GoodRow(row) /\ container \in [task : {Task}, tree : Trees]
        /\ UNCHANGED <<at, done, rows, out, images, kept, begun, unstarted, faults>>
    BY DEF Control, UnderWay, Docker, InPair, InTask, InTry
  <1>2. PICK g \in Gradings :
          /\ Grade(FALSE, g)
          /\ IF Reported(g) # {}
               THEN /\ row' = [row EXCEPT !.control = Seen(g),
                                          !.outcome = "control_did_not_reproduce"]
                    /\ pc' = "finally"
               ELSE row' = [row EXCEPT !.control = Seen(g)] /\ pc' = "measure"
    BY DEF Control
  <1> DEFINE c == Seen(g)
  <1>3. /\ container' \in [task : {Task}, tree : Trees] /\ c \in [tree : Trees, grading : Gradings]
        /\ c # None /\ c.grading = g /\ c.tree = [patched |-> TRUE, local |-> FALSE, renamed |-> TRUE]
    BY <1>1, <1>2, GradeTree
  <1> HIDE DEF c
  <1>4. \/ /\ pc' = "finally"
           /\ row' = [row EXCEPT !.control = c, !.outcome = "control_did_not_reproduce"]
        \/ pc' = "measure" /\ row' = [row EXCEPT !.control = c] /\ Reported(g) = {}
    BY <1>2 DEF c
  <1>5. row \in RowType /\ row.measured = None /\ row.outcome = "error"
    BY <1>1 DEF GoodRow, Blank
  <1>6. /\ GoodRow(row') /\ row'.pair = row.pair /\ row' \in RowType
        /\ pc' = "measure" => /\ row'.measured = None /\ row'.outcome = "error"
                              /\ GoodControl(row'.control)
    <2>1. CASE pc' = "finally" /\ row' = [row EXCEPT !.control = c, !.outcome = "control_did_not_reproduce"]
      BY <1>3, <1>5, <2>1 DEF GoodRow, RowType, Outcomes, Bad
    <2>2. CASE pc' = "measure" /\ row' = [row EXCEPT !.control = c] /\ Reported(g) = {}
      BY <1>3, <1>5, <2>2 DEF GoodRow, RowType, GoodControl
    <2>3. QED
      BY <1>4, <2>1, <2>2
  <1>7. UnderWay'
    BY <1>1, <1>4, <1>6 DEF UnderWay, PairsOf, InPair, InTask, InTry
  <1>8. Docker'
    BY <1>1, <1>3, <1>4, <1>6, TryDocker DEF InTask, InTry
  <1>9. Rows' /\ Taken' /\ Walk'
    BY <1>1, <1>4, <1>6 DEF Rows, Taken, Walk, Stored, Running, InPair, InTask, InTry
  <1>10. QED
    BY <1>7, <1>8, <1>9

LEMMA MeasureStep == IInv /\ Measure => IInv'
  <1> SUFFICES ASSUME IInv, Measure PROVE IInv'
    OBVIOUS
  <1> USE DEF IInv
  <1>1. /\ pc = "measure" /\ pc' = "finally" /\ GoodRow(row) /\ container \in [task : {Task}, tree : Trees]
        /\ row.measured = None /\ row.outcome = "error" /\ GoodControl(row.control)
        /\ UNCHANGED <<at, done, rows, out, images, kept, begun, unstarted, faults>>
    BY DEF Measure, UnderWay, Docker, InPair, InTask, InTry
  <1>2. PICK g \in Gradings :
          /\ Grade(TRUE, g)
          /\ row' = [row EXCEPT !.measured = Seen(g),
                                !.outcome = IF Failing(g) = Graded THEN ClassifyZero(g)
                                            ELSE "measured"]
    BY DEF Measure
  <1> DEFINE c == Seen(g)
             o == IF Failing(g) = Graded THEN ClassifyZero(g) ELSE "measured"
  <1>3. /\ container' \in [task : {Task}, tree : Trees] /\ c \in [tree : Trees, grading : Gradings]
        /\ c # None /\ c.grading = g /\ c.tree = [patched |-> TRUE, local |-> TRUE, renamed |-> TRUE]
    BY <1>1, <1>2, GradeTree
  <1>4. o \in Outcomes /\ (o = "helper_coupled" => \A t \in Graded : g[t] = "names")
    BY DEF ClassifyZero, Outcomes, Bad
  <1>5. row' = [row EXCEPT !.measured = c, !.outcome = o] /\ row \in RowType
    BY <1>1, <1>2 DEF GoodRow
  <1> HIDE DEF c, o
  <1>6. /\ row' \in RowType /\ row'.pair = row.pair /\ row'.control = row.control
        /\ row'.measured = c /\ row'.outcome = o
    BY <1>3, <1>4, <1>5 DEF RowType
  <1>7. GoodRow(row')
    <2>1. row'.measured.tree = [row'.control.tree EXCEPT !.local = TRUE]
      <3>1. row.control.tree = [patched |-> TRUE, local |-> FALSE, renamed |-> TRUE]
        BY <1>1 DEF GoodControl
      <3>2. [row.control.tree EXCEPT !.local = TRUE]
              = [patched |-> TRUE, local |-> TRUE, renamed |-> TRUE]
        <4>1. [[patched |-> TRUE, local |-> FALSE, renamed |-> TRUE] EXCEPT !.local = TRUE]
                = [patched |-> TRUE, local |-> TRUE, renamed |-> TRUE]
          BY Flagged, Zenon
        <4>2. QED
          BY <3>1, <4>1, Zenon
      <3>3. QED
        BY <1>3, <1>6, <3>2
    <2>2. row'.outcome = "helper_coupled" => \A t \in Graded : row'.measured.grading[t] = "names"
      BY <1>3, <1>4, <1>6
    <2>3. GoodControl(row'.control)
      BY <1>1, <1>6
    <2>4. QED
      BY <1>6, <2>1, <2>2, <2>3 DEF GoodRow
  <1>8. UnderWay'
    BY <1>1, <1>6, <1>7 DEF UnderWay, PairsOf, InPair, InTask, InTry
  <1>9. Docker'
    BY <1>1, <1>3, <1>6, TryDocker DEF InTask, InTry
  <1>10. Rows' /\ Taken' /\ Walk'
    BY <1>1, <1>6 DEF Rows, Taken, Walk, Stored, Running, InPair, InTask, InTry
  <1>11. QED
    BY <1>8, <1>9, <1>10

LEMMA RaiseStep == IInv /\ Raise => IInv'
  <1> SUFFICES ASSUME IInv, Raise PROVE IInv'
    OBVIOUS
  <1> USE DEF IInv
  <1>1. /\ pc \in InTry /\ pc' = "finally" /\ row' = Blank(row.pair) /\ GoodRow(row)
        /\ faults < FAULTS /\ faults' = faults + 1
        /\ UNCHANGED <<at, done, rows, out, docker, kept, begun, unstarted>>
    BY DEF Raise, UnderWay, InPair, InTask, InTry
  <1>2. GoodRow(row') /\ row'.pair = row.pair /\ row' \in RowType
    BY <1>1, BlankGood DEF GoodRow, RowType
  <1>3. UnderWay'
    BY <1>1, <1>2 DEF UnderWay, PairsOf, InPair, InTask, InTry
  <1>4. Docker'
    BY <1>1, <1>2, TryDocker DEF docker, InTask, InTry
  <1>5. Rows' /\ Taken' /\ Walk'
    BY <1>1, <1>2, Input DEF Rows, Taken, Walk, Stored, Running, InPair, InTask, InTry
  <1>6. QED
    BY <1>3, <1>4, <1>5

\* The finally: the container, then the image.
LEMMA FinallyStep == IInv /\ (RemoveContainer \/ RemoveImage) => IInv'
  <1> SUFFICES ASSUME IInv, RemoveContainer \/ RemoveImage PROVE IInv'
    OBVIOUS
  <1> USE DEF IInv
  <1>1. CASE RemoveContainer
    <2>1. /\ pc = "finally" /\ pc' = "rmi" /\ container' = None
          /\ UNCHANGED <<at, done, rows, out, row, images, kept, begun, unstarted, faults>>
      BY <1>1 DEF RemoveContainer
    <2>2. Rows' /\ UnderWay' /\ Taken' /\ Walk'
      BY <2>1 DEF Rows, UnderWay, Taken, Walk, Stored, Running, InPair, InTask, InTry
    <2>3. Docker'
      BY <2>1 DEF Docker, Ahead, Task, Running, InPair, InTask, InTry
    <2>4. QED
      BY <2>2, <2>3
  <1>2. CASE RemoveImage
    <2>1. /\ pc = "rmi" /\ pc' = "record" /\ container = None /\ container' = None
          /\ images' = images \ {Task}
          /\ UNCHANGED <<at, done, rows, out, row, kept, begun, unstarted, faults>>
      BY <1>2 DEF RemoveImage, Docker
    <2>2. Rows' /\ UnderWay' /\ Taken' /\ Walk'
      BY <2>1 DEF Rows, UnderWay, Taken, Walk, Stored, Running, InPair, InTask, InTry
    <2>3. images \subseteq unstarted \cup TasksOf(Ahead) \cup {Task}
      BY <2>1 DEF Docker, InTask
    <2>4. Docker'
      BY <2>1, <2>3 DEF Docker, Ahead, Running, InPair, InTask, InTry
    <2>5. QED
      BY <2>2, <2>4
  <1>3. QED
    BY <1>1, <1>2

LEMMA RecordStep == IInv /\ Record => IInv'
  <1> SUFFICES ASSUME IInv, Record PROVE IInv'
    OBVIOUS
  <1> USE DEF IInv
  <1>1. /\ pc = "record" /\ pc' = "dump" /\ rows' = Append(rows, row) /\ out' = Torn
        /\ UNCHANGED <<at, done, row, docker, kept, begun, unstarted, faults>>
    BY DEF Record
  <1>2. /\ GoodRows(rows) /\ GoodRow(row) /\ row.pair \notin PairsOf(rows) /\ row.pair \in done
        /\ PairsOf(rows) \subseteq done
    BY <1>1 DEF Rows, UnderWay, Taken, Running, InPair
  <1>3. /\ GoodRows(rows') /\ PairsOf(rows') = PairsOf(rows) \cup {row.pair}
        /\ Len(rows') = Len(rows) + 1 /\ rows'[Len(rows) + 1] = row
        /\ \A i \in 1..Len(rows) : rows'[i] = rows[i]
    BY <1>1, <1>2, AppendGood
  <1>4. Len(rows) \in Nat
    BY <1>2, RowsTyped
  <1>5. Rows'
    BY <1>1, <1>3 DEF Rows
  <1>6. UnderWay'
    BY <1>1, <1>2 DEF UnderWay, GoodRow, RowType, InPair, InTask, InTry
  <1>7. Taken'
    BY <1>1, <1>2, <1>3 DEF Taken, PairsOf, Running, InPair, InTask, InTry
  <1>8. Docker'
    BY <1>1 DEF Docker, docker, Ahead, Running, InPair, InTask, InTry
  <1>9. Walk'
    <2>1. begun \in Nat /\ \A i \in (begun + 1)..Len(rows) : rows[i].outcome \notin Bad
      BY <1>1 DEF Walk, Running, InPair
    <2>2. Len(rows') > 0 /\ rows'[Len(rows')] = row /\ Len(rows') - 1 = Len(rows)
      BY <1>3, <1>4
    <2>3. \A i \in (begun + 1)..Len(rows) : rows'[i].outcome \notin Bad
      BY <1>3, <1>4, <2>1
    <2>4. QED
      BY <1>1, <2>1, <2>2, <2>3 DEF Walk, Running, InPair, InTask, InTry
  <1>10. QED
    BY <1>5, <1>6, <1>7, <1>8, <1>9

LEMMA DumpStep == IInv /\ Dump => IInv'
  <1> SUFFICES ASSUME IInv, Dump PROVE IInv'
    OBVIOUS
  <1> USE DEF IInv
  <1>1. /\ pc = "dump" /\ out' = rows
        /\ \/ pc' = "exit1"
           \/ pc' = "pick" /\ row.outcome \notin Bad
        /\ UNCHANGED <<at, done, rows, row, docker, begun, unstarted, faults>>
    BY DEF Dump, Stops
  <1>2. Rows'
    BY <1>1 DEF Rows
  <1>3. UnderWay'
    BY <1>1 DEF UnderWay, InPair, InTask, InTry
  <1>4. Stored' \subseteq PairsOf(rows) /\ PairsOf(rows) \subseteq done
    BY <1>1 DEF Stored, PairsOf, Taken, Running
  <1>5. Taken'
    BY <1>1, <1>4 DEF Taken, PairsOf, Running, InPair, InTask, InTry
  <1>6. Docker'
    <2>1. images \subseteq unstarted \cup TasksOf(Ahead)
      BY <1>1 DEF Docker, Running, InPair, InTask, InTry
    <2>2. Ahead' = Ahead
      BY <1>1 DEF Ahead
    <2>3. Ahead \subseteq Range(Witnesses) \ Stored'
      <3>1. at \in 1..(Len(Witnesses) + 1)
        BY DEF Rows
      <3>2. QED
        BY <1>4, <3>1, Witnessed DEF Ahead
    <2>4. TasksOf(Ahead) \subseteq TasksOf(Range(Witnesses) \ Stored')
      BY <2>3 DEF TasksOf
    <2>5. pc' \in {"idle", "killed", "exit1"} =>
            images' \subseteq unstarted' \cup TasksOf(Range(Witnesses) \ Stored')
      BY <1>1, <2>1, <2>4 DEF docker
    <2>6. pc' \in (Running \ InTask) \cup {"exit0"} =>
            images' \subseteq unstarted' \cup TasksOf(Ahead')
      BY <1>1, <2>1, <2>2 DEF docker
    <2>7. container' # None => container' \in [task : images', tree : Trees]
      BY <1>1 DEF Docker, docker
    <2>8. QED
      BY <1>1, <2>5, <2>6, <2>7 DEF Docker, TasksOf, Running, InPair, InTask, InTry
  <1>7. Walk'
    <2>1. /\ begun \in Nat /\ Len(rows) > 0 /\ rows[Len(rows)] = row
          /\ \A i \in (begun + 1)..(Len(rows) - 1) : rows[i].outcome \notin Bad
      BY <1>1 DEF Walk
    <2>2. Len(rows) \in Nat
      BY RowsTyped DEF Rows
    <2>3. row.outcome \notin Bad => \A i \in (begun + 1)..Len(rows) : rows[i].outcome \notin Bad
      <3> SUFFICES ASSUME row.outcome \notin Bad, NEW i \in (begun + 1)..Len(rows)
                   PROVE  rows[i].outcome \notin Bad
        OBVIOUS
      <3>1. i = Len(rows) \/ i \in (begun + 1)..(Len(rows) - 1)
        BY <2>1, <2>2
      <3>2. QED
        BY <2>1, <3>1
    <2>4. QED
      BY <1>1, <2>1, <2>3 DEF Walk, Running, InPair, InTask, InTry
  <1>8. QED
    BY <1>2, <1>3, <1>5, <1>6, <1>7

LEMMA KillStep == IInv /\ Kill => IInv'
  <1> SUFFICES ASSUME IInv, Kill PROVE IInv'
    OBVIOUS
  <1> USE DEF IInv
  <1>1. /\ pc \in Running /\ pc' = "killed" /\ row' = None /\ faults < FAULTS /\ faults' = faults + 1
        /\ UNCHANGED <<at, done, rows, out, docker, kept, begun, unstarted>>
    BY DEF Kill, Running, InPair, InTask, InTry
  <1>2. Rows'
    BY <1>1, Input DEF Rows
  <1>3. UnderWay' /\ Taken' /\ Walk'
    BY <1>1 DEF UnderWay, Taken, Walk, Running, InPair, InTask, InTry
  <1>4. Docker'
    <2>1. CASE out = Torn
      BY <1>1, <2>1 DEF Docker, docker, Running, InPair, InTask, InTry
    <2>2. CASE out # Torn
      <3>1. Stored \subseteq PairsOf(rows) /\ PairsOf(rows) \subseteq done
        BY <1>1, <2>2 DEF Taken
      <3>2. Ahead \subseteq Range(Witnesses) \ Stored
        <4>1. at \in 1..(Len(Witnesses) + 1)
          BY DEF Rows
        <4>2. QED
          BY <3>1, <4>1, Witnessed DEF Ahead
      <3>3. TasksOf(Ahead) \subseteq TasksOf(Range(Witnesses) \ Stored)
        BY <3>2 DEF TasksOf
      <3>4. pc \in InTask => Task \in TasksOf(Range(Witnesses) \ Stored)
        BY <3>1 DEF UnderWay, InPair, Task, TasksOf
      <3>5. images \subseteq unstarted \cup TasksOf(Range(Witnesses) \ Stored)
        BY <1>1, <3>3, <3>4 DEF Docker
      <3>6. Stored' = Stored
        BY <1>1 DEF Stored
      <3>7. images' \subseteq unstarted' \cup TasksOf(Range(Witnesses) \ Stored')
        BY <1>1, <3>5, <3>6 DEF docker
      <3>8. container' # None => container' \in [task : images', tree : Trees]
        BY <1>1 DEF Docker, docker
      <3>9. QED
        BY <1>1, <3>7, <3>8 DEF Docker, TasksOf, Running, InPair, InTask, InTry
    <2>3. QED
      BY <2>1, <2>2
  <1>5. QED
    BY <1>2, <1>3, <1>4

LEMMA Inductive == IInv /\ [Next]_vars => IInv'
  <1> SUFFICES ASSUME IInv, UNCHANGED vars PROVE IInv'
    BY StartStep, PickStep, RunStep, PrepareStep, ControlStep, MeasureStep, RaiseStep,
       FinallyStep, RecordStep, DumpStep, KillStep DEF Next
  <1>1. UNCHANGED <<pc, at, done, rows, out, row, container, images, begun, unstarted, faults>>
    BY DEF vars, docker
  <1>2. Rows' /\ UnderWay' /\ Walk'
    BY <1>1 DEF IInv, Rows, UnderWay, Walk, PairsOf
  <1>3. Taken' /\ Docker'
    BY <1>1 DEF IInv, Taken, Docker, Stored, PairsOf, Ahead, Task
  <1>4. QED
    BY <1>2, <1>3 DEF IInv

\* Rows, the row under way, docker and the walk agree, whatever raises or is killed.
THEOREM Invariance == Spec => []IInv
  BY Initial, Inductive, PTL DEF Spec

-----------------------------------------------------------------------------
\* A row per pair, each measurement against its own control on a tree that differs by
\* the moved import alone, no verdict of coupling from absence (run_task, main).
THEOREM RowSoundness == Spec => []RowsAreSound
  <1>1. IInv => RowsAreSound
    <2> SUFFICES ASSUME IInv PROVE RowsAreSound
      OBVIOUS
    <2>1. /\ \A i \in DOMAIN rows : GoodRow(rows[i])
          /\ \A i, j \in DOMAIN rows : rows[i].pair = rows[j].pair => i = j
          /\ out \notin {None, Torn} => \A i \in DOMAIN out : GoodRow(out[i])
      BY DEF IInv, Rows, GoodRows
    <2>2. container # None => container.task \in images /\ container.tree \in Trees
      BY DEF IInv, Docker
    <2>3. TypeOK
      BY <2>1, <2>2 DEF IInv, Rows, UnderWay, TypeOK, GoodRow
    <2>4. OnePerPair
      BY <2>1 DEF OnePerPair
    <2>5. MeasuredAgainstControl
      BY <2>1 DEF MeasuredAgainstControl, GoodRow, GoodControl
    <2>6. CoupledIsMeasured
      BY <2>1 DEF CoupledIsMeasured, GoodRow
    <2>7. QED
      BY <2>3, <2>4, <2>5, <2>6 DEF RowsAreSound
  <1>2. QED
    BY <1>1, Invariance, PTL

\* A run that ends well met no defect and leaves in docker at most what docker did not
\* start (main's returns, run_task's rm -f and finally).
THEOREM CleanEnd == Spec => []CleanExit
  <1>1. IInv => CleanExit
    <2> SUFFICES ASSUME IInv, pc = "exit0"
                 PROVE  /\ \A i \in (begun + 1)..Len(rows) : rows[i].outcome \notin Bad
                        /\ images \subseteq unstarted
                        /\ container # None => container.task \in unstarted
      BY DEF CleanExit
    <2>1. \A i \in (begun + 1)..Len(rows) : rows[i].outcome \notin Bad
      BY DEF IInv, Walk
    <2>2. at > Len(Witnesses) /\ at \in 1..(Len(Witnesses) + 1) /\ Len(Witnesses) \in Nat
      BY Witnessed DEF IInv, Walk, Rows
    <2>3. at..Len(Witnesses) = {}
      BY <2>2
    <2>4. TasksOf(Ahead) = {}
      BY <2>3 DEF TasksOf, Ahead
    <2>5. images \subseteq unstarted
      BY <2>4 DEF IInv, Docker
    <2>6. container # None => container.task \in unstarted
      BY <2>5 DEF IInv, Docker
    <2>7. QED
      BY <2>1, <2>5, <2>6
  <1>2. QED
    BY <1>1, Invariance, PTL

-----------------------------------------------------------------------------
\* The file and the rows in memory: between two dumps they are the same, and while a
\* dump is under way the file's last whole contents are a prefix of the rows.
Kept ==
  /\ kept \in Seq(RowType)
  /\ out = None => kept = <<>>
  /\ out \notin {None, Torn} => kept = out
  /\ pc \in Running \ {"dump"} => kept = rows
  /\ pc = "dump" => IsPrefix(kept, rows)

LEMMA PrefixFacts ==
  ASSUME NEW S, NEW s \in Seq(S)
  PROVE  IsPrefix(s, s) /\ \A e \in S : IsPrefix(s, Append(s, e))
  <1>1. Len(s) \in Nat /\ \A e \in S : Len(Append(s, e)) = Len(s) + 1
    OBVIOUS
  <1>2. \A e \in S : \A i \in 1..Len(s) : Append(s, e)[i] = s[i]
    OBVIOUS
  <1>3. \A e \in S : SubSeq(Append(s, e), 1, Len(s)) = SubSeq(s, 1, Len(s))
    BY <1>1, <1>2
  <1>4. QED
    BY <1>1, <1>3 DEF IsPrefix

\* A step grows the file or leaves it, and keeps the relation.
LEMMA KeptStep ==
  ASSUME IInv, Kept, [Next]_vars
  PROVE  Kept' /\ (out' \notin {None, Torn} => IsPrefix(kept, out'))
  <1>1. rows \in Seq(RowType) /\ IsPrefix(kept, kept)
    BY PrefixFacts DEF IInv, Rows, GoodRows, Kept
  <1>2. ASSUME UNCHANGED <<rows, out, kept>>, pc' \in Running \ {"dump"} => pc \in Running \ {"dump"},
               pc' = "dump" => pc = "dump"
        PROVE  Kept' /\ (out' \notin {None, Torn} => IsPrefix(kept, out'))
    BY <1>1, <1>2 DEF Kept, Running, InPair, InTask, InTry
  <1>3. CASE Start
    <2>1. CASE out = Torn
      BY <1>2, <1>3, <2>1 DEF Start, Running, InPair, InTask, InTry
    <2>2. CASE out # Torn
      <3>1. /\ pc' = "pick" /\ rows' = (IF out = None THEN <<>> ELSE out)
            /\ UNCHANGED <<out, kept>>
        BY <1>3, <2>2 DEF Start
      <3>2. kept = rows'
        BY <2>2, <3>1 DEF Kept
      <3>3. QED
        BY <1>1, <2>2, <3>1, <3>2 DEF Kept
    <2>3. QED
      BY <2>1, <2>2
  <1>4. CASE Record
    <2>1. /\ pc = "record" /\ pc' = "dump" /\ rows' = Append(rows, row) /\ out' = Torn
          /\ kept' = kept
      BY <1>4 DEF Record
    <2>2. row \in RowType /\ kept = rows
      BY <2>1 DEF IInv, UnderWay, GoodRow, Kept, Running, InPair, InTask, InTry
    <2>3. IsPrefix(kept, rows')
      BY <1>1, <2>1, <2>2, PrefixFacts
    <2>4. QED
      BY <2>1, <2>3, Contents DEF Kept, Running, InPair, InTask, InTry
  <1>5. CASE Dump
    <2>1. /\ pc = "dump" /\ pc' \in {"exit1", "pick"} /\ out' = rows /\ kept' = rows
          /\ rows' = rows
      BY <1>5 DEF Dump
    <2>2. IsPrefix(kept, out') /\ out' \notin {None, Torn}
      BY <1>1, <2>1, Contents DEF Kept
    <2>3. QED
      BY <1>1, <2>1, <2>2 DEF Kept
  <1>6. CASE Pick \/ Run \/ RunFails \/ Prepare \/ Control \/ Measure \/ Raise
             \/ RemoveContainer \/ RemoveImage \/ Kill
    <2>1. /\ UNCHANGED <<rows, out, kept>> /\ pc' # "dump"
          /\ pc \in Running \ {"dump"} \/ pc' = "killed"
      BY <1>6 DEF Pick, Run, RunFails, Prepare, Control, Measure, Finish, Raise, RemoveContainer,
                  RemoveImage, Kill, Running, InPair, InTask, InTry
    <2>2. QED
      BY <1>2, <2>1 DEF Running, InPair, InTask, InTry
  <1>7. CASE UNCHANGED vars
    BY <1>2, <1>7 DEF vars
  <1>8. QED
    BY <1>3, <1>4, <1>5, <1>6, <1>7 DEF Next

\* No run ever shortens or changes what an earlier one wrote: what is read whole extends
\* what was last whole, through kills and restarts (main's resume and dump).
THEOREM Growth == Spec => RowsAreKept
  <1>1. Init => Kept
    BY DEF Init, Kept, Running, InPair, InTask, InTry
  <1>2. IInv /\ Kept /\ [Next]_vars => Kept'
    BY KeptStep
  <1>3. IInv /\ Kept /\ [Next]_vars => [out' \notin {None, Torn} => IsPrefix(kept, out')]_vars
    BY KeptStep
  <1>4. QED
    BY <1>1, <1>2, <1>3, Invariance, PTL DEF Spec, RowsAreKept
=============================================================================
