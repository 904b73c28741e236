----------------------------- MODULE JudgeVariance -----------------------------
(***************************************************************************)
(* judge/variance.py: the variance floor of a judge.  Every chosen task is *)
(* scored n times in each temperature arm on one payload; then the         *)
(* instrument is checked (parse rate, output cap), the ranges of the tasks *)
(* measured in full are aggregated, and the gate to step 2 is decided.     *)
(*                                                                         *)
(* A call may be refused for its temperature and sent again without it, it *)
(* may fail, hit the output cap or answer what does not parse.  Of the     *)
(* scores of a task in an arm the script needs their number and extremes.  *)
(***************************************************************************)
EXTENDS Integers, Sequences, FiniteSets, FiniteSetsExt

CONSTANTS
  Populations,           \* ids with a witness on record, sorted; one is the real one
  RepoOf,                \* repository prefix of an id
  K,                     \* tasks to choose
  FROZEN,                \* the choice PROTOCOL.md froze
  Calls,                 \* --n
  MIN_USABLE_PER_TASK, MIN_COUNTING_TASKS,
  MIN_PARSE_PERCENT,     \* MIN_PARSE_RATE
  Replies,               \* of each arm, what its calls may come to
  None, Torn

Arms == <<"0.0", "1.0">>

ASSUME Sizes == /\ K \in Nat \ {0} /\ Calls \in Nat \ {0} /\ MIN_PARSE_PERCENT \in 0..100
                /\ MIN_USABLE_PER_TASK \in Nat \ {0} /\ MIN_COUNTING_TASKS \in Nat \ {0}
\* witness_tasks: sorted, each id once (the name of a record is its id).
ASSUME Ids == \A pop \in Populations : pop \in Seq(DOMAIN RepoOf) /\ IsInjective(pop)
ASSUME Chosen == FROZEN \in Seq(DOMAIN RepoOf) /\ Len(FROZEN) = K

\* What becomes of one call: the payload the endpoint answered ("asked", or
\* "default" without the temperature; None if it answered neither), whether the
\* output sat at the cap, whether there is a JSON object in it, and its score.
Reply == [payload : {"asked", "default", None}, refused : BOOLEAN, cap : BOOLEAN,
          object : BOOLEAN, score : Int]
ASSUME Answers == \A a \in Range(Arms) : Replies[a] \subseteq Reply

VARIABLES
  pc,          \* "start", "calling", "checking", "writing" or how it ended
  population,
  chosen,
  arm, task, call,   \* the loops of main
  seen,        \* seen_sha of the task at hand
  rejected,    \* temp_rejected: arms whose temperature was refused
  scores,      \* per arm and task: number, least and greatest of its scores
  made, caps,  \* records, and those with output_cap_hit
  sent,        \* history: every payload answered, per arm and task
  result       \* the file

loop == <<arm, task, call, seen>>
data == <<rejected, scores, made, caps, sent>>
vars == <<pc, population, chosen, loop, data, result>>

-----------------------------------------------------------------------------
\* select: one id from each repository in turn, in the order they first appear.

Places(pop, i) == {j \in DOMAIN pop : RepoOf[pop[j]] = RepoOf[pop[i]]}
RankOf(pop, i) == Cardinality({j \in Places(pop, i) : j < i})
Before(pop, i, j) ==
  \/ RankOf(pop, i) < RankOf(pop, j)
  \/ RankOf(pop, i) = RankOf(pop, j) /\ Min(Places(pop, i)) < Min(Places(pop, j))
Select(pop, k) ==
  LET size  == IF k < Len(pop) THEN k ELSE Len(pop)
      At(n) == CHOOSE i \in DOMAIN pop :
                 Cardinality({j \in DOMAIN pop : Before(pop, j, i)}) = n - 1
  IN [n \in 1..size |-> pop[At(n)]]

-----------------------------------------------------------------------------
Unscored == [n |-> 0, lo |-> 0, hi |-> 0]
Empty    == [a \in Range(Arms) |-> [i \in 1..K |-> Unscored]]

Init ==
  /\ pc = "start" /\ population \in Populations /\ chosen = None
  /\ arm = 1 /\ task = 1 /\ call = 1 /\ seen = {}
  /\ rejected = {} /\ scores = Empty /\ made = 0 /\ caps = 0
  /\ sent = [a \in Range(Arms) |-> [i \in 1..K |-> {}]]
  /\ result = None

\* Everything main verifies before the first call: the prompt's digest, the
\* selection, the projected cost, --dry-run, the key.
Start ==
  /\ pc = "start"
  /\ chosen' = Select(population, K)
  /\ \/ pc' = "stopped"
     \/ chosen' = FROZEN /\ pc' = "calling"
  /\ UNCHANGED <<population, loop, data, result>>

\* parse: an object with an integer score in 0..10, or a parse failure.
Parse(r) == IF r.object /\ r.score \in 0..10 THEN r.score ELSE None

Least(a, b) == IF a < b THEN a ELSE b
Greatest(a, b) == IF a < b THEN b ELSE a
Scored(s, v) ==
  IF s.n = 0 THEN [n |-> 1, lo |-> v, hi |-> v]
  ELSE [n |-> s.n + 1, lo |-> Least(s.lo, v), hi |-> Greatest(s.hi, v)]

At == Arms[arm]

Remember(p) == seen' = seen \cup {p}

\* One turn of the innermost loop.
Call ==
  /\ pc = "calling" /\ call <= Calls
  /\ \E r \in Replies[At] :
       /\ rejected' = IF r.refused THEN rejected \cup {At} ELSE rejected
       /\ made' = made + 1
       /\ IF r.payload = None
            THEN UNCHANGED <<seen, scores, caps, sent>>
            ELSE /\ Remember(r.payload)
                 /\ sent' = [sent EXCEPT ![At][task] = @ \cup {r.payload}]
                 /\ caps' = IF r.cap THEN caps + 1 ELSE caps
                 /\ scores' = IF Parse(r) = None THEN scores
                              ELSE [scores EXCEPT ![At][task] = Scored(@, Parse(r))]
  /\ call' = call + 1
  /\ UNCHANGED <<pc, population, chosen, arm, task, result>>

\* After the calls of a task: its payload must have been one and the same, and
\* the one asked for unless some temperature was refused.
Differs == Cardinality(seen) > 1
Drifted == seen # {} /\ "asked" \notin seen /\ rejected = {}

NextTask_Reporting ==
  /\ pc = "calling" /\ call > Calls
  /\ call' = 1 /\ seen' = {}
  /\ IF Differs \/ Drifted \/ (task = K /\ arm = Len(Arms))
       THEN pc' = "checking" /\ UNCHANGED <<arm, task>>
       ELSE /\ task' = (task % K) + 1
            /\ arm' = IF task = K THEN arm + 1 ELSE arm
            /\ UNCHANGED pc
  /\ UNCHANGED <<population, chosen, data, result>>
NextTask ==
  /\ pc = "calling" /\ call > Calls
  /\ IF Differs \/ Drifted
       THEN pc' = "aborted" /\ UNCHANGED loop
       ELSE /\ call' = 1 /\ seen' = {}
            /\ IF task < K THEN task' = task + 1 /\ UNCHANGED <<pc, arm>>
               ELSE /\ task' = 1
                    /\ IF arm < Len(Arms) THEN arm' = arm + 1 /\ UNCHANGED pc
                       ELSE pc' = "checking" /\ UNCHANGED arm
  /\ UNCHANGED <<population, chosen, data, result>>

-----------------------------------------------------------------------------
\* The verdict on the instrument, then the aggregate of the T = 1 arm.

\* The records with a score: the first n, say, of a task in an arm.
Usable ==
  Cardinality({p \in Range(Arms) \X (1..K) \X (1..Calls) : p[3] <= scores[p[1]][p[2]].n})
ParseRateOk == 100 * Usable >= MIN_PARSE_PERCENT * made

\* spread: a range is admitted at full N only.
Admitted_Any(s) == s.n > 0
Admitted(s) == s.n >= MIN_USABLE_PER_TASK
Spread(s)   == s.hi - s.lo

\* Of the scores of an arm: the tasks that count, and the range of each.
Counting(of) == {i \in 1..K : Admitted(of[i])}
Ranges(of)   == [i \in Counting(of) |-> Spread(of[i])]
Covered(of)  == Cardinality(Counting(of)) >= MIN_COUNTING_TASKS

\* The n-th smallest value of f, and twice the median of its values.
Nth(f, n) == Min({v \in Range(f) : Cardinality({i \in DOMAIN f : f[i] <= v}) >= n})
TwiceMedian(f) ==
  LET k == Cardinality(DOMAIN f)
  IN Nth(f, (k + 1) \div 2) + Nth(f, (k \div 2) + 1)

Opens(of) == /\ Covered(of)
             /\ TwiceMedian(Ranges(of)) <= 2 * 2
             /\ Max(Range(Ranges(of))) <= 4
Gate ==
  IF caps > 0 \/ ~ParseRateOk THEN [evaluated |-> FALSE, opens |-> FALSE]
  ELSE [evaluated |-> TRUE,
        opens |-> Opens(scores["1.0"])]

\* The result is opened for writing, emptied by that, and dumped.
Open ==
  /\ pc = "checking"
  /\ pc' = "writing" /\ result' = Torn
  /\ UNCHANGED <<population, chosen, loop, data>>

Write ==
  /\ pc = "writing"
  /\ pc' = "written" /\ result' = [gate |-> Gate, made |-> made]
  /\ UNCHANGED <<population, chosen, loop, data>>

Kill ==
  /\ pc \in {"calling", "checking", "writing"}
  /\ pc' = "killed"
  /\ UNCHANGED <<population, chosen, loop, data, result>>

Over == pc \in {"stopped", "aborted", "written", "killed"}

Next == Start \/ Call \/ NextTask \/ Open \/ Write \/ Kill
Spec == Init /\ [][Next]_vars

-----------------------------------------------------------------------------
Opened == result \notin {None, Torn} /\ result.gate.opens

\* Types; no score outside the protocol's scale is ever kept.
TypeOK ==
  /\ pc \in {"start", "calling", "checking", "writing"} \/ Over
  /\ arm \in 1..Len(Arms) /\ task \in 1..K /\ call \in 1..(Calls + 1)
  /\ seen \subseteq {"asked", "default"} /\ rejected \subseteq Range(Arms)
  /\ \A a \in Range(Arms), i \in 1..K :
       scores[a][i] \in [n : 0..Calls, lo : 0..10, hi : 0..10]
  /\ made \in 0..(2 * K * Calls) /\ caps \in 0..made
  /\ result \in {None, Torn} \cup [gate : [evaluated : BOOLEAN, opens : BOOLEAN],
                                   made : 0..(2 * K * Calls)]

\* The choice takes the repositories in turn: none is behind another by more than
\* one task unless all of its tasks are taken (select).
ChoiceIsBalanced ==
  chosen # None =>
    \A i, j \in DOMAIN population :
      LET Taken(n) == {m \in Places(population, n) : population[m] \in Range(chosen)}
      IN Cardinality(Taken(i)) + 1 < Cardinality(Taken(j)) => Taken(i) = Places(population, i)

\* The gate opens only on a floor that was measured: enough tasks were scored in
\* every one of their calls, none of these moved by more than 4 and half of them
\* by no more than 2 (PROTOCOL.md 2.1, 2.1a).
OpensOnFloor ==
  Opened =>
    LET full == {i \in 1..K : scores["1.0"][i].n = Calls}
        calm == {i \in full : Spread(scores["1.0"][i]) <= 2}
    IN /\ Cardinality(full) >= MIN_COUNTING_TASKS
       /\ 2 * Cardinality(calm) >= Cardinality(full)
       /\ \A i \in full : Spread(scores["1.0"][i]) <= 4

\* Whatever the gate says, it says it of an instrument that worked: no floor is
\* read from a run with a censored or mostly unparsed output, in either arm.
EvaluatedOnSoundInstrument ==
  result \notin {None, Torn} /\ result.gate.evaluated =>
    /\ caps = 0
    /\ 100 * (made - Usable) <= (100 - MIN_PARSE_PERCENT) * made

\* What the gate says is said of a measurement.
GateIsMeasured == OpensOnFloor /\ EvaluatedOnSoundInstrument

\* In a run that reports, all the calls of a task in an arm were of one payload:
\* a spread is never one between two requests (1.6, seen_sha).
OnePayloadPerSpread ==
  result # None => \A a \in Range(Arms), i \in 1..K : Cardinality(sent[a][i]) <= 1

\* A result that can be read is of a whole run, every call of both arms made on a
\* balanced choice of tasks, with one payload behind each spread and each score on the
\* scale: a script that was killed, aborted or stopped leaves none.
ResultIsWhole ==
  /\ TypeOK /\ ChoiceIsBalanced /\ OnePayloadPerSpread
  /\ result \notin {None, Torn} => result.made = Len(Arms) * K * Calls
=============================================================================
