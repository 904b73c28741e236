----------------------------- MODULE RecordStore -----------------------------
(***************************************************************************)
(* What scale/run.py and scale/aggregate.py promise about the records      *)
(* directory, with no coroutine, check or .partial file in it.  A record   *)
(* is a register: it is written at once, by the run that was let loose on  *)
(* it, once in an invocation, and is never taken away.  An invocation that *)
(* resumes is let loose on no complete record, however it ends.  A reader  *)
(* takes the names it finds and then each of them in turn, as it is when   *)
(* it comes to it, and always gets a record.                               *)
(***************************************************************************)
CONSTANTS Task,        \* names of records
          Value,       \* what a record may say
          Complete,    \* what it says when the task needs no other run
          None         \* no record

VARIABLES records,     \* what an open() of each name finds
          invocation,  \* "down", "resume" or "rerun"
          due,         \* tasks whose record this invocation may still write
          listed,      \* names a reader has still to open
          loaded       \* what it has read

vars == <<records, invocation, due, listed, loaded>>

Init ==
  /\ records = [t \in Task |-> None]
  /\ invocation = "down" /\ due = {}
  /\ listed = {} /\ loaded = [t \in {} |-> None]

Invoke(how) ==
  /\ invocation = "down" /\ invocation' = how
  /\ due' \in SUBSET Task
  /\ how = "resume" => \A t \in due' : records[t] \notin Complete
  /\ UNCHANGED <<records, listed, loaded>>

Publish(t) ==
  /\ t \in due /\ due' = due \ {t}
  /\ records'[t] \in Value
  /\ records' = [records EXCEPT ![t] = records'[t]]
  /\ UNCHANGED <<invocation, listed, loaded>>

\* A task that is given up before it has anything to say.
Forgo(t) ==
  /\ t \in due /\ due' = due \ {t}
  /\ UNCHANGED <<records, invocation, listed, loaded>>

\* The invocation is over, or killed.
Close ==
  /\ invocation # "down"
  /\ invocation' = "down" /\ due' = {}
  /\ UNCHANGED <<records, listed, loaded>>

List ==
  /\ listed = {}
  /\ listed' = {t \in Task : records[t] # None}
  /\ loaded' = [t \in {} |-> None]
  /\ UNCHANGED <<records, invocation, due>>

Read(t) ==
  /\ t \in listed /\ listed' = listed \ {t}
  /\ loaded' = [u \in DOMAIN loaded \cup {t} |-> IF u = t THEN records[t] ELSE loaded[u]]
  /\ UNCHANGED <<records, invocation, due>>

Forget ==
  /\ listed = {} /\ loaded' = [t \in {} |-> None]
  /\ UNCHANGED <<records, invocation, due, listed>>

Next == \/ Invoke("resume") \/ Invoke("rerun") \/ Close
        \/ \E t \in Task : Publish(t) \/ Forgo(t) \/ Read(t)
        \/ List \/ Forget

Spec == Init /\ [][Next]_vars
=============================================================================
