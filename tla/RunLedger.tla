----------------------------- MODULE RunLedger -----------------------------
(***************************************************************************)
(* What the results root promises, without a file in sight: a ledger with  *)
(* one holder per run id, in which a record is made once, by the holder,   *)
(* and never changes, and a run answers a verdict it recorded or ERROR.    *)
(***************************************************************************)
CONSTANTS Runs, RunId, Verdict, None

VARIABLES
  holder,   \* the run that owns a run id, or None
  record,   \* the verdict on record under a run id, or None
  answer    \* what a run told its caller, or None

vars == <<holder, record, answer>>

Init ==
  /\ holder = [i \in RunId |-> None]
  /\ record = [i \in RunId |-> None]
  /\ answer = [p \in Runs |-> None]

\* A run takes an id nobody holds, and only one.
Take(p, i) ==
  /\ holder[i] = None
  /\ \A j \in RunId : holder[j] # p
  /\ holder' = [holder EXCEPT ![i] = p]
  /\ UNCHANGED <<record, answer>>

\* The holder enters its verdict, once, before it answers.
Enter(p, i, v) ==
  /\ holder[i] = p
  /\ record[i] = None
  /\ answer[p] = None
  /\ record' = [record EXCEPT ![i] = v]
  /\ UNCHANGED <<holder, answer>>

\* A run answers what it has on record, or reports an infrastructure failure.
Answer(p, v) ==
  /\ answer[p] = None
  /\ v = "ERROR" \/ \E i \in RunId : holder[i] = p /\ record[i] = v
  /\ answer' = [answer EXCEPT ![p] = v]
  /\ UNCHANGED <<holder, record>>

Next ==
  \/ \E p \in Runs, i \in RunId : Take(p, i)
  \/ \E p \in Runs, i \in RunId, v \in Verdict : Enter(p, i, v)
  \/ \E p \in Runs, v \in Verdict : Answer(p, v)

Spec == Init /\ [][Next]_vars
=============================================================================
