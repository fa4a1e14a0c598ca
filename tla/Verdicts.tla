------------------------------ MODULE Verdicts ------------------------------
(***************************************************************************)
(* The verdict vocabulary and the rule that rolls experiment validity and  *)
(* oracle outcomes up into one verdict (verdicts.py, runner.py decide).    *)
(* Only the part of an oracle outcome that the rule reads is kept: the set *)
(* of statuses that occur among the outcomes.                              *)
(***************************************************************************)
EXTENDS Naturals

Verdict ==
  {"PASS", "FAIL", "INCONCLUSIVE", "UNSUPPORTED", "INVALID_EXPERIMENT", "ERROR"}

ExitCode ==
  [PASS |-> 0, FAIL |-> 1, INCONCLUSIVE |-> 2, UNSUPPORTED |-> 3,
   INVALID_EXPERIMENT |-> 4, ERROR |-> 5]

\* What an oracle may report.
Status == {"pass", "fail", "inconclusive", "unsupported", "skipped"}

\* The two knobs of verdict_policy that decide() consults.
Policy == [invalidOnViolation : BOOLEAN, unsupportedIsFailure : BOOLEAN]

DefaultPolicy == [invalidOnViolation |-> TRUE, unsupportedIsFailure |-> FALSE]

\* A roll-up that reports an undecided oracle as an infrastructure error.
Decide_UndecidedIsError(policy, valid, statuses) ==
  IF ~valid /\ policy.invalidOnViolation THEN "INVALID_EXPERIMENT"
  ELSE IF "fail" \in statuses THEN "FAIL"
  ELSE IF "inconclusive" \in statuses THEN "ERROR"
  ELSE "PASS"

\* The early returns of decide(), in their order. "statuses and all skipped" is
\* statuses = {"skipped"}; an empty list falls through to the last return.
Decide(policy, valid, statuses) ==
  IF ~valid /\ policy.invalidOnViolation THEN "INVALID_EXPERIMENT"
  ELSE IF "fail" \in statuses THEN "FAIL"
  ELSE IF "unsupported" \in statuses
       THEN IF policy.unsupportedIsFailure THEN "FAIL" ELSE "UNSUPPORTED"
  ELSE IF "inconclusive" \in statuses THEN "INCONCLUSIVE"
  ELSE IF statuses = {"skipped"} THEN "INCONCLUSIVE"
  ELSE "PASS"

\* How the exceptions validate() catches while it loads and checks become a verdict.
Failure == {"contract", "unavailable", "source", "other"}

VerdictOfFailure ==
  [contract    |-> "INVALID_EXPERIMENT",   \* BundleContractError
   unavailable |-> "UNSUPPORTED",          \* RuntimeUnavailable
   source      |-> "ERROR",                \* SignalSourceError
   other       |-> "ERROR"]                \* any other Exception
=============================================================================
