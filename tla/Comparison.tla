----------------------------- MODULE Comparison -----------------------------
(***************************************************************************)
(* ivf compare: what changed between an earlier run and a later one, from  *)
(* the records the two left behind (compare.py).  An experiment is run     *)
(* (module Experiment), its record kept, another one is run, and the two   *)
(* records are compared.                                                   *)
(*                                                                         *)
(* A record has what the comparison reads: the manifest, the checks, the   *)
(* outcomes in manifest order, the verdict and the reason codes.  Versions,*)
(* hardware and metrics are listed for information and change nothing.     *)
(***************************************************************************)
EXTENDS Experiment

CONSTANT Repeatable  \* the experiments that are run again or followed by another one

ASSUME ComparedAssumption == Repeatable \subseteq Experiments

VARIABLES
  earlier,  \* the record of the first run, or None
  report    \* the comparison, or None

comparisonVars == <<vars, earlier, report>>

RecordOf ==
  [manifest |-> M, checks |-> checks, outcomes |-> outcomes, verdict |-> verdict,
   reasons |-> reasons]

\* What validate() records when it cannot load the subjects.
CodeOfFailure ==
  [contract    |-> "IVF-BUNDLE-CONTRACT",
   unavailable |-> "IVF-RUNTIME-UNAVAILABLE",
   source      |-> "IVF-RUNTIME-EXECUTION-ERROR",
   other       |-> "IVF-RUNTIME-EXECUTION-ERROR"]

NotLoaded(m) ==
  {[manifest |-> m, checks |-> {}, outcomes |-> <<>>, verdict |-> VerdictOfFailure[f],
    reasons |-> {CodeOfFailure[f]}] : f \in Failure}

-----------------------------------------------------------------------------
(* The checks of a report, by the check_id they have in the code.            *)

\* An id of its own for every metadata control and every property of a signal; one
\* id for both roles of V-11, for all signals, all oracles, all partitioned controls.
CheckId(k) ==
  CASE k.id = "V-METADATA" -> <<k.id, k.about[2]>>
    [] k.id = "V-SIGNAL"   -> <<k.id, k.about[3]>>
    [] OTHER               -> <<k.id, "">>

Ids(checklist) == {CheckId(k) : k \in checklist}

Position(name) == CHOOSE i \in DOMAIN SortedNames : SortedNames[i] = name

\* The order of checks with one id in the report: the candidate after the baseline,
\* signals by name, oracles by their signal and then as declared.
Later(m, k, l) ==
  LET at(i) == Position(m.oracles[i].signal)
  IN  CASE k.id = "V-11"     -> k.about[2] = "candidate" /\ l.about[2] = "baseline"
        [] k.id = "V-SIGNAL" -> Position(k.about[2]) > Position(l.about[2])
        [] k.id = "V-TOLERANCE-UNIT" ->
             \/ at(k.about[2]) > at(l.about[2])
             \/ at(k.about[2]) = at(l.about[2]) /\ k.about[2] > l.about[2]
        [] OTHER -> FALSE

\* {c["check_id"]: c for c in checks}: of several checks with one id the last is kept.
StatusUnder(r, id) ==
  LET filed == {k \in r.checks : CheckId(k) = id}
      last  == CHOOSE k \in filed : \A l \in filed : ~Later(r.manifest, l, k)
  IN  IF filed = {} THEN None ELSE last.status

-----------------------------------------------------------------------------
(* compare_bundles(a, b)                                                     *)

\* A comparison that takes every failing check for a new failure.
NewlyFailing_Any(a, b) ==
  {id \in Ids(a.checks) \cap Ids(b.checks) : StatusUnder(b, id) = "fail"}

NewlyFailing(a, b) ==
  {id \in Ids(a.checks) \cap Ids(b.checks) :
     StatusUnder(a, id) # "fail" /\ StatusUnder(b, id) = "fail"}

ValidatorChanges(a, b) ==
  {id \in Ids(a.checks) \cup Ids(b.checks) : StatusUnder(a, id) # StatusUnder(b, id)}

\* An outcome carries its tolerance unless the oracle has none, raised, or is unknown.
Ungated == {"exact_equivalence", "action_replay_consumption",
            "observation_definition_stability", "required_features"}

ToleranceOf(r, i) ==
  IF \/ r.manifest.oracles[i].type \in Ungated
     \/ r.outcomes[i].code \in {"IVF-RUNTIME-EXECUTION-ERROR", "IVF-ORACLE-UNKNOWN"}
    THEN None
    ELSE LET spec == r.manifest.oracles[i]
         IN  IF spec.tol = None THEN None
             ELSE [value |-> spec.tol, unit |-> spec.unit, how |-> spec.how, floor |-> spec.floor]

\* Oracles added, removed, with another status or another tolerance.  The name of an
\* oracle is its place in the manifest here.
OracleChanges(a, b) ==
  LET both == DOMAIN a.outcomes \cap DOMAIN b.outcomes
  IN  {<<"missing", i>> : i \in (DOMAIN a.outcomes \cup DOMAIN b.outcomes) \ both}
      \cup {<<"status", i>>    : i \in {j \in both : a.outcomes[j].status # b.outcomes[j].status}}
      \cup {<<"tolerance", i>> : i \in {j \in both : ToleranceOf(a, j) # ToleranceOf(b, j)}}

\* doubts: which sides fail verify(), and whether the names of the experiments differ.
Doubts == {"baseline", "candidate", "experiment"}

\* New and resolved codes taken the wrong way round.
NewCodes_Swapped(a, b) == a.reasons \ b.reasons

NewCodes(a, b) == b.reasons \ a.reasons

\* ComparisonReport.changed that does not look at the oracles.
Changed_NoOracles(a, b, doubts) ==
  \/ a.verdict # b.verdict
  \/ NewCodes(a, b) # {} \/ NewCodes(b, a) # {}
  \/ a.manifest # b.manifest
  \/ ValidatorChanges(a, b) # {}
  \/ doubts # {}

\* ComparisonReport.changed
Changed(a, b, doubts) ==
  \/ a.verdict # b.verdict
  \/ NewCodes(a, b) # {} \/ NewCodes(b, a) # {}
  \/ a.manifest # b.manifest
  \/ ValidatorChanges(a, b) # {}
  \/ OracleChanges(a, b) # {}
  \/ doubts # {}

\* The report, and the exit status of compare --fail-on-change.
CompareBundles(a, b, doubts) ==
  [later        |-> b,
   comparable   |-> doubts = {},
   changed      |-> Changed(a, b, doubts),
   newCodes     |-> NewCodes(a, b),
   resolved     |-> NewCodes(b, a),
   newlyFailing |-> NewlyFailing(a, b),
   status       |-> IF doubts # {} THEN 4 ELSE IF Changed(a, b, doubts) THEN 1 ELSE 0]

-----------------------------------------------------------------------------
ComparisonInit == Init /\ earlier = None /\ report = None

RunExperiment == Next /\ UNCHANGED <<earlier, report>>

\* The run's record is what it decided, or that nothing could be loaded; then another
\* experiment is run.
Keep ==
  /\ earlier = None
  /\ experiment \in Repeatable
  /\ \/ Decided /\ earlier' = RecordOf
     \/ stage = "loaded" /\ earlier' \in NotLoaded(M)
  /\ experiment' \in Repeatable
  /\ stage'    = "loaded"
  /\ checks'   = {}
  /\ outcomes' = <<>>
  /\ verdict'  = None
  /\ reasons'  = {}
  /\ UNCHANGED report

Compare ==
  /\ earlier # None /\ report = None
  /\ \E doubts \in SUBSET Doubts :
       \/ Decided /\ report' = CompareBundles(earlier, RecordOf, doubts)
       \/ stage = "loaded" /\ \E b \in NotLoaded(M) : report' = CompareBundles(earlier, b, doubts)
  /\ UNCHANGED <<vars, earlier>>

ComparisonNext == RunExperiment \/ Keep \/ Compare

ComparisonSpec == ComparisonInit /\ [][ComparisonNext]_comparisonVars

-----------------------------------------------------------------------------
(* Properties.                                                               *)

\* Type correctness of the runs and their comparison.
ComparisonTypeOK ==
  /\ TypeOK
  /\ earlier # None => earlier.verdict \in Verdict
  /\ report # None => earlier # None /\ report.status \in {0, 1, 4}

\* "No material differences" is true of what matters: then the verdict, the reasons,
\* the manifest, whether the experiment was valid at all, and what every oracle found
\* are the same in both runs, although checks that share an id hide one another
\* (compare_bundles, ComparisonReport.changed).
UnchangedMeansSame ==
  report # None /\ ~report.changed =>
    LET a == earlier
        b == report.later
    IN  /\ a.verdict = b.verdict /\ a.reasons = b.reasons /\ a.manifest = b.manifest
        /\ Valid(a.checks) = Valid(b.checks)
        /\ DOMAIN a.outcomes = DOMAIN b.outcomes
        /\ \A i \in DOMAIN a.outcomes : a.outcomes[i].status = b.outcomes[i].status

\* An experiment that stopped being valid says why: every check that fails in the later
\* run of a manifest that was valid before is among the newly failing ones or its code
\* is among the new ones (compare_bundles).
FreshFailureIsNamed ==
  report # None /\ earlier.manifest = report.later.manifest /\ Valid(earlier.checks) =>
    \A k \in Failures(report.later.checks) :
      k.code \in report.newCodes \/ CheckId(k) \in report.newlyFailing

\* A comparison has no preferred direction: exchanging the bundles exchanges the new
\* and the resolved codes and finds the same changes; and a check that newly fails one
\* way does not newly fail the other (compare_bundles).
ComparisonIsMirrored ==
  report # None /\ report.comparable =>
    LET back == CompareBundles(report.later, earlier, {})
    IN  /\ back.newCodes = report.resolved /\ back.resolved = report.newCodes
        /\ back.status = report.status
        /\ back.newlyFailing \cap report.newlyFailing = {}
=============================================================================
