----------------------------- MODULE Experiment -----------------------------
(***************************************************************************)
(* One experiment inside validate(), after both subjects are loaded: the   *)
(* validity checks, the declared oracles one after the other, and the      *)
(* verdict (runner.py).  Module Runner has what surrounds it: the claim of *)
(* a directory, failures and the evidence written.                         *)
(***************************************************************************)
EXTENDS Validity

CONSTANTS
  Experiments,    \* a manifest and the two subjects it compares
  WeakIdentities  \* what _asset_identity() makes of a scenario and its joints, without hashes

ASSUME WeakAssumption == None \notin WeakIdentities

\* normalize_unit() makes of a unit a word, whatever the unit is.
UnitsAreNamed(s) ==
  \A n \in DOMAIN s.signals :
    s.contract[n]["unit"] # None => s.contract[n]["unit"].dimension # None

\* A subject has a signal, and its arrays are rectangular.  The legacy loader does not
\* ask the arrays of one subject to have as many steps, or environments, as each other.
Rectangular(s) ==
  /\ DOMAIN s.signals # {}
  /\ \A n \in DOMAIN s.signals :
       LET a == s.signals[n]
       IN  /\ a.envs \in Nat
           /\ a.rows \in Seq(Range(a.rows))
           /\ \A t \in DOMAIN a.rows : DOMAIN a.rows[t] = Envs(a)

ASSUME ExperimentAssumption ==
  \A x \in Experiments :
    /\ WellFormed(x.manifest)
    /\ \A s \in {x.baseline, x.candidate} : UnitsAreNamed(s) /\ Rectangular(s)

\* What the parser lets through of a criterion, of the aggregations that are modelled.
CriterionIsDeclared(spec) ==
  /\ spec.tol # None => spec.tol \in Nat /\ spec.floor \in Nat \ {0}
  /\ spec.how \in {"max", "any", "second_largest", "all", "final"}
  /\ spec.type = "invariant" => spec.signals \in Seq(Range(spec.signals))

\* An array holds numbers.
Numeric(s) ==
  \A n \in DOMAIN s.signals :
    LET a == s.signals[n]
    IN  \A t \in DOMAIN a.rows : a.rows[t] \in [Envs(a) -> Int \cup {NaN}]

ASSUME NumericAssumption ==
  \A x \in Experiments :
    /\ \A i \in DOMAIN x.manifest.oracles : CriterionIsDeclared(x.manifest.oracles[i])
    /\ \A s \in {x.baseline, x.candidate} : Numeric(s)

\* Every signal has its place in the alphabetical order.
ASSUME SortedAssumption ==
  /\ SortedNames \in Seq(Range(SortedNames))
  /\ \A x \in Experiments : \A s \in {x.baseline, x.candidate} :
       "signals" \in DOMAIN s /\ DOMAIN s.signals \subseteq Range(SortedNames)

VARIABLES
  experiment,  \* the manifest, the baseline and the candidate
  stage,       \* "loaded", "checked" or "decided"
  checks,      \* the validity report
  outcomes,    \* of the oracles run so far, in manifest order
  verdict,
  reasons      \* the reason codes of the verdict

vars == <<experiment, stage, checks, outcomes, verdict, reasons>>

M == experiment.manifest
B == experiment.baseline
C == experiment.candidate

Init ==
  /\ experiment \in Experiments
  /\ stage      = "loaded"
  /\ checks     = {}
  /\ outcomes   = <<>>
  /\ verdict    = None
  /\ reasons    = {}

Check ==
  /\ stage = "loaded"
  /\ stage'  = "checked"
  /\ checks' = CheckExperiment(M, B, C)
  /\ UNCHANGED <<experiment, outcomes, verdict, reasons>>

\* The oracles validate() runs: none on an invalid experiment, whatever the policy.
Declared(m, report) == IF Valid(report) THEN m.oracles ELSE <<>>

\* The next oracle of the manifest, on the subjects after the warm-up.
RunOracle ==
  /\ stage = "checked"
  /\ Len(outcomes) < Len(Declared(M, checks))
  /\ \E o \in OutcomesOf(M.oracles[Len(outcomes) + 1], B, C, Warmup(M)) :
       outcomes' = Append(outcomes, o)
  /\ UNCHANGED <<experiment, stage, checks, verdict, reasons>>

Statuses == {outcomes[i].status : i \in DOMAIN outcomes}

\* Reasons taken from failures only.
DecidedReasons_FailuresOnly(policy) ==
  ReasonCodes(checks) \cup
    {outcomes[i].code : i \in {j \in DOMAIN outcomes : outcomes[j].status = "fail"}}

\* The codes decide() collects: of the failed checks, and of the outcomes that are
\* neither passed nor skipped.
DecidedReasons(policy) ==
  LET refused == ~Valid(checks) /\ policy.invalidOnViolation
      named   == {outcomes[i].code : i \in {j \in DOMAIN outcomes :
                    outcomes[j].status \in {"fail", "unsupported", "inconclusive"}}}
  IN  IF refused THEN ReasonCodes(checks)
      ELSE ReasonCodes(checks) \cup named \cup
             (IF Statuses = {"skipped"} THEN {"IVF-SAMPLE-INSUFFICIENT"} ELSE {})

DecideVerdict ==
  /\ stage = "checked"
  /\ Len(outcomes) = Len(Declared(M, checks))
  /\ stage'   = "decided"
  /\ verdict' = Decide(M.policy, Valid(checks), Statuses)
  /\ reasons' = DecidedReasons(M.policy)
  /\ UNCHANGED <<experiment, checks, outcomes>>

Next == Check \/ RunOracle \/ DecideVerdict

Spec == Init /\ [][Next]_vars

Decided == stage = "decided"

-----------------------------------------------------------------------------
(* Properties of the pipeline.                                               *)

\* The most steps, and the most environments, that an array of either subject has.
BothArrays == Range(B.signals) \cup Range(C.signals)
MostSteps  == Max({Steps(a) : a \in BothArrays})
MostEnvs   == Max({a.envs : a \in BothArrays})

\* Type correctness: a verdict and its reasons exist from the decision on, and the
\* outcomes are a prefix of what the manifest declares.
TypeOK ==
  /\ stage \in {"loaded", "checked", "decided"}
  /\ \A k \in checks : k.status \in {"pass", "fail", "unverifiable", "not_applicable"}
  /\ Len(outcomes) <= Len(M.oracles)
  /\ \A i \in DOMAIN outcomes :
       /\ outcomes[i].status \in Status
       /\ outcomes[i].record.class \in Classifications \cup {"none", "task_level_regression"}
       /\ outcomes[i].record.step \in 0..MostSteps
       /\ outcomes[i].record.envs \subseteq 1..MostEnvs
  /\ verdict \in IF Decided THEN Verdict \ {"ERROR"} ELSE {None}

\* What a subject carries of a control, None when it carries nothing.
Recorded(s, control) ==
  CASE control \in DOMAIN MetadataKey -> s.meta[MetadataKey[control]]
    [] control = "action_sequence" -> s.actions
    [] control = "observation_definition" -> ObservationDefinition(s)
    [] control = "num_envs" -> NumEnvs(s)
    [] control = "horizon" -> Horizon(s)
    [] control = "solver_specific_parameters" -> s.meta["solver_settings"]

Agree(x, y) == None \in {x, y} \/ x = y

\* Scientific verdicts are about comparable subjects: under the default policy,
\* PASS, FAIL, INCONCLUSIVE and UNSUPPORTED are only ever reached when no required
\* control, timestep, or declared unit, frame or dtype of a judged signal is recorded
\* differently by the two subjects, and both ran the whole declared workload
\* (check_experiment, decide).
ScienceIsComparable ==
  Decided /\ M.policy.invalidOnViolation /\ verdict # "INVALID_EXPERIMENT" =>
    /\ \A k \in M.same : Agree(Recorded(B, k), Recorded(C, k))
    /\ Agree(B.meta["physics_dt"], C.meta["physics_dt"])
    /\ \A n \in Shared(M, B, C), p \in Properties :
         Agree(Normalized(p, B.contract[n][p]), Normalized(p, C.contract[n][p]))
    /\ \A s \in {B, C} : s.complete /\ Horizon(s) >= M.workload.steps
    /\ B.signals = C.signals => M.mode = "identity_check"

\* A subject is known by the name and number of joints that _asset_identity() writes
\* for an asset of which it has no hash.
NamedOnly(s) == s.meta["asset_identity"] \in WeakIdentities

\* A subject vouches for a control.
Vouched(s, control) ==
  Recorded(s, control) # None /\ (control = "asset_identity" => ~NamedOnly(s))

About(k) == {check \in checks : check.about = <<"control", k>>}

\* What cannot be established is said so: every control the manifest requires, and
\* every one it sets aside, has checks of its own in the report of a decided run.  One
\* that is set aside has a check that says unverifiable.  Of one that is required,
\* every check says unverifiable when a subject carries nothing, and none is passed
\* unless both carry the same and vouch for it - but for two assets known by the same
\* name only, which the code reports as matched although _asset_identity() is written
\* for them to be unverifiable (check_experiment: absence of evidence must not read as
\* agreement).
NothingIsAssumed ==
  Decided =>
    /\ \A k \in M.unverifiable : \E check \in About(k) : check.status = "unverifiable"
    /\ \A k \in M.same : About(k) # {} /\ \A check \in About(k) :
         /\ check.status = "unverifiable" <=> None \in {Recorded(B, k), Recorded(C, k)}
         /\ check.status = "pass" =>
              /\ Recorded(B, k) = Recorded(C, k)
              /\ \/ Vouched(B, k) /\ Vouched(C, k)
                 \/ k = "asset_identity" /\ NamedOnly(B) /\ NamedOnly(C)

\* Judged data exists.  Of a signal as long as the one its subject is measured by, as
\* every signal of a v1 bundle is, an oracle sees the whole declared horizon minus the
\* warm-up, and never an empty window.  A legacy bundle may hold a shorter signal,
\* nothing of which need be left: no criterion with a tolerance passes on that, while
\* exact equality and the invariants hold of nothing (workload parsing, V-11 and
\* signal_pair together with the oracles' own refusals).
WindowIsNotEmpty ==
  /\ outcomes # <<>> =>
       \A s \in {B, C} : \A n \in DOMAIN s.signals :
         LET window == Steps(Trim(s.signals[n], Warmup(M)))
         IN  Steps(s.signals[n]) >= Horizon(s) =>
               window >= 1 /\ (Warmup(M) >= 0 => window >= M.workload.steps - Warmup(M))
  /\ \A i \in DOMAIN outcomes :
       outcomes[i].status = "pass" /\ M.oracles[i].type \in Gated =>
         \A s \in {B, C} : Steps(Trim(s.signals[M.oracles[i].signal], Warmup(M))) >= 1

\* Roles do not decide validity: with the units declared on both sides, exchanging
\* baseline and candidate turns no valid experiment into a refused one or back.
DeclaresUnits(s) == \A n \in DOMAIN s.signals : s.contract[n]["unit"] # None

RolesAreExchangeable ==
  Decided /\ DeclaresUnits(B) /\ DeclaresUnits(C) =>
    Valid(checks) = Valid(CheckExperiment(M, C, B))

\* Every verdict short of PASS is explained: it carries at least one reason code, and
\* a PASS under the default policy carries none (decide, the codes of the oracles).
ReasonsExplain ==
  Decided =>
    /\ verdict # "PASS" => reasons # {} /\ "none" \notin reasons
    /\ verdict = "PASS" /\ M.policy.invalidOnViolation => reasons = {}
=============================================================================
