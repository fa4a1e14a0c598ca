------------------------------ MODULE Validity ------------------------------
(***************************************************************************)
(* Whether two subjects may be compared at all: the declared controls, the *)
(* protocol checks, the signal contracts and the refusal of a subject      *)
(* compared with itself (validity.py, signal_contract.py).                 *)
(*                                                                         *)
(* Besides what the oracles see, a subject has                             *)
(*   complete : whether the run finished                                   *)
(*   contract : per signal, the unit, frame and dtype it declares          *)
(* and a manifest has controls (three disjoint sets), a workload, oracles, *)
(* a verdict policy and an experiment mode.  A unit is its dimension and   *)
(* the prose after it, which normalize_unit() drops.                       *)
(***************************************************************************)
EXTENDS Oracles, Verdicts, SequencesExt

CONSTANT MixedDimensions  \* dimensions that name more than one unit, as "rad and m" does

Properties == {"unit", "frame", "dtype"}

\* Controls compared by the metadata value recorded under a key.
MetadataKey ==
  [asset_identity             |-> "asset_identity",
   initial_state_distribution |-> "initial_state_digest",
   control_frequency          |-> "control_frequency_hz",
   seeds                      |-> "seed",
   task_variant               |-> "task_variant",
   frame_convention           |-> "frame_convention",
   quaternion_convention      |-> "quaternion_convention",
   reset_semantics            |-> "reset_semantics",
   environment_ordering       |-> "environment_ordering",
   action_timing              |-> "action_timing"]

MetaKeys == Range(MetadataKey) \cup {"solver_settings", "physics_dt"}

UnverifiableOnly ==
  {"asset_binary_identity", "initial_state_realization", "backend_internal_state"}

KnownControls ==
  DOMAIN MetadataKey \cup UnverifiableOnly \cup
  {"action_sequence", "observation_definition", "num_envs", "horizon",
   "solver_specific_parameters"}

\* What an entry of manifest.oracles has; what its type does not use is None.
SpecFields ==
  {"type", "signal", "signals", "tol", "floor", "how", "unit", "kind", "mme", "threshold",
   "condition", "polarity", "features", "summary", "check", "lower", "upper"}

\* What the parser lets through (manifest.py): the warm-up may be negative.
WellFormed(m) ==
  /\ m.workload.steps \in Nat \ {0}
  /\ \/ m.workload.warmup = None
     \/ m.workload.warmup \in Int /\ m.workload.warmup < m.workload.steps
  /\ m.oracles \in Seq(Range(m.oracles)) /\ Len(m.oracles) >= 1
  /\ \A i \in DOMAIN m.oracles :
       /\ SpecFields \subseteq DOMAIN m.oracles[i]
       /\ m.oracles[i].tol = None \/ (m.oracles[i].tol >= 0 /\ m.oracles[i].floor >= 1)
  /\ m.same \cup m.allowed \cup m.unverifiable \subseteq KnownControls
  /\ (m.same \cup m.allowed) \cap UnverifiableOnly = {}
  /\ m.same \cap (m.allowed \cup m.unverifiable) = {} /\ m.allowed \cap m.unverifiable = {}

Warmup(m) == IF m.workload.warmup = None THEN 0 ELSE m.workload.warmup

\* What a failed check is reported with.
CheckCodes ==
  {"IVF-CONTROL-METADATA-MISMATCH", "IVF-CONTROL-ACTION-SEQUENCE-MISMATCH",
   "IVF-CONTROL-OBSERVATION-DEFINITION-MISMATCH", "IVF-CONTROL-ENV-COUNT-MISMATCH",
   "IVF-CONTROL-HORIZON-MISMATCH", "IVF-CONTROL-SOLVER-PRESENTED-AS-EQUIVALENT",
   "IVF-PROTOCOL-PARTIAL-RUN", "IVF-CONTROL-CONTROL-FREQUENCY-MISMATCH",
   "IVF-CONTROL-SIGNAL-MISMATCH", "IVF-CONTROL-TOLERANCE-UNIT-MISMATCH",
   "IVF-EXPERIMENT-IDENTITY-MODE-SUBJECTS-DIFFER", "IVF-EXPERIMENT-SELF-COMPARISON"}

ASSUME CodeAssumption == None \notin CheckCodes

-----------------------------------------------------------------------------
(* Checks.  "about" says what a check is of, as its name does in the code.   *)

ValidityCheck(id, about, status, code) ==
  [id |-> id, about |-> about, status |-> status, code |-> code]

\* A comparison that takes a missing value for a match.
Compared_Lenient(a, b) == IF None \in {a, b} \/ a = b THEN "pass" ELSE "fail"

\* The three outcomes of comparing two recorded values.
Compared(a, b) ==
  IF None \in {a, b} THEN "unverifiable" ELSE IF a = b THEN "pass" ELSE "fail"

CodeIf(status, code) == IF status = "fail" THEN code ELSE None

Comparison(id, about, a, b, code) ==
  ValidityCheck(id, about, Compared(a, b), CodeIf(Compared(a, b), code))

PartitionChecks(m) ==
  {ValidityCheck("V-UNVERIFIABLE", <<"control", k>>, "unverifiable", None) : k \in m.unverifiable}

\* One reason code stands for those of the table _CONTROL_CHECKS.
MetadataChecks(m, b, c) ==
  {Comparison("V-METADATA", <<"control", k>>, b.meta[MetadataKey[k]], c.meta[MetadataKey[k]],
              "IVF-CONTROL-METADATA-MISMATCH") : k \in m.same \cap DOMAIN MetadataKey}

\* Environment counts are checked for three controls, the others for their own.
StructureChecks(m, b, c) ==
  LET When(condition, check) == IF condition THEN {check} ELSE {}
  IN  When("action_sequence" \in m.same,
           Comparison("V-02", <<"control", "action_sequence">>, b.actions, c.actions,
                      "IVF-CONTROL-ACTION-SEQUENCE-MISMATCH"))
      \cup
      When("observation_definition" \in m.same,
           Comparison("V-04", <<"control", "observation_definition">>, ObservationDefinition(b),
                      ObservationDefinition(c), "IVF-CONTROL-OBSERVATION-DEFINITION-MISMATCH"))
      \cup
      When(m.same \cap {"num_envs", "action_sequence", "seeds"} # {},
           Comparison("V-07", <<"control", "num_envs">>, NumEnvs(b), NumEnvs(c),
                      "IVF-CONTROL-ENV-COUNT-MISMATCH"))
      \cup
      When("horizon" \in m.same,
           Comparison("V-08", <<"control", "horizon">>, Horizon(b), Horizon(c),
                      "IVF-CONTROL-HORIZON-MISMATCH"))

SolverChecks(m, b, c) ==
  LET x == b.meta["solver_settings"]
      y == c.meta["solver_settings"]
      solver == "solver_specific_parameters"
  IN  IF solver \in m.same
        THEN {Comparison("V-10", <<"control", solver>>, x, y,
                         "IVF-CONTROL-SOLVER-PRESENTED-AS-EQUIVALENT")}
      ELSE IF solver \in m.allowed
        THEN {ValidityCheck("V-10", <<"control", solver>>,
                IF None \in {x, y} THEN "unverifiable" ELSE "not_applicable", None)}
      ELSE {}

\* A run that is marked complete counts, however few steps it has.
WholeRun_Marked(m, s) == s.complete

WholeRun(m, s) == s.complete /\ Horizon(s) >= m.workload.steps

\* One V-11 per role, the warm-up, and the physics timestep: always on.
ProtocolChecks(m, b, c) ==
  LET run == [baseline |-> b, candidate |-> c]
      Status11(r) == IF WholeRun(m, run[r]) THEN "pass" ELSE "fail"
  IN  {ValidityCheck("V-11", <<"protocol", r>>, Status11(r),
                     CodeIf(Status11(r), "IVF-PROTOCOL-PARTIAL-RUN")) : r \in DOMAIN run}
      \cup
      {ValidityCheck("V-12", <<"protocol", "warmup">>,
         IF m.workload.warmup = None THEN "unverifiable" ELSE "pass", None)}
      \cup
      {Comparison("V-13", <<"protocol", "physics_dt">>, b.meta["physics_dt"],
                  c.meta["physics_dt"], "IVF-CONTROL-CONTROL-FREQUENCY-MISMATCH")}

-----------------------------------------------------------------------------
(* Signal contracts: never opt-in, for every signal an oracle consumes.      *)

\* _signals_consumed.  An invariant over all shared signals names none, and
\* consumes none here.
Consumed(m) ==
  UNION {({m.oracles[i].signal} \ {None}) \cup Range(m.oracles[i].signals) :
           i \in DOMAIN m.oracles}

\* normalize_unit: what is compared of a declared value.
Normalized(property, v) == IF property = "unit" /\ v # None THEN v.dimension ELSE v

Shared(m, b, c) == Consumed(m) \cap DOMAIN b.signals \cap DOMAIN c.signals

\* Contracts that leave the unit to the tolerance check.
PropertyChecks_NoUnit(m, b, c) ==
  {Comparison("V-SIGNAL", <<"signal", n, p>>, Normalized(p, b.contract[n][p]),
              Normalized(p, c.contract[n][p]), "IVF-CONTROL-SIGNAL-MISMATCH") :
     n \in Shared(m, b, c), p \in Properties \ {"unit"}}

\* _check_property.  One code stands for the unit, frame and dtype codes.
PropertyChecks(m, b, c) ==
  {Comparison("V-SIGNAL", <<"signal", n, p>>, Normalized(p, b.contract[n][p]),
              Normalized(p, c.contract[n][p]), "IVF-CONTROL-SIGNAL-MISMATCH") :
     n \in Shared(m, b, c), p \in Properties}

Dimensionless ==
  {"steps", "fraction", "ulp", "dimensionless", "relative", "ratio", "percent", "count"}

ScalarReducing == {"trajectory_equivalence", "statistical_equivalence"}

\* _check_tolerance_units, for one oracle: against the unit the baseline declares.
ToleranceStatus(spec, unit) ==
  IF unit = None THEN "unverifiable"
  ELSE IF unit.dimension \in MixedDimensions /\ spec.type \in ScalarReducing THEN "fail"
  ELSE IF spec.unit \in Dimensionless \cup {unit.dimension} THEN "pass"
  ELSE "fail"

\* The code of a mixed unit is that of any unsuitable tolerance here.
ToleranceChecks(m, b, c) ==
  {LET spec   == m.oracles[i]
       status == ToleranceStatus(spec, b.contract[spec.signal]["unit"])
   IN  ValidityCheck("V-TOLERANCE-UNIT", <<"oracle", i>>, status,
                     CodeIf(status, "IVF-CONTROL-TOLERANCE-UNIT-MISMATCH")) :
     i \in {j \in DOMAIN m.oracles :
              m.oracles[j].tol # None /\ m.oracles[j].signal \in Shared(m, b, c)}}

-----------------------------------------------------------------------------
\* content_digest: names and bytes of the arrays, row after row; not their shapes.
ContentDigest(s) == [n \in DOMAIN s.signals |-> FlattenSeq(s.signals[n].rows)]

\* _check_self_comparison
SelfComparison(m, b, c) ==
  LET same     == ContentDigest(b) = ContentDigest(c)
      declared == m.mode = "identity_check"
      V19(status, code) == ValidityCheck("V-19", <<"protocol", "content">>, status, code)
  IN  IF ~same /\ declared
        THEN V19("fail", "IVF-EXPERIMENT-IDENTITY-MODE-SUBJECTS-DIFFER")
      ELSE IF ~same    THEN V19("pass", None)
      ELSE IF declared THEN V19("not_applicable", None)
      ELSE V19("fail", "IVF-EXPERIMENT-SELF-COMPARISON")

CheckExperiment(m, b, c) ==
  PartitionChecks(m) \cup MetadataChecks(m, b, c) \cup StructureChecks(m, b, c)
    \cup SolverChecks(m, b, c) \cup ProtocolChecks(m, b, c)
    \cup PropertyChecks(m, b, c) \cup ToleranceChecks(m, b, c)
    \cup {SelfComparison(m, b, c)}

Failures(checks)      == {k \in checks : k.status = "fail"}
Valid(checks)         == Failures(checks) = {}
ReasonCodes(checks)   == {k.code : k \in Failures(checks)} \ {None}
=============================================================================
