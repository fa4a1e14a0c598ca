---------------------------- MODULE Calibration -----------------------------
(***************************************************************************)
(* ivf calibrate: every fault of the taxonomy, for every seed, is put into *)
(* the candidate of a base experiment, which is run like any other (module *)
(* Experiment); whether and where it was flagged makes up the              *)
(* detectability matrix (calibration.py).                                  *)
(***************************************************************************)
EXTENDS Experiment, Faults

CONSTANTS
  Campaigns,  \* a base manifest, the parameters of its pendulum and the seeds
  MaxErrors   \* bound on the trials of a campaign that the environment breaks

\* One experiment of a campaign.
ArrayPreserving == {"none", "corrupted_metadata", "unsupported_feature_misreported"}

\* An injection that leaves the mode of the base manifest alone.
InjectIntoManifest_SameMode(m, fault) == m

\* _inject_into_manifest
InjectIntoManifest(m, fault) ==
  IF fault \in ArrayPreserving THEN [m EXCEPT !.mode = "identity_check"] ELSE m

TrialExperiment(c, fault, seed) ==
  [manifest  |-> InjectIntoManifest(c.manifest, fault),
   baseline  |-> LoadSynthetic("none", c.params, seed),
   candidate |-> LoadSynthetic(fault, c.params, seed)]

ManifestFields ==
  {"same", "allowed", "unverifiable", "workload", "oracles", "policy", "mode"}

\* The arrays of a synthetic subject are those of one simulation: of one length, and of
\* as many environments.
OneShape(s) ==
  \A n \in DOMAIN s.signals :
    Steps(s.signals[n]) = Horizon(s) /\ s.signals[n].envs = NumEnvs(s)

ASSUME CampaignAssumption ==
  /\ MaxErrors \in Nat
  /\ \A c \in Campaigns : /\ ManifestFields \subseteq DOMAIN c.manifest
                           /\ c.seeds \in Seq(Range(c.seeds))
  /\ Experiments =
       UNION {{TrialExperiment(c, f, seed) : f \in FaultNames, seed \in Range(c.seeds)} :
                c \in Campaigns}
  /\ \A x \in Experiments : OneShape(x.baseline) /\ OneShape(x.candidate)

VARIABLES
  campaign,
  matrix,    \* of each trial made so far, in order: what _analyze() made of it
  errors     \* how many trials the environment broke

calibrationVars == <<vars, campaign, matrix, errors>>

Trials(c)   == Len(Taxonomy) * Len(c.seeds)
FaultOf(c, i) == Taxonomy[((i - 1) \div Len(c.seeds)) + 1]
SeedOf(c, i)  == c.seeds[((i - 1) % Len(c.seeds)) + 1]

CalibrationInit ==
  /\ campaign \in Campaigns
  /\ experiment = TrialExperiment(campaign, FaultOf(campaign, 1), SeedOf(campaign, 1))
  /\ Init
  /\ matrix = <<>>
  /\ errors = 0

Running == Len(matrix) < Trials(campaign)

\* A step of the trial that is running.
RunTrial == Running /\ Next /\ UNCHANGED <<campaign, matrix, errors>>

-----------------------------------------------------------------------------
\* An analysis that takes an error for nothing at all.
Analyze_ErrorIsNone(result, codes, valid, failing) ==
  [verdict  |-> result,
   detected |-> ~valid \/ failing \/ result \in {"INVALID_EXPERIMENT", "FAIL", "UNSUPPORTED"},
   layer    |-> IF ~valid \/ result = "INVALID_EXPERIMENT" THEN "validity"
                ELSE IF failing          THEN "oracle"
                ELSE IF result = "ERROR" THEN "runtime"
                ELSE "none",
   reasons  |-> codes]

\* _analyze
Analyze(result, codes, valid, failing) ==
  [verdict  |-> result,
   detected |-> \/ ~valid
                \/ failing
                \/ result \in {"INVALID_EXPERIMENT", "FAIL", "UNSUPPORTED", "ERROR"},
   layer    |-> IF ~valid \/ result = "INVALID_EXPERIMENT" THEN "validity"
                ELSE IF failing          THEN "oracle"
                ELSE IF result = "ERROR" THEN "runtime"
                ELSE "none",
   reasons  |-> codes]

\* The next trial starts, from a report that is empty again.
NextTrial ==
  LET i == Len(matrix') + 1
  IN  /\ experiment' = IF i <= Trials(campaign)
                         THEN TrialExperiment(campaign, FaultOf(campaign, i), SeedOf(campaign, i))
                         ELSE experiment
      /\ stage'    = "loaded"
      /\ checks'   = {}
      /\ outcomes' = <<>>
      /\ verdict'  = None
      /\ reasons'  = {}
      /\ UNCHANGED campaign

Failing == Statuses \cap {"fail", "unsupported"} # {}

\* The trial decided, and its evidence was written.
EndTrial ==
  /\ Running
  /\ Decided
  /\ matrix' = Append(matrix, Analyze(verdict, reasons, Valid(checks), Failing))
  /\ UNCHANGED errors
  /\ NextTrial

\* Its evidence could not be written: the report and the outcomes are still at hand.
LoseEvidence ==
  /\ Running /\ errors < MaxErrors
  /\ Decided
  /\ matrix' = Append(matrix, Analyze("ERROR", {"IVF-EVIDENCE-WRITE-ERROR"}, Valid(checks), Failing))
  /\ errors' = errors + 1
  /\ NextTrial

\* An exception before anything was checked, or out of an oracle: no outcomes are kept.
BreakTrial ==
  /\ Running /\ errors < MaxErrors
  /\ stage = "loaded" \/ (stage = "checked" /\ Valid(checks) /\ outcomes = <<>>)
  /\ matrix' = Append(matrix, Analyze("ERROR", {"IVF-RUNTIME-EXECUTION-ERROR"}, TRUE, FALSE))
  /\ errors' = errors + 1
  /\ NextTrial

CalibrationNext == RunTrial \/ EndTrial \/ LoseEvidence \/ BreakTrial

CalibrationSpec == CalibrationInit /\ [][CalibrationNext]_calibrationVars

-----------------------------------------------------------------------------
(* The matrix.                                                               *)

Finished == ~Running

\* The trials of one fault, by their numbers.
Row(fault) == {i \in DOMAIN matrix : FaultOf(campaign, i) = fault}

\* FaultRow.consistent
RowConsistent(fault) ==
  \A i \in Row(fault) : matrix[i].detected = (fault \notin Undetectable)

\* DetectabilityMatrix.consistent, from which the exit status of ivf calibrate is made.
Consistent == \A fault \in FaultNames : RowConsistent(fault)

-----------------------------------------------------------------------------
(* Properties.                                                               *)

Made(i) == TrialExperiment(campaign, FaultOf(campaign, i), SeedOf(campaign, i))

SameData(x)  == ContentDigest(x.baseline) = ContentDigest(x.candidate)

\* The number of the trial that was analyzed by the last step, if one was.
JustMade == IF stage = "loaded" THEN {Len(matrix)} \ {0} ELSE {}

\* Type correctness of a campaign and its trials.
CalibrationTypeOK ==
  /\ TypeOK
  /\ Len(matrix) <= Trials(campaign)
  /\ errors \in 0..MaxErrors
  /\ \A i \in DOMAIN matrix :
       /\ matrix[i].verdict \in Verdict
       /\ matrix[i].layer \in {"validity", "oracle", "runtime", "none"}
       /\ matrix[i].detected = (matrix[i].layer # "none")
       /\ matrix[i].verdict = "PASS" => matrix[i].reasons = {}

\* Credit where it is due: oracles flag a trial only if the fault has changed the data,
\* the negative control and a mere claim of a feature are flagged by nothing but an
\* error, and corrupted metadata is flagged for the metadata and not because the two
\* subjects, being the same data, were refused (_inject_into_manifest: "the
\* self-comparison veto would detect a metadata-only fault for a reason that has
\* nothing to do with the fault").
CreditIsDue ==
  \A i \in JustMade :
    LET fault == FaultOf(campaign, i)
    IN  /\ matrix[i].layer = "oracle" => ~SameData(Made(i))
        /\ fault \in Undetectable => matrix[i].layer \in {"none", "runtime"}
        /\ fault = "corrupted_metadata" /\ matrix[i].verdict = "INVALID_EXPERIMENT" =>
             matrix[i].reasons = {"IVF-CONTROL-METADATA-MISMATCH"}

\* A miss has a reason: what a trial does not flag has changed the data, stays finite,
\* and at every step of every signal an oracle judges leaves no more environments
\* beyond the tolerance than the aggregation discards (_analyze, aggregate).
MissIsBelowTolerance ==
  \A i \in JustMade :
    LET x == Made(i)
    IN  ~matrix[i].detected /\ FaultOf(campaign, i) \notin Undetectable =>
          /\ ~SameData(x)
          /\ \A j \in {k \in DOMAIN x.manifest.oracles :
                         x.manifest.oracles[k].type = "trajectory_equivalence"} :
               LET spec  == x.manifest.oracles[j]
                   curve == ErrorCurve(x.baseline.signals[spec.signal],
                                       x.candidate.signals[spec.signal])
               IN  \A t \in DOMAIN curve :
                     /\ NaN \notin Range(curve[t])
                     /\ Cardinality({e \in DOMAIN curve[t] : curve[t][e] > spec.tol}) <= 1

\* What the taxonomy claims to detect from a minimum severity on is detected from
\* there on, in the layer that is responsible: on a driven pendulum that is moving at
\* the reset, with three environments and no tolerance to hide behind, every declared
\* fault is flagged whatever the seed, and what is left to the validity layer never
\* reaches an oracle (TAXONOMY).
Severe(c) ==
  /\ c.params.drive_amplitude >= 2
  /\ c.params.initial_velocity >= 1
  /\ c.params.num_envs >= 3
  /\ \A i \in DOMAIN c.manifest.oracles : c.manifest.oracles[i].tol \in {None, 0}

SevereIsDetected ==
  Severe(campaign) =>
    \A i \in JustMade :
      LET fault == FaultOf(campaign, i)
      IN  /\ fault \notin Undetectable => matrix[i].detected
          /\ fault \in ForValidity => matrix[i].layer \in {"validity", "runtime"}
          /\ fault \notin Undetectable \cup ForValidity =>
               matrix[i].layer \in {"oracle", "runtime"}

\* An error counts as a detection, and yet a campaign in which nothing works is not
\* taken for a good one: a consistent matrix has a negative control that was judged,
\* and passed, for every seed (FaultRow.consistent, DetectabilityMatrix.consistent).
ConsistentIsEarned ==
  Finished /\ Consistent =>
    \A i \in Row("none") : matrix[i].verdict = "PASS" /\ matrix[i].layer = "none"

-----------------------------------------------------------------------------
(* Campaigns on a base experiment like the one that ships with ivf           *)
(* (validation/examples/calibration_base.yaml): what the theorems ask of it. *)

IsPendulum(k) ==
  k \in [drive_amplitude : Int, initial_velocity : Int, num_envs : Nat \ {0},
         steps : Nat \ {0}, dt : Int, gravity : Int, length : Nat \ {0}, damping : Int]

\* A criterion with enough samples on a pendulum k.
BaseCriterion(spec, k) ==
  \/ /\ spec.type = "trajectory_equivalence"
     /\ spec.signal \in Range(PendulumNames) /\ spec.tol # None
     /\ spec.how \in {"max", "any", "second_largest"}
     /\ spec.floor <= k.steps * k.num_envs
  \/ /\ spec.type = "statistical_equivalence" /\ spec.kind = "statistical"
     /\ spec.signal \in Range(PendulumNames) /\ spec.tol # None
     /\ spec.floor <= k.num_envs /\ BootstrapMinPairs <= k.num_envs
  \/ spec.type = "invariant" /\ spec.check = "finite_state" /\ spec.signals = <<>>
  \/ spec.type \in {"action_replay_consumption", "observation_definition_stability"}

CalibrationBase(c) ==
  /\ IsPendulum(c.params)
  /\ \A i \in DOMAIN c.seeds, e \in 1..c.params.num_envs : c.seeds[i][e] \in Int
  /\ c.manifest.mode = "comparison" /\ c.manifest.policy.invalidOnViolation
  /\ {"asset_identity", "num_envs", "horizon"} \subseteq c.manifest.same
  /\ Warmup(c.manifest) = 0 /\ c.manifest.workload.steps <= c.params.steps
  /\ \A i \in DOMAIN c.manifest.oracles : BaseCriterion(c.manifest.oracles[i], c.params)
  /\ \E i \in DOMAIN c.manifest.oracles : c.manifest.oracles[i].type = "trajectory_equivalence"
=============================================================================
