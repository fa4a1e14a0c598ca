------------------------- MODULE CalibrationProofs -------------------------
(***************************************************************************)
(* Proofs about Calibration, for any campaigns: on any pendulum, with any  *)
(* seeds, tolerances and criteria of CalibrationBase.                      *)
(*                                                                         *)
(* The inductive invariant, AllTabulated, is that of an experiment with    *)
(* Tabulated: each row of the matrix is of the trial of its fault and its  *)
(* seed, and the trial that is running is the one the next row is due for. *)
(* The properties follow from it and from what is proved here of one       *)
(* trial: that a pendulum has a motion, of numbers at every step; which    *)
(* faults leave every signal as it was; that the oracles then pass; and    *)
(* what a trajectory oracle that passes says of the signals it compared.   *)
(***************************************************************************)
EXTENDS Calibration, OracleLawsProofs

-----------------------------------------------------------------------------
(* The trials of a campaign.                                                 *)

\* The taxonomy has seventeen faults.
LEMMA TaxonomyHas == Len(Taxonomy) = 17 /\ \A i \in 1..17 : Taxonomy[i] \in FaultNames
<1>1. Len(Taxonomy) = 17 /\ DOMAIN Taxonomy = 1..17
  BY DEF Taxonomy
<1> HIDE DEF Taxonomy
<1>2. QED
  BY <1>1 DEF FaultNames, Range

\* Counting in rows of n.
LEMMA RowsOf ==
  ASSUME NEW n, n \in Nat \ {0}, NEW i, i \in Nat, i < 17 * n
  PROVE  i \div n \in 0..16 /\ i % n \in 0..(n - 1)
<1>1. i \div n \in 0..16
  OBVIOUS
<1>2. i % n \in 0..(n - 1)
  OBVIOUS
<1>3. QED
  BY <1>1, <1>2

\* A campaign has a sequence of seeds.
LEMMA SeedsCounted ==
  ASSUME NEW c, c \in Campaigns
  PROVE  c.seeds \in Seq(Range(c.seeds)) /\ Len(c.seeds) \in Nat
<1>1. c.seeds \in Seq(Range(c.seeds))
  BY CampaignAssumption
<1>2. QED
  BY <1>1

\* Every trial has its fault and its seed, and is one of the experiments.
LEMMA TrialOf ==
  ASSUME NEW c, c \in Campaigns, NEW i, i \in Nat \ {0}, i <= Trials(c)
  PROVE  /\ FaultOf(c, i) \in FaultNames /\ SeedOf(c, i) \in Range(c.seeds)
         /\ TrialExperiment(c, FaultOf(c, i), SeedOf(c, i)) \in Experiments
<1>1. c.seeds \in Seq(Range(c.seeds)) /\ Len(c.seeds) \in Nat
  BY SeedsCounted
<1> DEFINE n == Len(c.seeds)
           j == i - 1
<1>2. n \in Nat \ {0} /\ j \in Nat /\ j < 17 * n
  BY SMTT(20), <1>1, TaxonomyHas DEF Trials
<1> DEFINE q == j \div n
           r == j % n
<1>3. q \in 0..16 /\ r \in 0..(n - 1)
  <2> HIDE DEF n, j
  <2>1. QED
    BY <1>2, RowsOf
<1>4. FaultOf(c, i) = Taxonomy[q + 1] /\ SeedOf(c, i) = c.seeds[r + 1]
  BY DEF FaultOf, SeedOf
<1> HIDE DEF q, r
<1>5. Taxonomy[q + 1] \in FaultNames
  <2>1. q + 1 \in 1..17
    BY <1>3
  <2>2. QED
    BY <2>1, TaxonomyHas
<1>6. c.seeds[r + 1] \in Range(c.seeds)
  <2>1. r + 1 \in DOMAIN c.seeds
    BY <1>1, <1>2, <1>3
  <2>2. QED
    BY <2>1 DEF Range
<1>7. \A f \in FaultNames, seed \in Range(c.seeds) : TrialExperiment(c, f, seed) \in Experiments
  BY CampaignAssumption
<1>8. QED
  BY <1>4, <1>5, <1>6, <1>7

-----------------------------------------------------------------------------
(* What the matrix keeps of a trial.                                         *)

ReportOn(x) == CheckExperiment(x.manifest, x.baseline, x.candidate)

\* Outcomes of the oracles that validate() runs of an experiment, all of them.
IsRunOf(os, x) ==
  /\ os \in Seq(Possible)
  /\ Len(os) = Len(Declared(x.manifest, ReportOn(x)))
  /\ \A j \in DOMAIN os :
       /\ j <= Len(x.manifest.oracles)
       /\ os[j] \in OutcomesOf(x.manifest.oracles[j], x.baseline, x.candidate, Warmup(x.manifest))

StatusesOf(os) == {os[j].status : j \in DOMAIN os}
FailingIn(os)  == StatusesOf(os) \cap {"fail", "unsupported"} # {}

\* A trial that decided, with codes as decide() gives them.
IsDecided(r, x) ==
  \E os, codes :
    LET result == Decide(x.manifest.policy, Valid(ReportOn(x)), StatusesOf(os))
    IN  /\ IsRunOf(os, x)
        /\ r = Analyze(result, codes, Valid(ReportOn(x)), FailingIn(os))
        /\ result = "INVALID_EXPERIMENT" => codes = ReasonCodes(ReportOn(x))
        /\ result = "PASS" /\ x.manifest.policy.invalidOnViolation => codes = {}

\* A trial that decided, and whose evidence was lost.
IsLost(r, x) ==
  \E os : /\ IsRunOf(os, x)
          /\ r = Analyze("ERROR", {"IVF-EVIDENCE-WRITE-ERROR"}, Valid(ReportOn(x)), FailingIn(os))

IsBroken(r) == r = Analyze("ERROR", {"IVF-RUNTIME-EXECUTION-ERROR"}, TRUE, FALSE)

IsTrial(r, x) == IsDecided(r, x) \/ IsLost(r, x) \/ IsBroken(r)

\* The experiment that is running has been run to its end.
LEMMA DecidedIsRun ==
  ASSUME Reported, Explained, Judged, Decided
  PROVE  IsRunOf(outcomes, experiment) /\ checks = ReportOn(experiment)
<1>1. checks = ReportOn(experiment)
  BY DEF Reported, Decided, ReportOn, M, B, C
<1>2. QED
  BY <1>1 DEF Explained, Judged, Decided, IsRunOf, M, B, C

\* What decide() gives as reasons.
LEMMA DecidedIsDecided ==
  ASSUME Reported, Explained, Judged, Decided
  PROVE  IsDecided(Analyze(verdict, reasons, Valid(checks), Failing), experiment)
<1>1. IsRunOf(outcomes, experiment) /\ checks = ReportOn(experiment)
  BY DecidedIsRun
<1>2. Failing = FailingIn(outcomes) /\ Statuses = StatusesOf(outcomes)
  BY DEF Failing, FailingIn, Statuses, StatusesOf
<1>3. verdict = Decide(experiment.manifest.policy, Valid(ReportOn(experiment)), StatusesOf(outcomes))
  BY <1>1, <1>2 DEF Reported, Decided, M
<1>4. verdict = "INVALID_EXPERIMENT" => reasons = ReasonCodes(ReportOn(experiment))
  <2>1. verdict = "INVALID_EXPERIMENT" => ~Valid(checks) /\ M.policy.invalidOnViolation
    BY <1>1, <1>3 DEF Decide, M
  <2>2. QED
    BY <1>1, <2>1 DEF Explained, Decided, DecidedReasons
<1>5. verdict = "PASS" /\ experiment.manifest.policy.invalidOnViolation => reasons = {}
  BY ExplanationFollows DEF ReasonsExplain, M
<1>6. QED
  BY <1>1, <1>2, <1>3, <1>4, <1>5 DEF IsDecided

\* A trial whose evidence was lost.
LEMMA DecidedIsLost ==
  ASSUME Reported, Explained, Judged, Decided
  PROVE  IsLost(Analyze("ERROR", {"IVF-EVIDENCE-WRITE-ERROR"}, Valid(checks), Failing), experiment)
<1>1. IsRunOf(outcomes, experiment) /\ checks = ReportOn(experiment)
  BY DecidedIsRun
<1>2. Failing = FailingIn(outcomes)
  BY DEF Failing, FailingIn, Statuses, StatusesOf
<1>3. QED
  BY <1>1, <1>2 DEF IsLost

-----------------------------------------------------------------------------
(* The invariant.                                                            *)

\* Every row so far is of its trial, and the next trial is the one that is running.
Tabulated ==
  /\ campaign \in Campaigns
  /\ matrix = [i \in 1..Len(matrix) |-> matrix[i]] /\ Len(matrix) \in Nat
  /\ Len(matrix) <= Trials(campaign)
  /\ errors \in 0..MaxErrors
  /\ Running => experiment = Made(Len(matrix) + 1)
  /\ \A i \in 1..Len(matrix) : IsTrial(matrix[i], Made(i))

AllTabulated == Reported /\ Explained /\ Judged /\ Tabulated

LEMMA TabulatedInit == CalibrationInit => AllTabulated
<1> SUFFICES ASSUME CalibrationInit PROVE AllTabulated
  OBVIOUS
<1>1. Reported /\ Explained /\ Judged
  BY ExplainedInit DEF CalibrationInit, Init, Reported, Judged
<1>2. Len(matrix) = 0 /\ matrix = <<>>
  BY DEF CalibrationInit
<1>3. 0 <= Trials(campaign)
  <2>1. Len(campaign.seeds) \in Nat
    BY SeedsCounted DEF CalibrationInit
  <2>2. QED
    BY <2>1, TaxonomyHas DEF Trials
<1>4. campaign \in Campaigns /\ errors \in 0..MaxErrors /\ experiment = Made(Len(matrix) + 1)
  BY <1>2, CampaignAssumption DEF CalibrationInit, Made
<1>5. matrix = [i \in 1..Len(matrix) |-> matrix[i]]
  BY <1>2
<1>6. QED
  BY <1>1, <1>2, <1>3, <1>4, <1>5 DEF AllTabulated, Tabulated

\* Trials are added one at a time.
LEMMA NextTrialStep ==
  ASSUME AllTabulated, Running, NextTrial, errors' \in 0..MaxErrors,
         NEW r, matrix' = Append(matrix, r), IsTrial(r, experiment)
  PROVE  AllTabulated'
<1> DEFINE n == Len(matrix)
<1>1. /\ campaign' = campaign /\ campaign \in Campaigns
      /\ n \in Nat /\ n < Trials(campaign) /\ Trials(campaign) \in Nat
  <2>1. campaign \in Campaigns
    BY DEF AllTabulated, Tabulated
  <2>2. Len(campaign.seeds) \in Nat /\ Len(Taxonomy) = 17
    BY <2>1, SeedsCounted, TaxonomyHas
  <2>3. QED
    BY <2>2 DEF NextTrial, Running, AllTabulated, Tabulated, Trials
<1>2. matrix \in Seq({matrix[i] : i \in 1..n} \cup {r})
  BY DEF AllTabulated, Tabulated
<1>3. /\ Len(matrix') = n + 1 /\ matrix'[n + 1] = r
      /\ \A i \in 1..n : matrix'[i] = matrix[i]
      /\ matrix' = [i \in 1..Len(matrix') |-> matrix'[i]]
  <2> DEFINE S == {matrix[i] : i \in 1..n} \cup {r}
  <2>1. matrix \in Seq(S) /\ r \in S /\ matrix' = Append(matrix, r)
    BY <1>2
  <2> HIDE DEF S
  <2>2. matrix' \in Seq(S) /\ Len(matrix') = n + 1
    BY <2>1
  <2>3. matrix' = [i \in 1..Len(matrix') |-> matrix'[i]]
    <3>1. matrix' \in [1..Len(matrix') -> S]
      BY <2>2, LenProperties
    <3>2. QED
      BY <3>1
  <2>4. matrix'[n + 1] = r /\ \A i \in 1..n : matrix'[i] = matrix[i]
    BY <2>1
  <2>5. QED
    BY <2>2, <2>3, <2>4
<1>4. \A i : Made(i)' = Made(i)
  BY <1>1 DEF Made
<1>5. experiment = Made(n + 1)
  BY DEF AllTabulated, Tabulated
<1>6. \A i \in 1..(n + 1) : IsTrial(matrix'[i], Made(i)')
  <2> SUFFICES ASSUME NEW i, i \in 1..(n + 1) PROVE IsTrial(matrix'[i], Made(i)')
    OBVIOUS
  <2>1. CASE i = n + 1
    BY <1>3, <1>4, <1>5, <2>1
  <2>2. CASE i # n + 1
    <3>1. i \in 1..n
      BY <1>1, <2>2
    <3>2. QED
      BY <1>3, <1>4, <3>1 DEF AllTabulated, Tabulated
  <2>3. QED
    BY <2>1, <2>2
<1>7. Running' => n + 2 <= Trials(campaign)
  BY <1>1, <1>3 DEF Running
<1>8. experiment' = IF n + 2 <= Trials(campaign) THEN Made(n + 2) ELSE experiment
  <2>1. Len(matrix') + 1 = n + 2
    BY <1>1, <1>3
  <2>2. QED
    BY <2>1 DEF NextTrial, Made
<1>9. experiment' \in Experiments
  <2>1. CASE n + 2 <= Trials(campaign)
    <3>1. n + 2 \in Nat \ {0}
      BY <1>1
    <3>2. Made(n + 2) \in Experiments
      BY <1>1, <2>1, <3>1, TrialOf DEF Made
    <3>3. QED
      BY <1>8, <2>1, <3>2
  <2>2. QED
    BY <1>8, <2>1 DEF AllTabulated, Reported
<1>10. Reported' /\ Explained' /\ Judged'
  BY <1>9 DEF NextTrial, Reported, Explained, Judged
<1>11. Len(matrix)' = n + 1 /\ (Len(matrix) + 1)' = n + 2
  BY <1>1, <1>3
<1>12. Running' => experiment' = Made(Len(matrix) + 1)'
  BY <1>4, <1>7, <1>8, <1>11 DEF Made
<1>13. (Len(matrix) <= Trials(campaign))'
  BY <1>1, <1>3 DEF Trials
<1>14. (\A i \in 1..Len(matrix) : IsTrial(matrix[i], Made(i)))'
  BY <1>6, <1>11 DEF IsTrial, IsDecided, IsLost, IsBroken
<1>15. QED
  BY <1>1, <1>3, <1>10, <1>11, <1>12, <1>13, <1>14 DEF AllTabulated, Tabulated

LEMMA TabulatedStep == AllTabulated /\ [CalibrationNext]_calibrationVars => AllTabulated'
<1> SUFFICES ASSUME AllTabulated, [CalibrationNext]_calibrationVars PROVE AllTabulated'
  OBVIOUS
<1>1. CASE RunTrial \/ UNCHANGED calibrationVars
  <2>1. [Next]_vars /\ UNCHANGED <<campaign, matrix, errors>> /\ experiment' = experiment
    BY <1>1 DEF RunTrial, calibrationVars, vars, Next, Check, RunOracle, DecideVerdict
  <2>2. Reported' /\ Explained' /\ Judged'
    BY <2>1, ReportedStep, ExplainedStep, JudgedStep DEF AllTabulated
  <2>3. /\ matrix' = matrix /\ errors' = errors /\ campaign' = campaign
        /\ \A i : Made(i)' = Made(i)
    BY <2>1 DEF Made
  <2>4. (\A i \in 1..Len(matrix) : IsTrial(matrix[i], Made(i)))'
    BY <2>3 DEF AllTabulated, Tabulated
  <2>5. (Running => experiment = Made(Len(matrix) + 1))'
    BY <2>1, <2>3 DEF AllTabulated, Tabulated, Running, Made
  <2>6. Tabulated'
    BY <2>3, <2>4, <2>5 DEF AllTabulated, Tabulated
  <2>7. QED
    BY <2>2, <2>6 DEF AllTabulated
<1>2. CASE EndTrial
  <2>1. /\ Running /\ NextTrial /\ errors' \in 0..MaxErrors
        /\ matrix' = Append(matrix, Analyze(verdict, reasons, Valid(checks), Failing))
    BY <1>2 DEF EndTrial, AllTabulated, Tabulated
  <2>2. IsTrial(Analyze(verdict, reasons, Valid(checks), Failing), experiment)
    BY <1>2, DecidedIsDecided DEF EndTrial, AllTabulated, IsTrial
  <2>3. QED
    BY <2>1, <2>2, NextTrialStep
<1>3. ASSUME errors < MaxErrors, errors' = errors + 1
      PROVE  errors' \in 0..MaxErrors
  <2>1. errors \in 0..MaxErrors
    BY DEF AllTabulated, Tabulated
  <2>2. MaxErrors \in Nat
    BY CampaignAssumption
  <2>3. QED
    BY <1>3, <2>1, <2>2
<1>4. CASE LoseEvidence
  <2> DEFINE r == Analyze("ERROR", {"IVF-EVIDENCE-WRITE-ERROR"}, Valid(checks), Failing)
  <2>1. Running /\ NextTrial /\ errors' \in 0..MaxErrors /\ matrix' = Append(matrix, r)
    BY <1>3, <1>4 DEF LoseEvidence
  <2>2. IsTrial(r, experiment)
    BY <1>4, DecidedIsLost DEF LoseEvidence, AllTabulated, IsTrial
  <2>3. QED
    BY <2>1, <2>2, NextTrialStep
<1>5. CASE BreakTrial
  <2> DEFINE r == Analyze("ERROR", {"IVF-RUNTIME-EXECUTION-ERROR"}, TRUE, FALSE)
  <2>1. Running /\ NextTrial /\ errors' \in 0..MaxErrors /\ matrix' = Append(matrix, r)
    BY <1>3, <1>5 DEF BreakTrial
  <2>2. IsTrial(r, experiment)
    BY DEF IsTrial, IsBroken
  <2>3. QED
    BY <2>1, <2>2, NextTrialStep
<1>6. QED
  BY <1>1, <1>2, <1>4, <1>5 DEF CalibrationNext

\* Every row of a matrix is of the trial it stands for, at all times.
LEMMA AllTabulatedHolds == CalibrationSpec => []AllTabulated
BY TabulatedInit, TabulatedStep, PTL DEF CalibrationSpec

-----------------------------------------------------------------------------
(* Trials and their manifests.                                               *)

\* The manifest of a trial is the base manifest, but for its mode.
LEMMA InjectedManifest ==
  ASSUME NEW c, c \in Campaigns, NEW fault
  PROVE  LET m == InjectIntoManifest(c.manifest, fault)
         IN  /\ m.same = c.manifest.same /\ m.workload = c.manifest.workload
             /\ m.oracles = c.manifest.oracles /\ m.policy = c.manifest.policy
             /\ m.allowed = c.manifest.allowed /\ m.unverifiable = c.manifest.unverifiable
             /\ m.mode = IF fault \in ArrayPreserving THEN "identity_check" ELSE c.manifest.mode
<1> DEFINE base == c.manifest
<1>1. /\ "same" \in DOMAIN base /\ "workload" \in DOMAIN base /\ "oracles" \in DOMAIN base
      /\ "policy" \in DOMAIN base /\ "mode" \in DOMAIN base
      /\ "allowed" \in DOMAIN base /\ "unverifiable" \in DOMAIN base
  BY CampaignAssumption DEF ManifestFields
<1> HIDE DEF base
<1>2. LET m == [base EXCEPT !.mode = "identity_check"]
      IN  /\ m.same = base.same /\ m.workload = base.workload /\ m.oracles = base.oracles
          /\ m.policy = base.policy /\ m.mode = "identity_check"
          /\ m.allowed = base.allowed /\ m.unverifiable = base.unverifiable
  BY <1>1
<1>3. QED
  BY <1>2 DEF InjectIntoManifest, base

\* The parts of a trial.
LEMMA PartsOfTrial ==
  ASSUME NEW c, NEW fault, NEW seed
  PROVE  LET x == TrialExperiment(c, fault, seed)
         IN  /\ x.manifest = InjectIntoManifest(c.manifest, fault)
             /\ x.baseline = LoadSynthetic("none", c.params, seed)
             /\ x.candidate = LoadSynthetic(fault, c.params, seed)
BY DEF TrialExperiment

\* Every row is of its type.
LEMMA TrialTypes ==
  ASSUME NEW r, NEW x, IsTrial(r, x)
  PROVE  /\ r.verdict \in Verdict
         /\ r.layer \in {"validity", "oracle", "runtime", "none"}
         /\ r.detected = (r.layer # "none")
         /\ r.verdict = "PASS" /\ x.manifest.policy.invalidOnViolation => r.reasons = {}
<1>1. CASE IsDecided(r, x)
  <2> DEFINE valid == Valid(ReportOn(x))
             Result(os) == Decide(x.manifest.policy, valid, StatusesOf(os))
  <2>1. PICK os, codes :
          /\ r = Analyze(Result(os), codes, valid, FailingIn(os))
          /\ Result(os) = "PASS" /\ x.manifest.policy.invalidOnViolation => codes = {}
    BY <1>1 DEF IsDecided
  <2>2. /\ Result(os) \in Verdict \ {"ERROR"}
        /\ Result(os) = "INVALID_EXPERIMENT" => ~valid
        /\ Result(os) \in {"FAIL", "UNSUPPORTED"} => FailingIn(os)
    BY DEF Decide, Verdict, FailingIn
  <2> DEFINE result == Result(os)
             failing == FailingIn(os)
  <2> HIDE DEF valid, Result
  <2>3. /\ r.verdict = result /\ r.reasons = codes
        /\ r.detected = (\/ ~valid \/ failing
                         \/ result \in {"INVALID_EXPERIMENT", "FAIL", "UNSUPPORTED", "ERROR"})
        /\ r.layer = IF ~valid \/ result = "INVALID_EXPERIMENT" THEN "validity"
                     ELSE IF failing THEN "oracle"
                     ELSE IF result = "ERROR" THEN "runtime" ELSE "none"
    BY <2>1 DEF Analyze
  <2>4. result \in Verdict \ {"ERROR"} /\ (result = "INVALID_EXPERIMENT" => ~valid)
        /\ (result \in {"FAIL", "UNSUPPORTED"} => failing)
    BY <2>2
  <2>5. result = "PASS" /\ x.manifest.policy.invalidOnViolation => r.reasons = {}
    BY <2>1, <2>3
  <2> HIDE DEF result, failing
  <2>6. QED
    BY <2>3, <2>4, <2>5
<1>2. CASE IsLost(r, x) \/ IsBroken(r)
  <2>1. PICK codes, valid, failing : r = Analyze("ERROR", codes, valid, failing)
    BY <1>2 DEF IsLost, IsBroken
  <2>2. QED
    BY <2>1 DEF Analyze, Verdict
<1>3. QED
  BY <1>1, <1>2 DEF IsTrial

\* Types, where the base manifest keeps the default policy on violated controls.
LEMMA CalibrationTyped ==
  ASSUME AllTabulated, \A c \in Campaigns : c.manifest.policy.invalidOnViolation
  PROVE  CalibrationTypeOK
<1>1. TypeOK
  BY TypeFollows DEF AllTabulated
<1>2. DOMAIN matrix = 1..Len(matrix)
  BY DEF AllTabulated, Tabulated
<1>3. ASSUME NEW i, i \in DOMAIN matrix
      PROVE  /\ matrix[i].verdict \in Verdict
             /\ matrix[i].layer \in {"validity", "oracle", "runtime", "none"}
             /\ matrix[i].detected = (matrix[i].layer # "none")
             /\ matrix[i].verdict = "PASS" => matrix[i].reasons = {}
  <2>1. IsTrial(matrix[i], Made(i))
    BY <1>2, <1>3 DEF AllTabulated, Tabulated
  <2>2. Made(i).manifest.policy.invalidOnViolation
    <3>1. campaign \in Campaigns
      BY DEF AllTabulated, Tabulated
    <3>2. Made(i).manifest = InjectIntoManifest(campaign.manifest, FaultOf(campaign, i))
      BY PartsOfTrial DEF Made
    <3>3. Made(i).manifest.policy = campaign.manifest.policy
      BY <3>1, <3>2, InjectedManifest
    <3>4. QED
      BY <3>1, <3>3
  <2>3. QED
    BY <2>1, <2>2, TrialTypes
<1>4. QED
  BY <1>1, <1>3 DEF CalibrationTypeOK, AllTabulated, Tabulated

-----------------------------------------------------------------------------
(* The motion of a pendulum.                                                 *)

\* A property of 0 that is passed on from each number to the next holds up to any number.
LEMMA PassedOn ==
  ASSUME NEW n, n \in Nat, NEW S, 0 \in S, \A i \in 0..(n - 1) : i \in S => i + 1 \in S
  PROVE  0..n \subseteq S
<1> DEFINE T == (0..n) \ S
<1> SUFFICES ASSUME T # {} PROVE FALSE
  OBVIOUS
<1>1. T \in SUBSET Int /\ IsFiniteSet(T)
  <2>1. 0 \in Int /\ n \in Int
    OBVIOUS
  <2>2. IsFiniteSet(0..n)
    BY <2>1, FS_Interval
  <2>3. QED
    BY <2>2, FS_Subset
<1>2. Min(T) \in T /\ \A j \in T : Min(T) <= j
  <2> HIDE DEF T
  <2>1. QED
    BY <1>1, MinOf
<1> DEFINE k == Min(T)
<1> HIDE DEF k
<1>3. k \in 0..n /\ k \notin S /\ k # 0 /\ \A j \in T : k <= j
  BY <1>2 DEF k
<1>4. k - 1 \in 0..(n - 1) /\ k - 1 \in S
  BY <1>3
<1>5. QED
  BY <1>3, <1>4

\* The state after a step of torque u on the pendulum k.
Stepped(k, u, s) ==
  LET vel == s.vel + k.dt * (u - (k.gravity * s.angle) \div k.length - k.damping * s.vel)
  IN  [angle |-> s.angle + k.dt * vel, vel |-> vel]

StateType == [angle : Int, vel : Int]

Torque(k, t) ==
  IF t - k.drive_step_offset \in 0..(k.steps - 1)
    THEN k.drive_amplitude * Wave(t - k.drive_step_offset) ELSE 0

Released(k, seed, e) ==
  [angle |-> seed[e], vel |-> IF k.apply_reset_velocity THEN k.initial_velocity ELSE 0]

\* A motion over the first n steps.
IsMotion(f, n, k, seed, e) ==
  f = [t \in 0..n |-> IF t = 0 THEN Released(k, seed, e)
                      ELSE Stepped(k, Torque(k, t - 1), f[t - 1])]

\* A pendulum that moves as the integration says.
LEMMA MotionIs ==
  ASSUME NEW k, NEW seed, NEW e, \E f : IsMotion(f, k.steps, k, seed, e)
  PROVE  IsMotion(Motion(k, seed, e), k.steps, k, seed, e)
<1> DEFINE Is(f) ==
      f = [t \in 0..k.steps |->
             IF t = 0 THEN [angle |-> seed[e],
                            vel   |-> IF k.apply_reset_velocity THEN k.initial_velocity ELSE 0]
             ELSE LET s == f[t - 1]
                      accel == (IF t - 1 - k.drive_step_offset \in 0..(k.steps - 1)
                                  THEN k.drive_amplitude * Wave(t - 1 - k.drive_step_offset) ELSE 0)
                               - (k.gravity * s.angle) \div k.length - k.damping * s.vel
                      vel   == s.vel + k.dt * accel
                  IN  [angle |-> s.angle + k.dt * vel, vel |-> vel]]
<1>1. \A f : Is(f) <=> IsMotion(f, k.steps, k, seed, e)
  BY DEF IsMotion, Released, Stepped, Torque
<1>2. Motion(k, seed, e) = CHOOSE f : Is(f)
  BY DEF Motion
<1> HIDE DEF Is
<1>3. QED
  BY <1>1, <1>2

\* Parameters a pendulum is integrated with.
IsIntegrable(k) ==
  /\ k.drive_amplitude \in Int /\ k.initial_velocity \in Int /\ k.drive_step_offset \in Int
  /\ k.num_envs \in Nat \ {0} /\ k.steps \in Nat \ {0} /\ k.dt \in Int
  /\ k.gravity \in Int /\ k.length \in Nat \ {0} /\ k.damping \in Int

LEMMA SteppedType ==
  ASSUME NEW k, IsIntegrable(k), NEW u, u \in Int, NEW s, s \in StateType
  PROVE  Stepped(k, u, s) \in StateType
<1> DEFINE a == s.angle
           v == s.vel
           w == v + k.dt * (u - (k.gravity * a) \div k.length - k.damping * v)
<1>1. a \in Int /\ v \in Int
  BY DEF StateType
<1>2. /\ k.dt \in Int /\ k.gravity \in Int /\ k.damping \in Int
      /\ k.length \in Nat \ {0} /\ k.length \in Int
  BY DEF IsIntegrable
<1> HIDE DEF a, v
<1>3. k.gravity * a \in Int /\ k.damping * v \in Int
  BY <1>1, <1>2
<1>4. (k.gravity * a) \div k.length \in Int
  BY <1>2, <1>3
<1>5. u - (k.gravity * a) \div k.length - k.damping * v \in Int
  BY <1>3, <1>4
<1>6. k.dt * (u - (k.gravity * a) \div k.length - k.damping * v) \in Int
  BY <1>2, <1>5
<1>7. w \in Int
  BY <1>1, <1>6
<1> HIDE DEF w
<1>8. a + k.dt * w \in Int
  BY <1>1, <1>2, <1>7
<1>9. Stepped(k, u, s) = [angle |-> a + k.dt * w, vel |-> w]
  BY DEF Stepped, w, a, v
<1>10. QED
  BY <1>7, <1>8, <1>9 DEF StateType

LEMMA TorqueType ==
  ASSUME NEW k, IsIntegrable(k), NEW t, t \in Int
  PROVE  Torque(k, t) \in Int
<1>1. k.drive_amplitude \in Int /\ t - k.drive_step_offset \in Int
  BY DEF IsIntegrable
<1>2. k.drive_amplitude * (t - k.drive_step_offset) \in Int
  BY <1>1
<1>3. QED
  BY <1>2 DEF Torque, Wave

\* A pendulum moves, whatever it is integrated with.
LEMMA MotionExists ==
  ASSUME NEW k, NEW n, n \in Nat, NEW seed, NEW e
  PROVE  \E f : IsMotion(f, n, k, seed, e)
<1> DEFINE S == {m \in Nat : \E f : IsMotion(f, m, k, seed, e)}
<1>1. 0 \in S
  <2> DEFINE f == [t \in 0..0 |-> Released(k, seed, e)]
  <2>1. IsMotion(f, 0, k, seed, e)
    BY DEF IsMotion
  <2> HIDE DEF f
  <2>2. QED
    BY <2>1
<1>2. ASSUME NEW m, m \in 0..(n - 1), m \in S PROVE m + 1 \in S
  <2>1. PICK f : IsMotion(f, m, k, seed, e)
    BY <1>2
  <2> DEFINE last == Stepped(k, Torque(k, m), f[m])
             g == [t \in 0..(m + 1) |-> IF t = m + 1 THEN last ELSE f[t]]
             h == [t \in 0..(m + 1) |-> IF t = 0 THEN Released(k, seed, e)
                                        ELSE Stepped(k, Torque(k, t - 1), g[t - 1])]
  <2>2. m \in Nat
    BY <1>2
  <2>3. ASSUME NEW t, t \in 0..(m + 1) PROVE g[t] = h[t]
    <3>1. CASE t = m + 1
      <4>1. t # 0 /\ t - 1 = m /\ m \in 0..(m + 1) /\ m # m + 1
        BY <2>2, <3>1
      <4>2. g[t] = last /\ g[t - 1] = f[m]
        BY <2>3, <3>1, <4>1
      <4>3. h[t] = Stepped(k, Torque(k, t - 1), g[t - 1])
        BY <2>3, <4>1
      <4>4. QED
        BY <4>1, <4>2, <4>3
    <3>2. CASE t # m + 1
      <4>1. t \in 0..m
        BY <2>2, <2>3, <3>2
      <4>2. f[t] = IF t = 0 THEN Released(k, seed, e) ELSE Stepped(k, Torque(k, t - 1), f[t - 1])
        BY <2>1, <4>1 DEF IsMotion
      <4>3. g[t] = f[t]
        BY <2>3, <3>2
      <4>4. t # 0 => g[t - 1] = f[t - 1]
        <5>1. t # 0 => t - 1 \in 0..(m + 1) /\ t - 1 # m + 1
          BY <2>2, <4>1
        <5>2. QED
          BY <5>1
      <4>5. h[t] = IF t = 0 THEN Released(k, seed, e) ELSE Stepped(k, Torque(k, t - 1), g[t - 1])
        BY <2>3
      <4> HIDE DEF g, h
      <4>6. QED
        BY <4>2, <4>3, <4>4, <4>5
    <3>3. QED
      BY <3>1, <3>2
  <2>4. g = h
    <3>1. g = [t \in 0..(m + 1) |-> g[t]] /\ h = [t \in 0..(m + 1) |-> h[t]]
      OBVIOUS
    <3> HIDE DEF g, h
    <3>2. QED
      BY <2>3, <3>1
  <2>5. IsMotion(g, m + 1, k, seed, e)
    BY <2>4 DEF IsMotion
  <2> HIDE DEF g
  <2>6. QED
    BY <2>2, <2>5
<1> HIDE DEF S
<1>3. 0..n \subseteq S
  BY <1>1, <1>2, PassedOn
<1>4. QED
  BY <1>3 DEF S

\* Its states are numbers.
LEMMA MotionType ==
  ASSUME NEW k, IsIntegrable(k), NEW seed, NEW e, seed[e] \in Int,
         k.apply_reset_velocity \in BOOLEAN
  PROVE  \A t \in 0..k.steps : Motion(k, seed, e)[t] \in StateType
<1> DEFINE f == Motion(k, seed, e)
           n == k.steps
           S == {t \in Nat : t <= n => f[t] \in StateType}
<1>1. n \in Nat
  BY DEF IsIntegrable
<1>2. IsMotion(f, n, k, seed, e)
  BY <1>1, MotionExists, MotionIs
<1> HIDE DEF f
<1>3. ASSUME NEW t, t \in 0..n
      PROVE  f[t] = IF t = 0 THEN Released(k, seed, e) ELSE Stepped(k, Torque(k, t - 1), f[t - 1])
  BY <1>2, <1>3 DEF IsMotion
<1>4. 0 \in S
  <2>1. Released(k, seed, e) \in StateType
    BY DEF Released, StateType, IsIntegrable
  <2>2. QED
    BY <1>1, <1>3, <2>1
<1>5. ASSUME NEW i, i \in 0..(n - 1), i \in S PROVE i + 1 \in S
  <2>1. i + 1 \in 0..n /\ i + 1 # 0 /\ i \in Int /\ i <= n /\ (i + 1) - 1 = i
    BY <1>1, <1>5
  <2>2. f[i] \in StateType /\ Torque(k, i) \in Int
    BY <1>5, <2>1, TorqueType
  <2>3. f[i + 1] = Stepped(k, Torque(k, i), f[i])
    BY <1>3, <2>1
  <2>4. f[i + 1] \in StateType
    BY <2>2, <2>3, SteppedType
  <2>5. QED
    BY <2>1, <2>4
<1>6. 0..n \subseteq S
  <2> HIDE DEF S
  <2>1. QED
    BY <1>1, <1>4, <1>5, PassedOn
<1>7. QED
  BY <1>1, <1>6 DEF f

-----------------------------------------------------------------------------
(* The subjects of a trial.                                                  *)

\* What a pendulum without a fault is integrated with.
Undamaged(params) ==
  Filled(params, [drive_step_offset |-> 0, apply_reset_velocity |-> TRUE,
                  declared_drive_amplitude |-> params.drive_amplitude])

LEMMA UndamagedIs ==
  ASSUME NEW params, IsPendulum(params)
  PROVE  LET k == Undamaged(params)
         IN  /\ IsIntegrable(k) /\ k.apply_reset_velocity = TRUE
             /\ k.num_envs = params.num_envs /\ k.steps = params.steps
<1> DEFINE more == [drive_step_offset |-> 0, apply_reset_velocity |-> TRUE,
                    declared_drive_amplitude |-> params.drive_amplitude]
           k == Undamaged(params)
<1>1. DOMAIN params = {"drive_amplitude", "initial_velocity", "num_envs", "steps", "dt",
                       "gravity", "length", "damping"}
  BY DEF IsPendulum
<1>2. /\ DOMAIN more = {"drive_step_offset", "apply_reset_velocity", "declared_drive_amplitude"}
      /\ more["drive_step_offset"] = 0 /\ more["apply_reset_velocity"] = TRUE
  OBVIOUS
<1>3. k = [x \in (DOMAIN params) \cup (DOMAIN more) |->
             IF x \in DOMAIN params THEN params[x] ELSE more[x]]
  BY DEF Undamaged, Filled
<1> HIDE DEF more, k
<1>4. \A x \in DOMAIN params : k[x] = params[x]
  BY <1>3
<1>5. k["drive_step_offset"] = 0 /\ k["apply_reset_velocity"] = TRUE
  BY <1>1, <1>2, <1>3
<1>6. /\ k.drive_amplitude = params.drive_amplitude /\ k.initial_velocity = params.initial_velocity
      /\ k.num_envs = params.num_envs /\ k.steps = params.steps /\ k.dt = params.dt
      /\ k.gravity = params.gravity /\ k.length = params.length /\ k.damping = params.damping
  BY <1>1, <1>4
<1>7. IsIntegrable(k)
  BY <1>5, <1>6 DEF IsPendulum, IsIntegrable
<1>8. QED
  BY <1>5, <1>6, <1>7 DEF k

\* The subjects of the trials whose arrays a fault leaves alone.
LEMMA LoadedIs ==
  ASSUME NEW params, NEW seed
  PROVE  LET s == DampedPendulum(Undamaged(params), seed)
         IN  /\ LoadSynthetic("none", params, seed) = s
             /\ LoadSynthetic("corrupted_metadata", params, seed)
                  = [s EXCEPT !.meta["asset_identity"] = "corrupted-asset"]
             /\ LoadSynthetic("unsupported_feature_misreported", params, seed)
                  = [s EXCEPT !.features = @ \cup {"articulation_tendons"}]
<1> DEFINE k == Undamaged(params)
<1>1. \A f \in ArrayPreserving : ApplyGenerationFault(f, k) = k
  BY DEF ArrayPreserving, ApplyGenerationFault
<1>2. \A f \in ArrayPreserving :
        LoadSynthetic(f, params, seed) = ApplyTraceFault(f, DampedPendulum(k, seed))
  BY <1>1 DEF LoadSynthetic, Undamaged
<1> DEFINE s == DampedPendulum(k, seed)
<1> HIDE DEF s, k
<1>3. /\ ApplyTraceFault("none", s) = s
      /\ ApplyTraceFault("corrupted_metadata", s)
           = [s EXCEPT !.meta["asset_identity"] = "corrupted-asset"]
      /\ ApplyTraceFault("unsupported_feature_misreported", s)
           = [s EXCEPT !.features = @ \cup {"articulation_tendons"}]
  BY DEF ApplyTraceFault
<1>4. QED
  BY <1>2, <1>3 DEF ArrayPreserving, s, k

\* What the source records of a pendulum.
LEMMA PendulumRecords ==
  ASSUME NEW k, NEW seed
  PROVE  LET s == DampedPendulum(k, seed)
         IN  /\ s = [signals |-> s.signals, meta |-> s.meta, actions |-> s.actions,
                     features |-> {}, complete |-> TRUE, contract |-> s.contract]
             /\ DOMAIN s.meta = MetaKeys
             /\ s.meta["asset_identity"] = "damped_pendulum.v1"
             /\ s.contract = [n \in Range(PendulumNames) |-> [p \in Properties |-> None]]
             /\ DOMAIN s.signals = Range(PendulumNames)
<1>1. "asset_identity" \in MetaKeys
  <2>1. "asset_identity" \in DOMAIN MetadataKey /\ MetadataKey["asset_identity"] = "asset_identity"
    BY DEF MetadataKey
  <2>2. QED
    BY <2>1 DEF MetaKeys, Range
<1>2. QED
  BY <1>1 DEF DampedPendulum

\* The arrays of a pendulum that nothing was done to.
LEMMA PendulumArrays ==
  ASSUME NEW k, IsIntegrable(k), k.apply_reset_velocity = TRUE,
         NEW seed, \A e \in 1..k.num_envs : seed[e] \in Int,
         NEW n, n \in Range(PendulumNames)
  PROVE  LET a == DampedPendulum(k, seed).signals[n]
         IN  /\ a.envs = k.num_envs /\ Len(a.rows) = k.steps
             /\ \A t \in DOMAIN a.rows, e \in Envs(a) : a.rows[t][e] \in Int
<1> DEFINE a == DampedPendulum(k, seed).signals[n]
           state(t, e) == Motion(k, seed, e)[t]
           value(t, e) == CASE n = "abs_pole_angle" -> Magnitude(state(t, e).angle)
                            [] n = "pole_ang_vel"   -> state(t, e).vel
                            [] OTHER                -> state(t, e).angle
<1>1. a = [envs |-> k.num_envs,
           rows |-> [t \in 1..k.steps |-> [e \in 1..k.num_envs |-> value(t, e)]]]
  <2>1. CASE n = "abs_pole_angle"
    BY <2>1 DEF DampedPendulum
  <2>2. CASE n = "pole_ang_vel"
    BY <2>2 DEF DampedPendulum
  <2>3. CASE n \notin {"abs_pole_angle", "pole_ang_vel"}
    BY <2>3 DEF DampedPendulum
  <2>4. QED
    BY <2>1, <2>2, <2>3
<1>2. k.steps \in Nat \ {0} /\ k.num_envs \in Nat \ {0}
  BY DEF IsIntegrable
<1>3. ASSUME NEW t, t \in 1..k.steps, NEW e, e \in 1..k.num_envs PROVE value(t, e) \in Int
  <2>1. t \in 0..k.steps
    BY <1>2, <1>3
  <2>2. state(t, e) \in StateType
    BY <1>3, <2>1, MotionType
  <2>3. state(t, e).angle \in Int /\ state(t, e).vel \in Int
    BY <2>2 DEF StateType
  <2> HIDE DEF state
  <2>4. QED
    BY <2>3 DEF Magnitude
<1> HIDE DEF a, value
<1>4. a.envs = k.num_envs /\ Len(a.rows) = k.steps
  BY <1>1, <1>2
<1>5. \A t \in 1..k.steps, e \in 1..k.num_envs : a.rows[t][e] \in Int
  BY <1>1, <1>3
<1>6. DOMAIN a.rows = 1..k.steps /\ Envs(a) = 1..k.num_envs
  BY <1>1, <1>2 DEF Envs
<1>7. QED
  BY <1>4, <1>5, <1>6 DEF a

-----------------------------------------------------------------------------
(* Subjects that differ in metadata at most.                                 *)

\* All but what they say of the asset and of features is the same, without units.
Alike(b, c) ==
  /\ c.signals = b.signals /\ c.actions = b.actions /\ c.contract = b.contract
  /\ b.complete /\ c.complete
  /\ \A key \in MetaKeys \ {"asset_identity"} : c.meta[key] = b.meta[key]
  /\ \A n \in DOMAIN b.signals : b.contract[n]["unit"] = None

LEMMA ArrayPreservingIsAlike ==
  ASSUME NEW params, NEW seed, NEW fault, fault \in ArrayPreserving
  PROVE  LET b == LoadSynthetic("none", params, seed)
             c == LoadSynthetic(fault, params, seed)
         IN  /\ Alike(b, c)
             /\ fault = "corrupted_metadata" => c.meta["asset_identity"] = "corrupted-asset"
             /\ fault # "corrupted_metadata" => c.meta["asset_identity"] = b.meta["asset_identity"]
             /\ b.meta["asset_identity"] = "damped_pendulum.v1"
<1> DEFINE s == DampedPendulum(Undamaged(params), seed)
           b == LoadSynthetic("none", params, seed)
           c == LoadSynthetic(fault, params, seed)
<1>1. /\ s = [signals |-> s.signals, meta |-> s.meta, actions |-> s.actions,
              features |-> {}, complete |-> TRUE, contract |-> s.contract]
      /\ DOMAIN s.meta = MetaKeys /\ s.meta["asset_identity"] = "damped_pendulum.v1"
      /\ s.contract = [n \in Range(PendulumNames) |-> [p \in Properties |-> None]]
      /\ DOMAIN s.signals = Range(PendulumNames)
  BY PendulumRecords
<1>2. /\ b = s
      /\ fault = "none" => c = s
      /\ fault = "corrupted_metadata" => c = [s EXCEPT !.meta["asset_identity"] = "corrupted-asset"]
      /\ fault = "unsupported_feature_misreported"
           => c = [s EXCEPT !.features = @ \cup {"articulation_tendons"}]
  BY LoadedIs
<1>3. "asset_identity" \in MetaKeys
  <2>1. "asset_identity" \in DOMAIN MetadataKey /\ MetadataKey["asset_identity"] = "asset_identity"
    BY DEF MetadataKey
  <2>2. QED
    BY <2>1 DEF MetaKeys, Range
<1> HIDE DEF s, b, c
<1>4. \A n \in DOMAIN s.signals : s.contract[n]["unit"] = None
  BY <1>1 DEF Properties
<1>5. fault \in {"none", "corrupted_metadata", "unsupported_feature_misreported"}
  BY DEF ArrayPreserving
<1>6. /\ c.signals = s.signals /\ c.actions = s.actions /\ c.contract = s.contract
      /\ c.complete = TRUE /\ s.complete = TRUE
      /\ fault # "corrupted_metadata" => c.meta = s.meta
  BY <1>1, <1>2, <1>5
<1>7. ASSUME fault = "corrupted_metadata"
      PROVE  c.meta = [s.meta EXCEPT !["asset_identity"] = "corrupted-asset"]
  BY <1>1, <1>2, <1>7
<1>8. /\ fault = "corrupted_metadata" => c.meta["asset_identity"] = "corrupted-asset"
      /\ \A key \in MetaKeys \ {"asset_identity"} : c.meta[key] = s.meta[key]
  <2>1. CASE fault = "corrupted_metadata"
    BY <1>1, <1>3, <1>7, <2>1
  <2>2. CASE fault # "corrupted_metadata"
    BY <1>6, <2>2
  <2>3. QED
    BY <2>1, <2>2
<1>9. QED
  BY <1>1, <1>2, <1>4, <1>6, <1>8 DEF Alike, b, c

\* A value compared with itself never fails.
LEMMA SameIsNotFailed ==
  ASSUME NEW id, NEW about, NEW x, NEW code
  PROVE  Comparison(id, about, x, x, code).status # "fail"
BY DEF Comparison, ValidityCheck, Compared

\* Between two such subjects, declared to be the same, only the asset can be at fault.
LEMMA AlikeChecks ==
  ASSUME NEW m, NEW b, NEW c, Alike(b, c), m.mode = "identity_check",
         Horizon(b) >= m.workload.steps,
         NEW k, k \in CheckExperiment(m, b, c), k.status = "fail"
  PROVE  /\ k.code = "IVF-CONTROL-METADATA-MISMATCH"
         /\ c.meta["asset_identity"] # b.meta["asset_identity"]
<1>1. /\ NumEnvs(c) = NumEnvs(b) /\ Horizon(c) = Horizon(b)
      /\ ObservationDefinition(c) = ObservationDefinition(b) /\ c.actions = b.actions
      /\ ContentDigest(c) = ContentDigest(b) /\ Shared(m, b, c) \subseteq DOMAIN b.signals
  BY DEF Alike, NumEnvs, Horizon, AnySignal, ObservationDefinition, ContentDigest, Shared
<1>2. \A id, about, status, code : ValidityCheck(id, about, status, code).status = status
  BY DEF ValidityCheck
<1>3. k \notin PartitionChecks(m)
  <2>1. ASSUME k \in PartitionChecks(m) PROVE FALSE
    <3>1. PICK control \in m.unverifiable :
            k = ValidityCheck("V-UNVERIFIABLE", <<"control", control>>, "unverifiable", None)
      BY <2>1 DEF PartitionChecks
    <3>2. k.status = "unverifiable"
      BY <1>2, <3>1
    <3>3. QED
      BY <3>2
  <2>2. QED
    BY <2>1
<1>4. CASE k \in MetadataChecks(m, b, c)
  <2>1. PICK control \in m.same \cap DOMAIN MetadataKey :
          k = Comparison("V-METADATA", <<"control", control>>, b.meta[MetadataKey[control]],
                         c.meta[MetadataKey[control]], "IVF-CONTROL-METADATA-MISMATCH")
    BY <1>4 DEF MetadataChecks
  <2>2. k.code = "IVF-CONTROL-METADATA-MISMATCH"
    BY <2>1, ComparisonCode
  <2>3. MetadataKey[control] \in MetaKeys
    BY <2>1 DEF MetaKeys, Range
  <2>4. c.meta[MetadataKey[control]] # b.meta[MetadataKey[control]]
    BY <2>1, SameIsNotFailed
  <2>5. MetadataKey[control] = "asset_identity"
    BY <2>3, <2>4 DEF Alike
  <2>6. QED
    BY <2>2, <2>4, <2>5
<1>5. k \notin StructureChecks(m, b, c)
  BY <1>1, SameIsNotFailed DEF StructureChecks
<1>6. k \notin SolverChecks(m, b, c)
  <2>1. c.meta["solver_settings"] = b.meta["solver_settings"]
    BY DEF Alike, MetaKeys
  <2>2. QED
    BY <1>2, <2>1, SameIsNotFailed DEF SolverChecks
<1>7. k \notin ProtocolChecks(m, b, c)
  <2>1. WholeRun(m, b) /\ WholeRun(m, c)
    BY <1>1 DEF WholeRun, Alike
  <2>2. c.meta["physics_dt"] = b.meta["physics_dt"]
    BY DEF Alike, MetaKeys
  <2> DEFINE run       == [baseline |-> b, candidate |-> c]
             StatusAt(r) == IF WholeRun(m, run[r]) THEN "pass" ELSE "fail"
             runs    == {ValidityCheck("V-11", <<"protocol", r>>, StatusAt(r),
                           CodeIf(StatusAt(r), "IVF-PROTOCOL-PARTIAL-RUN")) : r \in DOMAIN run}
             warmup  == ValidityCheck("V-12", <<"protocol", "warmup">>,
                           IF m.workload.warmup = None THEN "unverifiable" ELSE "pass", None)
             physics == Comparison("V-13", <<"protocol", "physics_dt">>, b.meta["physics_dt"],
                          c.meta["physics_dt"], "IVF-CONTROL-CONTROL-FREQUENCY-MISMATCH")
  <2>3. ProtocolChecks(m, b, c) = runs \cup {warmup} \cup {physics}
    BY DEF ProtocolChecks
  <2>4. k \notin runs
    <3>1. ASSUME k \in runs PROVE FALSE
      <4>1. PICK r \in DOMAIN run :
              k = ValidityCheck("V-11", <<"protocol", r>>, StatusAt(r),
                    CodeIf(StatusAt(r), "IVF-PROTOCOL-PARTIAL-RUN"))
        BY <3>1
      <4>2. StatusAt(r) = "pass"
        <5>1. r = "baseline" \/ r = "candidate"
          OBVIOUS
        <5>2. run[r] = b \/ run[r] = c
          BY <5>1
        <5>3. QED
          BY <2>1, <5>2
      <4> HIDE DEF StatusAt, run
      <4>3. k.status = "pass"
        BY <1>2, <4>1, <4>2
      <4>4. QED
        BY <4>3
    <3>2. QED
      BY <3>1
  <2>5. warmup.status \in {"unverifiable", "pass"}
    BY DEF ValidityCheck
  <2>6. physics.status # "fail"
    BY <2>2, SameIsNotFailed
  <2> HIDE DEF runs, warmup, physics
  <2>7. QED
    BY <2>3, <2>4, <2>5, <2>6
<1>8. k \notin PropertyChecks(m, b, c)
  <2>1. c.contract = b.contract
    BY DEF Alike
  <2>2. ASSUME k \in PropertyChecks(m, b, c) PROVE FALSE
    <3>1. PICK n \in Shared(m, b, c), p \in Properties :
            k = Comparison("V-SIGNAL", <<"signal", n, p>>, Normalized(p, b.contract[n][p]),
                           Normalized(p, c.contract[n][p]), "IVF-CONTROL-SIGNAL-MISMATCH")
      BY <2>2 DEF PropertyChecks
    <3>2. QED
      BY <2>1, <3>1, SameIsNotFailed
  <2>3. QED
    BY <2>2
<1>9. k \notin ToleranceChecks(m, b, c)
  <2>1. ASSUME k \in ToleranceChecks(m, b, c) PROVE FALSE
    <3>1. PICK i \in DOMAIN m.oracles :
            /\ m.oracles[i].signal \in Shared(m, b, c)
            /\ \E about, code :
                 k = ValidityCheck("V-TOLERANCE-UNIT", about,
                       ToleranceStatus(m.oracles[i], b.contract[m.oracles[i].signal]["unit"]), code)
      BY <2>1 DEF ToleranceChecks
    <3>2. b.contract[m.oracles[i].signal]["unit"] = None
      BY <1>1, <3>1 DEF Alike
    <3>3. QED
      BY <1>2, <3>1, <3>2 DEF ToleranceStatus
  <2>2. QED
    BY <2>1
<1>10. k # SelfComparison(m, b, c)
  BY <1>1, <1>2 DEF SelfComparison
<1>11. QED
  BY <1>3, <1>4, <1>5, <1>6, <1>7, <1>8, <1>9, <1>10 DEF CheckExperiment

\* Two subjects with the same data are refused unless that was declared.
LEMMA SameIsRefused ==
  ASSUME NEW m, NEW b, NEW c, ContentDigest(b) = ContentDigest(c), m.mode # "identity_check"
  PROVE  ~Valid(CheckExperiment(m, b, c))
<1>1. SelfComparison(m, b, c).status = "fail"
  BY DEF SelfComparison, ValidityCheck
<1>2. SelfComparison(m, b, c) \in CheckExperiment(m, b, c)
  BY DEF CheckExperiment
<1>3. QED
  BY <1>1, <1>2 DEF Valid, Failures

-----------------------------------------------------------------------------
(* What a row says of the run of its trial.                                  *)

\* A row that blames an oracle has one that failed, on subjects that may be compared; a
\* row that flags nothing has a verdict on such subjects, and none that failed; where
\* none fails there is no layer to blame but the runtime; and a refusal is explained.
LEMMA RowMeans ==
  ASSUME NEW r, NEW x, IsTrial(r, x)
  PROVE  LET valid == Valid(ReportOn(x))
         IN  /\ r.layer = "oracle" => valid /\ \E os : IsRunOf(os, x) /\ FailingIn(os)
             /\ ~r.detected =>
                  /\ valid /\ r.layer = "none"
                  /\ \E os : /\ IsRunOf(os, x) /\ ~FailingIn(os)
                             /\ r.verdict = Decide(x.manifest.policy, TRUE, StatusesOf(os))
             /\ valid /\ (\A os : IsRunOf(os, x) => ~FailingIn(os)) => r.layer \in {"none", "runtime"}
             /\ r.verdict = "INVALID_EXPERIMENT" => ~valid /\ r.reasons = ReasonCodes(ReportOn(x))
<1> DEFINE valid == Valid(ReportOn(x))
           policy == x.manifest.policy
<1>1. valid \in BOOLEAN
  BY DEF Valid
<1>2. CASE IsDecided(r, x)
  <2>1. PICK os, codes :
          /\ IsRunOf(os, x)
          /\ r = Analyze(Decide(policy, valid, StatusesOf(os)), codes, valid, FailingIn(os))
          /\ Decide(policy, valid, StatusesOf(os)) = "INVALID_EXPERIMENT" => codes = ReasonCodes(ReportOn(x))
    BY <1>2 DEF IsDecided
  <2> DEFINE failing == FailingIn(os)
             result == Decide(policy, valid, StatusesOf(os))
  <2>2. /\ result = "INVALID_EXPERIMENT" => ~valid
        /\ valid => result # "ERROR"
    BY DEF Decide
  <2>3. valid => result = Decide(policy, TRUE, StatusesOf(os))
    BY <1>1
  <2> HIDE DEF valid, result
  <2>4. /\ r.verdict = result /\ r.reasons = codes
        /\ ~r.detected => valid /\ ~failing /\ result \notin {"INVALID_EXPERIMENT", "ERROR"}
        /\ r.layer = IF ~valid \/ result = "INVALID_EXPERIMENT" THEN "validity"
                     ELSE IF failing THEN "oracle"
                     ELSE IF result = "ERROR" THEN "runtime" ELSE "none"
    BY <2>1 DEF Analyze, result
  <2>5. result = "INVALID_EXPERIMENT" => codes = ReasonCodes(ReportOn(x))
    BY <2>1 DEF result
  <2>6. r.layer = "oracle" => valid /\ failing
    BY <2>4
  <2>7. valid /\ ~failing => r.layer \in {"none", "runtime"}
    BY <2>2, <2>4
  <2>8. ~r.detected => r.layer = "none"
    BY <2>4
  <2>9. ~r.detected => r.verdict = Decide(policy, TRUE, StatusesOf(os))
    BY <2>3, <2>4
  <2>10. QED
    BY <2>1, <2>2, <2>4, <2>5, <2>6, <2>7, <2>8, <2>9 DEF valid
<1>3. CASE IsLost(r, x)
  <2>1. PICK os : /\ IsRunOf(os, x)
                  /\ r = Analyze("ERROR", {"IVF-EVIDENCE-WRITE-ERROR"}, valid, FailingIn(os))
    BY <1>3 DEF IsLost
  <2> DEFINE failing == FailingIn(os)
  <2> HIDE DEF valid
  <2>2. /\ r.verdict = "ERROR" /\ r.detected
        /\ r.layer = IF ~valid THEN "validity" ELSE IF failing THEN "oracle" ELSE "runtime"
    BY <2>1 DEF Analyze
  <2>3. r.layer = "oracle" => valid /\ failing
    BY <2>2
  <2>4. valid /\ ~failing => r.layer = "runtime"
    BY <2>2
  <2>5. QED
    BY <2>1, <2>2, <2>3, <2>4 DEF valid
<1>4. CASE IsBroken(r)
  <2>1. r.verdict = "ERROR" /\ r.detected /\ r.layer = "runtime"
    BY <1>4 DEF IsBroken, Analyze
  <2>2. QED
    BY <2>1
<1>5. QED
  BY <1>2, <1>3, <1>4 DEF IsTrial

-----------------------------------------------------------------------------
(* The arrays that the oracles of a trial see.                               *)

\* Without a warm-up, a window is all of a signal.
LEMMA WindowOfSignal ==
  ASSUME NEW x, x \in Experiments, NEW s, s \in {x.baseline, x.candidate},
         NEW n, n \in DOMAIN s.signals
  PROVE  LET w == Trim(s.signals[n], 0)
         IN  /\ IsArray(w) /\ w.rows = s.signals[n].rows /\ w.envs = s.signals[n].envs
             /\ w.envs = NumEnvs(s) /\ Steps(w) = Horizon(s)
<1> DEFINE a == s.signals[n]
           w == Trim(a, 0)
<1>1. /\ a.envs \in Nat /\ a.rows \in Seq(Range(a.rows))
      /\ \A t \in DOMAIN a.rows : DOMAIN a.rows[t] = Envs(a)
  BY ExperimentAssumption DEF Rectangular
<1>2. Steps(a) = Horizon(s) /\ a.envs = NumEnvs(s)
  BY CampaignAssumption DEF OneShape
<1>3. \A t \in DOMAIN a.rows : a.rows[t] \in [Envs(a) -> Number]
  BY NumericAssumption DEF Numeric, Number
<1>4. w = [envs |-> a.envs, rows |-> SubSeq(a.rows, 1, Len(a.rows))]
  BY DEF Trim, Steps
<1> HIDE DEF a, w
<1>5. SubSeq(a.rows, 1, Len(a.rows)) = a.rows
  BY <1>1, SubSeqFull
<1>6. w = [envs |-> a.envs, rows |-> a.rows]
  BY <1>4, <1>5
<1>7. a.rows \in Seq([Envs(a) -> Number])
  <2>1. \A t \in 1..Len(a.rows) : a.rows[t] \in [Envs(a) -> Number]
    BY <1>1, <1>3
  <2>2. a.rows \in [1..Len(a.rows) -> [Envs(a) -> Number]] /\ Len(a.rows) \in Nat
    <3>1. a.rows \in [1..Len(a.rows) -> Range(a.rows)]
      BY <1>1, LenProperties
    <3>2. QED
      BY <1>1, <2>1, <3>1
  <2>3. QED
    BY <2>2, SeqDef
<1>8. IsArray(w)
  BY <1>1, <1>6, <1>7 DEF IsArray, Envs
<1>9. QED
  BY <1>1, <1>2, <1>6, <1>8 DEF Steps, a, w


-----------------------------------------------------------------------------
(* Criteria on data that is the same, and whose cells are numbers.           *)

AllNumbers(a) == \A t \in DOMAIN a.rows : \A e \in Envs(a) : a.rows[t][e] \in Int

\* A trajectory equals itself.
LEMMA SameTrajectory ==
  ASSUME NEW spec, spec.tol \in Nat, spec.how \in {"max", "any", "second_largest"},
         NEW x, IsArray(x), AllNumbers(x), x.envs # 0, NEW d,
         ~(Steps(x) * x.envs < spec.floor)
  PROVE  Trajectory(spec, x, x, d) = Pass
<1> DEFINE curve == ErrorCurve(x, x)
<1>1. x.envs \in Nat \ {0} /\ Envs(x) = 1..x.envs
  BY DEF IsArray, Envs
<1>2. ASSUME NEW t, t \in DOMAIN curve PROVE ~Beyond(Aggregate(curve[t], spec.how), spec.tol)
  <2> DEFINE row == curve[t]
  <2>1. DOMAIN curve = DOMAIN x.rows
    BY CurveOf
  <2>2. /\ row \in [1..x.envs -> Nat \cup {NaN}]
        /\ \A e \in Envs(x) : row[e] = Distance(x.rows[t][e], x.rows[t][e])
    BY <1>2, <2>1, CurveOf
  <2>3. \A e \in Envs(x) : x.rows[t][e] \in Int
    BY <1>2, <2>1 DEF AllNumbers
  <2>4. \A v \in Int : Distance(v, v) = 0
    BY NaNAssumption DEF Distance
  <2> HIDE DEF row, curve
  <2>5. \A e \in 1..x.envs : row[e] = 0
    BY <1>1, <2>2, <2>3, <2>4
  <2>6. IsRow(row, x.envs) /\ DOMAIN row = 1..x.envs
    BY <1>1, <2>2 DEF IsRow
  <2>7. NaN \notin Range(row)
    BY <2>5, <2>6, NaNAssumption DEF Range
  <2>8. Over(row, spec.tol) = {}
    BY <2>5, <2>6 DEF Over
  <2>9. Cardinality(Over(row, spec.tol)) = 0
    BY <2>8, FS_EmptySet
  <2>10. 0 <= Allowance(spec.how, x.envs)
    BY DEF Allowance
  <2>11. ~Beyond(Aggregate(row, spec.how), spec.tol)
    BY <2>6, <2>7, <2>9, <2>10, AggregateMeans
  <2>12. QED
    BY <2>11 DEF row
<1>3. QED
  BY <1>2 DEF Trajectory

\* What a statistic takes of an environment is a number.
LEMMA SummaryOfNumbers ==
  ASSUME NEW x, IsArray(x), AllNumbers(x), Steps(x) # 0, NEW e, e \in Envs(x), NEW how
  PROVE  Summary(x, e, how) \in Int
<1> DEFINE column == {x.rows[t][e] : t \in DOMAIN x.rows}
           sizes  == {Magnitude(v) : v \in column}
<1>1. Steps(x) \in DOMAIN x.rows /\ DOMAIN x.rows = 1..Steps(x) /\ Steps(x) \in Nat \ {0}
  BY DEF IsArray, Steps
<1>2. \A t \in DOMAIN x.rows : x.rows[t][e] \in Int
  BY DEF AllNumbers
<1>3. \A v \in Int : Magnitude(v) \in Int
  BY DEF Magnitude
<1>4. NaN \notin column /\ column \subseteq Int
  BY <1>2, NaNAssumption
<1>5. sizes \in SUBSET Int /\ sizes # {}
  <2>1. x.rows[Steps(x)][e] \in column
    BY <1>1
  <2> HIDE DEF column
  <2>2. QED
    BY <1>3, <1>4, <2>1
<1>6. IsFiniteSet(sizes)
  <2> DEFINE f == [t \in 1..Steps(x) |-> Magnitude(x.rows[t][e])]
  <2>1. Range(f) = sizes
    BY <1>1 DEF Range
  <2>2. 1 \in Int /\ Steps(x) \in Int
    BY <1>1
  <2>3. IsFiniteSet(1..Steps(x))
    BY <2>2, FS_Interval
  <2>4. DOMAIN f = 1..Steps(x) /\ f = [t \in DOMAIN f |-> f[t]]
    OBVIOUS
  <2> HIDE DEF f
  <2>5. IsFiniteSet(Range(f))
    BY <2>3, <2>4, FiniteRange
  <2>6. QED
    BY <2>1, <2>5
<1>7. Max(sizes) \in Int
  <2> HIDE DEF sizes
  <2>1. QED
    BY <1>5, <1>6, MaxOf
<1>8. Magnitude(x.rows[Steps(x)][e]) \in Int /\ x.rows[Steps(x)][e] # NaN
  BY <1>1, <1>2, <1>3, NaNAssumption
<1> DEFINE last == x.rows[Steps(x)][e]
<1>9. Summary(x, e, how) = IF how = "final" THEN IF last = NaN THEN NaN ELSE Magnitude(last)
                           ELSE IF NaN \in column THEN NaN ELSE Max(sizes)
  BY DEF Summary
<1> HIDE DEF sizes, column, last
<1>10. QED
  BY <1>4, <1>7, <1>8, <1>9 DEF last

\* Data differs from itself by nothing, in every sample of its environments.
LEMMA SameStatistic ==
  ASSUME NEW spec, spec.kind = "statistical", spec.tol \in Nat, spec.floor \in Int,
         NEW x, IsArray(x), AllNumbers(x), Steps(x) # 0, x.envs # 0,
         spec.floor <= x.envs, BootstrapMinPairs <= x.envs,
         NEW i, i \in Intervals(spec, x, x)
  PROVE  Statistical(spec, x, x, i) = Pass
<1> DEFINE diffs == PairedDifference(spec, x, x)
<1>1. x.envs \in Nat \ {0} /\ Envs(x) = 1..x.envs
  BY DEF IsArray, Envs
<1>2. DOMAIN diffs = Envs(x)
  BY DEF PairedDifference
<1>3. ASSUME NEW e, e \in Envs(x) PROVE diffs[e] = 0
  <2> DEFINE p == Summary(x, e, spec.summary)
  <2>1. p \in Int
    BY <1>3, SummaryOfNumbers
  <2>2. diffs[e] = IF NaN \in {p, p} THEN NaN ELSE p - p
    BY <1>3 DEF PairedDifference
  <2> HIDE DEF p, diffs
  <2>3. QED
    BY <2>1, <2>2, NaNAssumption
<1> HIDE DEF diffs
<1>4. Range(diffs) = {0}
  BY <1>1, <1>2, <1>3 DEF Range
<1>5. NaN \notin Range(diffs)
  BY <1>4, NaNAssumption
<1>6. Min({0, 0}) = 0 /\ Max({0, 0}) = 0
  <2>1. 0 \in Int
    OBVIOUS
  <2>2. Min({0, 0}) = (IF 0 <= 0 THEN 0 ELSE 0) /\ Max({0, 0}) = (IF 0 >= 0 THEN 0 ELSE 0)
    BY <2>1, SmallerOf, LargerOf
  <2>3. QED
    BY <2>2
<1>7. Range(diffs) = {0, 0}
  BY <1>4
<1>8. i \in (0..0) \X (0..0)
  <2>1. Min(Range(diffs)) = 0 /\ Max(Range(diffs)) = 0
    BY <1>6, <1>7
  <2>2. Intervals(spec, x, x) = {j \in (0..0) \X (0..0) : j[1] <= j[2]}
    BY <1>5, <2>1 DEF Intervals, diffs
  <2>3. QED
    BY <2>2
<1>9. i[1] = 0 /\ i[2] = 0
  BY <1>8
<1>10. Inside(spec, i)
  BY <1>9 DEF Inside
<1>11. ~(x.envs < Max({spec.floor, BootstrapMinPairs}))
  <2>1. BootstrapMinPairs \in Int
    BY BootstrapAssumption
  <2>2. Max({spec.floor, BootstrapMinPairs})
          = IF spec.floor >= BootstrapMinPairs THEN spec.floor ELSE BootstrapMinPairs
    BY <2>1, LargerOf
  <2>3. QED
    BY <1>1, <2>1, <2>2
<1>12. QED
  BY <1>5, <1>10, <1>11 DEF Statistical, diffs

\* Numbers are finite, in either subject.
LEMMA SameIsFinite ==
  ASSUME NEW spec, spec.check = "finite_state", spec.signals = <<>>, NEW b, NEW c,
         c.signals = b.signals, \A n \in DOMAIN b.signals : AllNumbers(Trim(b.signals[n], 0))
  PROVE  Invariant(spec, b, c, 0) = Pass
<1> DEFINE judged == {i \in DOMAIN SortedNames : SortedNames[i] \in DOMAIN b.signals \cap DOMAIN c.signals}
           runs   == <<b, c>>
           cells(r, i) == BadCells(Trim(runs[r].signals[SortedNames[i]], 0), spec)
           bad    == {q \in {1, 2} \X judged : cells(q[1], q[2]) # {}}
<1>1. ASSUME NEW a, AllNumbers(a) PROVE BadCells(a, spec) = {}
  BY <1>1, NaNAssumption DEF AllNumbers, BadCells, Bad
<1>2. ASSUME NEW r, r \in {1, 2}, NEW i, i \in judged PROVE cells(r, i) = {}
  <2>1. runs[r].signals = b.signals /\ SortedNames[i] \in DOMAIN b.signals
    BY <1>2
  <2>2. AllNumbers(Trim(runs[r].signals[SortedNames[i]], 0))
    BY <2>1
  <2>3. QED
    BY <1>1, <2>2
<1>3. bad = {}
  <2> HIDE DEF cells
  <2>1. QED
    BY <1>2
<1>4. QED
  BY <1>3 DEF Invariant


\* On such subjects, a base criterion passes; a replay of actions may be skipped.
LEMMA AlikeOutcome ==
  ASSUME NEW x, x \in Experiments, Alike(x.baseline, x.candidate),
         NEW k, k.num_envs \in Nat \ {0}, k.steps \in Nat \ {0},
         DOMAIN x.baseline.signals = Range(PendulumNames),
         NumEnvs(x.baseline) = k.num_envs, Horizon(x.baseline) = k.steps,
         \A n \in DOMAIN x.baseline.signals : AllNumbers(x.baseline.signals[n]),
         NEW spec, CriterionIsDeclared(spec), BaseCriterion(spec, k),
         NEW o, o \in OutcomesOf(spec, x.baseline, x.candidate, 0)
  PROVE  /\ o.status \in {"pass", "skipped"}
         /\ spec.type = "trajectory_equivalence" => o.status = "pass"
<1> DEFINE b == x.baseline
           c == x.candidate
           w == Trim(b.signals[spec.signal], 0)
           d == ConfigDifferences(b, c)
<1>1. /\ c.signals = b.signals /\ c.actions = b.actions
      /\ ObservationDefinition(c) = ObservationDefinition(b)
  BY DEF Alike, ObservationDefinition
<1>2. Pass.status = "pass" /\ Skipped.status = "skipped"
  BY DEF Pass, Skipped, Outcome
<1>3. ASSUME NEW n, n \in DOMAIN b.signals
      PROVE  LET a == Trim(b.signals[n], 0)
             IN  /\ IsArray(a) /\ AllNumbers(a) /\ a.envs = k.num_envs /\ Steps(a) = k.steps
  <2>1. /\ IsArray(Trim(b.signals[n], 0)) /\ Trim(b.signals[n], 0).rows = b.signals[n].rows
        /\ Trim(b.signals[n], 0).envs = b.signals[n].envs
        /\ Trim(b.signals[n], 0).envs = NumEnvs(b) /\ Steps(Trim(b.signals[n], 0)) = Horizon(b)
    BY <1>3, WindowOfSignal
  <2>2. AllNumbers(Trim(b.signals[n], 0))
    BY <1>3, <2>1 DEF AllNumbers, Envs
  <2>3. QED
    BY <2>1, <2>2
<1>4. CASE spec.type = "trajectory_equivalence"
  <2>1. /\ spec.signal \in DOMAIN b.signals /\ spec.tol # None
        /\ spec.how \in {"max", "any", "second_largest"} /\ spec.floor <= k.steps * k.num_envs
    BY <1>4 DEF BaseCriterion
  <2>2. spec.tol \in Nat /\ spec.floor \in Nat \ {0}
    BY <2>1 DEF CriterionIsDeclared
  <2>3. o = Trajectory(spec, w, w, d)
    BY <1>1, <1>4, <2>1 DEF OutcomesOf, Pairwise, Gated
  <2>4. IsArray(w) /\ AllNumbers(w) /\ w.envs = k.num_envs /\ Steps(w) = k.steps
    BY <1>3, <2>1
  <2> HIDE DEF w, d
  <2>5. ~(Steps(w) * w.envs < spec.floor)
    <3>1. k.steps * k.num_envs \in Int
      OBVIOUS
    <3>2. QED
      BY <2>1, <2>2, <2>4, <3>1
  <2>6. o = Pass
    BY <2>1, <2>2, <2>3, <2>4, <2>5, SameTrajectory
  <2>7. QED
    BY <1>2, <2>6
<1>5. CASE spec.type = "statistical_equivalence"
  <2>1. /\ spec.kind = "statistical" /\ spec.signal \in DOMAIN b.signals /\ spec.tol # None
        /\ spec.floor <= k.num_envs /\ BootstrapMinPairs <= k.num_envs
    BY <1>5 DEF BaseCriterion
  <2>2. spec.tol \in Nat /\ spec.floor \in Int
    BY <2>1 DEF CriterionIsDeclared
  <2>3. IsArray(w) /\ AllNumbers(w) /\ w.envs = k.num_envs /\ Steps(w) = k.steps
    BY <1>3, <2>1
  <2>4. OutcomesOf(spec, b, c, 0) = IF w.envs = w.envs /\ 0 \notin {Steps(w), Steps(w)}
                                      THEN {Statistical(spec, w, w, i) : i \in Intervals(spec, w, w)}
                                      ELSE {Statistical(spec, w, w, <<0, 0>>)}
    BY <1>1, <1>5, <2>1 DEF OutcomesOf, Pairwise, Gated
  <2> HIDE DEF w
  <2>5. Steps(w) # 0 /\ w.envs # 0
    BY <2>3
  <2>6. PICK i \in Intervals(spec, w, w) : o = Statistical(spec, w, w, i)
    BY <2>4, <2>5
  <2>7. o = Pass
    BY <2>1, <2>2, <2>3, <2>5, <2>6, SameStatistic
  <2>8. QED
    BY <1>2, <1>5, <2>7
<1>6. CASE spec.type = "invariant"
  <2>1. spec.check = "finite_state" /\ spec.signals = <<>>
    BY <1>6 DEF BaseCriterion
  <2>2. o = Invariant(spec, b, c, 0)
    BY <1>6 DEF OutcomesOf, Pairwise, Gated, Whole
  <2>3. o = Pass
    BY <1>1, <1>3, <2>1, <2>2, SameIsFinite
  <2>4. QED
    BY <1>2, <1>6, <2>3
<1>7. CASE spec.type = "action_replay_consumption"
  <2>1. o = ActionReplay(b, c)
    BY <1>7 DEF OutcomesOf, Pairwise, Gated, Whole
  <2>2. QED
    BY <1>1, <1>2, <1>7, <2>1 DEF ActionReplay
<1>8. CASE spec.type = "observation_definition_stability"
  <2>1. o = ObservationStability(b, c)
    BY <1>8 DEF OutcomesOf, Pairwise, Gated, Whole
  <2>2. QED
    BY <1>1, <1>2, <1>8, <2>1 DEF ObservationStability
<1>9. QED
  BY <1>4, <1>5, <1>6, <1>7, <1>8 DEF BaseCriterion

-----------------------------------------------------------------------------
(* Trials of campaigns on a base like the one that ships with ivf.           *)

\* The baseline of every trial is the pendulum without a fault.
LEMMA BaselineIs ==
  ASSUME NEW c, c \in Campaigns, CalibrationBase(c), NEW fault, NEW seed, seed \in Range(c.seeds)
  PROVE  LET b == TrialExperiment(c, fault, seed).baseline
         IN  /\ DOMAIN b.signals = Range(PendulumNames)
             /\ NumEnvs(b) = c.params.num_envs /\ Horizon(b) = c.params.steps
             /\ \A n \in DOMAIN b.signals : AllNumbers(b.signals[n])
             /\ b.meta["asset_identity"] = "damped_pendulum.v1"
<1> DEFINE k == Undamaged(c.params)
           b == LoadSynthetic("none", c.params, seed)
<1>1. TrialExperiment(c, fault, seed).baseline = b /\ b = DampedPendulum(k, seed)
  BY PartsOfTrial, LoadedIs
<1>2. /\ IsIntegrable(k) /\ k.apply_reset_velocity = TRUE
      /\ k.num_envs = c.params.num_envs /\ k.steps = c.params.steps
  BY UndamagedIs DEF CalibrationBase
<1>3. \A e \in 1..k.num_envs : seed[e] \in Int
  <2>1. PICK i \in DOMAIN c.seeds : c.seeds[i] = seed
    BY DEF Range
  <2>2. QED
    BY <1>2, <2>1 DEF CalibrationBase
<1> HIDE DEF k, b
<1>4. DOMAIN b.signals = Range(PendulumNames) /\ b.meta["asset_identity"] = "damped_pendulum.v1"
  BY <1>1, PendulumRecords
<1>5. ASSUME NEW n, n \in Range(PendulumNames)
      PROVE  /\ b.signals[n].envs = k.num_envs /\ Steps(b.signals[n]) = k.steps
             /\ AllNumbers(b.signals[n])
  <2> DEFINE a == DampedPendulum(k, seed).signals[n]
  <2>1. /\ a.envs = k.num_envs /\ Len(a.rows) = k.steps
        /\ \A t \in DOMAIN a.rows, e \in Envs(a) : a.rows[t][e] \in Int
    BY <1>2, <1>3, <1>5, PendulumArrays
  <2>2. b.signals[n] = a
    BY <1>1
  <2> HIDE DEF a
  <2>3. AllNumbers(a)
    BY <2>1 DEF AllNumbers
  <2>4. QED
    BY <2>1, <2>2, <2>3 DEF Steps
<1>6. (CHOOSE n \in DOMAIN b.signals : TRUE) \in Range(PendulumNames)
  <2>1. PendulumNames[1] \in Range(PendulumNames)
    BY DEF PendulumNames, Range
  <2>2. QED
    BY <1>4, <2>1
<1>7. NumEnvs(b) = k.num_envs /\ Horizon(b) = k.steps
  BY <1>5, <1>6 DEF NumEnvs, Horizon, AnySignal
<1>8. QED
  BY <1>1, <1>2, <1>4, <1>5, <1>7

\* What there is to say of a manifest with a fault injected into it.
LEMMA ManifestOfTrial ==
  ASSUME NEW c, c \in Campaigns, CalibrationBase(c), NEW fault, NEW seed
  PROVE  LET m == TrialExperiment(c, fault, seed).manifest
         IN  /\ m.same = c.manifest.same /\ m.workload = c.manifest.workload
             /\ m.oracles = c.manifest.oracles /\ m.policy = c.manifest.policy
             /\ m.mode = IF fault \in ArrayPreserving THEN "identity_check" ELSE "comparison"
             /\ Warmup(m) = 0
<1> DEFINE m == TrialExperiment(c, fault, seed).manifest
<1>1. m = InjectIntoManifest(c.manifest, fault)
  BY PartsOfTrial
<1> HIDE DEF m
<1>2. /\ m.same = c.manifest.same /\ m.workload = c.manifest.workload
      /\ m.oracles = c.manifest.oracles /\ m.policy = c.manifest.policy
      /\ m.mode = IF fault \in ArrayPreserving THEN "identity_check" ELSE c.manifest.mode
  BY <1>1, InjectedManifest
<1>3. Warmup(m) = Warmup(c.manifest)
  BY <1>2 DEF Warmup
<1>4. QED
  BY <1>2, <1>3 DEF CalibrationBase, m


\* No oracle of a trial flags arrays that a fault has left alone.
LEMMA AlikePasses ==
  ASSUME NEW c, c \in Campaigns, CalibrationBase(c), NEW fault, fault \in ArrayPreserving,
         NEW seed, seed \in Range(c.seeds), TrialExperiment(c, fault, seed) \in Experiments,
         NEW os, IsRunOf(os, TrialExperiment(c, fault, seed))
  PROVE  /\ \A j \in DOMAIN os :
              /\ j \in DOMAIN c.manifest.oracles
              /\ os[j].status \in {"pass", "skipped"}
              /\ c.manifest.oracles[j].type = "trajectory_equivalence" => os[j].status = "pass"
         /\ ~FailingIn(os)
<1> DEFINE x == TrialExperiment(c, fault, seed)
           k == c.params
<1>1. Alike(x.baseline, x.candidate)
  BY PartsOfTrial, ArrayPreservingIsAlike
<1>2. /\ x.manifest.oracles = c.manifest.oracles /\ Warmup(x.manifest) = 0
  BY ManifestOfTrial
<1>3. /\ DOMAIN x.baseline.signals = Range(PendulumNames)
      /\ NumEnvs(x.baseline) = k.num_envs /\ Horizon(x.baseline) = k.steps
      /\ \A n \in DOMAIN x.baseline.signals : AllNumbers(x.baseline.signals[n])
  BY BaselineIs
<1>4. k.num_envs \in Nat \ {0} /\ k.steps \in Nat \ {0}
  BY DEF CalibrationBase, IsPendulum
<1> HIDE DEF x
<1>5. ASSUME NEW j, j \in DOMAIN os
      PROVE  /\ j \in DOMAIN c.manifest.oracles
             /\ os[j].status \in {"pass", "skipped"}
             /\ c.manifest.oracles[j].type = "trajectory_equivalence" => os[j].status = "pass"
  <2> DEFINE spec == c.manifest.oracles[j]
  <2>1. os \in Seq(Possible) /\ j <= Len(x.manifest.oracles)
        /\ os[j] \in OutcomesOf(x.manifest.oracles[j], x.baseline, x.candidate, Warmup(x.manifest))
    BY <1>5 DEF IsRunOf, x
  <2>2. x.manifest.oracles \in Seq(Range(x.manifest.oracles))
    BY ExperimentAssumption DEF WellFormed, x
  <2>3. j \in DOMAIN x.manifest.oracles
    BY <1>5, <2>1, <2>2
  <2>4. CriterionIsDeclared(spec)
    BY <1>2, <2>3, NumericAssumption DEF x
  <2>5. BaseCriterion(spec, k)
    BY <1>2, <2>3 DEF CalibrationBase
  <2>6. os[j] \in OutcomesOf(spec, x.baseline, x.candidate, 0)
    BY <1>2, <2>1
  <2>7. x \in Experiments
    BY DEF x
  <2> HIDE DEF spec, k
  <2>8. /\ os[j].status \in {"pass", "skipped"}
        /\ spec.type = "trajectory_equivalence" => os[j].status = "pass"
    BY <1>1, <1>3, <1>4, <2>4, <2>5, <2>6, <2>7, AlikeOutcome
  <2>9. QED
    BY <1>2, <2>3, <2>8 DEF spec
<1>6. ~FailingIn(os)
  BY <1>5 DEF FailingIn, StatusesOf
<1>7. QED
  BY <1>5, <1>6

\* Of such a trial, only corrupted metadata is refused, and for the metadata.
LEMMA AlikeRefused ==
  ASSUME NEW c, c \in Campaigns, CalibrationBase(c), NEW fault, fault \in ArrayPreserving,
         NEW seed, seed \in Range(c.seeds),
         NEW check, check \in ReportOn(TrialExperiment(c, fault, seed)), check.status = "fail"
  PROVE  check.code = "IVF-CONTROL-METADATA-MISMATCH" /\ fault = "corrupted_metadata"
<1> DEFINE x == TrialExperiment(c, fault, seed)
<1>1. /\ Alike(x.baseline, x.candidate)
      /\ fault # "corrupted_metadata" =>
           x.candidate.meta["asset_identity"] = x.baseline.meta["asset_identity"]
  BY PartsOfTrial, ArrayPreservingIsAlike
<1>2. x.manifest.mode = "identity_check" /\ x.manifest.workload = c.manifest.workload
  BY ManifestOfTrial
<1>3. Horizon(x.baseline) = c.params.steps
  BY BaselineIs
<1>4. Horizon(x.baseline) >= x.manifest.workload.steps
  <2>1. c.manifest.workload.steps <= c.params.steps
    BY DEF CalibrationBase
  <2>2. x.manifest.workload.steps <= Horizon(x.baseline)
    BY <1>2, <1>3, <2>1
  <2> HIDE DEF x
  <2>3. QED
    BY <2>2
<1>5. check \in CheckExperiment(x.manifest, x.baseline, x.candidate)
  BY DEF ReportOn
<1> HIDE DEF x
<1>6. QED
  BY <1>1, <1>2, <1>4, <1>5, AlikeChecks

\* A row of the matrix, and the trial it is of.
LEMMA RowIs ==
  ASSUME AllTabulated, NEW i, i \in 1..Len(matrix)
  PROVE  /\ campaign \in Campaigns
         /\ FaultOf(campaign, i) \in FaultNames /\ SeedOf(campaign, i) \in Range(campaign.seeds)
         /\ Made(i) = TrialExperiment(campaign, FaultOf(campaign, i), SeedOf(campaign, i))
         /\ Made(i) \in Experiments /\ IsTrial(matrix[i], Made(i))
<1>1. campaign \in Campaigns /\ Len(matrix) \in Nat /\ Len(matrix) <= Trials(campaign)
      /\ IsTrial(matrix[i], Made(i))
  BY DEF AllTabulated, Tabulated
<1>2. Trials(campaign) \in Nat
  <2>1. Len(campaign.seeds) \in Nat /\ Len(Taxonomy) = 17
    BY <1>1, SeedsCounted, TaxonomyHas
  <2>2. QED
    BY <2>1 DEF Trials
<1>3. i \in Nat \ {0} /\ i <= Trials(campaign)
  BY <1>1, <1>2
<1>4. QED
  BY <1>1, <1>3, TrialOf DEF Made

LEMMA JustMadeIs ==
  ASSUME AllTabulated, NEW i, i \in JustMade
  PROVE  i \in 1..Len(matrix)
BY DEF JustMade, AllTabulated, Tabulated

\* Credit goes to the oracles for changed data only, and to metadata for metadata.
LEMMA CreditFollows ==
  ASSUME AllTabulated, \A c \in Campaigns : CalibrationBase(c)
  PROVE  CreditIsDue
<1> SUFFICES ASSUME NEW i, i \in JustMade
             PROVE  LET fault == FaultOf(campaign, i)
                    IN  /\ matrix[i].layer = "oracle" => ~SameData(Made(i))
                        /\ fault \in Undetectable => matrix[i].layer \in {"none", "runtime"}
                        /\ fault = "corrupted_metadata" /\ matrix[i].verdict = "INVALID_EXPERIMENT" =>
                             matrix[i].reasons = {"IVF-CONTROL-METADATA-MISMATCH"}
  BY DEF CreditIsDue
<1> DEFINE r     == matrix[i]
           x     == Made(i)
           fault == FaultOf(campaign, i)
           seed  == SeedOf(campaign, i)
<1>1. /\ campaign \in Campaigns /\ seed \in Range(campaign.seeds) /\ CalibrationBase(campaign)
      /\ x = TrialExperiment(campaign, fault, seed) /\ x \in Experiments /\ IsTrial(r, x)
  BY JustMadeIs, RowIs
<1> HIDE DEF r, x, fault, seed
<1>2. /\ r.layer = "oracle" => Valid(ReportOn(x)) /\ \E os : IsRunOf(os, x) /\ FailingIn(os)
      /\ Valid(ReportOn(x)) /\ (\A os : IsRunOf(os, x) => ~FailingIn(os)) => r.layer \in {"none", "runtime"}
      /\ r.verdict = "INVALID_EXPERIMENT" => ~Valid(ReportOn(x)) /\ r.reasons = ReasonCodes(ReportOn(x))
  BY <1>1, RowMeans
<1>3. fault \in ArrayPreserving => \A os : IsRunOf(os, x) => ~FailingIn(os)
  BY <1>1, AlikePasses
<1>4. fault \in ArrayPreserving => \A check \in ReportOn(x) :
        check.status = "fail" =>
          check.code = "IVF-CONTROL-METADATA-MISMATCH" /\ fault = "corrupted_metadata"
  BY <1>1, AlikeRefused
<1>5. fault \notin ArrayPreserving /\ SameData(x) => ~Valid(ReportOn(x))
  <2>1. fault \notin ArrayPreserving => x.manifest.mode = "comparison"
    BY <1>1, ManifestOfTrial
  <2>2. QED
    BY <2>1, SameIsRefused DEF SameData, ReportOn
<1>6. r.layer = "oracle" => ~SameData(x)
  BY <1>2, <1>3, <1>5
<1>7. fault \in Undetectable => r.layer \in {"none", "runtime"}
  <2>1. fault \in Undetectable => fault \in ArrayPreserving /\ fault # "corrupted_metadata"
    BY DEF Undetectable, ArrayPreserving
  <2>2. fault \in Undetectable => Valid(ReportOn(x))
    BY <1>4, <2>1 DEF Valid, Failures
  <2>3. QED
    BY <1>2, <1>3, <2>1, <2>2
<1>8. ASSUME fault = "corrupted_metadata", r.verdict = "INVALID_EXPERIMENT"
      PROVE  r.reasons = {"IVF-CONTROL-METADATA-MISMATCH"}
  <2>1. fault \in ArrayPreserving
    BY <1>8 DEF ArrayPreserving
  <2>2. \A check \in Failures(ReportOn(x)) : check.code = "IVF-CONTROL-METADATA-MISMATCH"
    BY <1>4, <2>1 DEF Failures
  <2>3. Failures(ReportOn(x)) # {} /\ r.reasons = ReasonCodes(ReportOn(x))
    BY <1>2, <1>8 DEF Valid
  <2>4. None # "IVF-CONTROL-METADATA-MISMATCH"
    BY CodeAssumption DEF CheckCodes
  <2>5. QED
    BY <2>2, <2>3, <2>4 DEF ReasonCodes
<1>9. QED
  BY <1>6, <1>7, <1>8 DEF r, x, fault


\* A trial that is not flagged was judged, by every oracle of its manifest.
LEMMA UnflaggedIs ==
  ASSUME AllTabulated, \A c \in Campaigns : CalibrationBase(c),
         NEW i, i \in 1..Len(matrix), ~matrix[i].detected
  PROVE  LET x == Made(i)
         IN  /\ Valid(ReportOn(x)) /\ matrix[i].layer = "none"
             /\ \E os : /\ IsRunOf(os, x) /\ ~FailingIn(os)
                        /\ DOMAIN os = DOMAIN campaign.manifest.oracles
                        /\ \A j \in DOMAIN os :
                             os[j] \in OutcomesOf(campaign.manifest.oracles[j], x.baseline,
                                                  x.candidate, 0)
                        /\ matrix[i].verdict = Decide(x.manifest.policy, TRUE, StatusesOf(os))
<1> DEFINE r == matrix[i]
           x == Made(i)
           oracles == campaign.manifest.oracles
<1>1. /\ campaign \in Campaigns /\ CalibrationBase(campaign)
      /\ x = TrialExperiment(campaign, FaultOf(campaign, i), SeedOf(campaign, i))
      /\ x \in Experiments /\ IsTrial(r, x)
  BY RowIs
<1> HIDE DEF x
<1>2. x.manifest.oracles = oracles /\ Warmup(x.manifest) = 0
  BY <1>1, ManifestOfTrial
<1>3. ~r.detected
  OBVIOUS
<1> HIDE DEF r
<1>4. /\ Valid(ReportOn(x)) /\ r.layer = "none"
      /\ \E os : /\ IsRunOf(os, x) /\ ~FailingIn(os)
                 /\ r.verdict = Decide(x.manifest.policy, TRUE, StatusesOf(os))
  BY <1>1, <1>3, RowMeans
<1>5. PICK os : /\ IsRunOf(os, x) /\ ~FailingIn(os)
                /\ r.verdict = Decide(x.manifest.policy, TRUE, StatusesOf(os))
  BY <1>4
<1>6. os \in Seq(Possible) /\ Len(os) = Len(oracles)
  BY <1>2, <1>4, <1>5 DEF IsRunOf, Declared
<1>7. oracles \in Seq(Range(oracles))
  BY <1>1, <1>2, ExperimentAssumption DEF WellFormed
<1>8. DOMAIN os = DOMAIN oracles
  <2> HIDE DEF oracles
  <2>1. DOMAIN os = 1..Len(os) /\ DOMAIN oracles = 1..Len(oracles)
    BY <1>6, <1>7
  <2>2. QED
    BY <1>6, <2>1
<1>9. \A j \in DOMAIN os : os[j] \in OutcomesOf(oracles[j], x.baseline, x.candidate, 0)
  BY <1>2, <1>5 DEF IsRunOf
<1>10. QED
  BY <1>4, <1>5, <1>8, <1>9 DEF r, x

\* A negative control that is not flagged has passed.
LEMMA EarnedFollows ==
  ASSUME AllTabulated, \A c \in Campaigns : CalibrationBase(c)
  PROVE  ConsistentIsEarned
<1> SUFFICES ASSUME Consistent, NEW i, i \in Row("none")
             PROVE  matrix[i].verdict = "PASS" /\ matrix[i].layer = "none"
  BY DEF ConsistentIsEarned
<1>1. "none" \in FaultNames /\ "none" \in Undetectable /\ "none" \in ArrayPreserving
  <2>1. Taxonomy[1] = "none" /\ 1 \in 1..17
    BY DEF Taxonomy
  <2>2. QED
    BY <2>1, TaxonomyHas DEF Undetectable, ArrayPreserving
<1>2. i \in 1..Len(matrix) /\ FaultOf(campaign, i) = "none" /\ ~matrix[i].detected
  <2>1. RowConsistent("none")
    BY <1>1 DEF Consistent
  <2>2. DOMAIN matrix = 1..Len(matrix)
    BY DEF AllTabulated, Tabulated
  <2>3. QED
    BY <1>1, <2>1, <2>2 DEF Row, RowConsistent
<1> DEFINE x    == Made(i)
           seed == SeedOf(campaign, i)
<1>3. /\ campaign \in Campaigns /\ seed \in Range(campaign.seeds) /\ CalibrationBase(campaign)
      /\ x = TrialExperiment(campaign, "none", seed) /\ x \in Experiments
  BY <1>2, RowIs
<1> HIDE DEF seed
<1>4. /\ matrix[i].layer = "none"
      /\ \E os : /\ IsRunOf(os, x) /\ ~FailingIn(os)
                 /\ DOMAIN os = DOMAIN campaign.manifest.oracles
                 /\ matrix[i].verdict = Decide(x.manifest.policy, TRUE, StatusesOf(os))
  BY <1>2, UnflaggedIs
<1> HIDE DEF x
<1>5. PICK os : /\ IsRunOf(os, x) /\ DOMAIN os = DOMAIN campaign.manifest.oracles
                /\ matrix[i].verdict = Decide(x.manifest.policy, TRUE, StatusesOf(os))
  BY <1>4
<1>6. \A j \in DOMAIN os :
        /\ os[j].status \in {"pass", "skipped"}
        /\ campaign.manifest.oracles[j].type = "trajectory_equivalence" => os[j].status = "pass"
  BY <1>1, <1>3, <1>5, AlikePasses
<1>7. PICK j \in DOMAIN os : campaign.manifest.oracles[j].type = "trajectory_equivalence"
  BY <1>3, <1>5 DEF CalibrationBase
<1>8. StatusesOf(os) \subseteq {"pass", "skipped"} /\ "pass" \in StatusesOf(os)
  BY <1>6, <1>7 DEF StatusesOf
<1>9. Decide(x.manifest.policy, TRUE, StatusesOf(os)) = "PASS"
  BY <1>8 DEF Decide
<1>10. QED
  BY <1>4, <1>5, <1>9

-----------------------------------------------------------------------------
(* Misses.                                                                   *)

\* A fault of the trace leaves the names of the signals what they are.
LEMMA TraceKeepsSignals ==
  ASSUME NEW s, NEW meta, NEW actions, NEW features, NEW complete, NEW contract, NEW signals,
         s = [signals |-> signals, meta |-> meta, actions |-> actions,
              features |-> features, complete |-> complete, contract |-> contract],
         NEW f
  PROVE  DOMAIN ApplyTraceFault(f, s).signals = DOMAIN signals
<1>1. CASE f = "wrong_env_origin"
  BY <1>1 DEF ApplyTraceFault, OnTarget
<1>2. CASE f = "incorrect_clone_count"
  BY <1>2 DEF ApplyTraceFault, OnAll
<1>3. CASE f = "quaternion_ordering"
  BY <1>3 DEF ApplyTraceFault
<1>4. CASE f = "observation_field_swap"
  BY <1>4 DEF ApplyTraceFault
<1>5. CASE f = "stale_sensor_state"
  BY <1>5 DEF ApplyTraceFault, OnTarget
<1>6. CASE f = "silent_nan"
  BY <1>6 DEF ApplyTraceFault, OnTarget
<1>7. CASE f = "truncated_rollout"
  BY <1>7 DEF ApplyTraceFault, OnAll
<1>8. CASE f = "corrupted_metadata"
  BY <1>8 DEF ApplyTraceFault
<1>9. CASE f = "unsupported_feature_misreported"
  BY <1>9 DEF ApplyTraceFault
<1>10. CASE f \notin {"wrong_env_origin", "incorrect_clone_count", "quaternion_ordering",
                      "observation_field_swap", "stale_sensor_state", "silent_nan",
                      "truncated_rollout", "corrupted_metadata",
                      "unsupported_feature_misreported"}
  BY <1>10 DEF ApplyTraceFault
<1>11. QED
  BY <1>1, <1>2, <1>3, <1>4, <1>5, <1>6, <1>7, <1>8, <1>9, <1>10


LEMMA CandidateSignals ==
  ASSUME NEW f, NEW params, NEW seed
  PROVE  DOMAIN LoadSynthetic(f, params, seed).signals = Range(PendulumNames)
<1> DEFINE filled == Filled(params, [drive_step_offset |-> 0, apply_reset_velocity |-> TRUE,
                                     declared_drive_amplitude |-> params.drive_amplitude])
           k == ApplyGenerationFault(f, filled)
           s == DampedPendulum(k, seed)
<1>1. LoadSynthetic(f, params, seed) = ApplyTraceFault(f, s)
  BY DEF LoadSynthetic
<1> HIDE DEF k
<1>2. /\ s = [signals |-> s.signals, meta |-> s.meta, actions |-> s.actions,
              features |-> {}, complete |-> TRUE, contract |-> s.contract]
      /\ DOMAIN s.signals = Range(PendulumNames)
  BY PendulumRecords
<1> HIDE DEF s
<1>3. DOMAIN ApplyTraceFault(f, s).signals = DOMAIN s.signals
  BY <1>2, TraceKeepsSignals
<1>4. QED
  BY <1>1, <1>2, <1>3

\* Subjects that were not refused have as many environments and steps.
LEMMA ValidHasOneShape ==
  ASSUME NEW x, x \in Experiments, {"num_envs", "horizon"} \subseteq x.manifest.same,
         Valid(ReportOn(x)),
         NEW n, n \in DOMAIN x.baseline.signals \cap DOMAIN x.candidate.signals
  PROVE  NumEnvs(x.baseline) = NumEnvs(x.candidate) /\ Horizon(x.baseline) = Horizon(x.candidate)
<1> DEFINE b == x.baseline
           c == x.candidate
<1>1. WellFormed(x.manifest)
  BY ExperimentAssumption
<1>2. \A check \in ReportOn(x) : check.status # "fail"
  BY DEF Valid, Failures
<1>3. ASSUME NEW control, control \in x.manifest.same
      PROVE  Agree(Recorded(b, control), Recorded(c, control))
  BY <1>1, <1>2, <1>3, RequiredIsCompared, NotFailedAgree DEF ReportOn
<1>4. Agree(NumEnvs(b), NumEnvs(c)) /\ Agree(Horizon(b), Horizon(c))
  BY <1>3, RecordedIs
<1>5. ASSUME NEW s, s \in {b, c} PROVE NumEnvs(s) \in Nat /\ Horizon(s) \in Nat
  <2> DEFINE w == Trim(s.signals[n], 0)
  <2>1. IsArray(w) /\ w.envs = NumEnvs(s) /\ Steps(w) = Horizon(s)
    BY <1>5, WindowOfSignal
  <2> HIDE DEF w
  <2>2. QED
    BY <2>1 DEF IsArray, Steps
<1>6. None \notin {NumEnvs(b), NumEnvs(c), Horizon(b), Horizon(c)}
  BY <1>5, NoneAssumption
<1>7. QED
  BY <1>4, <1>6 DEF Agree

\* What a trajectory oracle that neither failed nor lacked data has found of two signals.
LEMMA TrajectoryFound ==
  ASSUME NEW x, x \in Experiments, {"num_envs", "horizon"} \subseteq x.manifest.same,
         Valid(ReportOn(x)),
         NEW spec, CriterionIsDeclared(spec), spec.type = "trajectory_equivalence",
         spec.tol # None, spec.how \in {"max", "any", "second_largest"},
         spec.signal \in DOMAIN x.baseline.signals \cap DOMAIN x.candidate.signals,
         NumEnvs(x.baseline) # 0,
         spec.floor <= Horizon(x.baseline) * NumEnvs(x.baseline),
         NEW o, o \in OutcomesOf(spec, x.baseline, x.candidate, 0), o.status # "fail"
  PROVE  LET curve == ErrorCurve(x.baseline.signals[spec.signal], x.candidate.signals[spec.signal])
         IN  \A t \in DOMAIN curve :
               /\ NaN \notin Range(curve[t])
               /\ Cardinality({e \in DOMAIN curve[t] : curve[t][e] > spec.tol}) <= 1
<1> DEFINE b == x.baseline.signals[spec.signal]
           c == x.candidate.signals[spec.signal]
           u == Trim(b, 0)
           v == Trim(c, 0)
           d == ConfigDifferences(x.baseline, x.candidate)
           curve == ErrorCurve(u, v)
<1>1. /\ IsArray(u) /\ u.rows = b.rows /\ u.envs = b.envs
      /\ u.envs = NumEnvs(x.baseline) /\ Steps(u) = Horizon(x.baseline)
  BY WindowOfSignal
<1>2. /\ IsArray(v) /\ v.rows = c.rows /\ v.envs = c.envs
      /\ v.envs = NumEnvs(x.candidate) /\ Steps(v) = Horizon(x.candidate)
  BY WindowOfSignal
<1>3. Shape(u) = Shape(v)
  <2>1. NumEnvs(x.baseline) = NumEnvs(x.candidate) /\ Horizon(x.baseline) = Horizon(x.candidate)
    BY ValidHasOneShape
  <2> HIDE DEF u, v
  <2>2. QED
    BY <1>1, <1>2, <2>1 DEF Shape
<1>4. spec.tol \in Nat /\ spec.floor \in Nat \ {0}
  BY DEF CriterionIsDeclared
<1>5. o = Trajectory(spec, u, v, d)
  BY DEF OutcomesOf, Pairwise, Gated
<1>6. ErrorCurve(b, c) = curve
  <2> HIDE DEF u, v
  <2>1. QED
    BY <1>1, <1>2 DEF ErrorCurve, Envs
<1> HIDE DEF b, c, u, v, d
<1>7. u.envs \in Nat \ {0} /\ Steps(u) \in Nat
  BY <1>1 DEF IsArray, Steps
<1>8. ~(Steps(u) * u.envs < spec.floor)
  <2>1. Steps(u) * u.envs \in Int
    BY <1>7
  <2>2. spec.floor <= Steps(u) * u.envs
    BY <1>1
  <2>3. QED
    BY <1>4, <2>1, <2>2
<1>9. \A t \in DOMAIN curve : ~Beyond(Aggregate(curve[t], spec.how), spec.tol)
  <2>1. \A record : Exceeded(spec, record).status = "fail"
    BY DEF Exceeded, Outcome
  <2>2. QED
    BY <1>3, <1>5, <1>8, <2>1 DEF Trajectory
<1>10. ASSUME NEW t, t \in DOMAIN curve
       PROVE  /\ NaN \notin Range(curve[t])
              /\ Cardinality({e \in DOMAIN curve[t] : curve[t][e] > spec.tol}) <= 1
  <2>1. DOMAIN curve = DOMAIN u.rows
    BY <1>1, <1>2, <1>3, CurveOf
  <2>2. curve[t] \in [1..u.envs -> Nat \cup {NaN}]
    BY <1>1, <1>2, <1>3, <1>10, <2>1, CurveOf
  <2> DEFINE row == curve[t]
  <2>3. IsRow(row, u.envs)
    BY <1>7, <2>2 DEF IsRow
  <2>4. ~Beyond(Aggregate(row, spec.how), spec.tol)
    BY <1>9, <1>10
  <2> HIDE DEF row
  <2>5. NaN \notin Range(row) /\ Cardinality(Over(row, spec.tol)) <= Allowance(spec.how, u.envs)
    BY <1>4, <2>3, <2>4, AggregateMeans
  <2>6. Allowance(spec.how, u.envs) \in {0, 1}
    BY DEF Allowance
  <2>7. Cardinality(Over(row, spec.tol)) \in Nat
    BY <2>3, CountOf DEF Over
  <2>8. Cardinality(Over(row, spec.tol)) <= 1
    BY <2>5, <2>6, <2>7
  <2>9. QED
    BY <2>5, <2>8 DEF row, Over
<1> HIDE DEF curve
<1>11. QED
  BY <1>6, <1>10 DEF b, c

\* Corrupted metadata is refused.
LEMMA CorruptedIsRefused ==
  ASSUME NEW c, c \in Campaigns, CalibrationBase(c), NEW seed, seed \in Range(c.seeds),
         TrialExperiment(c, "corrupted_metadata", seed) \in Experiments
  PROVE  ~Valid(ReportOn(TrialExperiment(c, "corrupted_metadata", seed)))
<1> DEFINE x == TrialExperiment(c, "corrupted_metadata", seed)
<1> SUFFICES ASSUME Valid(ReportOn(x)) PROVE FALSE
  OBVIOUS
<1>1. "corrupted_metadata" \in ArrayPreserving
  BY DEF ArrayPreserving
<1>2. /\ x.candidate.meta["asset_identity"] = "corrupted-asset"
      /\ x.baseline.meta["asset_identity"] = "damped_pendulum.v1"
  BY <1>1, PartsOfTrial, ArrayPreservingIsAlike
<1>3. "asset_identity" \in x.manifest.same
  BY ManifestOfTrial DEF CalibrationBase
<1>4. WellFormed(x.manifest)
  BY ExperimentAssumption
<1> HIDE DEF x
<1>5. \A check \in ReportOn(x) : check.status # "fail"
  BY DEF Valid, Failures
<1>6. Agree(Recorded(x.baseline, "asset_identity"), Recorded(x.candidate, "asset_identity"))
  BY <1>3, <1>4, <1>5, RequiredIsCompared, NotFailedAgree DEF ReportOn
<1>7. /\ Recorded(x.baseline, "asset_identity") = "damped_pendulum.v1"
      /\ Recorded(x.candidate, "asset_identity") = "corrupted-asset"
  <2>1. "asset_identity" \in DOMAIN MetadataKey /\ MetadataKey["asset_identity"] = "asset_identity"
    BY DEF MetadataKey
  <2>2. QED
    BY <1>2, <2>1, RecordedIs
<1>8. QED
  BY <1>6, <1>7, RecordedAssumption DEF Agree

\* What a passing trajectory criterion says of the two recordings, under a name.
WithinTolerance(x, spec) ==
  LET curve == ErrorCurve(x.baseline.signals[spec.signal], x.candidate.signals[spec.signal])
  IN  \A t \in DOMAIN curve :
        /\ NaN \notin Range(curve[t])
        /\ Cardinality({e \in DOMAIN curve[t] : curve[t][e] > spec.tol}) <= 1

LEMMA TrajectoryWithin ==
  ASSUME NEW x, x \in Experiments, {"num_envs", "horizon"} \subseteq x.manifest.same,
         Valid(ReportOn(x)),
         NEW spec, CriterionIsDeclared(spec), spec.type = "trajectory_equivalence",
         spec.tol # None, spec.how \in {"max", "any", "second_largest"},
         spec.signal \in DOMAIN x.baseline.signals \cap DOMAIN x.candidate.signals,
         NumEnvs(x.baseline) # 0,
         spec.floor <= Horizon(x.baseline) * NumEnvs(x.baseline),
         NEW o, o \in OutcomesOf(spec, x.baseline, x.candidate, 0), o.status # "fail"
  PROVE  WithinTolerance(x, spec)
BY TrajectoryFound DEF WithinTolerance

\* A miss has changed the data, by no more than the criteria tolerate.
LEMMA MissFollows ==
  ASSUME AllTabulated, \A c \in Campaigns : CalibrationBase(c)
  PROVE  MissIsBelowTolerance
<1> SUFFICES ASSUME NEW i, i \in JustMade, ~matrix[i].detected,
                    FaultOf(campaign, i) \notin Undetectable
             PROVE  LET x == Made(i)
                    IN  /\ ~SameData(x)
                        /\ \A j \in {k \in DOMAIN x.manifest.oracles :
                                       x.manifest.oracles[k].type = "trajectory_equivalence"} :
                             LET spec  == x.manifest.oracles[j]
                                 curve == ErrorCurve(x.baseline.signals[spec.signal],
                                                     x.candidate.signals[spec.signal])
                             IN  \A t \in DOMAIN curve :
                                   /\ NaN \notin Range(curve[t])
                                   /\ Cardinality({e \in DOMAIN curve[t] :
                                                     curve[t][e] > spec.tol}) <= 1
  BY DEF MissIsBelowTolerance
<1> DEFINE x     == Made(i)
           fault == FaultOf(campaign, i)
           seed  == SeedOf(campaign, i)
           k     == campaign.params
           oracles == campaign.manifest.oracles
<1>1. /\ campaign \in Campaigns /\ seed \in Range(campaign.seeds) /\ CalibrationBase(campaign)
      /\ x = TrialExperiment(campaign, fault, seed) /\ x \in Experiments
  BY JustMadeIs, RowIs
<1>2. /\ Valid(ReportOn(x))
      /\ \E os : /\ IsRunOf(os, x) /\ ~FailingIn(os) /\ DOMAIN os = DOMAIN oracles
                 /\ \A j \in DOMAIN os :
                      os[j] \in OutcomesOf(oracles[j], x.baseline, x.candidate, 0)
  BY JustMadeIs, UnflaggedIs
<1>3. fault \notin Undetectable
  OBVIOUS
<1> HIDE DEF x, fault, seed
<1>4. /\ x.manifest.same = campaign.manifest.same /\ x.manifest.oracles = oracles
      /\ x.manifest.mode = IF fault \in ArrayPreserving THEN "identity_check" ELSE "comparison"
  BY <1>1, ManifestOfTrial
<1>5. fault \notin ArrayPreserving
  <2>1. fault \in ArrayPreserving => fault = "corrupted_metadata"
    BY <1>3 DEF ArrayPreserving, Undetectable
  <2>2. fault # "corrupted_metadata"
    BY <1>1, <1>2, CorruptedIsRefused
  <2>3. QED
    BY <2>1, <2>2
<1>6. ~SameData(x)
  BY <1>2, <1>4, <1>5, SameIsRefused DEF SameData, ReportOn
<1>7. /\ DOMAIN x.baseline.signals = Range(PendulumNames)
      /\ DOMAIN x.candidate.signals = Range(PendulumNames)
      /\ NumEnvs(x.baseline) = k.num_envs /\ Horizon(x.baseline) = k.steps
  BY <1>1, BaselineIs, PartsOfTrial, CandidateSignals
<1>8. PICK os : /\ ~FailingIn(os) /\ DOMAIN os = DOMAIN oracles
                /\ \A j \in DOMAIN os :
                     os[j] \in OutcomesOf(oracles[j], x.baseline, x.candidate, 0)
  BY <1>2
<1>9. ASSUME NEW j, j \in DOMAIN oracles, oracles[j].type = "trajectory_equivalence"
      PROVE  WithinTolerance(x, oracles[j])
  <2> DEFINE spec == oracles[j]
  <2>1. CriterionIsDeclared(spec)
    BY <1>1, <1>4, <1>9, NumericAssumption
  <2>2. BaseCriterion(spec, k)
    BY <1>1, <1>9 DEF CalibrationBase
  <2>3. os[j] \in OutcomesOf(spec, x.baseline, x.candidate, 0) /\ os[j].status # "fail"
    BY <1>8, <1>9 DEF FailingIn, StatusesOf
  <2>4. {"num_envs", "horizon"} \subseteq x.manifest.same /\ k.num_envs # 0
    BY <1>1, <1>4 DEF CalibrationBase, IsPendulum
  <2>5. spec.type = "trajectory_equivalence"
    BY <1>9
  <2> HIDE DEF spec, oracles, k
  <2>6. /\ spec.signal \in Range(PendulumNames) /\ spec.tol # None
        /\ spec.how \in {"max", "any", "second_largest"} /\ spec.floor <= k.steps * k.num_envs
    BY <2>2, <2>5 DEF BaseCriterion
  <2>7. NumEnvs(x.baseline) # 0 /\ spec.floor <= Horizon(x.baseline) * NumEnvs(x.baseline)
    BY <1>7, <2>4, <2>6
  <2>8. spec.signal \in DOMAIN x.baseline.signals \cap DOMAIN x.candidate.signals
    BY <1>7, <2>6
  <2> DEFINE o == os[j]
  <2>9. o \in OutcomesOf(spec, x.baseline, x.candidate, 0) /\ o.status # "fail"
    BY <2>3
  <2> HIDE DEF o
  <2>10. WithinTolerance(x, spec)
    <3>1. x \in Experiments /\ Valid(ReportOn(x))
      BY <1>1, <1>2
    <3>2. QED
      BY <3>1, <2>1, <2>4, <2>5, <2>6, <2>7, <2>8, <2>9, TrajectoryWithin
  <2>11. QED
    BY <2>10 DEF spec
<1> HIDE DEF oracles
<1>10. \A j \in DOMAIN x.manifest.oracles :
         x.manifest.oracles[j].type = "trajectory_equivalence" =>
           WithinTolerance(x, x.manifest.oracles[j])
  BY <1>4, <1>9
<1>11. QED
  BY <1>6, <1>10 DEF x, WithinTolerance


-----------------------------------------------------------------------------
(* Theorems.                                                                 *)

\* For any campaigns of base manifests with the default policy: the rows of the matrix
\* are of their types, one for each trial so far and never more than there are trials
\* (run_calibration, _analyze).
THEOREM CalibrationTypes ==
  (\A c \in Campaigns : c.manifest.policy.invalidOnViolation) =>
    (CalibrationSpec => []CalibrationTypeOK)
<1> SUFFICES ASSUME \A c \in Campaigns : c.manifest.policy.invalidOnViolation
             PROVE  CalibrationSpec => []CalibrationTypeOK
  OBVIOUS
<1>1. AllTabulated => CalibrationTypeOK
  BY CalibrationTyped
<1>2. QED
  BY <1>1, AllTabulatedHolds, PTL

\* For any campaigns on a base like the one that ships with ivf, whatever the pendulum,
\* its seeds and the tolerances: oracles flag changed data only, the negative control and
\* the mere claim of a feature are flagged by nothing but an error, and corrupted metadata
\* is refused for the metadata alone (_inject_into_manifest, _analyze).
THEOREM CreditDue ==
  (\A c \in Campaigns : CalibrationBase(c)) => (CalibrationSpec => []CreditIsDue)
<1> SUFFICES ASSUME \A c \in Campaigns : CalibrationBase(c)
             PROVE  CalibrationSpec => []CreditIsDue
  OBVIOUS
<1>1. AllTabulated => CreditIsDue
  BY CreditFollows
<1>2. QED
  BY <1>1, AllTabulatedHolds, PTL

\* For any such campaigns: what a trial with a detectable fault does not flag has changed
\* the data and, at every step of every signal a trajectory oracle judges, is finite and
\* leaves at most one environment beyond the tolerance (_analyze, aggregate).
THEOREM MissExplained ==
  (\A c \in Campaigns : CalibrationBase(c)) => (CalibrationSpec => []MissIsBelowTolerance)
<1> SUFFICES ASSUME \A c \in Campaigns : CalibrationBase(c)
             PROVE  CalibrationSpec => []MissIsBelowTolerance
  OBVIOUS
<1>1. AllTabulated => MissIsBelowTolerance
  BY MissFollows
<1>2. QED
  BY <1>1, AllTabulatedHolds, PTL

\* For any such campaigns: a matrix is consistent only if its negative control was judged,
\* and passed, for every seed (FaultRow.consistent, DetectabilityMatrix.consistent).
THEOREM ConsistencyEarned ==
  (\A c \in Campaigns : CalibrationBase(c)) => (CalibrationSpec => []ConsistentIsEarned)
<1> SUFFICES ASSUME \A c \in Campaigns : CalibrationBase(c)
             PROVE  CalibrationSpec => []ConsistentIsEarned
  OBVIOUS
<1>1. AllTabulated => ConsistentIsEarned
  BY EarnedFollows
<1>2. QED
  BY <1>1, AllTabulatedHolds, PTL

=============================================================================
