-------------------------- MODULE ExperimentProofs --------------------------
(***************************************************************************)
(* Proofs about Experiment, for any set of experiments.  They rest on the  *)
(* invariant that a report once made is the report on the two subjects and *)
(* a verdict the one decide() gives; on what a report without a failed     *)
(* check means for the subjects; and, for the outcomes, on what every      *)
(* oracle of the manifest reports of two arrays.                           *)
(***************************************************************************)
EXTENDS Experiment, FiniteSetTheorems, SequenceTheorems, WellFoundedInduction, TLAPS

-----------------------------------------------------------------------------
(* The invariant.                                                            *)

\* What check_experiment reported and what decide made of it stays as it was.
Reported ==
  /\ experiment \in Experiments
  /\ stage \in {"loaded", "checked", "decided"}
  /\ stage # "loaded" => checks = CheckExperiment(M, B, C)
  /\ stage = "decided" => verdict = Decide(M.policy, Valid(checks), Statuses)
  /\ stage # "decided" => verdict = None

\* Reported holds throughout every behaviour of Spec.
LEMMA ReportedStep == Reported /\ [Next]_vars => Reported'
<1> SUFFICES ASSUME Reported, [Next]_vars PROVE Reported'
  OBVIOUS
<1>1. CASE Check
  BY <1>1 DEF Check, Reported, M, B, C
<1>2. CASE RunOracle
  BY <1>2 DEF RunOracle, Reported, M, B, C
<1>3. CASE DecideVerdict
  BY <1>3 DEF DecideVerdict, Reported, M, B, C, Statuses
<1>4. CASE UNCHANGED vars
  BY <1>4 DEF vars, Reported, M, B, C, Statuses
<1>5. QED
  BY <1>1, <1>2, <1>3, <1>4 DEF Next

LEMMA ReportedHolds == Spec => []Reported
<1>1. Init => Reported
  BY DEF Init, Reported
<1>2. QED
  BY <1>1, ReportedStep, PTL DEF Spec

-----------------------------------------------------------------------------
(* Checks.                                                                   *)

\* A comparison that did not fail found agreement, or nothing to compare.
LEMMA NotFailedAgree ==
  ASSUME NEW x, NEW y, Compared(x, y) # "fail"
  PROVE  Agree(x, y)
BY DEF Compared, Agree

\* In a valid report no check that check_experiment made failed.
LEMMA NoneFailed ==
  ASSUME NEW checklist, Valid(checklist), NEW k \in checklist
  PROVE  k.status # "fail"
BY DEF Valid, Failures

\* The fields of a comparison.
LEMMA ComparisonFields ==
  ASSUME NEW id, NEW about, NEW x, NEW y, NEW code
  PROVE  /\ Comparison(id, about, x, y, code).status = Compared(x, y)
         /\ Comparison(id, about, x, y, code).about = about
BY DEF Comparison, ValidityCheck

\* Every control has a check of its own kind, or none can establish it.
LEMMA KindsOfControls ==
  ASSUME NEW k \in KnownControls, k \notin UnverifiableOnly
  PROVE  \/ k \in DOMAIN MetadataKey
         \/ k \in {"action_sequence", "observation_definition", "num_envs", "horizon",
                   "solver_specific_parameters"}
BY DEF KnownControls

\* What a subject records, control by control.
LEMMA RecordedIs ==
  ASSUME NEW s
  PROVE  /\ \A k \in DOMAIN MetadataKey : Recorded(s, k) = s.meta[MetadataKey[k]]
         /\ Recorded(s, "action_sequence") = s.actions
         /\ Recorded(s, "observation_definition") = ObservationDefinition(s)
         /\ Recorded(s, "num_envs") = NumEnvs(s)
         /\ Recorded(s, "horizon") = Horizon(s)
         /\ Recorded(s, "solver_specific_parameters") = s.meta["solver_settings"]
BY DEF Recorded, MetadataKey

\* A check about a control.
IsAbout(check, control) == check.about = <<"control", control>>

\* Every required control is compared, on what the two subjects record of it.
LEMMA RequiredIsCompared ==
  ASSUME NEW m, NEW b, NEW c, WellFormed(m), NEW k \in m.same
  PROVE  \E check \in CheckExperiment(m, b, c) :
           /\ IsAbout(check, k)
           /\ check.status = Compared(Recorded(b, k), Recorded(c, k))
<1>1. k \in KnownControls /\ k \notin UnverifiableOnly
  BY DEF WellFormed
<1>2. CASE k \in DOMAIN MetadataKey
  <2> DEFINE check == Comparison("V-METADATA", <<"control", k>>, b.meta[MetadataKey[k]],
                                 c.meta[MetadataKey[k]], "IVF-CONTROL-METADATA-MISMATCH")
  <2>1. check \in CheckExperiment(m, b, c)
    BY <1>2 DEF MetadataChecks, CheckExperiment
  <2> QED
    BY <1>2, <2>1, RecordedIs, ComparisonFields DEF IsAbout
<1>3. CASE k = "action_sequence"
  <2> DEFINE check == Comparison("V-02", <<"control", "action_sequence">>, b.actions, c.actions,
                                 "IVF-CONTROL-ACTION-SEQUENCE-MISMATCH")
  <2>1. check \in CheckExperiment(m, b, c)
    BY <1>3 DEF StructureChecks, CheckExperiment
  <2> QED
    BY <1>3, <2>1, RecordedIs, ComparisonFields DEF IsAbout
<1>4. CASE k = "observation_definition"
  <2> DEFINE check == Comparison("V-04", <<"control", "observation_definition">>,
                                 ObservationDefinition(b), ObservationDefinition(c),
                                 "IVF-CONTROL-OBSERVATION-DEFINITION-MISMATCH")
  <2>1. check \in CheckExperiment(m, b, c)
    BY <1>4 DEF StructureChecks, CheckExperiment
  <2> QED
    BY <1>4, <2>1, RecordedIs, ComparisonFields DEF IsAbout
<1>5. CASE k = "num_envs"
  <2> DEFINE check == Comparison("V-07", <<"control", "num_envs">>, NumEnvs(b), NumEnvs(c),
                                 "IVF-CONTROL-ENV-COUNT-MISMATCH")
  <2>1. check \in CheckExperiment(m, b, c)
    BY <1>5 DEF StructureChecks, CheckExperiment
  <2> QED
    BY <1>5, <2>1, RecordedIs, ComparisonFields DEF IsAbout
<1>6. CASE k = "horizon"
  <2> DEFINE check == Comparison("V-08", <<"control", "horizon">>, Horizon(b), Horizon(c),
                                 "IVF-CONTROL-HORIZON-MISMATCH")
  <2>1. check \in CheckExperiment(m, b, c)
    BY <1>6 DEF StructureChecks, CheckExperiment
  <2> QED
    BY <1>6, <2>1, RecordedIs, ComparisonFields DEF IsAbout
<1>7. CASE k = "solver_specific_parameters"
  <2> DEFINE check == Comparison("V-10", <<"control", k>>, b.meta["solver_settings"],
                                 c.meta["solver_settings"],
                                 "IVF-CONTROL-SOLVER-PRESENTED-AS-EQUIVALENT")
  <2>1. check \in CheckExperiment(m, b, c)
    BY <1>7 DEF SolverChecks, CheckExperiment
  <2> QED
    BY <1>7, <2>1, RecordedIs, ComparisonFields DEF IsAbout
<1> QED
  BY <1>1, <1>2, <1>3, <1>4, <1>5, <1>6, <1>7, KindsOfControls

\* What is always checked of the two subjects themselves: the timestep, the workload,
\* and that they are not one and the same content.
LEMMA ProtocolIsChecked ==
  ASSUME NEW m, NEW b, NEW c, Valid(CheckExperiment(m, b, c))
  PROVE  /\ Agree(b.meta["physics_dt"], c.meta["physics_dt"])
         /\ WholeRun(m, b) /\ WholeRun(m, c)
         /\ b.signals = c.signals => m.mode = "identity_check"
<1> DEFINE R == CheckExperiment(m, b, c)
<1>0. \A k \in R : k.status # "fail"
  BY NoneFailed
<1>1. Agree(b.meta["physics_dt"], c.meta["physics_dt"])
  <2> DEFINE check == Comparison("V-13", <<"protocol", "physics_dt">>, b.meta["physics_dt"],
                                 c.meta["physics_dt"], "IVF-CONTROL-CONTROL-FREQUENCY-MISMATCH")
  <2>1. check \in R
    BY DEF ProtocolChecks, CheckExperiment
  <2>2. Compared(b.meta["physics_dt"], c.meta["physics_dt"]) # "fail"
    BY <1>0, <2>1, ComparisonFields
  <2> QED
    BY <2>2, NotFailedAgree
<1>2. WholeRun(m, b) /\ WholeRun(m, c)
  <2> DEFINE run == [baseline |-> b, candidate |-> c]
             Status11(r) == IF WholeRun(m, run[r]) THEN "pass" ELSE "fail"
             check(r) == ValidityCheck("V-11", <<"protocol", r>>, Status11(r),
                                       CodeIf(Status11(r), "IVF-PROTOCOL-PARTIAL-RUN"))
  <2>1. \A r \in DOMAIN run : check(r) \in R
    BY DEF ProtocolChecks, CheckExperiment
  <2>2. \A r \in DOMAIN run : check(r).status = Status11(r)
    BY DEF ValidityCheck
  <2>3. \A r \in DOMAIN run : WholeRun(m, run[r])
    BY <1>0, <2>1, <2>2
  <2>4. DOMAIN run = {"baseline", "candidate"} /\ run["baseline"] = b /\ run["candidate"] = c
    OBVIOUS
  <2> QED
    BY <2>3, <2>4
<1>3. ASSUME b.signals = c.signals PROVE m.mode = "identity_check"
  <2>1. ContentDigest(b) = ContentDigest(c)
    BY <1>3 DEF ContentDigest
  <2>2. SelfComparison(m, b, c) \in R
    BY DEF CheckExperiment
  <2>3. m.mode # "identity_check" => SelfComparison(m, b, c).status = "fail"
    BY <2>1 DEF SelfComparison, ValidityCheck
  <2> QED
    BY <1>0, <2>2, <2>3
<1> QED
  BY <1>1, <1>2, <1>3

\* Every declared property of a judged signal is compared.
LEMMA PropertyIsCompared ==
  ASSUME NEW m, NEW b, NEW c, NEW n \in Shared(m, b, c), NEW p \in Properties
  PROVE  \E check \in CheckExperiment(m, b, c) :
           check.status = Compared(Normalized(p, b.contract[n][p]), Normalized(p, c.contract[n][p]))
<1> DEFINE check == Comparison("V-SIGNAL", <<"signal", n, p>>, Normalized(p, b.contract[n][p]),
                               Normalized(p, c.contract[n][p]), "IVF-CONTROL-SIGNAL-MISMATCH")
<1>1. check \in CheckExperiment(m, b, c)
  BY DEF PropertyChecks, CheckExperiment
<1> QED
  BY <1>1, ComparisonFields

\* Only checks of a control's own kind are about it.
LEMMA ChecksAboutControls ==
  ASSUME NEW m, NEW b, NEW c, NEW k, k \notin m.unverifiable,
         NEW check \in CheckExperiment(m, b, c), IsAbout(check, k)
  PROVE  check \in MetadataChecks(m, b, c) \cup StructureChecks(m, b, c) \cup SolverChecks(m, b, c)
<1>1. ASSUME check \in PartitionChecks(m) PROVE FALSE
  BY <1>1 DEF PartitionChecks, ValidityCheck, IsAbout
<1>2. ASSUME check \in ProtocolChecks(m, b, c) PROVE FALSE
  BY <1>2 DEF ProtocolChecks, Comparison, ValidityCheck, IsAbout
<1>3. ASSUME check \in PropertyChecks(m, b, c) PROVE FALSE
  BY <1>3 DEF PropertyChecks, Comparison, ValidityCheck, IsAbout
<1>4. ASSUME check \in ToleranceChecks(m, b, c) PROVE FALSE
  BY <1>4 DEF ToleranceChecks, ValidityCheck, IsAbout
<1>5. check # SelfComparison(m, b, c)
  BY DEF SelfComparison, ValidityCheck, IsAbout
<1>6. QED
  BY <1>1, <1>2, <1>3, <1>4, <1>5 DEF CheckExperiment

\* Whatever the report says of a required control, it says of what the subjects record.
LEMMA RequiredIsOnlyCompared ==
  ASSUME NEW m, NEW b, NEW c, WellFormed(m), NEW k \in m.same,
         NEW check \in CheckExperiment(m, b, c), IsAbout(check, k)
  PROVE  check.status = Compared(Recorded(b, k), Recorded(c, k))
<1>1. k \notin m.unverifiable
  BY DEF WellFormed
<1>2. CASE check \in MetadataChecks(m, b, c)
  <2>1. PICK j \in m.same \cap DOMAIN MetadataKey :
          check = Comparison("V-METADATA", <<"control", j>>, b.meta[MetadataKey[j]],
                             c.meta[MetadataKey[j]], "IVF-CONTROL-METADATA-MISMATCH")
    BY <1>2 DEF MetadataChecks
  <2>2. /\ check.about = <<"control", j>>
        /\ check.status = Compared(b.meta[MetadataKey[j]], c.meta[MetadataKey[j]])
    BY <2>1, ComparisonFields
  <2>3. j = k
    BY <2>2 DEF IsAbout
  <2>4. QED
    BY <2>2, <2>3, RecordedIs
<1>3. CASE check \in StructureChecks(m, b, c)
  <2> DEFINE V02 == Comparison("V-02", <<"control", "action_sequence">>, b.actions, c.actions,
                               "IVF-CONTROL-ACTION-SEQUENCE-MISMATCH")
             V04 == Comparison("V-04", <<"control", "observation_definition">>,
                               ObservationDefinition(b), ObservationDefinition(c),
                               "IVF-CONTROL-OBSERVATION-DEFINITION-MISMATCH")
             V07 == Comparison("V-07", <<"control", "num_envs">>, NumEnvs(b), NumEnvs(c),
                               "IVF-CONTROL-ENV-COUNT-MISMATCH")
             V08 == Comparison("V-08", <<"control", "horizon">>, Horizon(b), Horizon(c),
                               "IVF-CONTROL-HORIZON-MISMATCH")
  <2>1. check \in {V02, V04, V07, V08}
    BY <1>3 DEF StructureChecks
  <2>2. CASE check = V02
    BY <2>2, ComparisonFields, RecordedIs DEF IsAbout
  <2>3. CASE check = V04
    BY <2>3, ComparisonFields, RecordedIs DEF IsAbout
  <2>4. CASE check = V07
    BY <2>4, ComparisonFields, RecordedIs DEF IsAbout
  <2>5. CASE check = V08
    BY <2>5, ComparisonFields, RecordedIs DEF IsAbout
  <2>6. QED
    BY <2>1, <2>2, <2>3, <2>4, <2>5
<1>4. CASE check \in SolverChecks(m, b, c)
  <2>1. k = "solver_specific_parameters"
    BY <1>4 DEF SolverChecks, Comparison, ValidityCheck, IsAbout
  <2>2. check = Comparison("V-10", <<"control", k>>, b.meta["solver_settings"],
                           c.meta["solver_settings"],
                           "IVF-CONTROL-SOLVER-PRESENTED-AS-EQUIVALENT")
    BY <1>4, <2>1 DEF SolverChecks
  <2>3. QED
    BY <2>1, <2>2, ComparisonFields, RecordedIs
<1>5. QED
  BY <1>1, <1>2, <1>3, <1>4, ChecksAboutControls

\* A control that is set aside is said to be unverifiable.
LEMMA SetAsideIsReported ==
  ASSUME NEW m, NEW b, NEW c, NEW k \in m.unverifiable
  PROVE  \E check \in CheckExperiment(m, b, c) :
           check.about = <<"control", k>> /\ check.status = "unverifiable"
<1> DEFINE check == ValidityCheck("V-UNVERIFIABLE", <<"control", k>>, "unverifiable", None)
<1>1. check \in CheckExperiment(m, b, c)
  BY DEF PartitionChecks, CheckExperiment
<1>2. check.about = <<"control", k>> /\ check.status = "unverifiable"
  BY DEF ValidityCheck
<1> QED
  BY <1>1, <1>2

-----------------------------------------------------------------------------
(* Exchanging the roles.                                                     *)

\* Comparing is symmetric.
LEMMA ComparedSymmetric ==
  ASSUME NEW x, NEW y
  PROVE  Compared(x, y) = Compared(y, x)
<1>1. {x, y} = {y, x}
  OBVIOUS
<1>2. QED
  BY <1>1 DEF Compared

\* A comparison of a control fails on the exchanged subjects as on the subjects.
LEMMA MirroredStructure ==
  ASSUME NEW m, NEW b, NEW c, NEW k \in StructureChecks(m, c, b)
  PROVE  \E l \in StructureChecks(m, b, c) : l.status = k.status
<1> DEFINE V02(x, y) == Comparison("V-02", <<"control", "action_sequence">>, x.actions, y.actions,
                                   "IVF-CONTROL-ACTION-SEQUENCE-MISMATCH")
           V04(x, y) == Comparison("V-04", <<"control", "observation_definition">>,
                                   ObservationDefinition(x), ObservationDefinition(y),
                                   "IVF-CONTROL-OBSERVATION-DEFINITION-MISMATCH")
           V07(x, y) == Comparison("V-07", <<"control", "num_envs">>, NumEnvs(x), NumEnvs(y),
                                   "IVF-CONTROL-ENV-COUNT-MISMATCH")
           V08(x, y) == Comparison("V-08", <<"control", "horizon">>, Horizon(x), Horizon(y),
                                   "IVF-CONTROL-HORIZON-MISMATCH")
<1>1. /\ V02(c, b).status = V02(b, c).status
      /\ V04(c, b).status = V04(b, c).status
      /\ V07(c, b).status = V07(b, c).status
      /\ V08(c, b).status = V08(b, c).status
  BY ComparedSymmetric, ComparisonFields
<1>2. CASE "action_sequence" \in m.same /\ k = V02(c, b)
  <2>1. V02(b, c) \in StructureChecks(m, b, c)
    BY <1>2 DEF StructureChecks
  <2>2. QED
    BY <2>1, <1>1, <1>2
<1>3. CASE "observation_definition" \in m.same /\ k = V04(c, b)
  <2>1. V04(b, c) \in StructureChecks(m, b, c)
    BY <1>3 DEF StructureChecks
  <2>2. QED
    BY <2>1, <1>1, <1>3
<1>4. CASE m.same \cap {"num_envs", "action_sequence", "seeds"} # {} /\ k = V07(c, b)
  <2>1. V07(b, c) \in StructureChecks(m, b, c)
    BY <1>4 DEF StructureChecks
  <2>2. QED
    BY <2>1, <1>1, <1>4
<1>5. CASE "horizon" \in m.same /\ k = V08(c, b)
  <2>1. V08(b, c) \in StructureChecks(m, b, c)
    BY <1>5 DEF StructureChecks
  <2>2. QED
    BY <2>1, <1>1, <1>5
<1>6. QED
  BY <1>2, <1>3, <1>4, <1>5 DEF StructureChecks

LEMMA MirroredSolver ==
  ASSUME NEW m, NEW b, NEW c, NEW k \in SolverChecks(m, c, b)
  PROVE  \E l \in SolverChecks(m, b, c) : l.status = k.status
<1> DEFINE solver == "solver_specific_parameters"
           V10(x, y) == Comparison("V-10", <<"control", solver>>, x.meta["solver_settings"],
                                   y.meta["solver_settings"],
                                   "IVF-CONTROL-SOLVER-PRESENTED-AS-EQUIVALENT")
<1>1. CASE solver \in m.same
  <2>1. k = V10(c, b) /\ V10(b, c) \in SolverChecks(m, b, c)
    BY <1>1 DEF SolverChecks
  <2>2. QED
    BY <2>1, ComparedSymmetric, ComparisonFields
<1>2. CASE solver \notin m.same
  <2>1. {b.meta["solver_settings"], c.meta["solver_settings"]}
          = {c.meta["solver_settings"], b.meta["solver_settings"]}
    OBVIOUS
  <2>2. SolverChecks(m, b, c) = SolverChecks(m, c, b)
    BY <1>2, <2>1 DEF SolverChecks
  <2>3. QED
    BY <2>2
<1>3. QED
  BY <1>1, <1>2

LEMMA MirroredProtocol ==
  ASSUME NEW m, NEW b, NEW c, NEW k \in ProtocolChecks(m, c, b)
  PROVE  \E l \in ProtocolChecks(m, b, c) : l.status = k.status
<1> DEFINE V11(r, s) == LET status == IF WholeRun(m, s) THEN "pass" ELSE "fail"
                        IN  ValidityCheck("V-11", <<"protocol", r>>, status,
                                          CodeIf(status, "IVF-PROTOCOL-PARTIAL-RUN"))
           V12 == ValidityCheck("V-12", <<"protocol", "warmup">>,
                    IF m.workload.warmup = None THEN "unverifiable" ELSE "pass", None)
           V13(x, y) == Comparison("V-13", <<"protocol", "physics_dt">>, x.meta["physics_dt"],
                          y.meta["physics_dt"], "IVF-CONTROL-CONTROL-FREQUENCY-MISMATCH")
<1>1. ASSUME NEW x, NEW y
      PROVE  ProtocolChecks(m, x, y) =
               {V11("baseline", x), V11("candidate", y), V12, V13(x, y)}
  <2> DEFINE run == [baseline |-> x, candidate |-> y]
  <2>1. DOMAIN run = {"baseline", "candidate"} /\ run["baseline"] = x /\ run["candidate"] = y
    OBVIOUS
  <2>2. {V11(r, run[r]) : r \in DOMAIN run} = {V11("baseline", x), V11("candidate", y)}
    BY <2>1
  <2>3. ProtocolChecks(m, x, y) = {V11(r, run[r]) : r \in DOMAIN run} \cup {V12} \cup {V13(x, y)}
    BY DEF ProtocolChecks
  <2>4. QED
    BY <2>2, <2>3
<1>2. V11("baseline", b).status = V11("candidate", b).status
  BY DEF ValidityCheck
<1>3. V11("baseline", c).status = V11("candidate", c).status
  BY DEF ValidityCheck
<1>4. V13(b, c).status = V13(c, b).status
  BY ComparedSymmetric, ComparisonFields
<1> HIDE DEF V11, V12, V13
<1>5. QED
  BY <1>1, <1>2, <1>3, <1>4

\* Of two units that are declared and named, one and the other agree or the check fails.
LEMMA UnitsAgree ==
  ASSUME NEW m, NEW b, NEW c, NEW n \in Shared(m, b, c), Valid(CheckExperiment(m, b, c)),
         DeclaresUnits(b), DeclaresUnits(c), UnitsAreNamed(b), UnitsAreNamed(c)
  PROVE  /\ b.contract[n]["unit"] # None /\ c.contract[n]["unit"] # None
         /\ b.contract[n]["unit"].dimension = c.contract[n]["unit"].dimension
<1> DEFINE x == b.contract[n]["unit"]
           y == c.contract[n]["unit"]
<1>1. n \in DOMAIN b.signals /\ n \in DOMAIN c.signals
  BY DEF Shared
<1>2. x # None /\ y # None /\ x.dimension # None /\ y.dimension # None
  BY <1>1 DEF DeclaresUnits, UnitsAreNamed
<1>3. Normalized("unit", x) = x.dimension /\ Normalized("unit", y) = y.dimension
  BY <1>2 DEF Normalized
<1>4. "unit" \in Properties
  BY DEF Properties
<1>5. Agree(Normalized("unit", x), Normalized("unit", y))
  BY <1>4, PropertyIsCompared, NoneFailed, NotFailedAgree
<1>6. QED
  BY <1>2, <1>3, <1>5 DEF Agree

\* What is valid in one order of the roles is valid in the other.
LEMMA MirroredIsValid ==
  ASSUME NEW m, NEW b, NEW c, Valid(CheckExperiment(m, b, c)),
         DeclaresUnits(b), DeclaresUnits(c), UnitsAreNamed(b), UnitsAreNamed(c)
  PROVE  Valid(CheckExperiment(m, c, b))
<1>0. \A l \in CheckExperiment(m, b, c) : l.status # "fail"
  BY NoneFailed
<1>1. ASSUME NEW k \in PartitionChecks(m) PROVE k.status # "fail"
  BY <1>1 DEF PartitionChecks, ValidityCheck
<1>2. ASSUME NEW k \in MetadataChecks(m, c, b) PROVE k.status # "fail"
  <2> DEFINE Of(x, y, key) == Comparison("V-METADATA", <<"control", key>>, x.meta[MetadataKey[key]],
                                    y.meta[MetadataKey[key]], "IVF-CONTROL-METADATA-MISMATCH")
  <2>1. PICK key \in m.same \cap DOMAIN MetadataKey : k = Of(c, b, key)
    BY <1>2 DEF MetadataChecks
  <2>2. Of(b, c, key) \in CheckExperiment(m, b, c)
    BY DEF MetadataChecks, CheckExperiment
  <2>3. k.status = Of(b, c, key).status
    BY <2>1, ComparedSymmetric, ComparisonFields
  <2>4. QED
    BY <2>2, <2>3, <1>0
<1>3. ASSUME NEW k \in StructureChecks(m, c, b) PROVE k.status # "fail"
  BY <1>3, <1>0, MirroredStructure DEF CheckExperiment
<1>4. ASSUME NEW k \in SolverChecks(m, c, b) PROVE k.status # "fail"
  BY <1>4, <1>0, MirroredSolver DEF CheckExperiment
<1>5. ASSUME NEW k \in ProtocolChecks(m, c, b) PROVE k.status # "fail"
  BY <1>5, <1>0, MirroredProtocol DEF CheckExperiment
<1>s. Shared(m, c, b) = Shared(m, b, c)
  BY DEF Shared
<1>6. ASSUME NEW k \in PropertyChecks(m, c, b) PROVE k.status # "fail"
  <2> DEFINE Of(x, y, n, p) ==
               Comparison("V-SIGNAL", <<"signal", n, p>>, Normalized(p, x.contract[n][p]),
                          Normalized(p, y.contract[n][p]), "IVF-CONTROL-SIGNAL-MISMATCH")
  <2>1. PICK n \in Shared(m, b, c), p \in Properties : k = Of(c, b, n, p)
    BY <1>6, <1>s DEF PropertyChecks
  <2>2. Of(b, c, n, p) \in CheckExperiment(m, b, c)
    BY DEF PropertyChecks, CheckExperiment
  <2>3. k.status = Of(b, c, n, p).status
    BY <2>1, ComparedSymmetric, ComparisonFields
  <2>4. QED
    BY <2>2, <2>3, <1>0
<1>7. ASSUME NEW k \in ToleranceChecks(m, c, b) PROVE k.status # "fail"
  <2> DEFINE Gates == {j \in DOMAIN m.oracles :
                         m.oracles[j].tol # None /\ m.oracles[j].signal \in Shared(m, b, c)}
             Of(x, i) == LET status == ToleranceStatus(m.oracles[i],
                                         x.contract[m.oracles[i].signal]["unit"])
                         IN  ValidityCheck("V-TOLERANCE-UNIT", <<"oracle", i>>, status,
                                           CodeIf(status, "IVF-CONTROL-TOLERANCE-UNIT-MISMATCH"))
  <2>1. PICK i \in Gates : k = Of(c, i)
    BY <1>7, <1>s DEF ToleranceChecks
  <2>2. Of(b, i) \in CheckExperiment(m, b, c)
    <3>1. Of(b, i) \in ToleranceChecks(m, b, c)
      BY DEF ToleranceChecks
    <3>2. QED
      BY <3>1 DEF CheckExperiment
  <2>3. m.oracles[i].signal \in Shared(m, b, c)
    OBVIOUS
  <2>4. ToleranceStatus(m.oracles[i], c.contract[m.oracles[i].signal]["unit"])
          = ToleranceStatus(m.oracles[i], b.contract[m.oracles[i].signal]["unit"])
    <3> DEFINE n == m.oracles[i].signal
    <3>1. /\ b.contract[n]["unit"] # None /\ c.contract[n]["unit"] # None
          /\ b.contract[n]["unit"].dimension = c.contract[n]["unit"].dimension
      BY <2>3, UnitsAgree
    <3>2. QED
      BY <3>1 DEF ToleranceStatus
  <2>5. k.status = Of(b, i).status
    BY <2>1, <2>4 DEF ValidityCheck
  <2>6. QED
    BY <2>2, <2>5, <1>0
<1>8. SelfComparison(m, c, b).status # "fail"
  <2>1. SelfComparison(m, b, c).status # "fail"
    BY <1>0 DEF CheckExperiment
  <2>2. SelfComparison(m, c, b) = SelfComparison(m, b, c)
    BY DEF SelfComparison
  <2>3. QED
    BY <2>1, <2>2
<1>9. \A k \in CheckExperiment(m, c, b) : k.status # "fail"
  BY <1>1, <1>2, <1>3, <1>4, <1>5, <1>6, <1>7, <1>8 DEF CheckExperiment
<1>10. QED
  BY <1>9 DEF Valid, Failures

-----------------------------------------------------------------------------
(* The statuses and codes of checks and of outcomes.                         *)

CheckStatus == {"pass", "fail", "unverifiable", "not_applicable"}

\* Every check has one of the four statuses.
LEMMA ChecksHaveStatus ==
  ASSUME NEW m, NEW b, NEW c, NEW k \in CheckExperiment(m, b, c)
  PROVE  k.status \in CheckStatus
<1>1. \A id, about, status, code : ValidityCheck(id, about, status, code).status = status
  BY DEF ValidityCheck
<1>2. \A x, y : Compared(x, y) \in CheckStatus
  BY DEF Compared, CheckStatus
<1>3. \A id, about, x, y, code : Comparison(id, about, x, y, code).status \in CheckStatus
  BY <1>2, ComparisonFields
<1>4. CheckStatus = {"pass", "fail", "unverifiable", "not_applicable"}
  BY DEF CheckStatus
<1>5. CASE k \in PartitionChecks(m) \cup SolverChecks(m, b, c)
  <2>1. \/ \E id, about, code : \E status \in {"unverifiable", "not_applicable"} :
             k = ValidityCheck(id, about, status, code)
        \/ \E id, about, x, y, code : k = Comparison(id, about, x, y, code)
    BY <1>5 DEF PartitionChecks, SolverChecks
  <2>2. QED
    BY <1>1, <1>3, <1>4, <2>1
<1>6. CASE k \in MetadataChecks(m, b, c) \cup StructureChecks(m, b, c) \cup PropertyChecks(m, b, c)
  <2>1. CASE k \in MetadataChecks(m, b, c)
    BY <1>3, <2>1 DEF MetadataChecks
  <2>2. CASE k \in StructureChecks(m, b, c)
    BY <1>3, <2>2 DEF StructureChecks
  <2>3. CASE k \in PropertyChecks(m, b, c)
    <3>1. PICK n \in Shared(m, b, c), p \in Properties :
            k = Comparison("V-SIGNAL", <<"signal", n, p>>, Normalized(p, b.contract[n][p]),
                           Normalized(p, c.contract[n][p]), "IVF-CONTROL-SIGNAL-MISMATCH")
      BY <2>3 DEF PropertyChecks
    <3>2. QED
      BY <1>3, <3>1
  <2>4. QED
    BY <1>6, <2>1, <2>2, <2>3
<1>7. CASE k \in ProtocolChecks(m, b, c)
  <2>1. \/ \E id, about, code : \E status \in {"pass", "fail", "unverifiable"} :
             k = ValidityCheck(id, about, status, code)
        \/ \E id, about, x, y, code : k = Comparison(id, about, x, y, code)
    BY <1>7 DEF ProtocolChecks
  <2>2. QED
    BY <1>1, <1>3, <1>4, <2>1
<1>8. CASE k \in ToleranceChecks(m, b, c)
  <2>1. \A spec, unit : ToleranceStatus(spec, unit) \in CheckStatus
    BY DEF ToleranceStatus, CheckStatus
  <2>2. \E id, about, spec, unit, code :
          k = ValidityCheck(id, about, ToleranceStatus(spec, unit), code)
    BY <1>8 DEF ToleranceChecks
  <2>3. QED
    BY <1>1, <2>1, <2>2
<1>9. CASE k = SelfComparison(m, b, c)
  <2>1. \E id, about, code : \E status \in {"pass", "fail", "not_applicable"} :
          k = ValidityCheck(id, about, status, code)
    BY <1>9 DEF SelfComparison
  <2>2. QED
    BY <1>1, <1>4, <2>1
<1>10. QED
  BY <1>5, <1>6, <1>7, <1>8, <1>9 DEF CheckExperiment

\* What an oracle that did not pass, and was not skipped, is reported with.
OutcomeCodes ==
  {"IVF-SAMPLE-INSUFFICIENT", "IVF-CONTROL-OBSERVATION-DEFINITION-MISMATCH",
   "IVF-RUNTIME-EXECUTION-ERROR", "IVF-ORACLE-NON_EQUIVALENT", "IVF-ORACLE-ULP-EXCEEDED",
   "IVF-ORACLE-EVENT-COUNT-MISMATCH", "IVF-ORACLE-EVENT-TIMING-DELTA",
   "IVF-ORACLE-DECISION-DISAGREEMENT", "IVF-ORACLE-METAMORPHIC-VIOLATION",
   "IVF-CONTROL-ACTION-SEQUENCE-MISMATCH", "IVF-BACKEND-FEATURE-UNSUPPORTED",
   "IVF-ORACLE-INVARIANT-VIOLATION", "IVF-CONTROL-ENV-COUNT-MISMATCH",
   "IVF-EQUIVALENCE-UNDECIDED", "IVF-ORACLE-UNKNOWN"}

\* The code and status of a comparison that failed.
LEMMA ComparisonCode ==
  ASSUME NEW id, NEW about, NEW x, NEW y, NEW code,
         Comparison(id, about, x, y, code).status = "fail"
  PROVE  Comparison(id, about, x, y, code).code = code
BY DEF Comparison, ValidityCheck, CodeIf

\* Every failed check has a code.
LEMMA FailedHaveCodes ==
  ASSUME NEW m, NEW b, NEW c, NEW k \in CheckExperiment(m, b, c), k.status = "fail"
  PROVE  k.code \in CheckCodes
<1>1. CASE k \in PartitionChecks(m)
  BY <1>1 DEF PartitionChecks, ValidityCheck
<1>2. CASE k \in MetadataChecks(m, b, c)
  <2>1. \E about, x, y : k = Comparison("V-METADATA", about, x, y, "IVF-CONTROL-METADATA-MISMATCH")
    BY <1>2 DEF MetadataChecks
  <2>2. QED
    BY <2>1, ComparisonCode DEF CheckCodes
<1>3. CASE k \in StructureChecks(m, b, c)
  BY <1>3, ComparisonCode DEF StructureChecks, CheckCodes
<1>4. CASE k \in SolverChecks(m, b, c)
  <2>1. CASE "solver_specific_parameters" \in m.same
    BY <1>4, <2>1, ComparisonCode DEF SolverChecks, CheckCodes
  <2>2. CASE "solver_specific_parameters" \notin m.same
    BY <1>4, <2>2 DEF SolverChecks, ValidityCheck
  <2>3. QED
    BY <2>1, <2>2
<1>5. CASE k \in ProtocolChecks(m, b, c)
  <2> DEFINE V11(r, status) == ValidityCheck("V-11", <<"protocol", r>>, status,
                                             CodeIf(status, "IVF-PROTOCOL-PARTIAL-RUN"))
             V12 == ValidityCheck("V-12", <<"protocol", "warmup">>,
                      IF m.workload.warmup = None THEN "unverifiable" ELSE "pass", None)
             V13 == Comparison("V-13", <<"protocol", "physics_dt">>, b.meta["physics_dt"],
                      c.meta["physics_dt"], "IVF-CONTROL-CONTROL-FREQUENCY-MISMATCH")
  <2>1. (\E r, status : k = V11(r, status)) \/ k = V12 \/ k = V13
    BY <1>5 DEF ProtocolChecks
  <2>2. ASSUME NEW r, NEW status, k = V11(r, status) PROVE k.code \in CheckCodes
    BY <2>2 DEF ValidityCheck, CodeIf, CheckCodes
  <2>3. CASE k = V12
    BY <2>3 DEF ValidityCheck
  <2>4. CASE k = V13
    BY <2>4, ComparisonCode DEF CheckCodes
  <2>5. QED
    BY <2>1, <2>2, <2>3, <2>4
<1>6. CASE k \in PropertyChecks(m, b, c)
  <2>1. PICK n \in Shared(m, b, c), p \in Properties :
          k = Comparison("V-SIGNAL", <<"signal", n, p>>, Normalized(p, b.contract[n][p]),
                         Normalized(p, c.contract[n][p]), "IVF-CONTROL-SIGNAL-MISMATCH")
    BY <1>6 DEF PropertyChecks
  <2>2. k.code = "IVF-CONTROL-SIGNAL-MISMATCH"
    BY <2>1, ComparisonCode
  <2>3. QED
    BY <2>2 DEF CheckCodes
<1>7. CASE k \in ToleranceChecks(m, b, c)
  <2>1. \E i, status : k = ValidityCheck("V-TOLERANCE-UNIT", <<"oracle", i>>, status,
                                         CodeIf(status, "IVF-CONTROL-TOLERANCE-UNIT-MISMATCH"))
    BY <1>7 DEF ToleranceChecks
  <2>2. QED
    BY <2>1 DEF ValidityCheck, CodeIf, CheckCodes
<1>8. CASE k = SelfComparison(m, b, c)
  BY <1>8 DEF SelfComparison, ValidityCheck, CheckCodes
<1>9. QED
  BY <1>1, <1>2, <1>3, <1>4, <1>5, <1>6, <1>7, <1>8 DEF CheckExperiment

\* An outcome of any oracle either passed or was skipped, or has a code that says why.
Coded(o) == o.status \in {"pass", "skipped"} \/ o.code \in OutcomeCodes

LEMMA OutcomeFields ==
  ASSUME NEW status, NEW code, NEW record
  PROVE  /\ Outcome(status, code, record).status = status
         /\ Outcome(status, code, record).code = code
BY DEF Outcome

LEMMA NamedOutcomes ==
  /\ Coded(Pass) /\ Coded(Skipped) /\ Coded(Insufficient) /\ Coded(Incomparable) /\ Coded(Raised)
  /\ \A code \in OutcomeCodes : Coded(Fail(code)) /\ Coded(Inconclusive(code))
  /\ \A record : Coded(FailAt(record)) /\ \A spec : Coded(Exceeded(spec, record))
  /\ \A status, record : \A code \in OutcomeCodes : Coded(Outcome(status, code, record))
  /\ \A code, record : Coded(Outcome("pass", code, record))
<1>1. /\ "IVF-SAMPLE-INSUFFICIENT" \in OutcomeCodes
      /\ "IVF-CONTROL-OBSERVATION-DEFINITION-MISMATCH" \in OutcomeCodes
      /\ "IVF-RUNTIME-EXECUTION-ERROR" \in OutcomeCodes
      /\ {"IVF-ORACLE-NON_EQUIVALENT", "IVF-ORACLE-ULP-EXCEEDED"} \subseteq OutcomeCodes
  BY DEF OutcomeCodes
<1>2. QED
  BY <1>1, OutcomeFields DEF Coded, Pass, Skipped, Insufficient, Incomparable, Raised, Fail, FailAt,
                             Exceeded, Inconclusive

LEMMA NumericalAreCoded ==
  ASSUME NEW spec, NEW x, NEW y, NEW d
  PROVE  Coded(Trajectory(spec, x, y, d)) /\ Coded(Exact(x, y, d)) /\ Coded(Envelope(spec, x, y, d))
<1>1. "IVF-ORACLE-NON_EQUIVALENT" \in OutcomeCodes
  BY DEF OutcomeCodes
<1>2. Coded(Trajectory(spec, x, y, d))
  BY NamedOutcomes DEF Trajectory
<1>3. Coded(Exact(x, y, d))
  BY <1>1, NamedOutcomes DEF Exact
<1>4. Coded(Envelope(spec, x, y, d))
  BY NamedOutcomes DEF Envelope
<1>5. QED
  BY <1>2, <1>3, <1>4

LEMMA EventsAreCoded ==
  ASSUME NEW spec, NEW x, NEW y
  PROVE  Coded(Event(spec, x, y)) /\ Coded(Decision(spec, x, y)) /\ Coded(Permutation(spec, x, y))
<1>1. /\ "IVF-ORACLE-EVENT-COUNT-MISMATCH" \in OutcomeCodes
      /\ "IVF-ORACLE-EVENT-TIMING-DELTA" \in OutcomeCodes
      /\ "IVF-ORACLE-DECISION-DISAGREEMENT" \in OutcomeCodes
      /\ "IVF-ORACLE-METAMORPHIC-VIOLATION" \in OutcomeCodes
  BY DEF OutcomeCodes
<1>2. Coded(Event(spec, x, y))
  BY <1>1, NamedOutcomes DEF Event
<1>3. Coded(Decision(spec, x, y))
  BY <1>1, NamedOutcomes DEF Decision
<1>4. Coded(Permutation(spec, x, y))
  BY <1>1, NamedOutcomes DEF Permutation
<1>5. QED
  BY <1>2, <1>3, <1>4

LEMMA WholeAreCoded ==
  ASSUME NEW spec, NEW b, NEW c, NEW w
  PROVE  /\ Coded(ActionReplay(b, c)) /\ Coded(ObservationStability(b, c))
         /\ Coded(RequiredFeatures(spec, b, c)) /\ Coded(Invariant(spec, b, c, w))
<1>1. /\ "IVF-CONTROL-ACTION-SEQUENCE-MISMATCH" \in OutcomeCodes
      /\ "IVF-CONTROL-OBSERVATION-DEFINITION-MISMATCH" \in OutcomeCodes
      /\ "IVF-BACKEND-FEATURE-UNSUPPORTED" \in OutcomeCodes
      /\ "IVF-ORACLE-INVARIANT-VIOLATION" \in OutcomeCodes
  BY DEF OutcomeCodes
<1>2. Coded(ActionReplay(b, c)) /\ Coded(ObservationStability(b, c))
  BY <1>1, NamedOutcomes DEF ActionReplay, ObservationStability
<1>3. Coded(RequiredFeatures(spec, b, c))
  BY <1>1, NamedOutcomes DEF RequiredFeatures
<1>4. Coded(Invariant(spec, b, c, w))
  BY <1>1, NamedOutcomes DEF Invariant
<1>5. QED
  BY <1>2, <1>3, <1>4

LEMMA StatisticalIsCoded ==
  ASSUME NEW spec, NEW x, NEW y, NEW i
  PROVE  Coded(Statistical(spec, x, y, i))
<1>1. /\ "IVF-CONTROL-ENV-COUNT-MISMATCH" \in OutcomeCodes
      /\ "IVF-ORACLE-INVARIANT-VIOLATION" \in OutcomeCodes
      /\ "IVF-ORACLE-NON_EQUIVALENT" \in OutcomeCodes
      /\ "IVF-EQUIVALENCE-UNDECIDED" \in OutcomeCodes
  BY DEF OutcomeCodes
<1>2. QED
  BY <1>1, NamedOutcomes DEF Statistical

LEMMA OutcomesAreCoded ==
  ASSUME NEW spec, NEW b, NEW c, NEW w, NEW o \in OutcomesOf(spec, b, c, w)
  PROVE  Coded(o)
<1> DEFINE x == Trim(b.signals[spec.signal], w)
           y == Trim(c.signals[spec.signal], w)
           d == ConfigDifferences(b, c)
<1>1. CASE spec.type \notin Pairwise \cup Whole
  <2>1. "IVF-ORACLE-UNKNOWN" \in OutcomeCodes
    BY DEF OutcomeCodes
  <2>2. QED
    BY <1>1, <2>1, NamedOutcomes DEF OutcomesOf
<1>2. CASE \/ spec.type \in Pairwise /\ spec.signal \notin DOMAIN b.signals \cap DOMAIN c.signals
           \/ spec.type \in Gated /\ spec.tol = None
  BY <1>1, <1>2, NamedOutcomes DEF OutcomesOf
<1>3. CASE /\ spec.type \in Pairwise \cup Whole
           /\ ~(spec.type \in Pairwise
                  /\ spec.signal \notin DOMAIN b.signals \cap DOMAIN c.signals)
           /\ ~(spec.type \in Gated /\ spec.tol = None)
  <2>1. \/ o \in {Trajectory(spec, x, y, d), Exact(x, y, d), Envelope(spec, x, y, d),
                  Event(spec, x, y), Decision(spec, x, y), Permutation(spec, x, y),
                  ActionReplay(b, c), ObservationStability(b, c), RequiredFeatures(spec, b, c),
                  Invariant(spec, b, c, w)}
        \/ \E i : o = Statistical(spec, x, y, i)
    BY <1>3 DEF OutcomesOf, Pairwise, Whole, Gated
  <2>2. QED
    BY <2>1, NumericalAreCoded, EventsAreCoded, WholeAreCoded, StatisticalIsCoded
<1>4. QED
  BY <1>1, <1>2, <1>3

-----------------------------------------------------------------------------
(* Reasons.                                                                  *)

\* What the oracles of any of the experiments may report.
Possible ==
  UNION {OutcomesOf(x.manifest.oracles[i], x.baseline, x.candidate, Warmup(x.manifest)) :
           x \in Experiments, i \in Nat}

\* The outcomes are of the declared oracles of a valid experiment, all of them once it is
\* decided, and the reasons the ones decide() collects.
Explained ==
  /\ outcomes \in Seq(Possible)
  /\ stage = "loaded" => checks = {} /\ outcomes = <<>>
  /\ stage = "decided" =>
       /\ Len(outcomes) = Len(Declared(M, checks))
       /\ reasons = DecidedReasons(M.policy)

LEMMA ExplainedInit == Init => Explained
BY DEF Init, Explained

LEMMA ExplainedStep == Reported /\ Explained /\ [Next]_vars => Explained'
<1> SUFFICES ASSUME Reported, Explained, [Next]_vars PROVE Explained'
  OBVIOUS
<1>1. CASE Check
  BY <1>1 DEF Check, Explained
<1>2. CASE RunOracle
  <2>1. PICK o \in OutcomesOf(M.oracles[Len(outcomes) + 1], B, C, Warmup(M)) :
          outcomes' = Append(outcomes, o)
    BY <1>2 DEF RunOracle
  <2>2. Len(outcomes) + 1 \in Nat
    BY DEF Explained
  <2>3. o \in Possible
    BY <2>1, <2>2 DEF Possible, Reported, M, B, C
  <2>4. outcomes' \in Seq(Possible)
    BY <2>1, <2>3 DEF Explained
  <2>5. QED
    BY <1>2, <2>4 DEF RunOracle, Explained
<1>3. CASE DecideVerdict
  <2>1. Len(outcomes)' = Len(Declared(M, checks))' /\ outcomes' \in Seq(Possible)
    BY <1>3 DEF DecideVerdict, Explained, M
  <2>2. reasons' = DecidedReasons(M.policy) /\ DecidedReasons(M.policy)' = DecidedReasons(M.policy)
    BY <1>3 DEF DecideVerdict, DecidedReasons, Statuses, M
  <2>3. stage' = "decided"
    BY <1>3 DEF DecideVerdict
  <2>4. QED
    BY <2>1, <2>2, <2>3 DEF Explained
<1>4. CASE UNCHANGED vars
  <2>1. Len(outcomes)' = Len(outcomes) /\ Declared(M, checks)' = Declared(M, checks)
    BY <1>4 DEF vars, M
  <2>2. DecidedReasons(M.policy)' = DecidedReasons(M.policy)
    BY <1>4 DEF vars, DecidedReasons, Statuses, M
  <2>3. QED
    BY <1>4, <2>1, <2>2 DEF vars, Explained
<1>5. QED
  BY <1>1, <1>2, <1>3, <1>4 DEF Next

LEMMA ExplainedHolds == Spec => []Explained
BY ExplainedInit, ExplainedStep, ReportedHolds, PTL DEF Spec

\* Every outcome has its code.
LEMMA ExplainedAreCoded ==
  ASSUME Explained, NEW i \in DOMAIN outcomes
  PROVE  Coded(outcomes[i])
<1>1. outcomes[i] \in Possible
  BY DEF Explained
<1>2. QED
  BY <1>1, OutcomesAreCoded DEF Possible

\* A report that is not valid names a code.
LEMMA InvalidIsNamed ==
  ASSUME NEW m, NEW b, NEW c, ~Valid(CheckExperiment(m, b, c))
  PROVE  /\ ReasonCodes(CheckExperiment(m, b, c)) # {}
         /\ ReasonCodes(CheckExperiment(m, b, c)) \subseteq CheckCodes
<1>1. \A k \in Failures(CheckExperiment(m, b, c)) : k.code \in CheckCodes
  BY FailedHaveCodes DEF Failures
<1>2. QED
  BY <1>1, CodeAssumption DEF Valid, ReasonCodes

-----------------------------------------------------------------------------
(* The oracles, in the order of the manifest.                                *)

\* Each outcome is one of those of the oracle at its place.
Judged ==
  \A i \in DOMAIN outcomes :
    i <= Len(M.oracles) /\ outcomes[i] \in OutcomesOf(M.oracles[i], B, C, Warmup(M))

LEMMA JudgedStep == Reported /\ Explained /\ Judged /\ [Next]_vars => Judged'
<1> SUFFICES ASSUME Reported, Explained, Judged, [Next]_vars PROVE Judged'
  OBVIOUS
<1> DEFINE Of(i) == {o \in OutcomesOf(M.oracles[i], B, C, Warmup(M)) : i <= Len(M.oracles)}
<1>1. experiment' = experiment
  BY DEF Next, vars, Check, RunOracle, DecideVerdict
<1>2. \A i : Of(i)' = Of(i)
  BY <1>1 DEF M, B, C
<1> HIDE DEF Of
<1>3. CASE outcomes' = outcomes
  BY <1>2, <1>3 DEF Judged, Of
<1>4. CASE RunOracle
  <2>1. PICK o \in Of(Len(outcomes) + 1) : outcomes' = Append(outcomes, o)
    <3>1. M.oracles \in Seq(Range(M.oracles))
      BY ExperimentAssumption DEF Reported, M, WellFormed
    <3>2. Len(outcomes) \in Nat /\ Len(M.oracles) \in Nat
      BY <3>1 DEF Explained
    <3>3. Len(outcomes) + 1 <= Len(M.oracles)
      BY <1>4, <3>2 DEF RunOracle, Declared
    <3>4. QED
      BY <1>4, <3>3 DEF RunOracle, Of
  <2>2. \A i \in DOMAIN outcomes' :
          IF i = Len(outcomes) + 1 THEN outcomes'[i] = o
          ELSE i \in DOMAIN outcomes /\ outcomes'[i] = outcomes[i]
    BY <2>1 DEF Explained
  <2>3. \A i \in DOMAIN outcomes : outcomes[i] \in Of(i)
    BY DEF Judged, Of
  <2>4. \A i \in DOMAIN outcomes' : outcomes'[i] \in Of(i)
    BY <2>1, <2>2, <2>3
  <2>5. QED
    BY <1>2, <2>4 DEF Judged, Of
<1>5. QED
  BY <1>3, <1>4 DEF Next, vars, Check, DecideVerdict

LEMMA JudgedHolds == Spec => []Judged
<1>1. Init => Judged
  BY DEF Init, Judged
<1>2. QED
  BY <1>1, JudgedStep, ReportedHolds, ExplainedHolds, PTL DEF Spec

-----------------------------------------------------------------------------
(* Finite sets.                                                              *)

\* A finite set that is not empty has a greatest element in any order of it.
LEMMA Greatest ==
  ASSUME NEW S, IsFiniteSet(S), S # {}, NEW R,
         \A x, y \in S : <<x, y>> \in R \/ <<y, x>> \in R,
         \A x, y, z \in S : <<x, y>> \in R /\ <<y, z>> \in R => <<x, z>> \in R
  PROVE  \E x \in S : \A y \in S : <<y, x>> \in R
<1> DEFINE without == {T \in SUBSET S : T # {} /\ ~ \E x \in T : \A y \in T : <<y, x>> \in R}
<1> SUFFICES ASSUME without # {} PROVE FALSE
  OBVIOUS
<1>1. IsWellFoundedOn(StrictSubsetOrdering(S), SUBSET S)
  BY FS_StrictSubsetOrderingWellFounded, FS_FiniteSubsetsOfFinite
<1>2. PICK T \in without : \A U \in without : ~(<<U, T>> \in StrictSubsetOrdering(S))
  <2>1. without \subseteq SUBSET S
    OBVIOUS
  <2> HIDE DEF without
  <2>2. QED
    BY <1>1, <2>1, WFMin
<1>3. PICK z \in T : TRUE
  OBVIOUS
<1>4. T \ {z} \notin without
  <2>1. <<T \ {z}, T>> \in StrictSubsetOrdering(S)
    BY <1>2, <1>3 DEF StrictSubsetOrdering
  <2>2. QED
    BY <1>2, <2>1
<1>5. CASE T \ {z} = {}
  <2>1. <<z, z>> \in R
    BY <1>3
  <2>2. QED
    BY <1>2, <1>3, <1>5, <2>1
<1>6. CASE T \ {z} # {}
  <2>1. PICK x \in T \ {z} : \A y \in T \ {z} : <<y, x>> \in R
    BY <1>2, <1>4, <1>6
  <2>2. CASE <<z, x>> \in R
    BY <1>2, <1>3, <2>1, <2>2
  <2>3. CASE <<x, z>> \in R
    <3>1. \A y \in T : <<y, z>> \in R
      BY <1>2, <1>3, <2>1, <2>3
    <3>2. QED
      BY <1>2, <1>3, <3>1
  <2>4. QED
    BY <1>2, <1>3, <2>1, <2>2, <2>3
<1>7. QED
  BY <1>5, <1>6

\* So the greatest of some numbers is one of them ...
LEMMA MaxOf ==
  ASSUME NEW S \in SUBSET Int, IsFiniteSet(S), S # {}
  PROVE  Max(S) \in S /\ \A y \in S : y <= Max(S)
<1> DEFINE R == {p \in S \X S : p[1] <= p[2]}
<1>1. PICK x \in S : \A y \in S : <<y, x>> \in R
  <2>1. \A a, b \in S : <<a, b>> \in R <=> a <= b
    OBVIOUS
  <2> HIDE DEF R
  <2>2. ASSUME NEW a \in S, NEW b \in S
        PROVE  <<a, b>> \in R \/ <<b, a>> \in R
    <3>1. a \in Int /\ b \in Int
      OBVIOUS
    <3>2. a <= b \/ b <= a
      BY <3>1
    <3>3. QED
      BY <2>1, <3>2
  <2>3. ASSUME NEW a \in S, NEW b \in S, NEW c \in S, <<a, b>> \in R, <<b, c>> \in R
        PROVE  <<a, c>> \in R
    <3>1. a \in Int /\ b \in Int /\ c \in Int
      OBVIOUS
    <3>2. a <= b /\ b <= c
      BY <2>1, <2>3
    <3>3. a <= c
      BY <3>1, <3>2
    <3>4. QED
      BY <2>1, <3>3
  <2>4. QED
    BY <2>2, <2>3, Greatest
<1>2. \A y \in S : x >= y
  BY <1>1
<1>3. QED
  BY <1>2 DEF Max

\* ... and so is the least.
LEMMA MinOf ==
  ASSUME NEW S \in SUBSET Int, IsFiniteSet(S), S # {}
  PROVE  Min(S) \in S /\ \A y \in S : Min(S) <= y
<1> DEFINE R == {p \in S \X S : p[1] >= p[2]}
<1>1. PICK x \in S : \A y \in S : <<y, x>> \in R
  <2>1. \A a, b \in S : <<a, b>> \in R <=> a >= b
    OBVIOUS
  <2> HIDE DEF R
  <2>2. ASSUME NEW a \in S, NEW b \in S
        PROVE  <<a, b>> \in R \/ <<b, a>> \in R
    <3>1. a \in Int /\ b \in Int
      OBVIOUS
    <3>2. a >= b \/ b >= a
      BY <3>1
    <3>3. QED
      BY <2>1, <3>2
  <2>3. ASSUME NEW a \in S, NEW b \in S, NEW c \in S, <<a, b>> \in R, <<b, c>> \in R
        PROVE  <<a, c>> \in R
    <3>1. a \in Int /\ b \in Int /\ c \in Int
      OBVIOUS
    <3>2. a >= b /\ b >= c
      BY <2>1, <2>3
    <3>3. a >= c
      BY <3>1, <3>2
    <3>4. QED
      BY <2>1, <3>3
  <2>4. QED
    BY <2>2, <2>3, Greatest
<1>2. \A y \in S : x <= y
  BY <1>1
<1>3. QED
  BY <1>2 DEF Min

\* A function with finitely many arguments has finitely many values.
LEMMA RangeIsFinite ==
  ASSUME NEW f, IsFiniteSet(DOMAIN f)
  PROVE  IsFiniteSet(Range(f))
<1> DEFINE g == [x \in DOMAIN f |-> f[x]]
<1>1. g \in Surjection(DOMAIN f, Range(f))
  BY DEF Surjection, Range
<1> HIDE DEF g
<1>2. QED
  BY <1>1, FS_Surjection

LEMMA GreatestValue ==
  ASSUME NEW f, IsFiniteSet(DOMAIN f), DOMAIN f # {}, \A x \in DOMAIN f : f[x] \in Nat
  PROVE  Max(Range(f)) \in Nat /\ \A x \in DOMAIN f : f[x] <= Max(Range(f))
<1>1. IsFiniteSet(Range(f))
  BY RangeIsFinite
<1>2. Range(f) \in SUBSET Nat /\ Range(f) \in SUBSET Int /\ Range(f) # {}
  BY DEF Range
<1>3. Max(Range(f)) \in Range(f) /\ \A y \in Range(f) : y <= Max(Range(f))
  BY <1>1, <1>2, MaxOf
<1>4. \A x \in DOMAIN f : f[x] \in Range(f)
  BY DEF Range
<1>5. QED
  BY <1>2, <1>3, <1>4

\* The larger, and the smaller, of two numbers.
LEMMA LargerOf ==
  ASSUME NEW a, NEW b, a \in Int, b \in Int
  PROVE  Max({a, b}) = IF a >= b THEN a ELSE b
<1> DEFINE larger == IF a >= b THEN a ELSE b
<1>1. larger \in {a, b} /\ \A y \in {a, b} : larger >= y
  OBVIOUS
<1>2. \A x \in {a, b} : (\A y \in {a, b} : x >= y) => x = larger
  OBVIOUS
<1>3. QED
  BY <1>1, <1>2 DEF Max

LEMMA SmallerOf ==
  ASSUME NEW a, NEW b, a \in Int, b \in Int
  PROVE  Min({a, b}) = IF a <= b THEN a ELSE b
<1> DEFINE smaller == IF a <= b THEN a ELSE b
<1>1. smaller \in {a, b} /\ \A y \in {a, b} : smaller <= y
  OBVIOUS
<1>2. \A x \in {a, b} : (\A y \in {a, b} : x <= y) => x = smaller
  OBVIOUS
<1>3. QED
  BY <1>1, <1>2 DEF Min

LEMMA LargerOfTwo ==
  ASSUME NEW n \in Int
  PROVE  Max({0, n}) = IF n >= 0 THEN n ELSE 0
<1>1. 0 \in Int /\ n \in Int
  OBVIOUS
<1>2. Max({0, n}) = IF 0 >= n THEN 0 ELSE n
  BY <1>1, LargerOf
<1>3. QED
  BY <1>2

-----------------------------------------------------------------------------
(* What is left of a signal after the warm-up.                               *)

LEMMA Trimmed ==
  ASSUME NEW a, NEW S, a.rows \in Seq(S), Steps(a) >= 1, NEW w \in Int, w < Steps(a)
  PROVE  /\ Steps(Trim(a, w)) >= 1
         /\ w >= 0 => Steps(Trim(a, w)) = Steps(a) - w
<1> DEFINE first == IF w >= 0 THEN w + 1 ELSE Max({0, Steps(a) + w}) + 1
<1>1. Steps(a) \in Nat /\ Steps(a) = Len(a.rows)
  BY DEF Steps
<1>2. first \in Int /\ 1 <= first /\ first <= Steps(a)
  BY <1>1, LargerOfTwo
<1>3. Steps(Trim(a, w)) = Len(SubSeq(a.rows, first, Steps(a)))
  BY DEF Trim, Steps
<1>4. Len(SubSeq(a.rows, first, Steps(a))) = Steps(a) - first + 1
  BY <1>1, <1>2
<1>5. QED
  BY <1>1, <1>2, <1>3, <1>4

\* A window is no longer than its array.
LEMMA WindowIsShorter ==
  ASSUME NEW a, NEW S, a.rows \in Seq(S), NEW w \in Int
  PROVE  Steps(Trim(a, w)) <= Steps(a)
<1> DEFINE first == IF w >= 0 THEN w + 1 ELSE Max({0, Steps(a) + w}) + 1
<1>1. Steps(a) \in Nat /\ Steps(a) = Len(a.rows)
  BY DEF Steps
<1>2. first \in Int /\ 1 <= first
  BY <1>1, LargerOfTwo
<1>3. Steps(Trim(a, w)) = Len(SubSeq(a.rows, first, Steps(a)))
  BY DEF Trim, Steps
<1> HIDE DEF first
<1>4. Len(SubSeq(a.rows, first, Steps(a))) = IF first <= Steps(a) THEN Steps(a) - first + 1 ELSE 0
  BY <1>1, <1>2
<1>5. QED
  BY <1>1, <1>2, <1>3, <1>4

\* A window is the end of its array, with as many environments.
LEMMA WindowIsEnd ==
  ASSUME NEW a, a.rows \in Seq(Range(a.rows)), a.envs \in Nat,
         \A t \in DOMAIN a.rows : DOMAIN a.rows[t] = Envs(a), NEW w \in Int
  PROVE  LET b == Trim(a, w)
         IN  /\ b.envs \in Nat
             /\ b.rows \in Seq(Range(a.rows))
             /\ \A t \in DOMAIN b.rows : DOMAIN b.rows[t] = Envs(b)
             /\ b = [envs |-> b.envs, rows |-> b.rows]
<1> DEFINE first == IF w >= 0 THEN w + 1 ELSE Max({0, Steps(a) + w}) + 1
           b == Trim(a, w)
<1>1. Steps(a) \in Nat /\ Steps(a) = Len(a.rows)
  BY DEF Steps
<1>2. first \in Int /\ 1 <= first
  BY <1>1, LargerOfTwo
<1>3. b = [envs |-> a.envs, rows |-> SubSeq(a.rows, first, Steps(a))]
  BY DEF Trim
<1> HIDE DEF first, b
<1>4. b.envs = a.envs /\ b.rows = SubSeq(a.rows, first, Steps(a)) /\ Envs(b) = Envs(a)
  BY <1>3 DEF Envs
<1>5. b.rows \in Seq(Range(a.rows))
  BY <1>1, <1>2, <1>4
<1>6. \A t \in DOMAIN b.rows : \E u \in DOMAIN a.rows : b.rows[t] = a.rows[u]
  BY <1>1, <1>2, <1>4
<1>7. QED
  BY <1>3, <1>4, <1>5, <1>6 DEF b

\* What the experiments of Experiments are.
LEMMA Subjects ==
  ASSUME Reported, NEW s \in {B, C}
  PROVE  /\ Warmup(M) \in Int
         /\ "signals" \in DOMAIN s /\ DOMAIN s.signals \subseteq Range(SortedNames)
         /\ \A n \in DOMAIN s.signals :
              /\ s.signals[n].envs \in Nat
              /\ s.signals[n].rows \in Seq(Range(s.signals[n].rows))
              /\ \A t \in DOMAIN s.signals[n].rows :
                   DOMAIN s.signals[n].rows[t] = Envs(s.signals[n])
<1>1. WellFormed(M) /\ Rectangular(s)
  BY ExperimentAssumption DEF Reported, M, B, C
<1>2. Warmup(M) \in Int
  BY <1>1 DEF WellFormed, Warmup
<1>3. "signals" \in DOMAIN s /\ DOMAIN s.signals \subseteq Range(SortedNames)
  BY SortedAssumption DEF Reported, B, C
<1>4. QED
  BY <1>1, <1>2, <1>3 DEF Rectangular

\* What an element of an array may be.
Number == Int \cup {NaN}

\* An array as the oracles see it.
IsArray(a) ==
  /\ a.envs \in Nat
  /\ a.rows \in Seq([Envs(a) -> Number])
  /\ a = [envs |-> a.envs, rows |-> a.rows]

\* A window of a signal is an array.
LEMMA WindowIsArray ==
  ASSUME Reported, NEW s \in {B, C}, NEW n \in DOMAIN s.signals
  PROVE  IsArray(Trim(s.signals[n], Warmup(M)))
<1> DEFINE a == s.signals[n]
           b == Trim(a, Warmup(M))
<1>1. Numeric(s)
  BY NumericAssumption DEF Reported, B, C
<1>2. \A t \in DOMAIN a.rows : a.rows[t] \in [Envs(a) -> Number]
  BY <1>1 DEF Numeric, Number
<1>3. a.rows \in Seq(Range(a.rows)) /\ a.envs \in Nat
  BY Subjects
<1>4. /\ b.envs \in Nat
      /\ b.rows \in Seq(Range(a.rows))
      /\ b = [envs |-> b.envs, rows |-> b.rows]
  BY Subjects, WindowIsEnd
<1>5. Range(a.rows) \subseteq [Envs(a) -> Number]
  BY <1>2 DEF Range
<1>6. Envs(b) = Envs(a)
  BY DEF Trim, Envs
<1> HIDE DEF a, b
<1>7. b.rows \in Seq([Envs(b) -> Number])
  BY <1>4, <1>5, <1>6, SeqMonotonic
<1>8. QED
  BY <1>4, <1>7 DEF IsArray, a, b

-----------------------------------------------------------------------------
(* What an oracle reports of two arrays.                                     *)

\* The step at which an event fires, 0 when it never does.
LEMMA CrossingType ==
  ASSUME NEW a, IsArray(a), NEW e, NEW spec
  PROVE  FirstCrossing(a, e, spec) \in 0..Steps(a)
<1> DEFINE steps == {t \in DOMAIN a.rows : Hit(a.rows[t][e], spec)}
<1>1. DOMAIN a.rows = 1..Steps(a) /\ Steps(a) \in Nat
  BY DEF IsArray, Steps
<1>2. IsFiniteSet(steps) /\ steps \in SUBSET Int
  <2>1. IsFiniteSet(1..Steps(a)) /\ steps \in SUBSET (1..Steps(a))
    BY <1>1, FS_Interval
  <2>2. IsFiniteSet(steps)
    BY <2>1, FS_Subset
  <2>3. QED
    BY <2>1, <2>2
<1>3. steps # {} => Min(steps) \in steps
  <2> HIDE DEF steps
  <2>1. QED
    BY <1>2, MinOf
<1>4. FirstCrossing(a, e, spec) = IF steps = {} THEN 0 ELSE Min(steps)
  BY DEF FirstCrossing, EarliestOf
<1>5. QED
  BY <1>1, <1>3, <1>4

\* How far apart the first crossings of two arrays are.
LEMMA DeltaType ==
  ASSUME NEW x, NEW y, IsArray(x), IsArray(y), NEW e, NEW spec
  PROVE  TimingDelta(spec, x, y, e) \in Nat
<1>1. /\ FirstCrossing(x, e, spec) \in Nat /\ FirstCrossing(y, e, spec) \in Nat
  BY CrossingType
<1>2. NaN \notin {FirstCrossing(x, e, spec), FirstCrossing(y, e, spec)}
  BY <1>1, NaNAssumption
<1>3. QED
  BY <1>1, <1>2 DEF TimingDelta, Distance

\* The step reported is the first one with a violation.
LEMMA ViolationOf ==
  ASSUME NEW n \in Nat, NEW curve, DOMAIN curve = 1..n, NEW limit
  PROVE  LET step == ViolationStep(curve, limit)
         IN  /\ step \in 0..n
             /\ (\E t \in 1..n : Violating(curve[t], limit) # {}) => step # 0
             /\ step # 0 => Violating(curve[step], limit) # {}
             /\ \A t \in 1..n : t < step => Violating(curve[t], limit) = {}
<1> DEFINE bad == {t \in DOMAIN curve : Violating(curve[t], limit) # {}}
<1>1. ViolationStep(curve, limit) = IF bad = {} THEN 0 ELSE Min(bad)
  BY DEF ViolationStep, EarliestOf
<1>2. bad \in SUBSET Int /\ IsFiniteSet(bad)
  <2>1. IsFiniteSet(1..n) /\ bad \in SUBSET (1..n)
    BY FS_Interval
  <2>2. IsFiniteSet(bad)
    BY <2>1, FS_Subset
  <2>3. QED
    BY <2>1, <2>2
<1>3. bad # {} => Min(bad) \in bad /\ \A t \in bad : Min(bad) <= t
  <2> HIDE DEF bad
  <2>1. QED
    BY <1>2, MinOf
<1>4. \A t \in 1..n : t \in bad <=> Violating(curve[t], limit) # {}
  OBVIOUS
<1>5. bad \subseteq 1..n
  OBVIOUS
<1> DEFINE step == ViolationStep(curve, limit)
<1> HIDE DEF bad, step
<1>6. step = IF bad = {} THEN 0 ELSE Min(bad)
  BY <1>1 DEF step
<1>7. CASE bad = {}
  BY <1>4, <1>6, <1>7 DEF step
<1>8. CASE bad # {}
  <2>1. step \in bad /\ \A t \in bad : step <= t
    BY <1>3, <1>6, <1>8
  <2>2. step \in 1..n
    BY <1>5, <2>1
  <2>3. \A t \in 1..n : t < step => t \notin bad
    BY <2>1, <2>2
  <2>4. QED
    BY <1>4, <2>1, <2>2, <2>3 DEF step
<1>9. QED
  BY <1>7, <1>8

\* The environment with the largest error is one of those that are compared.
LEMMA ArgMaxOf ==
  ASSUME NEW n, n \in Nat \ {0}, NEW row, row \in [1..n -> Int \cup {NaN}]
  PROVE  ArgMax(row) \in 1..n /\ \A f \in 1..n : ~Above(row[f], row[ArgMax(row)])
<1> DEFINE S == DOMAIN row
           A(e) == row[e]
           R == {p \in S \X S : ~Above(A(p[1]), A(p[2]))}
           largest == {e \in DOMAIN row : \A f \in DOMAIN row : ~Above(row[f], row[e])}
<1>1. S = 1..n /\ S \in SUBSET Int /\ IsFiniteSet(S) /\ S # {}
  <2>1. IsFiniteSet(1..n) /\ 1 \in 1..n
    BY FS_Interval
  <2>2. S = 1..n
    OBVIOUS
  <2>3. QED
    BY <2>1, <2>2
<1>2. \A e \in S : A(e) \in Int \cup {NaN}
  OBVIOUS
<1> HIDE DEF S, A
<1>3. \A a, b \in S : <<a, b>> \in R <=> ~Above(A(a), A(b))
  OBVIOUS
<1> HIDE DEF R
<1>4. ASSUME NEW a \in S, NEW b \in S PROVE <<a, b>> \in R \/ <<b, a>> \in R
  BY <1>2, <1>3, NaNAssumption DEF Above
<1>5. ASSUME NEW a \in S, NEW b \in S, NEW c \in S, <<a, b>> \in R, <<b, c>> \in R
      PROVE  <<a, c>> \in R
  BY <1>2, <1>3, <1>5, NaNAssumption DEF Above
<1>6. PICK e \in S : \A f \in S : <<f, e>> \in R
  <2>1. \A a, b \in S : <<a, b>> \in R \/ <<b, a>> \in R
    BY <1>4
  <2>2. \A a, b, c \in S : <<a, b>> \in R /\ <<b, c>> \in R => <<a, c>> \in R
    BY <1>5
  <2>3. IsFiniteSet(S) /\ S # {}
    BY <1>1
  <2>4. QED
    BY <2>1, <2>2, <2>3, Greatest
<1>7. \A f \in S : ~Above(A(f), A(e))
  BY <1>3, <1>6
<1>8. e \in largest /\ largest \in SUBSET S
  BY <1>7 DEF S, A
<1>9. IsFiniteSet(largest) /\ largest \in SUBSET Int
  <2> HIDE DEF largest
  <2>1. QED
    BY <1>1, <1>8, FS_Subset
<1>10. ArgMax(row) \in largest
  <2>1. ArgMax(row) = Min(largest)
    BY DEF ArgMax
  <2> HIDE DEF largest
  <2>2. QED
    BY <1>8, <1>9, <2>1, MinOf
<1>11. QED
  BY <1>1, <1>10 DEF S

\* The fields of what a comparison reports are within the bounds h on steps and n on
\* environments.
Fits(o, h, n) ==
  /\ o.status \in Status
  /\ o.record.class \in Classifications \cup {"none", "task_level_regression"}
  /\ o.record.step \in 0..h
  /\ o.record.envs \subseteq 1..n

\* An outcome without a place fits.
LEMMA PlacelessFits ==
  ASSUME NEW h \in Nat, NEW n
  PROVE  /\ Fits(Pass, h, n) /\ Fits(Skipped, h, n) /\ Fits(Insufficient, h, n)
         /\ Fits(Incomparable, h, n) /\ Fits(Raised, h, n)
         /\ \A code : Fits(Fail(code), h, n) /\ Fits(Inconclusive(code), h, n)
         /\ \A status \in Status : \A code : Fits(Outcome(status, code, NoRecord), h, n)
<1>1. /\ NoRecord.class = "none" /\ NoRecord.step = 0 /\ NoRecord.envs = {}
      /\ 0 \in 0..h /\ {} \subseteq 1..n
  BY DEF NoRecord
<1>2. \A status \in Status : \A code : Fits(Outcome(status, code, NoRecord), h, n)
  BY <1>1 DEF Fits, Outcome
<1>3. {"pass", "skipped", "inconclusive", "fail"} \subseteq Status
  BY DEF Status
<1>4. QED
  BY <1>2, <1>3 DEF Pass, Skipped, Insufficient, Incomparable, Raised, Fail, Inconclusive

\* What a difference is taken for.
LEMMA ClassType ==
  ASSUME NEW b, NEW c, NEW curve, NEW limit, NEW d
  PROVE  Classify(b, c, curve, limit, d) \in Classifications
<1>1. ConfigurationClass(d) # "none" => ConfigurationClass(d) \in Classifications
  BY DEF ConfigurationClass, Classifications
<1>2. {"numerical_drift", "unknown", "coordinate_frame_mismatch", "reset_mismatch",
       "sensor_semantic_difference"} \subseteq Classifications
  BY DEF Classifications
<1>3. QED
  BY <1>1, <1>2 DEF Classify

\* The record of a comparison is of a step and of environments of its error curve.
LEMMA LocalizedFits ==
  ASSUME NEW x, NEW y, NEW l \in Nat, NEW m, NEW curve, DOMAIN curve = 1..l,
         \A t \in 1..l : DOMAIN curve[t] = 1..m,
         NEW limit, NEW d, NEW h \in Nat, NEW n \in Nat, l <= h, m \in Nat, m <= n
  PROVE  /\ Fits(FailAt(Localize(x, y, curve, limit, d)), h, n)
         /\ \A spec : Fits(Exceeded(spec, Localize(x, y, curve, limit, d)), h, n)
<1> DEFINE step == ViolationStep(curve, limit)
           at == Localize(x, y, curve, limit, d)
<1>1. step \in 0..l
  BY ViolationOf
<1>2. /\ at.step = step /\ at.class = Classify(x, y, curve, limit, d)
      /\ at.envs = IF step = 0 THEN {} ELSE Violating(curve[step], limit)
  BY DEF Localize
<1> HIDE DEF step, at
<1>3. step # 0 => Violating(curve[step], limit) \subseteq 1..m
  BY <1>1 DEF Violating
<1>4. at.envs \subseteq 1..n
  BY <1>2, <1>3
<1>5. at.step \in 0..h
  BY <1>1, <1>2
<1>6. at.class \in Classifications
  BY <1>2, ClassType
<1>7. /\ FailAt(at).status = "fail" /\ FailAt(at).record = at
      /\ \A spec : Exceeded(spec, at).status = "fail" /\ Exceeded(spec, at).record = at
  BY DEF FailAt, Exceeded, Outcome
<1>8. QED
  BY <1>4, <1>5, <1>6, <1>7 DEF Fits, Status, at

\* An array of at most h steps and n environments.
Within(a, h, n) == IsArray(a) /\ Steps(a) <= h /\ a.envs <= n

LEMMA NumericalFit ==
  ASSUME NEW spec, NEW x, NEW y, NEW d, NEW h \in Nat, NEW n \in Nat,
         Within(x, h, n), Within(y, h, n)
  PROVE  /\ Fits(Trajectory(spec, x, y, d), h, n) /\ Fits(Exact(x, y, d), h, n)
         /\ Fits(Envelope(spec, x, y, d), h, n)
<1>1. /\ IsArray(x) /\ IsArray(y) /\ Steps(x) \in Nat /\ Steps(y) \in Nat
      /\ x.envs \in Nat /\ y.envs \in Nat /\ Envs(x) = 1..x.envs /\ Envs(y) = 1..y.envs
      /\ Steps(x) <= h /\ Steps(y) <= h /\ x.envs <= n /\ y.envs <= n
      /\ DOMAIN x.rows = 1..Steps(x)
  BY DEF Within, IsArray, Steps, Envs
<1>2. \A limit : /\ Fits(FailAt(Localize(x, y, ErrorCurve(x, y), limit, d)), h, n)
                 /\ Fits(Exceeded(spec, Localize(x, y, ErrorCurve(x, y), limit, d)), h, n)
  <2>1. DOMAIN ErrorCurve(x, y) = 1..Steps(x) /\ \A t \in 1..Steps(x) : DOMAIN ErrorCurve(x, y)[t] = 1..x.envs
    BY <1>1 DEF ErrorCurve
  <2>2. QED
    BY <1>1, <2>1, LocalizedFits
<1>3. Fits(Trajectory(spec, x, y, d), h, n)
  BY <1>2, PlacelessFits DEF Trajectory
<1>4. Fits(Exact(x, y, d), h, n)
  BY <1>2, PlacelessFits DEF Exact
<1>5. Fits(Envelope(spec, x, y, d), h, n)
  <2> DEFINE length == Max({Steps(x), Steps(y)})
             curve == [t \in 1..length |-> [e \in Envs(y) |->
                        Breach(x.rows[Broadcast(x, t)], y.rows[Broadcast(y, t)][e], spec.tol)]]
  <2>1. length \in Nat /\ length <= h
    <3>1. Steps(x) \in Int /\ Steps(y) \in Int
      BY <1>1
    <3>2. length = IF Steps(x) >= Steps(y) THEN Steps(x) ELSE Steps(y)
      BY <3>1, LargerOf
    <3>3. QED
      BY <1>1, <3>2
  <2>2. DOMAIN curve = 1..length /\ \A t \in 1..length : DOMAIN curve[t] = 1..y.envs
    BY <1>1
  <2>3. Fits(FailAt(Localize(x, y, curve, 0, d)), h, n)
    <3> HIDE DEF curve, length
    <3>1. QED
      BY <1>1, <2>1, <2>2, LocalizedFits
  <2>4. Envelope(spec, x, y, d) \in {Skipped, Raised, Pass, FailAt(Localize(x, y, curve, 0, d))}
    BY DEF Envelope
  <2>5. QED
    BY <2>3, <2>4, PlacelessFits
<1>6. QED
  BY <1>3, <1>4, <1>5

\* What the events of two arrays are compared on.
LEMMA PairsOf ==
  ASSUME NEW x, NEW y, IsArray(x), IsArray(y)
  PROVE  LET k == Min({x.envs, y.envs})
         IN  k \in Nat /\ k <= x.envs /\ k <= y.envs /\ Paired(x, y) = 1..k
<1>1. x.envs \in Int /\ y.envs \in Int /\ x.envs \in Nat /\ y.envs \in Nat
  BY DEF IsArray
<1>2. Min({x.envs, y.envs}) = IF x.envs <= y.envs THEN x.envs ELSE y.envs
  BY <1>1, SmallerOf
<1>3. QED
  BY <1>1, <1>2 DEF Paired

\* The record of an event that differs is of a step and of environments of the arrays.
LEMMA EventRecordFits ==
  ASSUME NEW spec, NEW x, NEW y, NEW h \in Nat, NEW n \in Nat,
         Within(x, h, n), Within(y, h, n), Paired(x, y) # {}, NEW code
  PROVE  Fits(Outcome("fail", code, EventRecord(spec, x, y)), h, n)
<1> DEFINE lone  == CountMismatches(spec, x, y)
           k     == Min({x.envs, y.envs})
           first(e) == {FirstCrossing(x, e, spec), FirstCrossing(y, e, spec)}
           worst == ArgMax([e \in Paired(x, y) |-> TimingDelta(spec, x, y, e)])
           at    == EventRecord(spec, x, y)
<1>1. IsArray(x) /\ IsArray(y) /\ Steps(x) <= h /\ Steps(y) <= h /\ x.envs <= n /\ y.envs <= n
      /\ Steps(x) \in Nat /\ Steps(y) \in Nat /\ x.envs \in Nat /\ y.envs \in Nat
  BY DEF Within, IsArray, Steps
<1>2. k \in Nat \ {0} /\ k <= n /\ Paired(x, y) = 1..k
  <2> HIDE DEF k
  <2>1. k \in Nat /\ k <= x.envs /\ Paired(x, y) = 1..k
    BY <1>1, PairsOf DEF k
  <2>2. QED
    BY <1>1, <2>1
<1> HIDE DEF k
<1>3. lone \subseteq 1..k
  BY <1>2 DEF CountMismatches
<1>4. worst \in 1..k
  <2> DEFINE row == [e \in 1..k |-> TimingDelta(spec, x, y, e)]
  <2>1. row \in [1..k -> Int \cup {NaN}]
    BY <1>1, DeltaType
  <2>2. worst = ArgMax(row)
    BY <1>2
  <2> HIDE DEF row, worst
  <2>3. QED
    BY <1>2, <2>1, <2>2, ArgMaxOf
<1>5. ASSUME NEW e PROVE Max(first(e)) \in 0..h /\ Min(first(e)) \in 0..h
  <2> DEFINE a == FirstCrossing(x, e, spec)
             b == FirstCrossing(y, e, spec)
  <2>1. a \in 0..Steps(x) /\ b \in 0..Steps(y)
    BY <1>1, CrossingType
  <2> HIDE DEF a, b
  <2>2. a \in 0..h /\ b \in 0..h /\ a \in Int /\ b \in Int
    BY <1>1, <2>1
  <2>3. Max({a, b}) = IF a >= b THEN a ELSE b
    BY <2>2, LargerOf
  <2>4. Min({a, b}) = IF a <= b THEN a ELSE b
    BY <2>2, SmallerOf
  <2>5. Max({a, b}) \in 0..h /\ Min({a, b}) \in 0..h
    BY <2>2, <2>3, <2>4
  <2>6. QED
    BY <2>5 DEF a, b
<1>6. /\ at.step = IF lone # {} THEN Max(first(Min(lone))) ELSE Min(first(worst))
      /\ at.envs = IF lone # {} THEN lone ELSE {worst}
      /\ at.class = "task_level_regression"
  BY DEF EventRecord, NoRecord
<1> HIDE DEF at, lone, worst, first
<1>7. at.step \in 0..h
  BY <1>5, <1>6
<1>8. at.envs \subseteq 1..n
  BY <1>2, <1>3, <1>4, <1>6
<1>9. QED
  BY <1>6, <1>7, <1>8 DEF Fits, Outcome, Status, at

LEMMA EventsFit ==
  ASSUME NEW spec, NEW x, NEW y, NEW h \in Nat, NEW n \in Nat,
         Within(x, h, n), Within(y, h, n)
  PROVE  /\ Fits(Event(spec, x, y), h, n) /\ Fits(Decision(spec, x, y), h, n)
         /\ Fits(Permutation(spec, x, y), h, n)
<1>1. IsArray(x) /\ IsArray(y) /\ x.envs <= n /\ x.envs \in Nat
  BY DEF Within, IsArray
<1>2. CountMismatches(spec, x, y) \subseteq Paired(x, y)
  BY DEF CountMismatches
<1>3. Fits(Event(spec, x, y), h, n)
  <2> DEFINE count  == Outcome("fail", "IVF-ORACLE-EVENT-COUNT-MISMATCH", EventRecord(spec, x, y))
             timing == Outcome("fail", "IVF-ORACLE-EVENT-TIMING-DELTA", EventRecord(spec, x, y))
  <2>1. \/ Event(spec, x, y) \in {Raised, Insufficient, Pass}
        \/ Paired(x, y) # {} /\ Event(spec, x, y) \in {count, timing}
    BY <1>2 DEF Event
  <2>2. Paired(x, y) # {} => Fits(count, h, n) /\ Fits(timing, h, n)
    BY EventRecordFits
  <2> HIDE DEF count, timing
  <2>3. QED
    BY <2>1, <2>2, PlacelessFits
<1>4. Fits(Decision(spec, x, y), h, n)
  <2> DEFINE agree == Paired(x, y) \ CountMismatches(spec, x, y)
             at == [NoRecord EXCEPT !.envs  = Paired(x, y) \ agree,
                                    !.class = "task_level_regression"]
             disagree == Outcome("fail", "IVF-ORACLE-DECISION-DISAGREEMENT", at)
  <2>1. Decision(spec, x, y) \in {Raised, Insufficient, Pass, disagree}
    BY DEF Decision
  <2>2. at.step = 0 /\ at.class = "task_level_regression" /\ at.envs = Paired(x, y) \ agree
    BY DEF NoRecord
  <2> HIDE DEF at
  <2>3. at.envs \subseteq 1..n
    <3>1. PICK k \in Nat : k <= x.envs /\ Paired(x, y) = 1..k
      BY <1>1, PairsOf
    <3>2. at.envs \subseteq 1..k
      BY <2>2, <3>1
    <3>3. QED
      BY <1>1, <3>1, <3>2
  <2>4. Fits(disagree, h, n)
    BY <2>2, <2>3 DEF Fits, Outcome, Status
  <2> HIDE DEF disagree
  <2>5. QED
    BY <2>1, <2>4, PlacelessFits
<1>5. Fits(Permutation(spec, x, y), h, n)
  BY PlacelessFits DEF Permutation
<1>6. QED
  BY <1>3, <1>4, <1>5

\* The first of finitely many cells is one of them.
LEMMA FirstCellOf ==
  ASSUME NEW cells, IsFiniteSet(cells), cells # {}, NEW S, NEW T, S \subseteq Int, T \subseteq Int,
         cells \subseteq S \X T
  PROVE  FirstCell(cells) \in cells
<1> DEFINE Before(p, q) == p[1] < q[1] \/ (p[1] = q[1] /\ p[2] <= q[2])
           R == {r \in cells \X cells : Before(r[2], r[1])}
<1>1. \A p \in cells : p[1] \in Int /\ p[2] \in Int
  OBVIOUS
<1>2. \A p, q \in cells : <<p, q>> \in R <=> Before(q, p)
  OBVIOUS
<1> HIDE DEF R
<1>3. \A p, q \in cells : <<p, q>> \in R \/ <<q, p>> \in R
  <2> SUFFICES ASSUME NEW p \in cells, NEW q \in cells PROVE Before(q, p) \/ Before(p, q)
    BY <1>2
  <2>1. p[1] \in Int /\ p[2] \in Int /\ q[1] \in Int /\ q[2] \in Int
    BY <1>1
  <2>2. QED
    BY <2>1
<1>4. \A p, q, r \in cells : <<p, q>> \in R /\ <<q, r>> \in R => <<p, r>> \in R
  <2> SUFFICES ASSUME NEW p \in cells, NEW q \in cells, NEW r \in cells,
                      Before(q, p), Before(r, q)
               PROVE  Before(r, p)
    BY <1>2
  <2>1. p[1] \in Int /\ p[2] \in Int /\ q[1] \in Int /\ q[2] \in Int /\ r[1] \in Int /\ r[2] \in Int
    BY <1>1
  <2>2. QED
    BY <2>1
<1>5. PICK p \in cells : \A q \in cells : <<q, p>> \in R
  BY <1>3, <1>4, Greatest
<1>6. \A q \in cells : Before(p, q)
  BY <1>2, <1>5
<1>7. QED
  BY <1>6 DEF FirstCell

\* The cells of an array that violate an invariant are cells of it.
LEMMA BadCellOf ==
  ASSUME NEW a, NEW h \in Nat, NEW n \in Nat, Within(a, h, n), NEW spec, BadCells(a, spec) # {}
  PROVE  FirstCell(BadCells(a, spec))[1] \in 1..h /\ FirstCell(BadCells(a, spec))[2] \in 1..n
<1>1. /\ DOMAIN a.rows = 1..Steps(a) /\ Envs(a) = 1..a.envs
      /\ Steps(a) \in Nat /\ a.envs \in Nat /\ Steps(a) <= h /\ a.envs <= n
  BY DEF Within, IsArray, Steps, Envs
<1>2. BadCells(a, spec) \subseteq (1..Steps(a)) \X (1..a.envs)
  BY <1>1 DEF BadCells
<1>3. IsFiniteSet((1..Steps(a)) \X (1..a.envs))
  <2>1. 1 \in Int /\ Steps(a) \in Int /\ a.envs \in Int
    BY <1>1
  <2>2. IsFiniteSet(1..Steps(a)) /\ IsFiniteSet(1..a.envs)
    BY <2>1, FS_Interval
  <2>3. QED
    BY <2>2, FS_Product
<1>4. IsFiniteSet(BadCells(a, spec))
  BY <1>2, <1>3, FS_Subset
<1>5. FirstCell(BadCells(a, spec)) \in BadCells(a, spec)
  <2>1. 1..Steps(a) \subseteq Int /\ 1..a.envs \subseteq Int
    BY <1>1
  <2>2. QED
    BY <1>2, <1>4, <2>1, FirstCellOf
<1>6. FirstCell(BadCells(a, spec)) \in (1..Steps(a)) \X (1..a.envs)
  BY <1>2, <1>5
<1>7. QED
  BY <1>1, <1>6

LEMMA InvariantFits ==
  ASSUME NEW spec, spec.signals \in Seq(Range(spec.signals)), NEW b, NEW c, NEW w,
         NEW h \in Nat, NEW n \in Nat,
         \A s \in {b, c} : \A m \in DOMAIN s.signals : Within(Trim(s.signals[m], w), h, n)
  PROVE  Fits(Invariant(spec, b, c, w), h, n)
<1> DEFINE shared == DOMAIN b.signals \cap DOMAIN c.signals
           names  == IF spec.signals = <<>> THEN SortedNames ELSE spec.signals
           judged == {i \in DOMAIN names : names[i] \in shared}
           runs   == <<b, c>>
           window(r, i) == Trim(runs[r].signals[names[i]], w)
           cells(r, i) == BadCells(window(r, i), spec)
           bad    == {q \in {1, 2} \X judged : cells(q[1], q[2]) # {}}
           first  == FirstCell(bad)
           cell   == FirstCell(cells(first[1], first[2]))
           at     == [NoRecord EXCEPT !.step = cell[1], !.envs = {cell[2]},
                        !.class = IF spec.check = "finite_state" THEN "numerical_drift"
                                                                 ELSE "unknown"]
           found  == Outcome("fail", "IVF-ORACLE-INVARIANT-VIOLATION", at)
<1>1. \/ Invariant(spec, b, c, w) \in {Raised, Pass}
      \/ bad # {} /\ Invariant(spec, b, c, w) = found
  BY DEF Invariant
<1>2. ASSUME bad # {} PROVE Fits(found, h, n)
  <2>1. DOMAIN names = 1..Len(names) /\ Len(names) \in Nat
    <3>1. names \in Seq(Range(names))
      BY SortedAssumption
    <3> HIDE DEF names
    <3>2. QED
      BY <3>1
  <2>2. IsFiniteSet(judged) /\ judged \subseteq Int
    <3>1. judged \subseteq DOMAIN names
      OBVIOUS
    <3> HIDE DEF judged, names
    <3>2. 1 \in Int /\ Len(names) \in Int
      BY <2>1
    <3>3. IsFiniteSet(1..Len(names))
      BY <3>2, FS_Interval
    <3>4. QED
      BY <2>1, <3>1, <3>3, FS_Subset
  <2>3. first \in bad
    <3>1. {1, 2} = 1..2 /\ {1, 2} \subseteq Int
      OBVIOUS
    <3>2. IsFiniteSet({1, 2})
      BY <3>1, FS_Interval
    <3> HIDE DEF judged
    <3>3. IsFiniteSet({1, 2} \X judged)
      BY <2>2, <3>2, FS_Product
    <3> HIDE DEF cells
    <3>4. bad \subseteq {1, 2} \X judged
      OBVIOUS
    <3> HIDE DEF bad
    <3>5. IsFiniteSet(bad)
      BY <3>3, <3>4, FS_Subset
    <3>6. bad # {}
      BY <1>2 DEF bad
    <3>7. FirstCell(bad) \in bad
      <4>1. judged \subseteq Int
        BY <2>2
      <4>2. \A S, T : S \subseteq Int /\ T \subseteq Int /\ bad \subseteq S \X T
                       => FirstCell(bad) \in bad
        BY <3>5, <3>6, FirstCellOf
      <4>3. QED
        BY <3>1, <3>4, <4>1, <4>2
    <3>8. QED
      BY <3>7
  <2>4. first[1] \in {1, 2} /\ first[2] \in judged /\ cells(first[1], first[2]) # {}
    <3> HIDE DEF first, judged, cells
    <3>1. QED
      BY <2>3
  <2>5. Within(window(first[1], first[2]), h, n)
    <3> HIDE DEF first
    <3>1. names[first[2]] \in shared /\ runs[first[1]] \in {b, c}
      BY <2>4
    <3>2. names[first[2]] \in DOMAIN runs[first[1]].signals
      BY <2>4, <3>1
    <3> HIDE DEF names, runs
    <3>3. QED
      BY <3>1, <3>2
  <2>6. cell[1] \in 1..h /\ cell[2] \in 1..n
    <3> HIDE DEF window
    <3>1. QED
      BY <2>4, <2>5, BadCellOf
  <2> HIDE DEF cell
  <2>7. /\ at.step = cell[1] /\ at.envs = {cell[2]}
        /\ at.class \in {"numerical_drift", "unknown"}
    BY DEF NoRecord
  <2> HIDE DEF at
  <2>8. found.record = at /\ found.status = "fail"
    BY DEF Outcome
  <2> HIDE DEF found
  <2>9. QED
    BY <2>6, <2>7, <2>8 DEF Fits, Status, Classifications
<1> HIDE DEF bad, found
<1>3. QED
  BY <1>1, <1>2, PlacelessFits

\* Whatever an oracle reports fits the subjects' windows.
LEMMA OutcomesFit ==
  ASSUME NEW spec, CriterionIsDeclared(spec), NEW b, NEW c, NEW w, NEW h \in Nat, NEW n \in Nat,
         \A s \in {b, c} : \A m \in DOMAIN s.signals : Within(Trim(s.signals[m], w), h, n),
         NEW o \in OutcomesOf(spec, b, c, w)
  PROVE  Fits(o, h, n)
<1> DEFINE x == Trim(b.signals[spec.signal], w)
           y == Trim(c.signals[spec.signal], w)
           d == ConfigDifferences(b, c)
<1>1. CASE spec.type \notin Pairwise \cup Whole
  BY <1>1, PlacelessFits DEF OutcomesOf, Status
<1>2. CASE \/ spec.type \in Pairwise /\ spec.signal \notin DOMAIN b.signals \cap DOMAIN c.signals
           \/ spec.type \in Gated /\ spec.tol = None
  BY <1>1, <1>2, PlacelessFits DEF OutcomesOf
<1>3. CASE /\ spec.type \in Pairwise \cup Whole
           /\ ~(spec.type \in Pairwise
                  /\ spec.signal \notin DOMAIN b.signals \cap DOMAIN c.signals)
           /\ ~(spec.type \in Gated /\ spec.tol = None)
  <2>1. \/ /\ spec.type \in Pairwise
           /\ \/ o \in {Trajectory(spec, x, y, d), Exact(x, y, d), Envelope(spec, x, y, d),
                        Event(spec, x, y), Decision(spec, x, y), Permutation(spec, x, y)}
              \/ \E i : o = Statistical(spec, x, y, i)
        \/ o \in {ActionReplay(b, c), ObservationStability(b, c), RequiredFeatures(spec, b, c)}
        \/ spec.type = "invariant" /\ o = Invariant(spec, b, c, w)
    BY <1>3 DEF OutcomesOf, Pairwise, Whole, Gated
  <2>2. ASSUME spec.type \in Pairwise PROVE Within(x, h, n) /\ Within(y, h, n)
    BY <1>3, <2>2
  <2>3. ASSUME spec.type \in Pairwise,
               o \in {Trajectory(spec, x, y, d), Exact(x, y, d), Envelope(spec, x, y, d),
                      Event(spec, x, y), Decision(spec, x, y), Permutation(spec, x, y)}
        PROVE  Fits(o, h, n)
    <3> HIDE DEF x, y
    <3>1. QED
      BY <2>2, <2>3, NumericalFit, EventsFit
  <2>4. ASSUME NEW i PROVE Fits(Statistical(spec, x, y, i), h, n)
    <3> HIDE DEF x, y
    <3>1. Statistical(spec, x, y, i) \in
            {Raised, Insufficient, Pass, Fail("IVF-ORACLE-NON_EQUIVALENT"),
             Inconclusive("IVF-CONTROL-ENV-COUNT-MISMATCH"),
             Inconclusive("IVF-ORACLE-INVARIANT-VIOLATION"),
             Inconclusive("IVF-EQUIVALENCE-UNDECIDED"),
             Outcome("pass", "IVF-EFFECT-BELOW-MEANINGFUL", NoRecord)}
      BY DEF Statistical
    <3>2. "pass" \in Status
      BY DEF Status
    <3>3. QED
      BY <3>1, <3>2, PlacelessFits
  <2>5. /\ Fits(ActionReplay(b, c), h, n) /\ Fits(ObservationStability(b, c), h, n)
        /\ Fits(RequiredFeatures(spec, b, c), h, n)
    <3>1. "unsupported" \in Status
      BY DEF Status
    <3>2. QED
      BY <3>1, PlacelessFits DEF ActionReplay, ObservationStability, RequiredFeatures
  <2>6. ASSUME spec.type = "invariant" PROVE Fits(Invariant(spec, b, c, w), h, n)
    BY <2>6, InvariantFits DEF CriterionIsDeclared
  <2>7. QED
    BY <2>1, <2>3, <2>4, <2>5, <2>6
<1>4. QED
  BY <1>1, <1>2, <1>3

-----------------------------------------------------------------------------
(* What follows from the invariants.                                         *)

\* Oracles run on a valid report only.
Windowed ==
  /\ stage = "loaded" => outcomes = <<>>
  /\ outcomes # <<>> => Valid(checks)

LEMMA WindowedStep == Reported /\ Explained /\ Windowed /\ [Next]_vars => Windowed'
<1> SUFFICES ASSUME Reported, Explained, Windowed, [Next]_vars PROVE Windowed'
  OBVIOUS
<1>1. CASE Check
  BY <1>1 DEF Check, Windowed
<1>2. CASE RunOracle
  <2>1. Valid(checks)
    <3>1. ~Valid(checks) => Len(outcomes) < 0
      BY <1>2 DEF RunOracle, Declared
    <3>2. Len(outcomes) \in Nat
      BY DEF Explained
    <3>3. QED
      BY <3>1, <3>2
  <2>2. QED
    BY <1>2, <2>1 DEF RunOracle, Windowed, Valid, Failures
<1>3. CASE DecideVerdict
  BY <1>3 DEF DecideVerdict, Windowed, Valid, Failures
<1>4. CASE UNCHANGED vars
  BY <1>4 DEF vars, Windowed, Valid, Failures
<1>5. QED
  BY <1>1, <1>2, <1>3, <1>4 DEF Next

LEMMA WindowedHolds == Spec => []Windowed
<1>1. Init => Windowed
  BY DEF Init, Windowed
<1>2. QED
  BY <1>1, WindowedStep, ReportedHolds, ExplainedHolds, PTL DEF Spec

\* What is reported makes every judged experiment comparable.
LEMMA ComparableFollows == Reported => ScienceIsComparable
<1> SUFFICES ASSUME Reported, Decided, M.policy.invalidOnViolation,
                    verdict # "INVALID_EXPERIMENT"
             PROVE  /\ \A k \in M.same : Agree(Recorded(B, k), Recorded(C, k))
                    /\ Agree(B.meta["physics_dt"], C.meta["physics_dt"])
                    /\ \A n \in Shared(M, B, C), p \in Properties :
                         Agree(Normalized(p, B.contract[n][p]), Normalized(p, C.contract[n][p]))
                    /\ \A s \in {B, C} : s.complete /\ Horizon(s) >= M.workload.steps
                    /\ B.signals = C.signals => M.mode = "identity_check"
  BY DEF ScienceIsComparable
<1>1. Valid(CheckExperiment(M, B, C))
  BY DEF Reported, Decided, Decide
<1>2. \A k \in CheckExperiment(M, B, C) : k.status # "fail"
  BY <1>1, NoneFailed
<1>3. WellFormed(M)
  BY ExperimentAssumption DEF Reported, M
<1>4. ASSUME NEW k \in M.same PROVE Agree(Recorded(B, k), Recorded(C, k))
  BY <1>2, <1>3, RequiredIsCompared, NotFailedAgree
<1>5. ASSUME NEW n \in Shared(M, B, C), NEW p \in Properties
      PROVE  Agree(Normalized(p, B.contract[n][p]), Normalized(p, C.contract[n][p]))
  BY <1>2, PropertyIsCompared, NotFailedAgree
<1>6. \A s \in {B, C} : s.complete /\ Horizon(s) >= M.workload.steps
  BY <1>1, ProtocolIsChecked DEF WholeRun
<1> QED
  BY <1>1, <1>4, <1>5, <1>6, ProtocolIsChecked

\* What is reported assumes nothing.
LEMMA UnassumedFollows == Reported => NothingIsAssumed
<1> SUFFICES ASSUME Reported, Decided PROVE NothingIsAssumed
  BY DEF NothingIsAssumed
<1>1. checks = CheckExperiment(M, B, C)
  BY DEF Reported, Decided
<1>2. WellFormed(M)
  BY ExperimentAssumption DEF Reported, M
<1>3. ASSUME NEW k \in M.unverifiable
      PROVE  \E check \in About(k) : check.status = "unverifiable"
  <2>1. PICK check \in CheckExperiment(M, B, C) :
          check.about = <<"control", k>> /\ check.status = "unverifiable"
    BY SetAsideIsReported
  <2>2. QED
    BY <1>1, <2>1 DEF About
<1>4. ASSUME NEW k \in M.same PROVE About(k) # {}
  BY <1>1, <1>2, RequiredIsCompared DEF About, IsAbout
<1>5. ASSUME NEW k \in M.same, NEW check \in About(k)
      PROVE  /\ check.status = "unverifiable" <=> None \in {Recorded(B, k), Recorded(C, k)}
             /\ check.status = "pass" =>
                  /\ Recorded(B, k) = Recorded(C, k)
                  /\ \/ Vouched(B, k) /\ Vouched(C, k)
                     \/ k = "asset_identity" /\ NamedOnly(B) /\ NamedOnly(C)
  <2>1. check.status = Compared(Recorded(B, k), Recorded(C, k))
    BY <1>1, <1>2, <1>5, RequiredIsOnlyCompared DEF About, IsAbout
  <2>2. check.status = "unverifiable" <=> None \in {Recorded(B, k), Recorded(C, k)}
    BY <2>1 DEF Compared
  <2>3. ASSUME check.status = "pass"
        PROVE  Recorded(B, k) = Recorded(C, k) /\ Recorded(B, k) # None
    BY <2>1, <2>3 DEF Compared
  <2>4. ASSUME k = "asset_identity", Recorded(B, k) = Recorded(C, k)
        PROVE  NamedOnly(B) <=> NamedOnly(C)
    <3>1. /\ Recorded(B, k) = B.meta["asset_identity"]
          /\ Recorded(C, k) = C.meta["asset_identity"]
      BY <2>4, RecordedIs DEF MetadataKey
    <3>2. QED
      BY <2>4, <3>1 DEF NamedOnly
  <2>5. QED
    BY <2>2, <2>3, <2>4 DEF Vouched
<1> QED
  BY <1>3, <1>4, <1>5 DEF NothingIsAssumed

\* What is reported does not depend on the order of the roles.
LEMMA ExchangeableFollows == Reported => RolesAreExchangeable
<1> SUFFICES ASSUME Reported, Decided, DeclaresUnits(B), DeclaresUnits(C)
             PROVE  Valid(checks) = Valid(CheckExperiment(M, C, B))
  BY DEF RolesAreExchangeable
<1>1. checks = CheckExperiment(M, B, C)
  BY DEF Reported, Decided
<1>2. UnitsAreNamed(B) /\ UnitsAreNamed(C)
  BY ExperimentAssumption DEF Reported, B, C
<1>3. Valid(CheckExperiment(M, B, C)) <=> Valid(CheckExperiment(M, C, B))
  BY <1>2, MirroredIsValid
<1>4. QED
  BY <1>1, <1>3 DEF Valid

\* What is reported and collected explains the verdict.
LEMMA ExplanationFollows == Reported /\ Explained => ReasonsExplain
<1> SUFFICES ASSUME Reported, Explained, Decided
             PROVE  /\ verdict # "PASS" => reasons # {} /\ "none" \notin reasons
                    /\ verdict = "PASS" /\ M.policy.invalidOnViolation => reasons = {}
  BY DEF ReasonsExplain
<1> DEFINE refused == ~Valid(checks) /\ M.policy.invalidOnViolation
           named   == {outcomes[i].code : i \in {j \in DOMAIN outcomes :
                         outcomes[j].status \in {"fail", "unsupported", "inconclusive"}}}
           skipped == IF Statuses = {"skipped"} THEN {"IVF-SAMPLE-INSUFFICIENT"} ELSE {}
<1>1. /\ checks = CheckExperiment(M, B, C)
      /\ verdict = Decide(M.policy, Valid(checks), Statuses)
      /\ reasons = IF refused THEN ReasonCodes(checks)
                   ELSE ReasonCodes(checks) \cup named \cup skipped
  BY DEF Reported, Explained, Decided, DecidedReasons
<1>2. Valid(checks) => ReasonCodes(checks) = {}
  BY DEF Valid, ReasonCodes
<1>3. ~Valid(checks) => ReasonCodes(checks) # {} /\ ReasonCodes(checks) \subseteq CheckCodes
  BY <1>1, InvalidIsNamed
<1>4. named \subseteq OutcomeCodes
  BY ExplainedAreCoded DEF Coded
<1>5. "none" \notin CheckCodes /\ "none" \notin OutcomeCodes
  BY DEF CheckCodes, OutcomeCodes
<1>6. "none" \notin reasons
  BY <1>1, <1>2, <1>3, <1>4, <1>5
<1>7. ASSUME verdict # "PASS" PROVE reasons # {}
  <2>1. CASE ~Valid(checks)
    BY <2>1, <1>1, <1>3
  <2>2. CASE Valid(checks) /\ Statuses \cap {"fail", "unsupported", "inconclusive"} # {}
    <3>1. PICK i \in DOMAIN outcomes :
            outcomes[i].status \in {"fail", "unsupported", "inconclusive"}
      BY <2>2 DEF Statuses
    <3>2. outcomes[i].code \in named
      BY <3>1
    <3>3. QED
      BY <3>2, <2>2, <1>1
  <2>3. CASE Valid(checks) /\ Statuses \cap {"fail", "unsupported", "inconclusive"} = {}
    <3>1. Statuses = {"skipped"}
      BY <2>3, <1>1, <1>7 DEF Decide
    <3>2. QED
      BY <3>1, <2>3, <1>1
  <2>4. QED
    BY <2>1, <2>2, <2>3
<1>8. ASSUME verdict = "PASS", M.policy.invalidOnViolation PROVE reasons = {}
  <2>1. Valid(checks)
    BY <1>1, <1>8 DEF Decide
  <2>2. Statuses \cap {"fail", "unsupported", "inconclusive"} = {} /\ Statuses # {"skipped"}
    BY <1>1, <1>8 DEF Decide
  <2>3. named = {}
    BY <2>2 DEF Statuses
  <2>4. QED
    BY <2>1, <2>2, <2>3, <1>1, <1>2
<1>9. QED
  BY <1>6, <1>7, <1>8

\* An outcome is one of the oracle at its place in the manifest.
LEMMA OutcomesAreDeclared ==
  ASSUME Reported, Explained, Judged, NEW i \in DOMAIN outcomes
  PROVE  i \in DOMAIN M.oracles /\ outcomes[i] \in OutcomesOf(M.oracles[i], B, C, Warmup(M))
<1>1. M.oracles \in Seq(Range(M.oracles)) /\ outcomes \in Seq(Possible)
  BY ExperimentAssumption DEF Reported, M, WellFormed, Explained
<1>2. /\ DOMAIN outcomes = 1..Len(outcomes) /\ Len(outcomes) \in Nat
      /\ DOMAIN M.oracles = 1..Len(M.oracles) /\ Len(M.oracles) \in Nat
  BY <1>1
<1>3. Len(outcomes) <= Len(M.oracles)
  BY <1>2 DEF Judged
<1>4. QED
  BY <1>2, <1>3 DEF Judged

\* On a valid report, what is left of a signal as long as the one its subject is
\* measured by.
LEMMA WindowIsWhole ==
  ASSUME Reported, Windowed, outcomes # <<>>, NEW s \in {B, C}, NEW n \in DOMAIN s.signals,
         Steps(s.signals[n]) >= Horizon(s)
  PROVE  LET window == Steps(Trim(s.signals[n], Warmup(M)))
         IN  window >= 1 /\ (Warmup(M) >= 0 => window >= M.workload.steps - Warmup(M))
<1>1. Valid(CheckExperiment(M, B, C))
  BY DEF Reported, Windowed
<1>2. Horizon(s) >= M.workload.steps
  BY <1>1, ProtocolIsChecked DEF WholeRun
<1>3. \A r \in {B, C} : Rectangular(r)
  BY ExperimentAssumption DEF Reported, B, C
<1>4. Horizon(s) \in Nat /\ s.signals[n].rows \in Seq(Range(s.signals[n].rows))
  <2>1. \A i \in DOMAIN s.signals : s.signals[i].rows \in Seq(Range(s.signals[i].rows))
    BY <1>3 DEF Rectangular
  <2>2. \E i \in DOMAIN s.signals : AnySignal(s) = s.signals[i]
    BY DEF AnySignal
  <2>3. QED
    BY <2>1, <2>2 DEF Horizon, Steps
<1>5. /\ M.workload.steps \in Nat \ {0}
      /\ Warmup(M) \in Int /\ Warmup(M) < M.workload.steps
  BY ExperimentAssumption DEF Reported, M, WellFormed, Warmup
<1>6. Steps(s.signals[n]) \in Nat
  BY <1>4 DEF Steps
<1>7. Steps(s.signals[n]) >= 1 /\ Warmup(M) < Steps(s.signals[n])
  BY <1>2, <1>4, <1>5, <1>6
<1>8. /\ Steps(Trim(s.signals[n], Warmup(M))) >= 1
      /\ Warmup(M) >= 0 => Steps(Trim(s.signals[n], Warmup(M))) = Steps(s.signals[n]) - Warmup(M)
  BY <1>4, <1>5, <1>7, Trimmed
<1>9. QED
  BY <1>2, <1>4, <1>5, <1>6, <1>8

\* No criterion with a tolerance passes on an array without steps.
LEMMA PassNeedsSteps ==
  ASSUME NEW spec, NEW b, NEW c, NEW w \in Int, spec.type \in Gated,
         spec.tol # None => spec.floor \in Nat \ {0},
         \A s \in {b, c} : \A n \in DOMAIN s.signals : IsArray(Trim(s.signals[n], w)),
         NEW o \in OutcomesOf(spec, b, c, w), o.status = "pass"
  PROVE  \A s \in {b, c} : Steps(Trim(s.signals[spec.signal], w)) >= 1
<1> DEFINE x == Trim(b.signals[spec.signal], w)
           y == Trim(c.signals[spec.signal], w)
           d == ConfigDifferences(b, c)
<1>1. spec.type \in Pairwise \cup Whole /\ spec.type \in Pairwise
  BY DEF Pairwise
<1>2. o # Raised /\ o # Incomparable /\ o # Insufficient /\ o # Skipped
  BY OutcomeFields DEF Raised, Incomparable, Insufficient, Skipped, Inconclusive
<1>3. /\ spec.signal \in DOMAIN b.signals \cap DOMAIN c.signals
      /\ spec.tol # None
  BY <1>1, <1>2 DEF OutcomesOf
<1>4. \/ o \in {Trajectory(spec, x, y, d), Envelope(spec, x, y, d), Event(spec, x, y),
               Decision(spec, x, y), Permutation(spec, x, y)}
      \/ \E i : o = Statistical(spec, x, y, i)
  BY <1>1, <1>3 DEF OutcomesOf, Gated
<1>5. IsArray(x) /\ IsArray(y)
  BY <1>3
<1> HIDE DEF x, y, d
<1>6. Steps(x) \in Nat /\ Steps(y) \in Nat /\ x.envs \in Nat
  BY <1>5 DEF IsArray, Steps
<1>7. Steps(x) # 0 /\ Steps(y) # 0
  <2>1. CASE o = Trajectory(spec, x, y, d)
    <3>1. Steps(x) = Steps(y) /\ ~(Steps(x) * x.envs < spec.floor)
      BY <1>2, <2>1 DEF Trajectory, Shape
    <3>2. Steps(x) # 0
      BY <1>3, <1>6, <3>1
    <3>3. QED
      BY <3>1, <3>2
  <2>2. CASE o = Envelope(spec, x, y, d)
    BY <1>2, <2>2 DEF Envelope
  <2>3. CASE o = Event(spec, x, y)
    BY <1>2, <2>3 DEF Event
  <2>4. CASE o = Decision(spec, x, y)
    BY <1>2, <2>4 DEF Decision
  <2>5. CASE o = Permutation(spec, x, y)
    BY <1>2, <2>5 DEF Permutation, Shape
  <2>6. CASE \E i : o = Statistical(spec, x, y, i)
    <3>1. o # Inconclusive("IVF-CONTROL-ENV-COUNT-MISMATCH")
      BY OutcomeFields DEF Inconclusive
    <3>2. QED
      BY <1>2, <2>6, <3>1 DEF Statistical
  <2>7. QED
    BY <1>4, <2>1, <2>2, <2>3, <2>4, <2>5, <2>6
<1>8. QED
  BY <1>6, <1>7 DEF x, y

\* So a criterion that passed was applied to something.
LEMMA WindowFollows == Reported /\ Explained /\ Judged /\ Windowed => WindowIsNotEmpty
<1> SUFFICES ASSUME Reported, Explained, Judged, Windowed PROVE WindowIsNotEmpty
  OBVIOUS
<1>1. ASSUME NEW i \in DOMAIN outcomes, outcomes[i].status = "pass", M.oracles[i].type \in Gated
      PROVE  \A s \in {B, C} : Steps(Trim(s.signals[M.oracles[i].signal], Warmup(M))) >= 1
  <2>1. i \in DOMAIN M.oracles /\ outcomes[i] \in OutcomesOf(M.oracles[i], B, C, Warmup(M))
    BY OutcomesAreDeclared
  <2>2. CriterionIsDeclared(M.oracles[i])
    BY <2>1, NumericAssumption DEF Reported, M
  <2>3. M.oracles[i].tol # None => M.oracles[i].floor \in Nat \ {0}
    BY <2>2 DEF CriterionIsDeclared
  <2>4. Warmup(M) \in Int
    BY Subjects
  <2>5. \A s \in {B, C} : \A n \in DOMAIN s.signals : IsArray(Trim(s.signals[n], Warmup(M)))
    BY WindowIsArray
  <2>6. QED
    BY <1>1, <2>1, <2>3, <2>4, <2>5, PassNeedsSteps
<1>2. QED
  BY <1>1, WindowIsWhole DEF WindowIsNotEmpty

\* A subject has finitely many arrays.
LEMMA ArraysAreFinite ==
  ASSUME Reported, NEW s \in {B, C}
  PROVE  IsFiniteSet(Range(s.signals)) /\ Range(s.signals) # {}
<1>1. DOMAIN s.signals \in SUBSET Range(SortedNames) /\ SortedNames \in Seq(Range(SortedNames))
  BY SortedAssumption DEF Reported, B, C
<1>2. IsFiniteSet(DOMAIN SortedNames)
  <2>1. DOMAIN SortedNames = 1..Len(SortedNames) /\ Len(SortedNames) \in Nat
    BY <1>1
  <2>2. QED
    BY <2>1, FS_Interval
<1>3. IsFiniteSet(Range(SortedNames))
  BY <1>2, RangeIsFinite
<1>4. IsFiniteSet(DOMAIN s.signals)
  BY <1>1, <1>3, FS_Subset
<1>5. Rectangular(s)
  BY ExperimentAssumption DEF Reported, B, C
<1>6. QED
  BY <1>4, <1>5, RangeIsFinite DEF Rectangular, Range

\* Every window is within the greatest sizes of the arrays.
LEMMA Bounds ==
  ASSUME Reported
  PROVE  /\ MostSteps \in Nat /\ MostEnvs \in Nat
         /\ \A s \in {B, C} : \A n \in DOMAIN s.signals :
              Within(Trim(s.signals[n], Warmup(M)), MostSteps, MostEnvs)
<1>1. \A a \in BothArrays :
        /\ a.rows \in Seq(Range(a.rows)) /\ Steps(a) \in Nat /\ a.envs \in Nat
  <2> SUFFICES ASSUME NEW s \in {B, C}, NEW n \in DOMAIN s.signals
               PROVE  /\ s.signals[n].rows \in Seq(Range(s.signals[n].rows))
                      /\ Steps(s.signals[n]) \in Nat /\ s.signals[n].envs \in Nat
    BY DEF BothArrays, Range
  <2>1. s.signals[n].rows \in Seq(Range(s.signals[n].rows)) /\ s.signals[n].envs \in Nat
    BY Subjects
  <2>2. QED
    BY <2>1 DEF Steps
<1>2. IsFiniteSet(BothArrays) /\ BothArrays # {}
  <2>1. /\ IsFiniteSet(Range(B.signals)) /\ Range(B.signals) # {}
        /\ IsFiniteSet(Range(C.signals))
    BY ArraysAreFinite
  <2>2. QED
    BY <2>1, FS_Union DEF BothArrays
<1>3. MostSteps \in Nat /\ \A a \in BothArrays : Steps(a) <= MostSteps
  <2> DEFINE f == [a \in BothArrays |-> Steps(a)]
  <2>1. DOMAIN f = BothArrays /\ \A a \in BothArrays : f[a] = Steps(a)
    OBVIOUS
  <2>2. MostSteps = Max(Range(f))
    BY DEF MostSteps, Range
  <2> HIDE DEF f
  <2>3. \A a \in BothArrays : f[a] \in Nat
    BY <1>1, <2>1
  <2>4. QED
    BY <1>2, <2>1, <2>2, <2>3, GreatestValue
<1>4. MostEnvs \in Nat /\ \A a \in BothArrays : a.envs <= MostEnvs
  <2> DEFINE f == [a \in BothArrays |-> a.envs]
  <2>1. DOMAIN f = BothArrays /\ \A a \in BothArrays : f[a] = a.envs
    OBVIOUS
  <2>2. MostEnvs = Max(Range(f))
    BY DEF MostEnvs, Range
  <2> HIDE DEF f
  <2>3. \A a \in BothArrays : f[a] \in Nat
    BY <1>1, <2>1
  <2>4. QED
    BY <1>2, <2>1, <2>2, <2>3, GreatestValue
<1>5. ASSUME NEW s \in {B, C}, NEW n \in DOMAIN s.signals
      PROVE  Within(Trim(s.signals[n], Warmup(M)), MostSteps, MostEnvs)
  <2> DEFINE a == s.signals[n]
             b == Trim(a, Warmup(M))
  <2>1. IsArray(b)
    BY <1>5, WindowIsArray
  <2>2. a \in BothArrays
    BY <1>5 DEF BothArrays, Range
  <2>3. b.envs = a.envs
    BY DEF Trim
  <2>4. Warmup(M) \in Int
    BY Subjects
  <2> HIDE DEF a
  <2>5. Steps(b) <= Steps(a)
    BY <1>1, <2>2, <2>4, WindowIsShorter
  <2>6. Steps(b) \in Nat
    BY <2>1 DEF IsArray, Steps
  <2> HIDE DEF b
  <2>7. Steps(b) <= MostSteps
    BY <1>1, <1>3, <2>2, <2>5, <2>6
  <2>8. QED
    BY <1>4, <2>1, <2>2, <2>3, <2>7 DEF Within, a, b
<1>6. QED
  BY <1>3, <1>4, <1>5

LEMMA TypeFollows == Reported /\ Explained /\ Judged => TypeOK
<1> SUFFICES ASSUME Reported, Explained, Judged PROVE TypeOK
  OBVIOUS
<1>1. stage \in {"loaded", "checked", "decided"}
  BY DEF Reported
<1>2. \A k \in checks : k.status \in {"pass", "fail", "unverifiable", "not_applicable"}
  <2>1. CASE stage = "loaded"
    BY <2>1 DEF Explained
  <2>2. CASE stage # "loaded"
    BY <2>2, ChecksHaveStatus DEF Reported, CheckStatus
  <2>3. QED
    BY <2>1, <2>2
<1>3. WellFormed(M) /\ M.oracles \in Seq(Range(M.oracles)) /\ outcomes \in Seq(Possible)
  BY ExperimentAssumption DEF Reported, M, WellFormed, Explained
<1>4. Len(outcomes) <= Len(M.oracles)
  <2>1. Len(outcomes) \in Nat /\ Len(M.oracles) \in Nat /\ DOMAIN outcomes = 1..Len(outcomes)
    BY <1>3
  <2>2. CASE Len(outcomes) = 0
    BY <2>1, <2>2
  <2>3. CASE Len(outcomes) # 0
    BY <2>1, <2>3 DEF Judged
  <2>4. QED
    BY <2>2, <2>3
<1>5. ASSUME NEW i \in DOMAIN outcomes PROVE Fits(outcomes[i], MostSteps, MostEnvs)
  <2>1. i \in DOMAIN M.oracles
    BY <1>3, <1>4, <1>5
  <2>2. CriterionIsDeclared(M.oracles[i])
    BY <2>1, NumericAssumption DEF Reported, M
  <2>3. outcomes[i] \in OutcomesOf(M.oracles[i], B, C, Warmup(M))
    BY <1>5 DEF Judged
  <2>4. QED
    BY <2>2, <2>3, Bounds, OutcomesFit
<1>6. verdict \in IF Decided THEN Verdict \ {"ERROR"} ELSE {None}
  <2>1. Decide(M.policy, Valid(checks), Statuses) \in Verdict \ {"ERROR"}
    BY DEF Decide, Verdict
  <2>2. QED
    BY <2>1 DEF Reported, Decided
<1>7. QED
  BY <1>1, <1>2, <1>4, <1>5, <1>6 DEF TypeOK, Fits

-----------------------------------------------------------------------------
(* Theorems.                                                                 *)

\* For any experiments: a verdict exists from the decision on and is never ERROR, there
\* is no more than one outcome per oracle, and every record of a difference is of a step
\* and of environments that one of the subjects has (validate, localize).
THEOREM TypeCorrect == Spec => []TypeOK
BY TypeFollows, ReportedHolds, ExplainedHolds, JudgedHolds, PTL

\* For any experiments: under the default policy, every verdict but INVALID_EXPERIMENT
\* is about two comparable subjects (check_experiment, decide).
THEOREM Comparable == Spec => []ScienceIsComparable
BY ComparableFollows, ReportedHolds, PTL

\* For any experiments: every required control, and every one set aside, has a check in
\* the report, and none is passed unless both subjects carry the same and vouch for it -
\* but for assets known by name only, which the code does take for each other.
THEOREM Unassumed == Spec => []NothingIsAssumed
BY UnassumedFollows, ReportedHolds, PTL

\* For any experiments: which subject is called the baseline does not decide whether the
\* two may be compared, once both declare their units.
THEOREM Exchangeable == Spec => []RolesAreExchangeable
BY ExchangeableFollows, ReportedHolds, PTL

\* For any experiments: every verdict but PASS has a reason, and a PASS none (decide).
THEOREM AllExplained == Spec => []ReasonsExplain
BY ExplanationFollows, ReportedHolds, ExplainedHolds, PTL

\* For any experiments, with signals of whatever lengths: what an oracle sees of a signal
\* as long as the one its subject is measured by is the whole declared horizon but for
\* the warm-up, and no criterion with a tolerance passes on a signal of which nothing
\* is left (check_experiment, signal_pair, the oracles).
THEOREM WindowKept == Spec => []WindowIsNotEmpty
BY WindowFollows, WindowedHolds, ReportedHolds, ExplainedHolds, JudgedHolds, PTL

=============================================================================
