-------------------------- MODULE ComparisonProofs --------------------------
(***************************************************************************)
(* Proofs about Comparison, for any experiments run one after the other.   *)
(* What the comparison keeps of a run is a record of an experiment: either *)
(* nothing could be loaded, or the checks are those of its two subjects,   *)
(* oracles ran if and only if the checks are valid, and the reasons are    *)
(* those of the oracles or those of the checks.                            *)
(***************************************************************************)
EXTENDS Comparison, ExperimentProofs

-----------------------------------------------------------------------------
(* Records.                                                                  *)

IsRecord(r) ==
  \E x \in Experiments :
    /\ r.manifest = x.manifest
    /\ r.outcomes \in Seq(Possible)
    /\ r.verdict \in Verdict
    /\ \/ /\ r.checks = {} /\ r.outcomes = <<>>
          /\ \E f \in Failure : r.reasons = {CodeOfFailure[f]}
       \/ /\ r.checks = CheckExperiment(x.manifest, x.baseline, x.candidate)
          /\ Valid(r.checks) => r.outcomes # <<>> /\ r.reasons \subseteq OutcomeCodes
          /\ ~Valid(r.checks) => r.outcomes = <<>> /\ r.reasons = ReasonCodes(r.checks)

\* The fields of the record of the present experiment.
LEMMA RecordFields ==
  /\ RecordOf.manifest = M /\ RecordOf.checks = checks
  /\ RecordOf.outcomes = outcomes /\ RecordOf.reasons = reasons
  /\ RecordOf.verdict = verdict
BY DEF RecordOf

\* The record of a decided run.
LEMMA DecidedIsRecord == Reported /\ Explained /\ Decided => IsRecord(RecordOf)
<1> SUFFICES ASSUME Reported, Explained, Decided PROVE IsRecord(RecordOf)
  OBVIOUS
<1>1. experiment \in Experiments /\ checks = CheckExperiment(M, B, C) /\ WellFormed(M)
  BY ExperimentAssumption DEF Reported, Decided, M
<1>2. /\ outcomes \in Seq(Possible) /\ Len(outcomes) = Len(Declared(M, checks))
      /\ reasons = DecidedReasons(M.policy)
  BY DEF Explained, Decided
<1>3. ASSUME Valid(checks) PROVE outcomes # <<>> /\ reasons \subseteq OutcomeCodes
  <2>1. Len(outcomes) >= 1
    BY <1>1, <1>2, <1>3 DEF Declared, WellFormed
  <2>2. ReasonCodes(checks) = {}
    BY <1>3 DEF Valid, ReasonCodes
  <2>3. {outcomes[i].code : i \in {j \in DOMAIN outcomes :
            outcomes[j].status \in {"fail", "unsupported", "inconclusive"}}} \subseteq OutcomeCodes
    BY ExplainedAreCoded DEF Coded
  <2>4. "IVF-SAMPLE-INSUFFICIENT" \in OutcomeCodes
    BY DEF OutcomeCodes
  <2>5. QED
    BY <1>2, <1>3, <2>1, <2>2, <2>3, <2>4 DEF DecidedReasons
<1>4. ASSUME ~Valid(checks) PROVE outcomes = <<>> /\ reasons = ReasonCodes(checks)
  <2>1. outcomes = <<>>
    BY <1>2, <1>4 DEF Declared
  <2>2. Statuses = {}
    BY <2>1 DEF Statuses
  <2>3. QED
    BY <1>2, <1>4, <2>1, <2>2 DEF DecidedReasons
<1>5. verdict \in Verdict
  <2>1. \A valid, statuses : Decide(M.policy, valid, statuses) \in Verdict
    BY DEF Decide, Verdict
  <2>2. QED
    BY <2>1 DEF Reported, Decided
<1>6. QED
  BY <1>1, <1>2, <1>3, <1>4, <1>5, RecordFields DEF IsRecord, M, B, C

\* The record of a run that could not load its subjects.
LEMMA NotLoadedIsRecord ==
  ASSUME Reported, NEW r \in NotLoaded(M)
  PROVE  IsRecord(r)
<1>1. /\ r.manifest = M /\ r.checks = {} /\ r.outcomes = <<>>
      /\ \E f \in Failure : r.reasons = {CodeOfFailure[f]}
  BY DEF NotLoaded
<1>2. r.outcomes \in Seq(Possible)
  BY <1>1
<1>3. r.verdict \in Verdict
  BY DEF NotLoaded, Failure, VerdictOfFailure, Verdict
<1>4. QED
  BY <1>1, <1>2, <1>3 DEF IsRecord, Reported, M

-----------------------------------------------------------------------------
(* The invariant of a run, its record and the comparison.                    *)

Remembered ==
  /\ earlier # None => IsRecord(earlier)
  /\ report # None =>
       /\ earlier # None
       /\ \E r, doubts : IsRecord(r) /\ report = CompareBundles(earlier, r, doubts)

AllRemembered == Reported /\ Explained /\ Windowed /\ Judged /\ Remembered

LEMMA KeepStep == AllRemembered /\ Keep => AllRemembered'
<1> SUFFICES ASSUME AllRemembered, Keep PROVE AllRemembered'
  OBVIOUS
<1>1. Reported'
  BY ComparedAssumption DEF Keep, Reported
<1>2. Explained'
  BY DEF Keep, Explained
<1>3. Windowed'
  BY DEF Keep, Windowed
<1>4. IsRecord(earlier')
  BY DecidedIsRecord, NotLoadedIsRecord DEF Keep, AllRemembered
<1>5. report' = None
  BY DEF Keep, AllRemembered, Remembered
<1>6. Judged'
  BY DEF Keep, Judged
<1>7. QED
  BY <1>1, <1>2, <1>3, <1>4, <1>5, <1>6 DEF AllRemembered, Remembered, IsRecord

LEMMA CompareStep == AllRemembered /\ Compare => AllRemembered'
<1> SUFFICES ASSUME AllRemembered, Compare PROVE AllRemembered'
  OBVIOUS
<1>1. Reported' /\ Explained' /\ Windowed' /\ Judged'
  <2>1. [Next]_vars
    BY DEF Compare
  <2>2. QED
    BY <2>1, ReportedStep, ExplainedStep, WindowedStep, JudgedStep DEF AllRemembered
<1>2. earlier' = earlier /\ earlier # None /\ IsRecord(earlier)
  BY DEF Compare, AllRemembered, Remembered
<1>3. \E r, doubts : IsRecord(r) /\ report' = CompareBundles(earlier, r, doubts)
  BY DecidedIsRecord, NotLoadedIsRecord DEF Compare, AllRemembered
<1>4. QED
  BY <1>1, <1>2, <1>3 DEF AllRemembered, Remembered, IsRecord, CompareBundles

\* Everything an experiment keeps and everything kept of it stay true.
LEMMA AllRememberedHolds == ComparisonSpec => []AllRemembered
<1>1. ComparisonInit => AllRemembered
  BY ExplainedInit DEF ComparisonInit, Init, AllRemembered, Reported, Windowed, Judged,
                         Remembered
<1>2. ASSUME AllRemembered, [ComparisonNext]_comparisonVars PROVE AllRemembered'
  <2>1. CASE RunExperiment \/ UNCHANGED comparisonVars
    <3>1. [Next]_vars /\ UNCHANGED <<earlier, report>>
      BY <2>1 DEF RunExperiment, comparisonVars
    <3>2. Reported' /\ Explained' /\ Windowed' /\ Judged'
      BY <1>2, <3>1, ReportedStep, ExplainedStep, WindowedStep, JudgedStep DEF AllRemembered
    <3>3. Remembered'
      BY <1>2, <3>1 DEF AllRemembered, Remembered, IsRecord, CompareBundles
    <3>4. QED
      BY <3>2, <3>3 DEF AllRemembered
  <2>2. CASE Keep
    BY <1>2, <2>2, KeepStep
  <2>3. CASE Compare
    BY <1>2, <2>3, CompareStep
  <2>4. QED
    BY <1>2, <2>1, <2>2, <2>3 DEF ComparisonNext
<1>3. QED
  BY <1>1, <1>2, PTL DEF ComparisonSpec

\* What is kept and what is reported have their types.
LEMMA ComparedTypes == AllRemembered => ComparisonTypeOK
<1> SUFFICES ASSUME AllRemembered PROVE ComparisonTypeOK
  OBVIOUS
<1>1. TypeOK
  BY TypeFollows DEF AllRemembered
<1>2. earlier # None => earlier.verdict \in Verdict
  BY DEF AllRemembered, Remembered, IsRecord
<1>3. report # None => earlier # None /\ report.status \in {0, 1, 4}
  BY DEF AllRemembered, Remembered, CompareBundles
<1>4. QED
  BY <1>1, <1>2, <1>3 DEF ComparisonTypeOK

-----------------------------------------------------------------------------
(* What a record says.                                                       *)

\* No code of a failed load is one of a failed check.
LEMMA LoadCodes ==
  \A f \in Failure : CodeOfFailure[f] \notin CheckCodes
BY DEF Failure, CodeOfFailure, CheckCodes

\* An invalid report names only codes of checks, a valid one is followed by oracles, and
\* a failed load names a code that no check has.
LEMMA WhatRecordsSay ==
  ASSUME NEW r, IsRecord(r)
  PROVE  \/ Valid(r.checks) /\ r.outcomes # <<>>
         \/ /\ ~Valid(r.checks) /\ r.outcomes = <<>>
            /\ r.reasons # {} /\ r.reasons \subseteq CheckCodes
         \/ /\ Valid(r.checks) /\ r.outcomes = <<>>
            /\ r.reasons # {} /\ r.reasons \cap CheckCodes = {}
<1>1. PICK x \in Experiments :
        \/ /\ r.checks = {} /\ r.outcomes = <<>>
           /\ \E f \in Failure : r.reasons = {CodeOfFailure[f]}
        \/ /\ r.checks = CheckExperiment(x.manifest, x.baseline, x.candidate)
           /\ Valid(r.checks) => r.outcomes # <<>> /\ r.reasons \subseteq OutcomeCodes
           /\ ~Valid(r.checks) => r.outcomes = <<>> /\ r.reasons = ReasonCodes(r.checks)
  BY DEF IsRecord
<1>2. CASE /\ r.checks = {} /\ r.outcomes = <<>>
           /\ \E f \in Failure : r.reasons = {CodeOfFailure[f]}
  BY <1>2, LoadCodes DEF Valid, Failures
<1>3. CASE /\ r.checks = CheckExperiment(x.manifest, x.baseline, x.candidate)
           /\ Valid(r.checks) => r.outcomes # <<>> /\ r.reasons \subseteq OutcomeCodes
           /\ ~Valid(r.checks) => r.outcomes = <<>> /\ r.reasons = ReasonCodes(r.checks)
  <2>1. CASE Valid(r.checks)
    BY <1>3, <2>1
  <2>2. CASE ~Valid(r.checks)
    <3>1. ReasonCodes(r.checks) # {} /\ ReasonCodes(r.checks) \subseteq CheckCodes
      BY <1>3, <2>2, InvalidIsNamed
    <3>2. QED
      BY <1>3, <2>2, <3>1
  <2>3. QED
    BY <2>1, <2>2
<1>4. QED
  BY <1>1, <1>2, <1>3

\* Two sequences over one set are both empty when they have one domain and one is.
LEMMA EmptyTogether ==
  ASSUME NEW S, NEW p \in Seq(S), NEW q \in Seq(S), DOMAIN p = DOMAIN q
  PROVE  p = <<>> <=> q = <<>>
OBVIOUS

-----------------------------------------------------------------------------
(* What a report of no change means.                                         *)

\* Nothing changed that either record says of its oracles, its codes or its manifest.
LEMMA UnchangedParts ==
  ASSUME NEW a, NEW b, NEW doubts, ~Changed(a, b, doubts)
  PROVE  /\ a.verdict = b.verdict /\ a.reasons \subseteq b.reasons /\ b.reasons \subseteq a.reasons
         /\ a.manifest = b.manifest
         /\ DOMAIN a.outcomes = DOMAIN b.outcomes
         /\ \A i \in DOMAIN a.outcomes : a.outcomes[i].status = b.outcomes[i].status
<1>1. OracleChanges(a, b) = {} /\ NewCodes(a, b) = {} /\ NewCodes(b, a) = {}
  BY DEF Changed
<1>2. DOMAIN a.outcomes = DOMAIN b.outcomes
  BY <1>1 DEF OracleChanges
<1>3. \A i \in DOMAIN a.outcomes : a.outcomes[i].status = b.outcomes[i].status
  BY <1>1, <1>2 DEF OracleChanges
<1>4. QED
  BY <1>1, <1>2, <1>3 DEF Changed, NewCodes

LEMMA UnchangedFollows == AllRemembered => UnchangedMeansSame
<1> SUFFICES ASSUME AllRemembered, report # None, ~report.changed
             PROVE  LET a == earlier
                        b == report.later
                    IN  /\ a.verdict = b.verdict /\ a.reasons = b.reasons
                        /\ a.manifest = b.manifest
                        /\ Valid(a.checks) = Valid(b.checks)
                        /\ DOMAIN a.outcomes = DOMAIN b.outcomes
                        /\ \A i \in DOMAIN a.outcomes : a.outcomes[i].status = b.outcomes[i].status
  BY DEF UnchangedMeansSame
<1>1. PICK r, doubts : IsRecord(r) /\ report = CompareBundles(earlier, r, doubts)
  BY DEF AllRemembered, Remembered
<1>2. report.later = r /\ ~Changed(earlier, r, doubts) /\ IsRecord(earlier)
  BY <1>1 DEF AllRemembered, Remembered, CompareBundles
<1>3. /\ earlier.verdict = r.verdict /\ earlier.reasons = r.reasons
      /\ earlier.manifest = r.manifest
      /\ DOMAIN earlier.outcomes = DOMAIN r.outcomes
      /\ \A i \in DOMAIN earlier.outcomes : earlier.outcomes[i].status = r.outcomes[i].status
  <2>1. earlier.reasons \subseteq r.reasons /\ r.reasons \subseteq earlier.reasons
    BY <1>2, UnchangedParts
  <2>2. earlier.reasons = r.reasons
    BY <2>1
  <2>3. QED
    BY <1>2, <2>2, UnchangedParts
<1>4. earlier.outcomes = <<>> <=> r.outcomes = <<>>
  <2>1. earlier.outcomes \in Seq(Possible) /\ r.outcomes \in Seq(Possible)
    BY <1>1, <1>2 DEF IsRecord
  <2>2. QED
    BY <2>1, <1>3, EmptyTogether
<1>5. Valid(earlier.checks) <=> Valid(r.checks)
  BY <1>1, <1>2, <1>3, <1>4, WhatRecordsSay
<1>6. Valid(earlier.checks) = Valid(r.checks)
  BY <1>5 DEF Valid
<1>7. QED
  BY <1>2, <1>3, <1>6

-----------------------------------------------------------------------------
(* The direction of a comparison.                                            *)

LEMMA SameChanges ==
  ASSUME NEW a, NEW b
  PROVE  Changed(a, b, {}) <=> Changed(b, a, {})
<1>1. ValidatorChanges(a, b) = ValidatorChanges(b, a)
  BY DEF ValidatorChanges
<1>2. OracleChanges(a, b) = {} <=> OracleChanges(b, a) = {}
  BY DEF OracleChanges
<1>3. QED
  BY <1>1, <1>2 DEF Changed

LEMMA MirroredFollows == AllRemembered => ComparisonIsMirrored
<1> SUFFICES ASSUME AllRemembered, report # None, report.comparable
             PROVE  LET back == CompareBundles(report.later, earlier, {})
                    IN  /\ back.newCodes = report.resolved /\ back.resolved = report.newCodes
                        /\ back.status = report.status
                        /\ back.newlyFailing \cap report.newlyFailing = {}
  BY DEF ComparisonIsMirrored
<1>1. PICK r, doubts : IsRecord(r) /\ report = CompareBundles(earlier, r, doubts)
  BY DEF AllRemembered, Remembered
<1>2. doubts = {} /\ report.later = r
  BY <1>1 DEF CompareBundles
<1>3. Changed(earlier, r, {}) <=> Changed(r, earlier, {})
  BY SameChanges
<1>4. NewlyFailing(earlier, r) \cap NewlyFailing(r, earlier) = {}
  BY DEF NewlyFailing
<1>5. QED
  BY <1>1, <1>2, <1>3, <1>4 DEF CompareBundles

-----------------------------------------------------------------------------
(* Fresh failures.                                                           *)

StructureIds == {"V-02", "V-04", "V-07", "V-08"}

\* A check is filed under an id that begins with its own.
LEMMA FiledUnderItsId ==
  ASSUME NEW k
  PROVE  CheckId(k)[1] = k.id /\ (k.id \in StructureIds => CheckId(k) = <<k.id, "">>)
<1>1. k.id \in StructureIds => CheckId(k) = <<k.id, "">>
  BY DEF CheckId, StructureIds
<1>2. \E x : CheckId(k) = <<k.id, x>>
  BY DEF CheckId
<1>3. CheckId(k)[1] = k.id
  BY <1>2
<1>4. QED
  BY <1>1, <1>3

\* Under the id of a check of the structure no other check is filed.
LEMMA OfStructure ==
  ASSUME NEW m, NEW b, NEW c, NEW k \in CheckExperiment(m, b, c), k.id \in StructureIds
  PROVE  k \in StructureChecks(m, b, c)
<1>1. CASE k \in PartitionChecks(m)
  BY <1>1 DEF PartitionChecks, ValidityCheck, StructureIds
<1>2. CASE k \in MetadataChecks(m, b, c)
  BY <1>2 DEF MetadataChecks, Comparison, ValidityCheck, StructureIds
<1>3. CASE k \in SolverChecks(m, b, c)
  BY <1>3 DEF SolverChecks, Comparison, ValidityCheck, StructureIds
<1>4. CASE k \in ProtocolChecks(m, b, c)
  BY <1>4 DEF ProtocolChecks, Comparison, ValidityCheck, StructureIds
<1>5. CASE k \in PropertyChecks(m, b, c)
  BY <1>5 DEF PropertyChecks, Comparison, ValidityCheck, StructureIds
<1>6. CASE k \in ToleranceChecks(m, b, c)
  BY <1>6 DEF ToleranceChecks, ValidityCheck, StructureIds
<1>7. CASE k = SelfComparison(m, b, c)
  BY <1>7 DEF SelfComparison, ValidityCheck, StructureIds
<1>8. QED
  BY <1>1, <1>2, <1>3, <1>4, <1>5, <1>6, <1>7 DEF CheckExperiment

\* The structure of any two pairs of subjects is checked under the same ids, once each.
LEMMA StructureIsFixed ==
  ASSUME NEW m, NEW b, NEW c, NEW x, NEW y, NEW k \in StructureChecks(m, b, c)
  PROVE  /\ \A l \in StructureChecks(m, b, c) : l.id = k.id => l = k
         /\ \E l \in StructureChecks(m, x, y) : l.id = k.id
<1> DEFINE V02(p, q) == Comparison("V-02", <<"control", "action_sequence">>, p.actions, q.actions,
                                   "IVF-CONTROL-ACTION-SEQUENCE-MISMATCH")
           V04(p, q) == Comparison("V-04", <<"control", "observation_definition">>,
                                   ObservationDefinition(p), ObservationDefinition(q),
                                   "IVF-CONTROL-OBSERVATION-DEFINITION-MISMATCH")
           V07(p, q) == Comparison("V-07", <<"control", "num_envs">>, NumEnvs(p), NumEnvs(q),
                                   "IVF-CONTROL-ENV-COUNT-MISMATCH")
           V08(p, q) == Comparison("V-08", <<"control", "horizon">>, Horizon(p), Horizon(q),
                                   "IVF-CONTROL-HORIZON-MISMATCH")
           seven     == m.same \cap {"num_envs", "action_sequence", "seeds"} # {}
<1>1. ASSUME NEW p, NEW q
      PROVE  /\ V02(p, q).id = "V-02" /\ V04(p, q).id = "V-04"
             /\ V07(p, q).id = "V-07" /\ V08(p, q).id = "V-08"
  BY DEF Comparison, ValidityCheck
<1>2. ASSUME NEW p, NEW q, NEW l
      PROVE  l \in StructureChecks(m, p, q) <=>
               \/ "action_sequence" \in m.same /\ l = V02(p, q)
               \/ "observation_definition" \in m.same /\ l = V04(p, q)
               \/ seven /\ l = V07(p, q)
               \/ "horizon" \in m.same /\ l = V08(p, q)
  BY DEF StructureChecks
<1> HIDE DEF V02, V04, V07, V08, seven
<1>3. \A l \in StructureChecks(m, b, c) : l.id = k.id => l = k
  BY <1>1, <1>2
<1>4. \E l \in StructureChecks(m, x, y) : l.id = k.id
  <2>1. CASE "action_sequence" \in m.same /\ k = V02(b, c)
    BY <1>1, <1>2, <2>1
  <2>2. CASE "observation_definition" \in m.same /\ k = V04(b, c)
    BY <1>1, <1>2, <2>2
  <2>3. CASE seven /\ k = V07(b, c)
    BY <1>1, <1>2, <2>3
  <2>4. CASE "horizon" \in m.same /\ k = V08(b, c)
    BY <1>1, <1>2, <2>4
  <2>5. QED
    BY <1>2, <2>1, <2>2, <2>3, <2>4
<1>5. QED
  BY <1>3, <1>4

\* The codes that a check shares with an oracle are codes of the structure.
LEMMA SharedCodes ==
  ASSUME NEW m, NEW b, NEW c, NEW k \in CheckExperiment(m, b, c), k.status = "fail",
         k.code \in OutcomeCodes
  PROVE  k.id \in StructureIds
<1>1. CASE k \in PartitionChecks(m)
  BY <1>1 DEF PartitionChecks, ValidityCheck
<1>2. CASE k \in MetadataChecks(m, b, c)
  <2>1. \E about, x, y : k = Comparison("V-METADATA", about, x, y, "IVF-CONTROL-METADATA-MISMATCH")
    BY <1>2 DEF MetadataChecks
  <2>2. QED
    BY <2>1, ComparisonCode DEF OutcomeCodes
<1>3. CASE k \in StructureChecks(m, b, c)
  BY <1>3 DEF StructureChecks, Comparison, ValidityCheck, StructureIds
<1>4. CASE k \in SolverChecks(m, b, c)
  <2>1. CASE "solver_specific_parameters" \in m.same
    BY <1>4, <2>1, ComparisonCode DEF SolverChecks, OutcomeCodes
  <2>2. CASE "solver_specific_parameters" \notin m.same
    BY <1>4, <2>2 DEF SolverChecks, ValidityCheck
  <2>3. QED
    BY <2>1, <2>2
<1>5. CASE k \in ProtocolChecks(m, b, c)
  <2> DEFINE V11(r, status) == ValidityCheck("V-11", <<"protocol", r>>, status,
                                             CodeIf(status, "IVF-PROTOCOL-PARTIAL-RUN"))
             V12 == ValidityCheck("V-12", <<"protocol", "warmup">>,
                      IF m.workload.warmup = None THEN "unverifiable" ELSE "pass", None)
             V13 == Comparison("V-13", <<"protocol", "physics_dt">>, b.meta["physics_dt"],
                      c.meta["physics_dt"], "IVF-CONTROL-CONTROL-FREQUENCY-MISMATCH")
  <2>1. (\E r, status : k = V11(r, status)) \/ k = V12 \/ k = V13
    BY <1>5 DEF ProtocolChecks
  <2>2. ASSUME NEW r, NEW status, k = V11(r, status) PROVE FALSE
    BY <2>2 DEF ValidityCheck, CodeIf, OutcomeCodes
  <2>3. k # V12
    BY DEF ValidityCheck
  <2>4. k # V13
    BY ComparisonCode DEF OutcomeCodes
  <2>5. QED
    BY <2>1, <2>2, <2>3, <2>4
<1>6. CASE k \in PropertyChecks(m, b, c)
  <2>1. PICK n \in Shared(m, b, c), p \in Properties :
          k = Comparison("V-SIGNAL", <<"signal", n, p>>, Normalized(p, b.contract[n][p]),
                         Normalized(p, c.contract[n][p]), "IVF-CONTROL-SIGNAL-MISMATCH")
    BY <1>6 DEF PropertyChecks
  <2>2. k.code = "IVF-CONTROL-SIGNAL-MISMATCH"
    BY <2>1, ComparisonCode
  <2>3. QED
    BY <2>2 DEF OutcomeCodes
<1>7. CASE k \in ToleranceChecks(m, b, c)
  <2>1. \E i, status : k = ValidityCheck("V-TOLERANCE-UNIT", <<"oracle", i>>, status,
                                         CodeIf(status, "IVF-CONTROL-TOLERANCE-UNIT-MISMATCH"))
    BY <1>7 DEF ToleranceChecks
  <2>2. QED
    BY <2>1 DEF ValidityCheck, CodeIf, OutcomeCodes
<1>8. CASE k = SelfComparison(m, b, c)
  BY <1>8 DEF SelfComparison, ValidityCheck, OutcomeCodes
<1>9. QED
  BY <1>1, <1>2, <1>3, <1>4, <1>5, <1>6, <1>7, <1>8 DEF CheckExperiment

\* Under the id of a check of the structure its own status is found.
LEMMA StatusOfStructure ==
  ASSUME NEW r, NEW m, NEW b, NEW c, r.checks = CheckExperiment(m, b, c),
         NEW k \in r.checks, k.id \in StructureIds
  PROVE  StatusUnder(r, CheckId(k)) = k.status
<1> DEFINE filed == {l \in r.checks : CheckId(l) = CheckId(k)}
           Latest(l) == \A j \in filed : ~Later(r.manifest, j, l)
<1>1. filed = {k}
  <2>1. ASSUME NEW l \in filed PROVE l = k
    <3>1. l.id = k.id
      BY FiledUnderItsId
    <3>2. l \in StructureChecks(m, b, c) /\ k \in StructureChecks(m, b, c)
      BY <3>1, OfStructure
    <3>3. QED
      BY <3>1, <3>2, StructureIsFixed
  <2>2. QED
    BY <2>1
<1>2. ~Later(r.manifest, k, k)
  BY DEF Later, StructureIds
<1>3. (CHOOSE l \in filed : Latest(l)) = k
  BY <1>1, <1>2
<1>4. QED
  BY <1>1, <1>3 DEF StatusUnder

LEMMA FreshFollows == AllRemembered => FreshFailureIsNamed
<1> SUFFICES ASSUME AllRemembered, report # None, earlier.manifest = report.later.manifest,
                    Valid(earlier.checks), NEW k \in Failures(report.later.checks)
             PROVE  k.code \in report.newCodes \/ CheckId(k) \in report.newlyFailing
  BY DEF FreshFailureIsNamed
<1>1. PICK r, doubts : IsRecord(r) /\ report = CompareBundles(earlier, r, doubts)
  BY DEF AllRemembered, Remembered
<1>2. /\ report.later = r /\ IsRecord(earlier)
      /\ report.newCodes = r.reasons \ earlier.reasons
      /\ report.newlyFailing = NewlyFailing(earlier, r)
  BY <1>1 DEF AllRemembered, Remembered, CompareBundles, NewCodes
<1>3. k \in r.checks /\ k.status = "fail" /\ ~Valid(r.checks)
  BY <1>2 DEF Failures, Valid
<1>4. PICK y \in Experiments :
        /\ r.manifest = y.manifest
        /\ r.checks = CheckExperiment(y.manifest, y.baseline, y.candidate)
        /\ r.reasons = ReasonCodes(r.checks)
  BY <1>1, <1>3 DEF IsRecord
<1>5. k.code \in CheckCodes /\ k.code \in r.reasons
  <2>1. k.code \in CheckCodes
    BY <1>3, <1>4, FailedHaveCodes
  <2>2. QED
    BY <2>1, <1>3, <1>4, CodeAssumption DEF ReasonCodes, Failures
<1>6. SUFFICES ASSUME k.code \in earlier.reasons PROVE CheckId(k) \in NewlyFailing(earlier, r)
  BY <1>2, <1>5
<1>7. PICK x \in Experiments :
        /\ earlier.manifest = x.manifest
        /\ earlier.checks = CheckExperiment(x.manifest, x.baseline, x.candidate)
        /\ earlier.reasons \subseteq OutcomeCodes
  BY <1>2, <1>5, <1>6, LoadCodes DEF IsRecord
<1>8. x.manifest = y.manifest
  BY <1>2, <1>4, <1>7
<1>9. k.id \in StructureIds
  BY <1>3, <1>4, <1>6, <1>7, SharedCodes
<1>10. k \in StructureChecks(y.manifest, y.baseline, y.candidate)
  BY <1>3, <1>4, <1>9, OfStructure
<1>11. PICK l \in StructureChecks(y.manifest, x.baseline, x.candidate) : l.id = k.id
  BY <1>10, StructureIsFixed
<1>12. l \in earlier.checks
  BY <1>7, <1>8 DEF CheckExperiment
<1>13. CheckId(l) = CheckId(k)
  BY <1>9, <1>11, FiledUnderItsId
<1>14. StatusUnder(r, CheckId(k)) = "fail"
  BY <1>3, <1>4, <1>9, StatusOfStructure
<1>15. StatusUnder(earlier, CheckId(k)) = l.status
  BY <1>7, <1>9, <1>11, <1>12, <1>13, StatusOfStructure
<1>16. l.status # "fail"
  BY <1>12 DEF Valid, Failures
<1>17. QED
  BY <1>3, <1>12, <1>13, <1>14, <1>15, <1>16 DEF NewlyFailing, Ids

-----------------------------------------------------------------------------
(* Theorems.                                                                 *)

\* For any two runs: the record kept of the first has a verdict, and a comparison is of
\* two records and answers 0, 1 or 4 (compare).
THEOREM ComparisonTypes == ComparisonSpec => []ComparisonTypeOK
BY ComparedTypes, AllRememberedHolds, PTL

\* For any experiments, run one after the other: each keeps every property that an
\* experiment on its own has (validate).
THEOREM EachIsAnExperiment ==
  ComparisonSpec => [](ScienceIsComparable /\ NothingIsAssumed /\ WindowIsNotEmpty
                         /\ RolesAreExchangeable /\ ReasonsExplain)
<1>1. AllRemembered => /\ ScienceIsComparable /\ NothingIsAssumed /\ WindowIsNotEmpty
                       /\ RolesAreExchangeable /\ ReasonsExplain
  BY ComparableFollows, UnassumedFollows, WindowFollows, ExchangeableFollows, ExplanationFollows
     DEF AllRemembered
<1>2. QED
  BY <1>1, AllRememberedHolds, PTL

\* For any two runs: a comparison that reports no change is of two runs with one
\* verdict, one manifest, the same reasons and outcomes, and both valid or neither
\* (compare_bundles).
THEOREM Unchanged == ComparisonSpec => []UnchangedMeansSame
BY UnchangedFollows, AllRememberedHolds, PTL

\* For any two runs: comparing them the other way round tells the same, with the new
\* and the resolved exchanged (compare_bundles).
THEOREM Mirrored == ComparisonSpec => []ComparisonIsMirrored
BY MirroredFollows, AllRememberedHolds, PTL

\* For any two runs of a manifest that was valid: a check that fails in the later one is
\* told by its code or by its id, although both are shared (compare_bundles).
THEOREM FreshNamed == ComparisonSpec => []FreshFailureIsNamed
BY FreshFollows, AllRememberedHolds, PTL

=============================================================================
