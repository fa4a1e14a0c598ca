------------------------------ MODULE Oracles -------------------------------
(***************************************************************************)
(* The acceptance criteria a manifest may declare (oracles/*.py): each     *)
(* compares two subjects and reports a status, a reason code and, for a    *)
(* failed comparison, where it failed.  A branch that raises in the code   *)
(* is the outcome Raised, which the runner makes of any exception.         *)
(*                                                                         *)
(* A subject is a record of                                                *)
(*   signals  : its arrays, by name                                        *)
(*   meta     : the metadata the controls and the classifier compare       *)
(*   actions  : the digest of its action stream, or None                   *)
(*   features : the features it declares                                   *)
(* A spec is one entry of manifest.oracles; a field its type does not use  *)
(* holds None.                                                             *)
(***************************************************************************)
EXTENDS Divergence

CONSTANTS
  None,         \* no value
  SortedNames,  \* the signal names, in alphabetical order
  BootstrapMinPairs  \* the floor on paired samples of the statistical oracle

ASSUME NoneAssumption == None \notin Int
ASSUME BootstrapAssumption == BootstrapMinPairs \in Nat \ {0}

Outcome(status, code, record) == [status |-> status, code |-> code, record |-> record]

Pass         == Outcome("pass", "none", NoRecord)
Skipped      == Outcome("skipped", "none", NoRecord)
Inconclusive(code) == Outcome("inconclusive", code, NoRecord)
Fail(code)   == Outcome("fail", code, NoRecord)
FailAt(record) == Outcome("fail", "IVF-ORACLE-NON_EQUIVALENT", record)
Insufficient == Inconclusive("IVF-SAMPLE-INSUFFICIENT")
Incomparable == Inconclusive("IVF-CONTROL-OBSERVATION-DEFINITION-MISMATCH")
Raised       == Inconclusive("IVF-RUNTIME-EXECUTION-ERROR")

AnySignal(s) == s.signals[CHOOSE n \in DOMAIN s.signals : TRUE]
NumEnvs(s)   == AnySignal(s).envs
Horizon(s)   == Steps(AnySignal(s))

\* _config_differences: what could explain a divergence.  A key that only one of the
\* subjects records counts as different.
ConfigDifferences(b, c) ==
  {k \in {"asset_identity", "physics_dt", "control_frequency_hz", "solver_settings",
          "task_variant", "seed"} : b.meta[k] # c.meta[k]}
    \cup (IF NumEnvs(b) # NumEnvs(c) THEN {"num_envs"} ELSE {})
    \cup (IF Horizon(b) # Horizon(c) THEN {"horizon"} ELSE {})

-----------------------------------------------------------------------------
(* Numerical oracles.  x and y are the trimmed baseline and candidate.       *)

\* What a trajectory beyond its tolerance is reported as.
Exceeded(spec, record) ==
  Outcome("fail", IF spec.type = "ulp_equivalence" THEN "IVF-ORACLE-ULP-EXCEEDED"
                  ELSE "IVF-ORACLE-NON_EQUIVALENT", record)

\* trajectory_equivalence, and ulp_equivalence on floats in their order: the worst
\* step's aggregate over environments must be finite and within the tolerance.  (Two
\* equal infinities are 0 ULP apart; NaN stands for the element that equals none.)
Trajectory(spec, x, y, differences) ==
  LET curve  == ErrorCurve(x, y)
      within == \A t \in DOMAIN curve : ~Beyond(Aggregate(curve[t], spec.how), spec.tol)
  IN  IF Shape(x) # Shape(y)                 THEN Incomparable
      ELSE IF Steps(x) * x.envs < spec.floor THEN Insufficient
      ELSE IF within                         THEN Pass
      ELSE Exceeded(spec, Localize(x, y, curve, spec.tol, differences))

\* exact_equivalence: np.array_equal, for which NaN differs from NaN.
Exact(x, y, differences) ==
  IF Shape(x) # Shape(y) THEN Fail("IVF-ORACLE-NON_EQUIVALENT")
  ELSE IF x = y /\ NaN \notin Values(x) THEN Pass
  ELSE FailAt(Localize(x, y, ErrorCurve(x, y), 0, differences))

\* The step of an array that broadcasting pairs with step t.
Broadcast(a, t) == IF Steps(a) = 1 THEN 1 ELSE t

\* A tolerance that narrows the band instead of widening it.
Breach_Narrowed(row, v, tol) ==
  IF NaN \in Range(row) \cup {v} THEN NaN
  ELSE Max({Min(Range(row)) + tol - v, v - (Max(Range(row)) - tol)})

\* How far a candidate's value is outside the band of the baseline's step.
Breach(row, v, tol) ==
  IF NaN \in Range(row) \cup {v} THEN NaN
  ELSE Max({Min(Range(row)) - tol - v, v - (Max(Range(row)) + tol)})

\* trajectory_envelope.  Arrays of different lengths are broadcast or raise.  nanmax
\* skips the breaches that are NaN unless all are.  The record is of the candidate's
\* environments but indexes both arrays, and so may raise.
Envelope(spec, x, y, differences) ==
  LET length  == Max({Steps(x), Steps(y)})
      curve   == [t \in 1..length |-> [e \in Envs(y) |->
                    Breach(x.rows[Broadcast(x, t)], y.rows[Broadcast(y, t)][e], spec.tol)]]
      finite  == (UNION {Range(curve[t]) : t \in 1..length}) \ {NaN}
      worst   == ArgMax(curve[ViolationStep(curve, 0)])
  IN  IF x.envs < 2                                             THEN Skipped
      ELSE IF \/ 0 \in {Steps(x), Steps(y)}
              \/ Steps(x) # Steps(y) /\ 1 \notin {Steps(x), Steps(y)} THEN Raised
      ELSE IF finite # {} /\ \A v \in finite : v <= 0           THEN Pass
      ELSE IF \/ worst > x.envs
              \/ ViolationStep(curve, 0) > Min({Steps(x), Steps(y)}) THEN Raised
      ELSE FailAt(Localize(x, y, curve, 0, differences))

-----------------------------------------------------------------------------
(* Event and decision oracles.                                               *)

Hit(v, spec) ==
  /\ v # NaN
  /\ \/ spec.condition = "above" /\ v > spec.threshold
     \/ spec.condition = "below" /\ v < spec.threshold

\* _first_crossing: the first step at which the event fires, 0 when it never does.
FirstCrossing(a, e, spec) == EarliestOf({t \in DOMAIN a.rows : Hit(a.rows[t][e], spec)})

\* Environments beyond the smaller count are dropped from the comparison.
Paired(x, y) == 1..Min({x.envs, y.envs})

CountMismatches(spec, x, y) ==
  {e \in Paired(x, y) : (FirstCrossing(x, e, spec) = 0) # (FirstCrossing(y, e, spec) = 0)}

TimingDelta(spec, x, y, e) ==
  IF 0 \in {FirstCrossing(x, e, spec), FirstCrossing(y, e, spec)} THEN 0
  ELSE Distance(FirstCrossing(x, e, spec), FirstCrossing(y, e, spec))

EventRecord(spec, x, y) ==
  LET lone  == CountMismatches(spec, x, y)
      first(e) == {FirstCrossing(x, e, spec), FirstCrossing(y, e, spec)}
      worst == ArgMax([e \in Paired(x, y) |-> TimingDelta(spec, x, y, e)])
  IN  [NoRecord EXCEPT
         !.step  = IF lone # {} THEN Max(first(Min(lone))) ELSE Min(first(worst)),
         !.envs  = IF lone # {} THEN lone ELSE {worst},
         !.class = "task_level_regression"]

\* An event oracle that compares times where the event fires in both and no counts.
Event_TimingOnly(spec, x, y) ==
  IF spec.unit # "steps" \/ 0 \in {Steps(x), Steps(y)} THEN Raised
  ELSE IF Cardinality(Paired(x, y)) < spec.floor       THEN Insufficient
  ELSE IF \E e \in Paired(x, y) : TimingDelta(spec, x, y, e) > spec.tol
    THEN Outcome("fail", "IVF-ORACLE-EVENT-TIMING-DELTA", EventRecord(spec, x, y))
  ELSE Pass

\* event_equivalence
Event(spec, x, y) ==
  IF spec.unit # "steps" \/ 0 \in {Steps(x), Steps(y)} THEN Raised
  ELSE IF Cardinality(Paired(x, y)) < spec.floor       THEN Insufficient
  ELSE IF CountMismatches(spec, x, y) # {}
    THEN Outcome("fail", "IVF-ORACLE-EVENT-COUNT-MISMATCH", EventRecord(spec, x, y))
  ELSE IF \E e \in Paired(x, y) : TimingDelta(spec, x, y, e) > spec.tol
    THEN Outcome("fail", "IVF-ORACLE-EVENT-TIMING-DELTA", EventRecord(spec, x, y))
  ELSE Pass

\* decision_equivalence: whether the event fired at all, per environment.  Both
\* polarities agree on the same environments.  The tolerance is in percent.
Decision(spec, x, y) ==
  LET agree == Paired(x, y) \ CountMismatches(spec, x, y)
      n     == Cardinality(Paired(x, y))
  IN  IF spec.unit # "fraction" \/ 0 \in {Steps(x), Steps(y)}  THEN Raised
      ELSE IF spec.polarity \notin {"survived", "triggered"}   THEN Raised
      ELSE IF n < spec.floor                                   THEN Insufficient
      ELSE IF 100 * Cardinality(agree) >= spec.tol * n         THEN Pass
      ELSE Outcome("fail", "IVF-ORACLE-DECISION-DISAGREEMENT",
             [NoRecord EXCEPT !.envs  = Paired(x, y) \ agree,
                              !.class = "task_level_regression"])

-----------------------------------------------------------------------------
(* Metamorphic and capability oracles.                                       *)

\* The distance of candidate environment j from baseline environment i.
Cost(x, y, j, i) ==
  LET errors == {Distance(x.rows[t][i], y.rows[t][j]) : t \in DOMAIN x.rows}
  IN  IF NaN \in errors THEN NaN ELSE Max(errors)

\* np.argmin over the baseline's environments: the first of the smallest.
Closest(x, y, j) ==
  Min({i \in Envs(x) : \A k \in Envs(x) : ~Below(Cost(x, y, j, k), Cost(x, y, j, i))})

\* An assignment that may use a baseline environment twice.
Assigned_Any(x, y) == TRUE

Assigned(x, y) == Cardinality({Closest(x, y, j) : j \in Envs(y)}) = x.envs

\* _env_permutation_invariance
Permutation(spec, x, y) ==
  IF Shape(x) # Shape(y)  THEN Incomparable
  ELSE IF Steps(x) = 0    THEN Raised
  ELSE IF Assigned(x, y)
          /\ \A j \in Envs(y) : ~Beyond(Cost(x, y, j, Closest(x, y, j)), spec.tol)
    THEN Pass
  ELSE Fail("IVF-ORACLE-METAMORPHIC-VIOLATION")

\* _action_replay_consumption
ActionReplay(b, c) ==
  IF None \in {b.actions, c.actions} THEN Skipped
  ELSE IF b.actions = c.actions      THEN Pass
  ELSE Fail("IVF-CONTROL-ACTION-SEQUENCE-MISMATCH")

\* The name of every signal and its shape after the steps.
ObservationDefinition(s) == [n \in DOMAIN s.signals |-> s.signals[n].envs]

\* _observation_definition_stability
ObservationStability(b, c) ==
  IF ObservationDefinition(b) = ObservationDefinition(c) THEN Pass
  ELSE Fail("IVF-CONTROL-OBSERVATION-DEFINITION-MISMATCH")

\* required_features: a feature that either subject declares counts as available.
RequiredFeatures(spec, b, c) ==
  IF spec.features = {} THEN Raised
  ELSE IF spec.features \subseteq b.features \cup c.features THEN Pass
  ELSE Outcome("unsupported", "IVF-BACKEND-FEATURE-UNSUPPORTED", NoRecord)

\* A test that sees a non-finite value only where bounds are declared.
Bad_Bounds(v, spec) ==
  spec.check = "bounded" /\ (v = NaN \/ v < spec.lower \/ v > spec.upper)

Bad(v, spec) ==
  \/ v = NaN
  \/ spec.check = "bounded" /\ (v < spec.lower \/ v > spec.upper)

BadCells(a, spec) == {q \in (DOMAIN a.rows) \X Envs(a) : Bad(a.rows[q[1]][q[2]], spec)}

\* np.argwhere lists cells by step, then by environment.
FirstCell(cells) ==
  CHOOSE p \in cells : \A q \in cells : p[1] < q[1] \/ (p[1] = q[1] /\ p[2] <= q[2])

\* invariant: each subject on its own, the baseline first.  The record of the first
\* violation reads that step and environment of both subjects, and so may raise.
Invariant(spec, b, c, w) ==
  LET shared == DOMAIN b.signals \cap DOMAIN c.signals
      names  == IF spec.signals = <<>> THEN SortedNames ELSE spec.signals
      judged == {i \in DOMAIN names : names[i] \in shared}
      runs   == <<b, c>>
      cells(r, i) == BadCells(Trim(runs[r].signals[names[i]], w), spec)
      bad    == {q \in {1, 2} \X judged : cells(q[1], q[2]) # {}}
      first  == FirstCell(bad)
      cell   == FirstCell(cells(first[1], first[2]))
  IN  IF spec.signals # <<>> /\ judged # DOMAIN names THEN Raised
      ELSE IF bad = {} THEN Pass
      ELSE IF \E r \in {1, 2} :
                LET a == Trim(runs[r].signals[names[first[2]]], w)
                IN  cell[1] > Steps(a) \/ cell[2] > a.envs
        THEN Raised
      ELSE Outcome("fail", "IVF-ORACLE-INVARIANT-VIOLATION",
             [NoRecord EXCEPT !.step = cell[1], !.envs = {cell[2]},
                !.class = IF spec.check = "finite_state" THEN "numerical_drift" ELSE "unknown"])

-----------------------------------------------------------------------------
(* The statistical oracle.                                                   *)

\* _summarize: one number per environment, of the magnitudes.
Summary(a, e, how) ==
  LET column == {a.rows[t][e] : t \in DOMAIN a.rows}
  IN  IF how = "final"
        THEN IF a.rows[Steps(a)][e] = NaN THEN NaN ELSE Magnitude(a.rows[Steps(a)][e])
        ELSE IF NaN \in column THEN NaN ELSE Max({Magnitude(v) : v \in column})

PairedDifference(spec, x, y) ==
  [e \in Envs(x) |->
     LET p == Summary(x, e, spec.summary)
         q == Summary(y, e, spec.summary)
     IN  IF NaN \in {p, q} THEN NaN ELSE q - p]

\* _bootstrap_ci: the seed decides which; an interval of resampled means stays among
\* the differences it resamples.
Intervals(spec, x, y) ==
  LET diffs == Range(PairedDifference(spec, x, y))
      range == Min(diffs)..Max(diffs)
  IN  IF NaN \in diffs THEN {<<0, 0>>} ELSE {i \in range \X range : i[1] <= i[2]}

Inside(spec, i)  == i[1] >= -spec.tol /\ i[2] <= spec.tol
Outside(spec, i) == i[1] > spec.tol \/ i[2] < -spec.tol

\* statistical_equivalence, for the interval i.
Statistical(spec, x, y, i) ==
  LET diffs == PairedDifference(spec, x, y)
      total == FoldFunction(LAMBDA p, q : p + q, 0, diffs)
  IN  IF spec.kind # "statistical" THEN Raised
      ELSE IF x.envs # y.envs THEN Inconclusive("IVF-CONTROL-ENV-COUNT-MISMATCH")
      ELSE IF 0 \in {Steps(x), Steps(y)} THEN Raised
      ELSE IF x.envs < Max({spec.floor, BootstrapMinPairs}) THEN Insufficient
      ELSE IF NaN \in Range(diffs) THEN Inconclusive("IVF-ORACLE-INVARIANT-VIOLATION")
      ELSE IF Inside(spec, i)      THEN Pass
      ELSE IF Outside(spec, i) /\ Magnitude(total) < spec.mme * x.envs
        THEN Outcome("pass", "IVF-EFFECT-BELOW-MEANINGFUL", NoRecord)
      ELSE IF Outside(spec, i)     THEN Fail("IVF-ORACLE-NON_EQUIVALENT")
      ELSE Inconclusive("IVF-EQUIVALENCE-UNDECIDED")

-----------------------------------------------------------------------------
(* _run_oracles, for one spec.                                               *)

Gated    == {"trajectory_equivalence", "ulp_equivalence", "trajectory_envelope",
             "event_equivalence", "decision_equivalence", "statistical_equivalence",
             "env_permutation_invariance"}
Pairwise == Gated \cup {"exact_equivalence"}
Whole    == {"action_replay_consumption", "observation_definition_stability",
             "required_features", "invariant"}

\* The outcomes of spec on the subjects b and c with w steps of warm-up: one, unless
\* the spec draws a bootstrap interval.
OutcomesOf(spec, b, c, w) ==
  LET x == Trim(b.signals[spec.signal], w)
      y == Trim(c.signals[spec.signal], w)
      d == ConfigDifferences(b, c)
  IN  IF spec.type \notin Pairwise \cup Whole
        THEN {Outcome("unsupported", "IVF-ORACLE-UNKNOWN", NoRecord)}
      ELSE IF \/ spec.type \in Pairwise
                 /\ spec.signal \notin DOMAIN b.signals \cap DOMAIN c.signals
              \/ spec.type \in Gated /\ spec.tol = None
        THEN {Raised}
      ELSE CASE spec.type \in {"trajectory_equivalence", "ulp_equivalence"} ->
                  {Trajectory(spec, x, y, d)}
             [] spec.type = "exact_equivalence"          -> {Exact(x, y, d)}
             [] spec.type = "trajectory_envelope"        -> {Envelope(spec, x, y, d)}
             [] spec.type = "event_equivalence"          -> {Event(spec, x, y)}
             [] spec.type = "decision_equivalence"       -> {Decision(spec, x, y)}
             [] spec.type = "env_permutation_invariance" -> {Permutation(spec, x, y)}
             [] spec.type = "action_replay_consumption"  -> {ActionReplay(b, c)}
             [] spec.type = "observation_definition_stability" -> {ObservationStability(b, c)}
             [] spec.type = "required_features"          -> {RequiredFeatures(spec, b, c)}
             [] spec.type = "invariant"                  -> {Invariant(spec, b, c, w)}
             [] spec.type = "statistical_equivalence"    ->
                  IF x.envs = y.envs /\ 0 \notin {Steps(x), Steps(y)}
                    THEN {Statistical(spec, x, y, i) : i \in Intervals(spec, x, y)}
                    ELSE {Statistical(spec, x, y, <<0, 0>>)}
=============================================================================
