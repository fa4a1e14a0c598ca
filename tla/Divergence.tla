----------------------------- MODULE Divergence -----------------------------
(***************************************************************************)
(* Divergence localization (divergence.py): the first step at which two    *)
(* signals differ, the first at which they violate a tolerance, where, and *)
(* the rule-based classification.  Steps count from 1; 0 is None.          *)
(***************************************************************************)
EXTENDS Signals

NoRecord == [noise |-> 0, step |-> 0, envs |-> {}, worst |-> 0, class |-> "none"]

Classifications ==
  {"asset_mismatch", "cloning_mismatch", "solver_parameter_difference", "setup_mismatch",
   "coordinate_frame_mismatch", "reset_mismatch", "sensor_semantic_difference",
   "numerical_drift", "unknown"}

EarliestOf(steps) == IF steps = {} THEN 0 ELSE Min(steps)

\* The first step with a finite positive error, whatever the tolerance.
NoiseStep(curve) ==
  EarliestOf({t \in DOMAIN curve :
                \E e \in DOMAIN curve[t] : curve[t][e] # NaN /\ curve[t][e] > 0})

Violating(row, limit) == {e \in DOMAIN row : Beyond(row[e], limit)}

\* A localization that reports the last violation instead of the first.
ViolationStep_Last(curve, limit) ==
  LET bad == {t \in DOMAIN curve : Violating(curve[t], limit) # {}}
  IN  IF bad = {} THEN 0 ELSE Max(bad)

ViolationStep(curve, limit) ==
  EarliestOf({t \in DOMAIN curve : Violating(curve[t], limit) # {}})

\* np.argmax: the first of the largest.
ArgMax(row) ==
  Min({e \in DOMAIN row : \A f \in DOMAIN row : ~Above(row[f], row[e])})

-----------------------------------------------------------------------------
(* The rules of classify(), from most specific to least.                     *)

\* Rule 1: a configuration difference wins outright.
ConfigurationClass(differences) ==
  LET Some(keys) == differences \cap keys # {}
  IN  IF Some({"asset_identity"})                           THEN "asset_mismatch"
      ELSE IF Some({"num_envs", "horizon"})                 THEN "cloning_mismatch"
      ELSE IF Some({"solver_settings"})                     THEN "solver_parameter_difference"
      ELSE IF Some({"physics_dt", "control_frequency_hz"})  THEN "setup_mismatch"
      ELSE "none"

Delta(b, c, t, e) == c.rows[t][e] - b.rows[t][e]
Magnitude(x) == IF x < 0 THEN -x ELSE x

\* Rule 3: per environment, a constant offset over the horizon.  Offsets are kept
\* multiplied by the number of steps, so that the mean stays an integer.
OffsetTimesSteps(b, c, e) ==
  FoldFunction(LAMBDA x, y : x + y, 0, [t \in DOMAIN b.rows |-> Delta(b, c, t, e)])

ConstantOffset(b, c, limit) ==
  /\ Steps(b) > 2
  /\ \E e \in Envs(b) : Magnitude(OffsetTimesSteps(b, c, e)) > limit * Steps(b)
  /\ \A t \in DOMAIN b.rows, e \in Envs(b) :
       Magnitude(Steps(b) * Delta(b, c, t, e) - OffsetTimesSteps(b, c, e))
         <= limit * Steps(b)

Largest(curve, steps) == Max(UNION {Range(curve[t]) : t \in steps})

\* Rule 4: present from the first step and already a fifth of its largest value.
PresentFromStart(curve) ==
  /\ NoiseStep(curve) = 1
  /\ 5 * Largest(curve, 1..Min({3, Len(curve)})) >= Largest(curve, DOMAIN curve)

\* Rule 5: flat, then a jump.  Only the affected environments count.
StepChange(curve, step, envs, limit) ==
  LET Before == {curve[t][e] : t \in 1..step - 1, e \in envs}
      At(t)  == Max({curve[t][e] : e \in envs})
  IN  /\ step > 3 /\ step + 3 <= Len(curve)
      /\ 10 * (Max(Before) - Min(Before)) <= limit
      /\ At(step) - At(step - 1) > limit

\* Rule 6: at least four of five steps up to the violation do not decrease.
MonotonicGrowth(curve, step, envs) ==
  LET At(t) == Max({curve[t][e] : e \in envs})
  IN  /\ step > 3
      /\ 5 * Cardinality({t \in 2..step : At(t) >= At(t - 1)}) >= 4 * (step - 1)

Classify(b, c, curve, limit, differences) ==
  LET step == ViolationStep(curve, limit)
      envs == Violating(curve[step], limit)
  IN  IF ConfigurationClass(differences) # "none" THEN ConfigurationClass(differences)
      ELSE IF NaN \in Values(b) \cup Values(c)    THEN "numerical_drift"
      ELSE IF step = 0                            THEN "unknown"
      ELSE IF ConstantOffset(b, c, limit)         THEN "coordinate_frame_mismatch"
      ELSE IF PresentFromStart(curve)             THEN "reset_mismatch"
      ELSE IF step <= 2                           THEN "reset_mismatch"
      ELSE IF StepChange(curve, step, envs, limit) THEN "sensor_semantic_difference"
      ELSE IF MonotonicGrowth(curve, step, envs)  THEN "numerical_drift"
      ELSE "unknown"

\* localize(): the record of a failed comparison.
Localize(b, c, curve, limit, differences) ==
  LET step == ViolationStep(curve, limit)
  IN  [noise |-> NoiseStep(curve), step |-> step,
       envs  |-> IF step = 0 THEN {} ELSE Violating(curve[step], limit),
       worst |-> IF step = 0 THEN 0 ELSE ArgMax(curve[step]),
       class |-> Classify(b, c, curve, limit, differences)]
=============================================================================
