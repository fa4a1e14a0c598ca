----------------------------- MODULE DataCases ------------------------------
(***************************************************************************)
(* Experiments that vary in the data the oracles judge: small grids of     *)
(* steps and environments with and without NaN, subjects of different      *)
(* sizes, and longer curves of one environment for the classifier.         *)
(***************************************************************************)
EXTENDS Validity

Subject(a) ==
  [signals |-> [n \in {"x"} |-> a], meta |-> [k \in MetaKeys |-> None], actions |-> None,
   features |-> {}, complete |-> TRUE,
   contract |-> [n \in {"x"} |-> [p \in Properties |-> None]]]

PlainSpec ==
  [type |-> "trajectory_equivalence", signal |-> "x", signals |-> <<>>, tol |-> 1, floor |-> 1,
   how |-> "max", unit |-> "rad", kind |-> "numerical", mme |-> 0, threshold |-> 0,
   condition |-> "above", polarity |-> "survived", features |-> {}, summary |-> "max",
   check |-> "finite_state", lower |-> 0, upper |-> 1]

Typed(type)  == [PlainSpec EXCEPT !.type = type]
FiniteState    == [Typed("invariant") EXCEPT !.signal = None, !.tol = None]
Bounded   == [FiniteState EXCEPT !.check = "bounded", !.signals = <<"x">>]
EventSpec == [Typed("event_equivalence") EXCEPT !.unit = "steps"]
Decides   == [Typed("decision_equivalence") EXCEPT !.unit = "fraction", !.tol = 60, !.floor = 2]
MeanOf      == [Typed("statistical_equivalence") EXCEPT !.kind = "statistical", !.mme = 2]

\* The specs tried on every pair of subjects, each beside the finite-state invariant.
Specs ==
  {[PlainSpec EXCEPT !.how = h] : h \in {"max", "second_largest", "all", "final"}}
    \cup {[PlainSpec EXCEPT !.floor = 4], Typed("ulp_equivalence"), Typed("exact_equivalence"),
          Typed("trajectory_envelope"), EventSpec, [EventSpec EXCEPT !.tol = 0, !.condition = "below",
          !.threshold = 1], Decides, MeanOf, Typed("env_permutation_invariance"),
          Typed("observation_definition_stability"), Bounded}

ManifestOf(oracles, b, c) ==
  [same |-> {}, allowed |-> {}, unverifiable |-> {}, workload |-> [steps |-> 1, warmup |-> 0],
   oracles |-> oracles, policy |-> DefaultPolicy,
   mode |-> IF ContentDigest(b) = ContentDigest(c) THEN "identity_check" ELSE "comparison"]

Pair(oracles, x, y) ==
  [manifest |-> ManifestOf(oracles, Subject(x), Subject(y)),
   baseline |-> Subject(x), candidate |-> Subject(y)]

\* At most one NaN in a grid of two steps and two environments.
Grid(values) == Array(2, 2, values)
OneNaN(a)    == Cardinality({q \in {1, 2} \X {1, 2} : a.rows[q[1]][q[2]] = NaN}) <= 1

Grids ==
  UNION {Grid({0, 1}) \X {a \in Grid({0, 1, 3, NaN}) : OneNaN(a)},
         {a \in Grid({0, NaN}) : OneNaN(a)} \X Grid({0, 3}),
         {<<a, a>> : a \in {g \in Grid({0, NaN}) : OneNaN(g)}},
         Array(1, 3, {0, 2}) \X Array(1, 3, {0, 1, 3}),
         Array(1, 2, {0, 2}) \X Array(1, 3, {0, 3, NaN}),
         Array(2, 2, {0, 2}) \X Array(1, 2, {0, 3}),
         Array(3, 1, {0, 1}) \X Array(3, 1, {0, 3})}

\* Curves of one environment, against a baseline of zeros; long enough for every rule.
Zeros  == [envs |-> 1, rows |-> [t \in 1..7 |-> <<0>>]]
Curves == Array(7, 1, {0, 2, 12})

\* Every spec on every pair; only the plain trajectory spec on the curves.
Trials ==
  {q \in Specs \X ((Grids \cup ({Zeros} \X Curves))) : q[2][1] = Zeros => q[1] = PlainSpec}

DataExperiments == {Pair(<<q[1], FiniteState>>, q[2][1], q[2][2]) : q \in Trials}
=============================================================================
