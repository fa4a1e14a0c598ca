----------------------------- MODULE OracleLaws -----------------------------
(***************************************************************************)
(* What the outcomes of the oracles mean, and how outcomes of different    *)
(* oracles, tolerances and arrangements of the same data relate.  Every    *)
(* law is about the oracles an experiment has run on its own subjects.     *)
(***************************************************************************)
EXTENDS Experiment

\* The subjects as an oracle on signal n sees them, or with one array replaced.
With(s, n, a)  == [s EXCEPT !.signals[n] = a]
Window(s, n)   == Trim(s.signals[n], Warmup(M))

StatusOn(spec, x, y) ==
  {o.status : o \in OutcomesOf(spec, With(B, spec.signal, x), With(C, spec.signal, y), 0)}

\* The oracles run so far that compare one signal of both subjects, of these types.
Run(types) ==
  {i \in DOMAIN outcomes : /\ M.oracles[i].type \in types
                           /\ M.oracles[i].signal \in DOMAIN B.signals \cap DOMAIN C.signals}

Baseline(i)  == Window(B, M.oracles[i].signal)
Candidate(i) == Window(C, M.oracles[i].signal)

-----------------------------------------------------------------------------
\* How many environments of a step may exceed the tolerance and still pass.
Allowance(how, n) ==
  CASE how \in {"max", "any"}   -> 0
    [] how = "second_largest"   -> IF n = 1 THEN 0 ELSE 1
    [] how = "all"              -> n - 1

Exceeding(x, y, t, limit) ==
  {e \in Envs(x) : NaN \in {x.rows[t][e], y.rows[t][e]}
                     \/ Magnitude(x.rows[t][e] - y.rows[t][e]) > limit}

NonFinite(x, y, t) == \E e \in Envs(x) : NaN \in {x.rows[t][e], y.rows[t][e]}

\* A trajectory passes exactly when at every step the number of environments beyond
\* the tolerance is within what the aggregation allows and nothing is non-finite:
\* none for max, one for second_largest, "so at least two environments must exceed a
\* threshold before the reduction fails" (aggregate, trajectory_equivalence).
TrajectoryMeansTolerance ==
  \A i \in Run({"trajectory_equivalence", "ulp_equivalence"}) :
    LET spec == M.oracles[i]
        x    == Baseline(i)
        y    == Candidate(i)
    IN  outcomes[i].status \in {"pass", "fail"} /\ spec.how # "final" =>
          (outcomes[i].status = "pass" <=>
             \A t \in DOMAIN x.rows :
               /\ ~NonFinite(x, y, t)
               /\ Cardinality(Exceeding(x, y, t, spec.tol)) <= Allowance(spec.how, x.envs))

\* The record of a failed comparison points at its beginning: the same oracle finds
\* nothing wrong with what came before the step it names, the worst environment is
\* among the affected ones and, where one environment is enough to fail, what goes
\* up to that step fails already (localize).
FailureIsLocalized ==
  \A i \in Run({"trajectory_equivalence", "ulp_equivalence", "exact_equivalence",
                "trajectory_envelope"}) :
    LET spec == [M.oracles[i] EXCEPT !.floor = 1]
        at   == outcomes[i].record
        On(k) == StatusOn(spec, Prefix(Baseline(i), k), Prefix(Candidate(i), k))
        strict == spec.type = "exact_equivalence"
                    \/ (spec.type # "trajectory_envelope" /\ spec.how \in {"max", "any"})
    IN  outcomes[i].status = "fail" /\ Shape(Baseline(i)) = Shape(Candidate(i)) =>
          /\ at.step >= 1 /\ at.worst \in at.envs
          /\ at.step > 1 => On(at.step - 1) = {"pass"}
          /\ strict => On(at.step) = {"fail"}

\* A wider tolerance never turns a pass into anything else (the numerical, event and
\* permutation oracles); for a decision, asking for less agreement never does.
ToleranceIsMonotone ==
  \A i \in Run(Gated \ {"statistical_equivalence"}) :
    LET spec  == M.oracles[i]
        wider == IF spec.type = "decision_equivalence" THEN {0, spec.tol \div 2}
                                                       ELSE {spec.tol + 1, spec.tol + 3}
    IN  outcomes[i].status = "pass" =>
          \A t \in wider :
            StatusOn([spec EXCEPT !.tol = t], Baseline(i), Candidate(i)) = {"pass"}

\* The downstream decision is coarser than the event it is derived from: where an
\* event oracle passes, whatever timing it tolerates, the decision on the same event
\* is in full agreement, under both polarities.
EventImpliesDecision ==
  \A i \in Run({"event_equivalence"}) :
    outcomes[i].status = "pass" =>
      \A polarity \in {"survived", "triggered"} :
        StatusOn([M.oracles[i] EXCEPT !.type = "decision_equivalence", !.unit = "fraction",
                                      !.tol = 100, !.polarity = polarity],
                 Baseline(i), Candidate(i)) = {"pass"}

\* Missing data is never a pass: with the finite_state invariant declared over all
\* signals, a run whose judged window holds a non-finite value does not pass, also
\* when the invariant itself raises for want of a matching environment.
NonFiniteNeverPasses ==
  Decided /\ Valid(checks)
    /\ (\E i \in DOMAIN M.oracles : /\ M.oracles[i].type = "invariant"
                                    /\ M.oracles[i].check = "finite_state"
                                    /\ M.oracles[i].signals = <<>>)
    /\ (\E s \in {B, C} : \E n \in DOMAIN B.signals \cap DOMAIN C.signals :
          NaN \in Values(Window(s, n)))
  => verdict # "PASS"

Bijections(n) == {p \in [1..n -> 1..n] : \A i, j \in 1..n : p[i] = p[j] => i = j}

\* Environments have no order: naming them differently in both subjects alike changes
\* the status of no oracle that reduces over all of them.  The permutation oracle is
\* not among these, nor is the aggregation "final", which reads the last environment.
OrderIsImmaterial ==
  \A i \in Run(Pairwise \ {"env_permutation_invariance"}) :
    LET x == Baseline(i)
        y == Candidate(i)
    IN  x.envs = y.envs /\ M.oracles[i].how # "final" =>
          \A p \in Bijections(x.envs) :
            outcomes[i].status \in StatusOn(M.oracles[i], Relabel(x, p), Relabel(y, p))

\* A pass of the permutation oracle is what it says: some one-to-one matching pairs
\* every candidate environment with a baseline environment within the tolerance at
\* every step (_env_permutation_invariance).
PermutationMeansMatching ==
  \A i \in Run({"env_permutation_invariance"}) :
    outcomes[i].status = "pass" =>
      \E p \in Bijections(Baseline(i).envs) :
        \A t \in DOMAIN Baseline(i).rows :
          Exceeding(Relabel(Baseline(i), p), Candidate(i), t, M.oracles[i].tol) = {}

\* Violated by the code: the permutation oracle accepts a candidate that is the
\* baseline with its environments in another order ("per-environment outcomes do not
\* depend on environment ordering").
ReorderedIsAccepted ==
  \A i \in Run({"env_permutation_invariance"}) :
    /\ NaN \notin Values(Baseline(i))
    /\ \E p \in Bijections(Baseline(i).envs) : Candidate(i) = Relabel(Baseline(i), p)
    => outcomes[i].status = "pass"
=============================================================================
