------------------------------ MODULE Signals -------------------------------
(***************************************************************************)
(* One loaded signal as the oracles see it (signals.py, oracles/base.py):  *)
(* a value per step and environment.  The last dimension is one number, so *)
(* every norm over it is an absolute value; numbers are integers, and NaN  *)
(* stands for any element that is not finite.                              *)
(***************************************************************************)
EXTENDS Integers, Sequences, FiniteSetsExt, Functions

CONSTANT NaN

ASSUME NaNAssumption == NaN \notin Int

\* An array keeps its number of environments when every step is trimmed away.
Array(steps, n, values) == [envs : {n}, rows : [1..steps -> [1..n -> values]]]

Steps(a)   == Len(a.rows)
Envs(a)    == 1..a.envs
Shape(a)   == <<Steps(a), a.envs>>
Values(a)  == UNION {Range(a.rows[t]) : t \in DOMAIN a.rows}
Prefix(a, k) == [a EXCEPT !.rows = SubSeq(@, 1, k)]

\* arr[w:], where a negative w counts from the end.
Trim(a, w) ==
  LET first == IF w >= 0 THEN w + 1 ELSE Max({0, Steps(a) + w}) + 1
  IN  [envs |-> a.envs, rows |-> SubSeq(a.rows, first, Steps(a))]

\* The same data with its environments renamed.
Relabel(a, p) == [a EXCEPT !.rows = [t \in DOMAIN @ |-> [e \in Envs(a) |-> @[t][p[e]]]]]

Distance(x, y) == IF NaN \in {x, y} THEN NaN ELSE IF x > y THEN x - y ELSE y - x

\* _element_error for the absolute metric, and _ulp_distance on ordered floats.
ErrorCurve(b, c) ==
  [t \in DOMAIN b.rows |-> [e \in Envs(b) |-> Distance(b.rows[t][e], c.rows[t][e])]]

\* Not "finite and at most the limit": how every comparison treats a non-finite error.
Beyond(error, limit) == error = NaN \/ error > limit

\* NaN sorts above every number in argmax rows, which turn it into inf ...
Above(x, y) == y # NaN /\ (x = NaN \/ x > y)
\* ... and below every number in a numpy argmin.
Below(x, y) == y # NaN /\ (x = NaN \/ x < y)

\* The value of which fewer than k are larger.
Ranked(row, k) ==
  CHOOSE v \in Range(row) :
    /\ Cardinality({e \in DOMAIN row : row[e] > v}) < k
    /\ k <= Cardinality({e \in DOMAIN row : row[e] >= v})

\* An aggregate that drops one environment too many.
RankOf_Third(how, n) ==
  CASE how \in {"max", "any"} -> 1
    [] how = "second_largest" -> Min({3, n})
    [] how = "all" -> n

RankOf(how, n) ==
  CASE how \in {"max", "any"} -> 1
    [] how = "second_largest" -> Min({2, n})
    [] how = "all" -> n

\* An aggregate that reads one fixed environment.
Aggregate_Last(row, how) == row[Len(row)]

\* aggregate(): one number per step; a non-finite element makes it infinite.
Aggregate(row, how) ==
  IF NaN \in Range(row) THEN NaN
  ELSE IF how = "final" THEN row[Len(row)]
  ELSE Ranked(row, RankOf(how, Len(row)))
=============================================================================
