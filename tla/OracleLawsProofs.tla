-------------------------- MODULE OracleLawsProofs --------------------------
(***************************************************************************)
(* Proofs of the laws of the oracles, for any experiments.  They rest on   *)
(* the invariant Judged, that the outcomes are those of the oracles of the *)
(* manifest, in its order, and on what the aggregations, the first         *)
(* violation, the assignment of environments and sums over them are of any *)
(* array.                                                                  *)
(***************************************************************************)
EXTENDS OracleLaws, ExperimentProofs

-----------------------------------------------------------------------------
(* Signals and their windows.                                                *)

\* A window is trimmed of nothing.
LEMMA TrimmedOfNothing ==
  ASSUME NEW S, NEW a, a.rows \in Seq(S), a = [envs |-> a.envs, rows |-> a.rows]
  PROVE  Trim(a, 0) = a
<1>1. SubSeq(a.rows, 1, Len(a.rows)) = a.rows
  BY SubSeqFull
<1>2. Trim(a, 0) = [envs |-> a.envs, rows |-> SubSeq(a.rows, 1, Len(a.rows))]
  BY DEF Trim, Steps
<1>3. QED
  BY <1>1, <1>2

\* A value that is not finite has a step and an environment.
LEMMA NonFiniteCell ==
  ASSUME NEW a, NEW spec, \A t \in DOMAIN a.rows : DOMAIN a.rows[t] = Envs(a), NaN \in Values(a)
  PROVE  BadCells(a, spec) # {}
<1>1. PICK t \in DOMAIN a.rows : NaN \in Range(a.rows[t])
  BY DEF Values
<1>2. PICK e \in DOMAIN a.rows[t] : a.rows[t][e] = NaN
  BY <1>1 DEF Range
<1>3. <<t, e>> \in (DOMAIN a.rows) \X Envs(a)
  BY <1>2
<1>4. Bad(a.rows[t][e], spec)
  BY <1>2 DEF Bad
<1>5. <<t, e>> \in BadCells(a, spec)
  BY <1>3, <1>4 DEF BadCells
<1>6. QED
  BY <1>5

\* What there is to say of an oracle that has run on a signal.
LEMMA Ran ==
  ASSUME Reported, Explained, Judged, NEW types, NEW i \in Run(types)
  PROVE  LET spec == M.oracles[i]
         IN  /\ spec.type \in types
             /\ spec.signal \in DOMAIN B.signals \cap DOMAIN C.signals
             /\ SpecFields \subseteq DOMAIN spec
             /\ CriterionIsDeclared(spec)
             /\ outcomes[i] \in OutcomesOf(spec, B, C, Warmup(M))
             /\ IsArray(Baseline(i)) /\ IsArray(Candidate(i))
<1> DEFINE spec == M.oracles[i]
<1>1. i \in DOMAIN outcomes /\ spec.type \in types
      /\ spec.signal \in DOMAIN B.signals \cap DOMAIN C.signals
  BY DEF Run
<1>2. outcomes[i] \in OutcomesOf(spec, B, C, Warmup(M))
  BY <1>1 DEF Judged
<1>3. WellFormed(M)
  BY ExperimentAssumption DEF Reported, M
<1>4. i \in DOMAIN M.oracles
  <2>1. M.oracles \in Seq(Range(M.oracles))
    BY <1>3 DEF WellFormed
  <2>2. QED
    BY <1>1, <2>1 DEF Judged, Explained
<1>5. SpecFields \subseteq DOMAIN spec
  BY <1>3, <1>4 DEF WellFormed
<1>6. CriterionIsDeclared(spec)
  BY <1>4, NumericAssumption DEF Reported, M
<1>7. IsArray(Baseline(i)) /\ IsArray(Candidate(i))
  BY <1>1, WindowIsArray DEF Baseline, Candidate, Window
<1>8. QED
  BY <1>1, <1>2, <1>5, <1>6, <1>7

\* What an oracle that is gated by a tolerance and neither raised nor was without one
\* has reported.
LEMMA Gating ==
  ASSUME Reported, Explained, Judged, NEW i \in Run(Gated), outcomes[i].status # "inconclusive"
  PROVE  M.oracles[i].tol \in Nat /\ M.oracles[i].floor \in Nat \ {0}
<1>1. outcomes[i] \in OutcomesOf(M.oracles[i], B, C, Warmup(M)) /\ CriterionIsDeclared(M.oracles[i])
      /\ M.oracles[i].type \in Gated
  BY Ran
<1>2. M.oracles[i].tol # None
  <2>1. SUFFICES ASSUME M.oracles[i].tol = None PROVE FALSE
    OBVIOUS
  <2>2. OutcomesOf(M.oracles[i], B, C, Warmup(M)) = {Raised}
    BY <1>1, <2>1 DEF OutcomesOf, Pairwise
  <2>3. QED
    BY <1>1, <2>2 DEF Raised, Inconclusive, Outcome
<1>3. QED
  BY <1>1, <1>2 DEF CriterionIsDeclared

-----------------------------------------------------------------------------
(* Data that is not finite.                                                  *)

\* The invariant oracle over all signals accepts no window with a value that is not finite.
LEMMA NonFiniteIsNoticed ==
  ASSUME NEW spec, NEW b, NEW c, NEW w, NEW n \in DOMAIN b.signals \cap DOMAIN c.signals,
         NEW s \in {b, c},
         spec.type = "invariant", spec.signals = <<>>, n \in Range(SortedNames),
         BadCells(Trim(s.signals[n], w), spec) # {},
         NEW o \in OutcomesOf(spec, b, c, w)
  PROVE  o.status \in {"fail", "inconclusive"}
<1>1. o = Invariant(spec, b, c, w)
  BY DEF OutcomesOf, Pairwise, Gated, Whole
<1> DEFINE judged == {i \in DOMAIN SortedNames : SortedNames[i] \in DOMAIN b.signals \cap DOMAIN c.signals}
           runs   == <<b, c>>
           cells(r, i) == BadCells(Trim(runs[r].signals[SortedNames[i]], w), spec)
           bad    == {q \in {1, 2} \X judged : cells(q[1], q[2]) # {}}
<1>2. PICK i \in DOMAIN SortedNames : SortedNames[i] = n
  BY DEF Range
<1>3. PICK r \in {1, 2} : runs[r] = s
  OBVIOUS
<1>4. <<r, i>> \in bad
  BY <1>2, <1>3
<1>5. Invariant(spec, b, c, w) = Raised
        \/ \E record : Invariant(spec, b, c, w)
                        = Outcome("fail", "IVF-ORACLE-INVARIANT-VIOLATION", record)
  BY <1>4 DEF Invariant
<1>6. QED
  BY <1>1, <1>5 DEF Raised, Inconclusive, Outcome

\* Noticed in a decided run, it is no PASS.
LEMMA NonFiniteFollows == Reported /\ Explained /\ Judged => NonFiniteNeverPasses
<1> SUFFICES ASSUME Reported, Explained, Judged, Decided, Valid(checks),
                    NEW i \in DOMAIN M.oracles, M.oracles[i].type = "invariant",
                    M.oracles[i].signals = <<>>,
                    NEW s \in {B, C}, NEW n \in DOMAIN B.signals \cap DOMAIN C.signals,
                    NaN \in Values(Window(s, n))
             PROVE  verdict # "PASS"
  BY DEF NonFiniteNeverPasses
<1>1. i \in DOMAIN outcomes
  <2>1. M.oracles \in Seq(Range(M.oracles))
    BY ExperimentAssumption DEF Reported, M, WellFormed
  <2>2. Len(outcomes) = Len(M.oracles)
    BY DEF Explained, Decided, Declared
  <2>3. outcomes \in Seq(Possible)
    BY DEF Explained
  <2>4. QED
    BY <2>1, <2>2, <2>3
<1>2. BadCells(Window(s, n), M.oracles[i]) # {}
  <2>1. \A t \in DOMAIN Window(s, n).rows : DOMAIN Window(s, n).rows[t] = Envs(Window(s, n))
    BY Subjects, WindowIsEnd DEF Window
  <2>2. QED
    BY <2>1, NonFiniteCell
<1>3. n \in Range(SortedNames)
  BY Subjects
<1>4. outcomes[i].status \in {"fail", "inconclusive"}
  BY <1>1, <1>2, <1>3, NonFiniteIsNoticed DEF Judged, Window
<1>5. Statuses \cap {"fail", "inconclusive"} # {}
  BY <1>1, <1>4 DEF Statuses
<1>6. verdict = Decide(M.policy, Valid(checks), Statuses)
  BY DEF Reported, Decided
<1>7. QED
  BY <1>5, <1>6 DEF Decide

-----------------------------------------------------------------------------
(* Events and decisions.                                                     *)

\* What an event oracle that passes has established.
LEMMA EventPassed ==
  ASSUME NEW spec, NEW x, NEW y, Event(spec, x, y).status = "pass"
  PROVE  /\ 0 \notin {Steps(x), Steps(y)}
         /\ ~(Cardinality(Paired(x, y)) < spec.floor)
         /\ CountMismatches(spec, x, y) = {}
BY DEF Event, Raised, Insufficient, Inconclusive, Outcome

\* Where the same environments fire, every decision agrees.
LEMMA DecisionAgrees ==
  ASSUME NEW spec, NEW x, NEW y, x.envs \in Nat, y.envs \in Nat,
         spec.unit = "fraction", spec.tol = 100, spec.polarity \in {"survived", "triggered"},
         0 \notin {Steps(x), Steps(y)}, ~(Cardinality(Paired(x, y)) < spec.floor),
         CountMismatches(spec, x, y) = {}
  PROVE  Decision(spec, x, y) = Pass
<1>1. Min({x.envs, y.envs}) \in Nat
  <2> DEFINE smaller == IF x.envs <= y.envs THEN x.envs ELSE y.envs
  <2>1. smaller \in {x.envs, y.envs} /\ \A z \in {x.envs, y.envs} : smaller <= z
    OBVIOUS
  <2>2. Min({x.envs, y.envs}) \in {x.envs, y.envs}
    BY <2>1 DEF Min
  <2>3. QED
    BY <2>2
<1>2. IsFiniteSet(Paired(x, y))
  BY <1>1, FS_Interval DEF Paired
<1>3. Cardinality(Paired(x, y)) \in Nat
  BY <1>2, FS_CardinalityType
<1>4. Paired(x, y) \ CountMismatches(spec, x, y) = Paired(x, y)
  OBVIOUS
<1>5. 100 * Cardinality(Paired(x, y)) >= spec.tol * Cardinality(Paired(x, y))
  BY <1>3
<1>6. QED
  BY <1>4, <1>5 DEF Decision

\* Two oracles on the same event find the same crossings.
LEMMA SameCrossings ==
  ASSUME NEW p, NEW q, p.condition = q.condition, p.threshold = q.threshold, NEW x, NEW y
  PROVE  CountMismatches(p, x, y) = CountMismatches(q, x, y)
<1>1. \A v : Hit(v, p) <=> Hit(v, q)
  BY DEF Hit
<1>2. ASSUME NEW a, NEW e PROVE FirstCrossing(a, e, p) = FirstCrossing(a, e, q)
  <2>1. {t \in DOMAIN a.rows : Hit(a.rows[t][e], p)} = {t \in DOMAIN a.rows : Hit(a.rows[t][e], q)}
    BY <1>1
  <2>2. QED
    BY <2>1 DEF FirstCrossing
<1>3. QED
  BY <1>2 DEF CountMismatches

\* The decision oracle on two windows put in the place of the signals.
LEMMA DecisionOnWindows ==
  ASSUME NEW spec, spec.type = "decision_equivalence", spec.tol \in Int, NEW x, NEW y,
         NEW S, NEW T, x.rows \in Seq(S), y.rows \in Seq(T),
         x = [envs |-> x.envs, rows |-> x.rows], y = [envs |-> y.envs, rows |-> y.rows],
         "signals" \in DOMAIN B, "signals" \in DOMAIN C,
         spec.signal \in DOMAIN B.signals \cap DOMAIN C.signals
  PROVE  StatusOn(spec, x, y) = {Decision(spec, x, y).status}
<1> DEFINE b == With(B, spec.signal, x)
           c == With(C, spec.signal, y)
<1>1. /\ b.signals = [B.signals EXCEPT ![spec.signal] = x]
      /\ c.signals = [C.signals EXCEPT ![spec.signal] = y]
  BY DEF With
<1>2. /\ spec.signal \in DOMAIN b.signals \cap DOMAIN c.signals
      /\ b.signals[spec.signal] = x /\ c.signals[spec.signal] = y
  BY <1>1
<1>3. Trim(x, 0) = x /\ Trim(y, 0) = y
  BY TrimmedOfNothing
<1>4. spec.tol # None
  BY NoneAssumption
<1> HIDE DEF b, c
<1>5. OutcomesOf(spec, b, c, 0) = {Decision(spec, x, y)}
  BY <1>2, <1>3, <1>4 DEF OutcomesOf, Gated, Pairwise
<1>6. QED
  BY <1>5 DEF StatusOn, b, c

\* An entry of manifest.oracles turned into a decision on the same event.
LEMMA DecisionOfEvent ==
  ASSUME NEW spec, SpecFields \subseteq DOMAIN spec, NEW polarity
  PROVE  LET d == [spec EXCEPT !.type = "decision_equivalence", !.unit = "fraction",
                               !.tol = 100, !.polarity = polarity]
         IN  /\ d.type = "decision_equivalence" /\ d.unit = "fraction"
             /\ d.tol = 100 /\ d.polarity = polarity
             /\ d.signal = spec.signal /\ d.floor = spec.floor
             /\ d.condition = spec.condition /\ d.threshold = spec.threshold
BY DEF SpecFields

LEMMA EventFollows == Reported /\ Explained /\ Judged => EventImpliesDecision
<1> SUFFICES ASSUME Reported, Explained, Judged,
                    NEW i \in Run({"event_equivalence"}), outcomes[i].status = "pass",
                    NEW polarity \in {"survived", "triggered"}
             PROVE  StatusOn([M.oracles[i] EXCEPT !.type = "decision_equivalence",
                                                  !.unit = "fraction", !.tol = 100,
                                                  !.polarity = polarity],
                             Baseline(i), Candidate(i)) = {"pass"}
  BY DEF EventImpliesDecision
<1> DEFINE spec == M.oracles[i]
           decision == [spec EXCEPT !.type = "decision_equivalence", !.unit = "fraction",
                                    !.tol = 100, !.polarity = polarity]
           x == Baseline(i)
           y == Candidate(i)
<1>1. /\ i \in DOMAIN outcomes /\ spec.type = "event_equivalence"
      /\ spec.signal \in DOMAIN B.signals \cap DOMAIN C.signals
  BY DEF Run
<1>2. outcomes[i] \in OutcomesOf(spec, B, C, Warmup(M))
  BY <1>1 DEF Judged
<1>3. outcomes[i] \in {Event(spec, x, y), Raised}
  BY <1>1, <1>2 DEF OutcomesOf, Gated, Pairwise, Baseline, Candidate, Window
<1>4. Event(spec, x, y).status = "pass"
  BY <1>3 DEF Raised, Inconclusive, Outcome
<1>5. SpecFields \subseteq DOMAIN spec
  <2>1. WellFormed(M)
    BY ExperimentAssumption DEF Reported, M
  <2>2. M.oracles \in Seq(Range(M.oracles))
    BY <2>1 DEF WellFormed
  <2>3. i \in DOMAIN M.oracles
    BY <1>1, <2>2 DEF Judged, Explained
  <2>4. QED
    BY <2>1, <2>3 DEF WellFormed
<1>6. /\ x.envs \in Nat /\ x.rows \in Seq(Range(B.signals[spec.signal].rows))
      /\ x = [envs |-> x.envs, rows |-> x.rows]
  BY <1>1, Subjects, WindowIsEnd DEF Baseline, Window
<1>7. /\ y.envs \in Nat /\ y.rows \in Seq(Range(C.signals[spec.signal].rows))
      /\ y = [envs |-> y.envs, rows |-> y.rows]
  BY <1>1, Subjects, WindowIsEnd DEF Candidate, Window
<1>8. "signals" \in DOMAIN B /\ "signals" \in DOMAIN C
  BY Subjects
<1>9. /\ decision.type = "decision_equivalence" /\ decision.unit = "fraction"
      /\ decision.tol = 100 /\ decision.polarity = polarity
      /\ decision.signal = spec.signal /\ decision.floor = spec.floor
      /\ decision.condition = spec.condition /\ decision.threshold = spec.threshold
  BY <1>5, DecisionOfEvent
<1> HIDE DEF spec, decision, x, y
<1>10. CountMismatches(decision, x, y) = CountMismatches(spec, x, y)
  BY <1>9, SameCrossings
<1>11. Decision(decision, x, y) = Pass
  BY <1>4, <1>6, <1>7, <1>9, <1>10, EventPassed, DecisionAgrees
<1>12. StatusOn(decision, x, y) = {Decision(decision, x, y).status}
  BY SMTT(20), <1>1, <1>6, <1>7, <1>8, <1>9, DecisionOnWindows
<1>13. Pass.status = "pass"
  BY DEF Pass, Outcome
<1>14. QED
  BY <1>11, <1>12, <1>13 DEF spec, decision, x, y

-----------------------------------------------------------------------------
(* Environments matched under a permutation.                                 *)

\* The values of a function on a finite set are finitely many.
LEMMA FiniteRange ==
  ASSUME NEW f, IsFiniteSet(DOMAIN f), f = [e \in DOMAIN f |-> f[e]]
  PROVE  IsFiniteSet(Range(f))
<1>1. f \in Surjection(DOMAIN f, Range(f))
  BY DEF Surjection, Range
<1>2. QED
  BY <1>1, FS_Surjection

LEMMA DistanceType ==
  ASSUME NEW u \in Number, NEW v \in Number
  PROVE  /\ Distance(u, v) \in Nat \cup {NaN}
         /\ Distance(u, v) = NaN <=> NaN \in {u, v}
         /\ Distance(u, v) # NaN => Distance(u, v) = Magnitude(u - v)
<1>1. CASE NaN \in {u, v}
  BY <1>1, NaNAssumption DEF Distance
<1>2. CASE NaN \notin {u, v}
  <2>1. u \in Int /\ v \in Int
    BY <1>2 DEF Number
  <2>2. Distance(u, v) = IF u > v THEN u - v ELSE v - u
    BY <1>2 DEF Distance
  <2>3. Distance(u, v) \in Nat /\ Distance(u, v) = Magnitude(u - v)
    BY <2>1, <2>2 DEF Magnitude
  <2>4. QED
    BY <1>2, <2>3, NaNAssumption
<1>3. QED
  BY <1>1, <1>2

LEMMA EnvsOf ==
  ASSUME NEW a, IsArray(a)
  PROVE  /\ IsFiniteSet(Envs(a)) /\ Cardinality(Envs(a)) = a.envs
         /\ Envs(a) \in SUBSET (Nat \ {0})
<1>1. a.envs \in Nat
  BY DEF IsArray
<1>2. IsFiniteSet(1..a.envs) /\ Cardinality(1..a.envs) = a.envs
  <2>1. 1 \in Int /\ a.envs \in Int
    BY <1>1
  <2>2. /\ IsFiniteSet(1..a.envs)
        /\ Cardinality(1..a.envs) = IF 1 > a.envs THEN 0 ELSE a.envs - 1 + 1
    BY <2>1, FS_Interval
  <2>3. (IF 1 > a.envs THEN 0 ELSE a.envs - 1 + 1) = a.envs
    BY <1>1
  <2>4. QED
    BY <2>2, <2>3
<1>3. QED
  BY <1>1, <1>2 DEF Envs

\* The cost of matching two environments is a number, and bounds what they differ by.
LEMMA CostOf ==
  ASSUME NEW x, NEW y, IsArray(x), IsArray(y), Steps(x) = Steps(y), Steps(x) # 0,
         NEW i \in Envs(x), NEW j \in Envs(y)
  PROVE  /\ Cost(x, y, j, i) \in Nat \cup {NaN}
         /\ \A t \in DOMAIN x.rows :
              Cost(x, y, j, i) # NaN =>
                /\ Distance(x.rows[t][i], y.rows[t][j]) # NaN
                /\ Distance(x.rows[t][i], y.rows[t][j]) <= Cost(x, y, j, i)
<1> DEFINE f == [t \in DOMAIN x.rows |-> Distance(x.rows[t][i], y.rows[t][j])]
           errors == {Distance(x.rows[t][i], y.rows[t][j]) : t \in DOMAIN x.rows}
<1>1. DOMAIN x.rows = 1..Steps(x) /\ DOMAIN y.rows = 1..Steps(x) /\ Steps(x) \in Nat
  BY DEF IsArray, Steps
<1>2. \A t \in DOMAIN x.rows : x.rows[t][i] \in Number /\ y.rows[t][j] \in Number
  BY <1>1 DEF IsArray
<1>3. errors \subseteq Nat \cup {NaN}
  BY <1>2, DistanceType
<1>4. Range(f) = errors
  BY DEF Range
<1>5. IsFiniteSet(errors)
  <2>1. DOMAIN f = 1..Steps(x) /\ f = [t \in DOMAIN f |-> f[t]]
    BY <1>1
  <2> HIDE DEF f, errors
  <2>2. IsFiniteSet(DOMAIN f)
    BY <1>1, <2>1, FS_Interval
  <2>3. QED
    BY <1>4, <2>1, <2>2, FiniteRange
<1>6. errors # {}
  BY <1>1
<1>7. Cost(x, y, j, i) = IF NaN \in errors THEN NaN ELSE Max(errors)
  BY DEF Cost
<1>8. \A t \in DOMAIN x.rows : Distance(x.rows[t][i], y.rows[t][j]) \in errors
  OBVIOUS
<1> HIDE DEF errors
<1>9. CASE NaN \in errors
  BY <1>7, <1>9
<1>10. CASE NaN \notin errors
  <2>1. errors \in SUBSET Int /\ errors \subseteq Nat
    BY <1>3, <1>10
  <2>2. Max(errors) \in errors /\ \A z \in errors : z <= Max(errors)
    BY <1>5, <1>6, <2>1, MaxOf
  <2>3. QED
    BY <1>7, <1>8, <1>10, <2>1, <2>2
<1>11. QED
  BY <1>9, <1>10

\* Some baseline environment is the closest one.
LEMMA ClosestOf ==
  ASSUME NEW x, NEW y, IsArray(x), IsArray(y), Steps(x) = Steps(y), Steps(x) # 0,
         NEW j \in Envs(y), Envs(x) # {}
  PROVE  Closest(x, y, j) \in Envs(x)
<1> DEFINE R == {p \in Envs(x) \X Envs(x) : ~Below(Cost(x, y, j, p[1]), Cost(x, y, j, p[2]))}
           closest == {i \in Envs(x) : \A k \in Envs(x) :
                         ~Below(Cost(x, y, j, k), Cost(x, y, j, i))}
<1>1. \A i \in Envs(x) : Cost(x, y, j, i) \in Nat \cup {NaN}
  BY CostOf
<1>2. IsFiniteSet(Envs(x)) /\ Envs(x) \in SUBSET Int
  BY EnvsOf
<1>3. \A a, b \in Envs(x) :
        <<a, b>> \in R <=> ~Below(Cost(x, y, j, a), Cost(x, y, j, b))
  OBVIOUS
<1> HIDE DEF R
<1>4. ASSUME NEW a \in Envs(x), NEW b \in Envs(x) PROVE <<a, b>> \in R \/ <<b, a>> \in R
  BY <1>1, <1>3, NaNAssumption DEF Below
<1>5. ASSUME NEW a \in Envs(x), NEW b \in Envs(x), NEW c \in Envs(x),
             <<a, b>> \in R, <<b, c>> \in R
      PROVE  <<a, c>> \in R
  BY <1>1, <1>3, <1>5, NaNAssumption DEF Below
<1>6. PICK i \in Envs(x) : \A k \in Envs(x) : <<k, i>> \in R
  BY <1>2, <1>4, <1>5, Greatest
<1>7. i \in closest
  BY <1>3, <1>6
<1>8. IsFiniteSet(closest) /\ closest \in SUBSET Int
  BY <1>2, FS_Subset
<1>9. Min(closest) \in closest
  BY <1>7, <1>8, MinOf
<1>10. QED
  BY <1>9 DEF Closest

\* A function onto as many values as it has arguments takes none twice.
LEMMA OntoIsOneToOne ==
  ASSUME NEW f, IsFiniteSet(DOMAIN f), f = [e \in DOMAIN f |-> f[e]],
         Cardinality(Range(f)) = Cardinality(DOMAIN f)
  PROVE  \A a, b \in DOMAIN f : f[a] = f[b] => a = b
<1>1. f \in Surjection(DOMAIN f, Range(f))
  BY DEF Surjection, Range
<1>2. f \in Injection(DOMAIN f, Range(f))
  BY <1>1, FS_SurjSameCardinalityImpliesInj
<1>3. QED
  BY <1>2 DEF Injection, IsInjective

\* What the permutation oracle has established when it passes.
LEMMA PermutationPassed ==
  ASSUME NEW spec, NEW x, NEW y, Permutation(spec, x, y).status = "pass"
  PROVE  /\ Shape(x) = Shape(y) /\ Steps(x) # 0
         /\ Cardinality({Closest(x, y, j) : j \in Envs(y)}) = x.envs
         /\ \A j \in Envs(y) : ~Beyond(Cost(x, y, j, Closest(x, y, j)), spec.tol)
BY DEF Permutation, Assigned, Incomparable, Raised, Inconclusive, Fail, Outcome

\* Environments within the tolerance of the ones they are matched with.
LEMMA MatchedIsWithin ==
  ASSUME NEW x, NEW y, IsArray(x), IsArray(y), Shape(x) = Shape(y), Steps(x) # 0,
         NEW tol \in Nat, NEW p \in [Envs(x) -> Envs(x)],
         \A j \in Envs(x) : ~Beyond(Cost(x, y, j, p[j]), tol),
         NEW t \in DOMAIN x.rows
  PROVE  Exceeding(Relabel(x, p), y, t, tol) = {}
<1>1. Steps(x) = Steps(y) /\ Envs(x) = Envs(y)
  BY DEF Shape, Envs
<1>2. /\ Envs(Relabel(x, p)) = Envs(x)
      /\ \A e \in Envs(x) : Relabel(x, p).rows[t][e] = x.rows[t][p[e]]
  BY DEF Relabel, Envs, IsArray
<1>3. \A e \in Envs(x) : x.rows[t][p[e]] \in Number /\ y.rows[t][e] \in Number
  <2>1. t \in DOMAIN y.rows
    BY <1>1 DEF Steps, IsArray
  <2>2. x.rows[t] \in [Envs(x) -> Number] /\ y.rows[t] \in [Envs(y) -> Number]
    BY <2>1 DEF IsArray
  <2>3. QED
    BY <1>1, <2>2
<1>4. ASSUME NEW e \in Envs(x)
      PROVE  /\ NaN \notin {x.rows[t][p[e]], y.rows[t][e]}
             /\ ~(Magnitude(x.rows[t][p[e]] - y.rows[t][e]) > tol)
  <2>1. Cost(x, y, e, p[e]) # NaN /\ ~(Cost(x, y, e, p[e]) > tol)
    BY DEF Beyond
  <2>2. /\ Cost(x, y, e, p[e]) \in Nat
        /\ Distance(x.rows[t][p[e]], y.rows[t][e]) # NaN
        /\ Distance(x.rows[t][p[e]], y.rows[t][e]) <= Cost(x, y, e, p[e])
    BY <1>1, <2>1, CostOf
  <2>3. /\ Distance(x.rows[t][p[e]], y.rows[t][e]) \in Nat
        /\ Distance(x.rows[t][p[e]], y.rows[t][e]) = Magnitude(x.rows[t][p[e]] - y.rows[t][e])
        /\ NaN \notin {x.rows[t][p[e]], y.rows[t][e]}
    BY <1>3, <2>2, DistanceType
  <2>4. QED
    BY <2>1, <2>2, <2>3
<1>5. QED
  BY <1>2, <1>4 DEF Exceeding

LEMMA MatchingFollows == Reported /\ Explained /\ Judged => PermutationMeansMatching
<1> SUFFICES ASSUME Reported, Explained, Judged,
                    NEW i \in Run({"env_permutation_invariance"}), outcomes[i].status = "pass"
             PROVE  \E p \in Bijections(Baseline(i).envs) :
                      \A t \in DOMAIN Baseline(i).rows :
                        Exceeding(Relabel(Baseline(i), p), Candidate(i), t, M.oracles[i].tol) = {}
  BY DEF PermutationMeansMatching
<1> DEFINE spec == M.oracles[i]
           x == Baseline(i)
           y == Candidate(i)
<1>1. /\ spec.type = "env_permutation_invariance"
      /\ spec.signal \in DOMAIN B.signals \cap DOMAIN C.signals
      /\ outcomes[i] \in OutcomesOf(spec, B, C, Warmup(M))
      /\ IsArray(x) /\ IsArray(y)
  BY Ran
<1>2. spec.tol \in Nat
  <2>1. i \in Run(Gated)
    BY DEF Run, Gated
  <2>2. QED
    BY <2>1, Gating
<1>3. Permutation(spec, x, y).status = "pass"
  <2>1. spec.tol # None
    BY <1>2, NoneAssumption
  <2>2. OutcomesOf(spec, B, C, Warmup(M)) = {Permutation(spec, x, y)}
    BY <1>1, <2>1 DEF OutcomesOf, Gated, Pairwise, Baseline, Candidate, Window
  <2>3. QED
    BY <1>1, <2>2
<1> DEFINE p == [j \in Envs(x) |-> Closest(x, y, j)]
<1> HIDE DEF spec, x, y
<1>4. /\ Shape(x) = Shape(y) /\ Steps(x) # 0
      /\ Cardinality({Closest(x, y, j) : j \in Envs(y)}) = x.envs
      /\ \A j \in Envs(y) : ~Beyond(Cost(x, y, j, Closest(x, y, j)), spec.tol)
  BY <1>3, PermutationPassed
<1>5. Steps(x) = Steps(y) /\ Envs(x) = Envs(y)
  BY <1>4 DEF Shape, Envs
<1>6. p \in [Envs(x) -> Envs(x)]
  <2>1. \A j \in Envs(x) : Closest(x, y, j) \in Envs(x)
    BY <1>1, <1>4, <1>5, ClosestOf
  <2>2. QED
    BY <2>1
<1>7. \A a, b \in Envs(x) : p[a] = p[b] => a = b
  <2>1. DOMAIN p = Envs(x) /\ p = [e \in DOMAIN p |-> p[e]]
    OBVIOUS
  <2>2. Range(p) = {Closest(x, y, j) : j \in Envs(y)}
    BY <1>5 DEF Range
  <2>3. Cardinality(Range(p)) = Cardinality(Envs(x)) /\ IsFiniteSet(Envs(x))
    BY <1>1, <1>4, <2>2, EnvsOf
  <2> HIDE DEF p
  <2>4. QED
    BY <2>1, <2>3, OntoIsOneToOne
<1>8. p \in Bijections(x.envs)
  BY <1>6, <1>7 DEF Bijections, Envs
<1>9. \A j \in Envs(x) : ~Beyond(Cost(x, y, j, p[j]), spec.tol)
  BY <1>4, <1>5
<1> HIDE DEF p
<1>10. \A t \in DOMAIN x.rows : Exceeding(Relabel(x, p), y, t, spec.tol) = {}
  BY <1>1, <1>2, <1>4, <1>6, <1>9, MatchedIsWithin
<1>11. QED
  BY <1>8, <1>10 DEF spec, x, y

-----------------------------------------------------------------------------
(* Ranks and aggregates.                                                     *)

\* A row of n errors.
IsRow(row, n) == row \in [1..n -> Nat \cup {NaN}] /\ n \in Nat \ {0}

\* The environments above a number, and those that reach it.
Over(row, v)   == {e \in DOMAIN row : row[e] > v}
Reached(row, v) == {e \in DOMAIN row : row[e] >= v}

LEMMA RowOf ==
  ASSUME NEW n, NEW row, IsRow(row, n)
  PROVE  /\ Len(row) = n /\ IsFiniteSet(DOMAIN row) /\ Cardinality(DOMAIN row) = n
         /\ DOMAIN row = 1..n
         /\ IsFiniteSet(Range(row)) /\ Range(row) # {} /\ Range(row) \subseteq Nat \cup {NaN}
<1>1. n \in Nat \ {0} /\ DOMAIN row = 1..n /\ row = [e \in DOMAIN row |-> row[e]]
  BY DEF IsRow
<1>2. row \in Seq(Nat \cup {NaN})
  BY SeqDef DEF IsRow
<1>3. Len(row) = n
  BY <1>1, <1>2, LenProperties
<1>4. IsFiniteSet(DOMAIN row) /\ Cardinality(DOMAIN row) = n
  BY <1>1, FS_Interval
<1>5. IsFiniteSet(Range(row))
  BY <1>1, <1>4, FiniteRange
<1>6. Range(row) # {} /\ Range(row) \subseteq Nat \cup {NaN}
  BY <1>1 DEF IsRow, Range
<1>7. QED
  BY <1>1, <1>3, <1>4, <1>5, <1>6

\* Sets of environments that grow have more of them.
LEMMA CountOf ==
  ASSUME NEW n, NEW row, IsRow(row, n), NEW S \in SUBSET DOMAIN row, NEW T \in SUBSET S
  PROVE  /\ IsFiniteSet(S) /\ IsFiniteSet(T)
         /\ Cardinality(S) \in Nat /\ Cardinality(T) \in Nat
         /\ Cardinality(T) <= Cardinality(S)
<1>1. IsFiniteSet(S)
  BY RowOf, FS_Subset
<1>2. IsFiniteSet(T) /\ Cardinality(T) <= Cardinality(S)
  BY <1>1, FS_Subset
<1>3. QED
  BY <1>1, <1>2, FS_CardinalityType

\* A row of numbers has a value of every rank.
LEMMA RankedOf ==
  ASSUME NEW n, NEW row, IsRow(row, n), NaN \notin Range(row), NEW k \in 1..n
  PROVE  /\ Ranked(row, k) \in Range(row)
         /\ Cardinality(Over(row, Ranked(row, k))) < k
         /\ k <= Cardinality(Reached(row, Ranked(row, k)))
<1> DEFINE V == {v \in Range(row) : k <= Cardinality(Reached(row, v))}
<1>1. /\ IsFiniteSet(Range(row)) /\ Range(row) # {} /\ Range(row) \in SUBSET Int
      /\ \A e \in DOMAIN row : row[e] \in Range(row)
      /\ n \in Nat \ {0} /\ Cardinality(DOMAIN row) = n
  <2>1. IsFiniteSet(Range(row)) /\ Range(row) # {} /\ Range(row) \subseteq Nat \cup {NaN}
    BY RowOf
  <2>2. Cardinality(DOMAIN row) = n
    BY RowOf
  <2>3. n \in Nat \ {0}
    BY DEF IsRow
  <2>4. \A e \in DOMAIN row : row[e] \in Range(row)
    BY DEF Range
  <2>5. QED
    BY <2>1, <2>2, <2>3, <2>4
<1>2. V # {}
  <2>1. Min(Range(row)) \in Range(row) /\ \A v \in Range(row) : Min(Range(row)) <= v
    BY <1>1, MinOf
  <2>2. Reached(row, Min(Range(row))) = DOMAIN row
    BY <1>1, <2>1 DEF Reached
  <2>3. QED
    BY <1>1, <2>1, <2>2
<1>3. IsFiniteSet(V) /\ V \in SUBSET Int
  BY <1>1, FS_Subset
<1>4. PICK v \in V : \A w \in V : w <= v
  <2> HIDE DEF V
  <2>1. QED
    BY <1>2, <1>3, MaxOf
<1>5. Cardinality(Over(row, v)) < k
  <2>1. SUFFICES ASSUME ~(Cardinality(Over(row, v)) < k) PROVE FALSE
    OBVIOUS
  <2>2. IsFiniteSet(Over(row, v)) /\ Cardinality(Over(row, v)) \in Nat
    BY CountOf DEF Over
  <2>3. Over(row, v) # {}
    BY <2>1, <2>2, FS_EmptySet
  <2> DEFINE W == {u \in Range(row) : u > v}
  <2>4. W # {}
    BY <1>1, <2>3 DEF Over
  <2>5. IsFiniteSet(W) /\ W \in SUBSET Int
    BY <1>1, FS_Subset
  <2>6. PICK w \in W : \A u \in W : w <= u
    <3> HIDE DEF W
    <3>1. QED
      BY <2>4, <2>5, MinOf
  <2>7. v \in Int /\ w \in Int /\ w > v /\ w \in Range(row)
    BY <1>1
  <2>8. \A e \in DOMAIN row : row[e] > v <=> row[e] >= w
    BY <1>1, <2>6, <2>7
  <2>9. Reached(row, w) = Over(row, v)
    BY <2>8 DEF Reached, Over
  <2>10. w \in V
    BY <2>1, <2>2, <2>7, <2>9
  <2>11. QED
    BY <1>4, <2>7, <2>10
<1>6. \E u \in Range(row) : /\ Cardinality({e \in DOMAIN row : row[e] > u}) < k
                             /\ k <= Cardinality({e \in DOMAIN row : row[e] >= u})
  BY <1>5 DEF Over, Reached
<1>7. QED
  BY <1>6 DEF Ranked, Over, Reached

\* The value of rank k is beyond a limit when at least k environments are.
LEMMA RankedIsOver ==
  ASSUME NEW n, NEW row, IsRow(row, n), NaN \notin Range(row), NEW k \in 1..n,
         NEW limit \in Int
  PROVE  Ranked(row, k) > limit <=> ~(Cardinality(Over(row, limit)) < k)
<1> DEFINE v == Ranked(row, k)
<1>1. v \in Range(row) /\ Cardinality(Over(row, v)) < k /\ k <= Cardinality(Reached(row, v))
  BY RankedOf
<1>2. v \in Int /\ \A e \in DOMAIN row : row[e] \in Int
  <2>1. Range(row) \subseteq Nat \cup {NaN}
    BY RowOf
  <2>2. \A e \in DOMAIN row : row[e] \in Range(row)
    BY DEF Range
  <2> HIDE DEF v
  <2>3. QED
    BY <1>1, <2>1, <2>2
<1> HIDE DEF v
<1>3. \A u : Over(row, u) \in SUBSET DOMAIN row /\ Reached(row, u) \in SUBSET DOMAIN row
  BY DEF Over, Reached
<1>4. /\ Cardinality(Over(row, limit)) \in Nat
      /\ Cardinality(Over(row, v)) \in Nat /\ Cardinality(Reached(row, v)) \in Nat
  BY <1>3, CountOf
<1>5. CASE v > limit
  <2>1. Reached(row, v) \in SUBSET Over(row, limit)
    BY <1>2, <1>5 DEF Over, Reached
  <2>2. Cardinality(Reached(row, v)) <= Cardinality(Over(row, limit))
    BY <1>3, <2>1, CountOf
  <2>3. QED
    BY <1>1, <1>4, <1>5, <2>2 DEF v
<1>6. CASE ~(v > limit)
  <2>1. Over(row, limit) \in SUBSET Over(row, v)
    BY <1>2, <1>6 DEF Over
  <2>2. Cardinality(Over(row, limit)) <= Cardinality(Over(row, v))
    BY <1>3, <2>1, CountOf
  <2>3. QED
    BY <1>1, <1>4, <1>6, <2>2 DEF v
<1>7. QED
  BY <1>5, <1>6

\* An aggregate over environments allows as many of them beyond a limit as Allowance says.
LEMMA AggregateMeans ==
  ASSUME NEW n, NEW row, IsRow(row, n), NEW limit \in Int,
         NEW how \in {"max", "any", "second_largest", "all"}
  PROVE  ~Beyond(Aggregate(row, how), limit)
           <=> NaN \notin Range(row) /\ Cardinality(Over(row, limit)) <= Allowance(how, n)
<1>1. n \in Nat \ {0} /\ Len(row) = n
  BY RowOf DEF IsRow
<1>2. Min({2, n}) = IF 2 <= n THEN 2 ELSE n
  <2>1. 2 \in Int /\ n \in Int
    BY <1>1
  <2>2. QED
    BY <2>1, SmallerOf
<1> DEFINE k == RankOf(how, n)
<1>3. k \in 1..n /\ Allowance(how, n) = k - 1
  <2>1. how = "second_largest" => k = Min({2, n}) /\ Allowance(how, n) = IF n = 1 THEN 0 ELSE 1
    BY DEF RankOf, Allowance
  <2>2. how = "all" => k = n /\ Allowance(how, n) = n - 1
    BY DEF RankOf, Allowance
  <2>3. how \in {"max", "any"} => k = 1 /\ Allowance(how, n) = 0
    BY DEF RankOf, Allowance
  <2> HIDE DEF k
  <2>4. QED
    BY <1>1, <1>2, <2>1, <2>2, <2>3
<1>4. CASE NaN \in Range(row)
  BY <1>4 DEF Beyond, Aggregate
<1>5. CASE NaN \notin Range(row)
  <2>1. Aggregate(row, how) = Ranked(row, k)
    BY <1>1, <1>5 DEF Aggregate
  <2> HIDE DEF k
  <2>2. Ranked(row, k) # NaN
    BY <1>3, <1>5, RankedOf
  <2>3. Ranked(row, k) > limit <=> ~(Cardinality(Over(row, limit)) < k)
    BY <1>3, <1>5, RankedIsOver
  <2>4. Cardinality(Over(row, limit)) \in Nat
    BY CountOf DEF Over
  <2>5. QED
    BY <1>3, <1>5, <2>1, <2>2, <2>3, <2>4 DEF Beyond
<1>6. QED
  BY <1>4, <1>5

-----------------------------------------------------------------------------
(* Trajectories.                                                             *)

\* Every step of an error curve is a row of errors.
LEMMA CurveOf ==
  ASSUME NEW x, NEW y, IsArray(x), IsArray(y), Shape(x) = Shape(y)
  PROVE  /\ DOMAIN ErrorCurve(x, y) = DOMAIN x.rows
         /\ \A t \in DOMAIN x.rows :
              /\ ErrorCurve(x, y)[t] \in [1..x.envs -> Nat \cup {NaN}]
              /\ \A e \in Envs(x) :
                   /\ ErrorCurve(x, y)[t][e] = Distance(x.rows[t][e], y.rows[t][e])
                   /\ x.rows[t][e] \in Number /\ y.rows[t][e] \in Number
<1>1. Steps(x) = Steps(y) /\ Envs(x) = Envs(y) /\ Envs(x) = 1..x.envs
  BY DEF Shape, Envs
<1>2. DOMAIN x.rows = DOMAIN y.rows
  BY <1>1 DEF Steps, IsArray
<1>3. \A t \in DOMAIN x.rows : \A e \in Envs(x) :
        x.rows[t][e] \in Number /\ y.rows[t][e] \in Number
  <2>1. \A t \in DOMAIN x.rows : x.rows[t] \in [Envs(x) -> Number]
    BY DEF IsArray
  <2>2. \A t \in DOMAIN x.rows : y.rows[t] \in [Envs(x) -> Number]
    BY <1>1, <1>2 DEF IsArray
  <2>3. QED
    BY <2>1, <2>2
<1>4. \A t \in DOMAIN x.rows : \A e \in Envs(x) :
        Distance(x.rows[t][e], y.rows[t][e]) \in Nat \cup {NaN}
  BY <1>3, DistanceType
<1>5. QED
  BY <1>1, <1>3, <1>4 DEF ErrorCurve

LEMMA ExceedingIs ==
  ASSUME NEW x, NEW y, IsArray(x), IsArray(y), Shape(x) = Shape(y), NEW t \in DOMAIN x.rows,
         NEW limit
  PROVE  /\ NonFinite(x, y, t) <=> NaN \in Range(ErrorCurve(x, y)[t])
         /\ ~NonFinite(x, y, t) => Exceeding(x, y, t, limit) = Over(ErrorCurve(x, y)[t], limit)
<1> DEFINE row == ErrorCurve(x, y)[t]
<1>1. DOMAIN row = Envs(x)
  BY CurveOf DEF Envs
<1>2. \A e \in Envs(x) : /\ row[e] = Distance(x.rows[t][e], y.rows[t][e])
                         /\ x.rows[t][e] \in Number /\ y.rows[t][e] \in Number
  BY CurveOf
<1>3. \A e \in Envs(x) :
        /\ row[e] = NaN <=> NaN \in {x.rows[t][e], y.rows[t][e]}
        /\ row[e] # NaN => row[e] = Magnitude(x.rows[t][e] - y.rows[t][e])
  BY <1>2, DistanceType
<1> HIDE DEF row
<1>4. NonFinite(x, y, t) <=> NaN \in Range(row)
  BY <1>1, <1>3 DEF NonFinite, Range
<1>5. ASSUME ~NonFinite(x, y, t) PROVE Exceeding(x, y, t, limit) = Over(row, limit)
  BY <1>1, <1>3, <1>5 DEF NonFinite, Exceeding, Over
<1>6. QED
  BY <1>4, <1>5 DEF row

\* What a trajectory oracle has established when it decides.
LEMMA TrajectoryDecides ==
  ASSUME NEW spec, NEW x, NEW y, NEW d,
         Trajectory(spec, x, y, d).status \in {"pass", "fail"}
  PROVE  /\ Shape(x) = Shape(y)
         /\ ~(Steps(x) * x.envs < spec.floor)
         /\ Trajectory(spec, x, y, d).status = "pass"
              <=> \A t \in DOMAIN ErrorCurve(x, y) :
                    ~Beyond(Aggregate(ErrorCurve(x, y)[t], spec.how), spec.tol)
<1>1. /\ Incomparable.status = "inconclusive" /\ Insufficient.status = "inconclusive"
      /\ Pass.status = "pass" /\ \A r : Exceeded(spec, r).status = "fail"
  BY DEF Incomparable, Insufficient, Inconclusive, Pass, Exceeded, Outcome
<1>2. Shape(x) = Shape(y)
  BY <1>1 DEF Trajectory
<1>3. ~(Steps(x) * x.envs < spec.floor)
  BY <1>1, <1>2 DEF Trajectory
<1>4. QED
  BY <1>1, <1>2, <1>3 DEF Trajectory

\* Enough samples leave no environment count of 0.
LEMMA SomeEnvironment ==
  ASSUME NEW x, IsArray(x), NEW floor \in Nat \ {0}, ~(Steps(x) * x.envs < floor)
  PROVE  x.envs \in Nat \ {0} /\ Steps(x) \in Nat \ {0}
<1>1. x.envs \in Nat /\ Steps(x) \in Nat
  BY DEF IsArray, Steps
<1>2. QED
  BY <1>1

\* The outcome of a trajectory oracle that decides.
LEMMA TrajectoryRan ==
  ASSUME Reported, Explained, Judged,
         NEW i \in Run({"trajectory_equivalence", "ulp_equivalence"}),
         outcomes[i].status \in {"pass", "fail"}
  PROVE  /\ M.oracles[i].tol \in Nat /\ M.oracles[i].floor \in Nat \ {0}
         /\ outcomes[i] = Trajectory(M.oracles[i], Baseline(i), Candidate(i),
                                     ConfigDifferences(B, C))
<1> DEFINE spec == M.oracles[i]
<1>1. /\ spec.type \in {"trajectory_equivalence", "ulp_equivalence"}
      /\ spec.signal \in DOMAIN B.signals \cap DOMAIN C.signals
      /\ outcomes[i] \in OutcomesOf(spec, B, C, Warmup(M))
  BY Ran
<1>2. i \in Run(Gated)
  BY DEF Run, Gated
<1>3. spec.tol \in Nat /\ spec.floor \in Nat \ {0}
  BY <1>2, Gating
<1>4. spec.tol # None
  BY <1>3, NoneAssumption
<1> HIDE DEF spec
<1>5. OutcomesOf(spec, B, C, Warmup(M))
        = {Trajectory(spec, Trim(B.signals[spec.signal], Warmup(M)),
                      Trim(C.signals[spec.signal], Warmup(M)), ConfigDifferences(B, C))}
  BY <1>1, <1>4 DEF OutcomesOf, Gated, Pairwise
<1>6. QED
  BY <1>1, <1>3, <1>5 DEF Baseline, Candidate, Window, spec

LEMMA TrajectoryFollows == Reported /\ Explained /\ Judged => TrajectoryMeansTolerance
<1> SUFFICES ASSUME Reported, Explained, Judged,
                    NEW i \in Run({"trajectory_equivalence", "ulp_equivalence"}),
                    outcomes[i].status \in {"pass", "fail"}, M.oracles[i].how # "final"
             PROVE  outcomes[i].status = "pass" <=>
                      \A t \in DOMAIN Baseline(i).rows :
                        /\ ~NonFinite(Baseline(i), Candidate(i), t)
                        /\ Cardinality(Exceeding(Baseline(i), Candidate(i), t, M.oracles[i].tol))
                             <= Allowance(M.oracles[i].how, Baseline(i).envs)
  BY DEF TrajectoryMeansTolerance
<1> DEFINE spec == M.oracles[i]
           x == Baseline(i)
           y == Candidate(i)
           d == ConfigDifferences(B, C)
           curve == ErrorCurve(x, y)
<1>1. IsArray(x) /\ IsArray(y) /\ CriterionIsDeclared(spec)
  BY Ran
<1>2. /\ spec.tol \in Nat /\ spec.floor \in Nat \ {0}
      /\ outcomes[i] = Trajectory(spec, x, y, d)
  BY TrajectoryRan
<1>3. spec.how \in {"max", "any", "second_largest", "all"}
  BY <1>1 DEF CriterionIsDeclared
<1> HIDE DEF spec, x, y, d
<1>4. /\ Shape(x) = Shape(y) /\ ~(Steps(x) * x.envs < spec.floor)
      /\ outcomes[i].status = "pass"
           <=> \A t \in DOMAIN curve : ~Beyond(Aggregate(curve[t], spec.how), spec.tol)
  BY <1>2, TrajectoryDecides DEF spec
<1>5. x.envs \in Nat \ {0}
  BY <1>1, <1>2, <1>4, SomeEnvironment
<1>6. ASSUME NEW t \in DOMAIN x.rows
      PROVE  ~Beyond(Aggregate(curve[t], spec.how), spec.tol)
               <=> /\ ~NonFinite(x, y, t)
                   /\ Cardinality(Exceeding(x, y, t, spec.tol)) <= Allowance(spec.how, x.envs)
  <2>1. IsRow(curve[t], x.envs)
    BY <1>1, <1>4, <1>5, CurveOf DEF IsRow
  <2>2. ~Beyond(Aggregate(curve[t], spec.how), spec.tol)
          <=> NaN \notin Range(curve[t])
                /\ Cardinality(Over(curve[t], spec.tol)) <= Allowance(spec.how, x.envs)
    BY <1>2, <1>3, <2>1, AggregateMeans
  <2>3. /\ NonFinite(x, y, t) <=> NaN \in Range(curve[t])
        /\ ~NonFinite(x, y, t) => Exceeding(x, y, t, spec.tol) = Over(curve[t], spec.tol)
    BY <1>1, <1>4, ExceedingIs
  <2>4. QED
    BY <2>2, <2>3
<1>7. DOMAIN curve = DOMAIN x.rows
  BY <1>1, <1>4, CurveOf
<1>8. QED
  BY <1>4, <1>6, <1>7 DEF spec, x, y

-----------------------------------------------------------------------------
(* One outcome per oracle and pair of arrays.                                *)

Certain == Pairwise \ {"statistical_equivalence"}

\* The outcome of an oracle that draws nothing and has its tolerance.
Judgement(spec, x, y, d) ==
  CASE spec.type \in {"trajectory_equivalence", "ulp_equivalence"} -> Trajectory(spec, x, y, d)
    [] spec.type = "exact_equivalence"          -> Exact(x, y, d)
    [] spec.type = "trajectory_envelope"        -> Envelope(spec, x, y, d)
    [] spec.type = "event_equivalence"          -> Event(spec, x, y)
    [] spec.type = "decision_equivalence"       -> Decision(spec, x, y)
    [] spec.type = "env_permutation_invariance" -> Permutation(spec, x, y)

LEMMA JudgementIs ==
  ASSUME NEW spec, spec.type \in Certain, spec.type \in Gated => spec.tol # None,
         NEW b, NEW c, NEW w, spec.signal \in DOMAIN b.signals \cap DOMAIN c.signals
  PROVE  OutcomesOf(spec, b, c, w)
           = {Judgement(spec, Trim(b.signals[spec.signal], w), Trim(c.signals[spec.signal], w),
                        ConfigDifferences(b, c))}
<1> DEFINE x == Trim(b.signals[spec.signal], w)
           y == Trim(c.signals[spec.signal], w)
           d == ConfigDifferences(b, c)
<1>1. spec.type \in Pairwise
  BY DEF Certain
<1>2. CASE spec.type \in {"trajectory_equivalence", "ulp_equivalence"}
  BY <1>1, <1>2 DEF OutcomesOf, Judgement
<1>3. CASE spec.type = "exact_equivalence"
  BY <1>1, <1>3 DEF OutcomesOf, Judgement
<1>4. CASE spec.type = "trajectory_envelope"
  BY <1>1, <1>4 DEF OutcomesOf, Judgement
<1>5. CASE spec.type = "event_equivalence"
  BY <1>1, <1>5 DEF OutcomesOf, Judgement
<1>6. CASE spec.type = "decision_equivalence"
  BY <1>1, <1>6 DEF OutcomesOf, Judgement
<1>7. CASE spec.type = "env_permutation_invariance"
  BY <1>1, <1>7 DEF OutcomesOf, Judgement
<1>8. QED
  BY <1>2, <1>3, <1>4, <1>5, <1>6, <1>7 DEF Certain, Pairwise, Gated

\* What an oracle reports on two arrays put in the place of the signals.
LEMMA OnArrays ==
  ASSUME Reported, NEW spec, spec.type \in Certain, spec.type \in Gated => spec.tol # None,
         spec.signal \in DOMAIN B.signals \cap DOMAIN C.signals,
         NEW x, NEW y, IsArray(x), IsArray(y)
  PROVE  \E d : StatusOn(spec, x, y) = {Judgement(spec, x, y, d).status}
<1> DEFINE b == With(B, spec.signal, x)
           c == With(C, spec.signal, y)
<1>1. "signals" \in DOMAIN B /\ "signals" \in DOMAIN C
  BY Subjects
<1>2. /\ b.signals = [B.signals EXCEPT ![spec.signal] = x]
      /\ c.signals = [C.signals EXCEPT ![spec.signal] = y]
  BY <1>1 DEF With
<1>3. /\ spec.signal \in DOMAIN b.signals \cap DOMAIN c.signals
      /\ b.signals[spec.signal] = x /\ c.signals[spec.signal] = y
  BY <1>2
<1>4. Trim(x, 0) = x /\ Trim(y, 0) = y
  BY TrimmedOfNothing DEF IsArray
<1> HIDE DEF b, c
<1>5. OutcomesOf(spec, b, c, 0) = {Judgement(spec, x, y, ConfigDifferences(b, c))}
  BY <1>3, <1>4, JudgementIs
<1>6. QED
  BY <1>5 DEF StatusOn, b, c

\* What an oracle of an experiment has reported.
LEMMA Reporting ==
  ASSUME Reported, Explained, Judged, NEW i \in Run(Certain),
         outcomes[i].status # "inconclusive"
  PROVE  /\ M.oracles[i].type \in Gated => M.oracles[i].tol \in Nat /\ M.oracles[i].floor \in Nat \ {0}
         /\ outcomes[i] = Judgement(M.oracles[i], Baseline(i), Candidate(i), ConfigDifferences(B, C))
<1> DEFINE spec == M.oracles[i]
<1>1. /\ spec.type \in Certain
      /\ spec.signal \in DOMAIN B.signals \cap DOMAIN C.signals
      /\ outcomes[i] \in OutcomesOf(spec, B, C, Warmup(M))
  BY Ran
<1>2. spec.type \in Gated => spec.tol \in Nat /\ spec.floor \in Nat \ {0}
  <2>1. spec.type \in Gated => i \in Run(Gated)
    BY DEF Run
  <2>2. QED
    BY <2>1, Gating
<1>3. spec.type \in Gated => spec.tol # None
  BY <1>2, NoneAssumption
<1>4. outcomes[i] = Judgement(spec, Trim(B.signals[spec.signal], Warmup(M)),
                              Trim(C.signals[spec.signal], Warmup(M)), ConfigDifferences(B, C))
  BY <1>1, <1>3, JudgementIs
<1>5. QED
  BY <1>2, <1>4 DEF Baseline, Candidate, Window

-----------------------------------------------------------------------------
(* Wider tolerances.                                                         *)

\* A criterion with another tolerance.
LEMMA WithTolerance ==
  ASSUME NEW spec, SpecFields \subseteq DOMAIN spec, NEW t
  PROVE  LET s == [spec EXCEPT !.tol = t]
         IN  /\ s.tol = t /\ s.type = spec.type /\ s.signal = spec.signal
             /\ s.floor = spec.floor /\ s.how = spec.how /\ s.unit = spec.unit
             /\ s.condition = spec.condition /\ s.threshold = spec.threshold
             /\ s.polarity = spec.polarity
BY DEF SpecFields

\* An aggregate is an error, or NaN.
LEMMA AggregateType ==
  ASSUME NEW n, NEW row, IsRow(row, n),
         NEW how \in {"max", "any", "second_largest", "all", "final"}
  PROVE  Aggregate(row, how) \in Nat \cup {NaN}
<1>1. /\ n \in Nat \ {0} /\ Len(row) = n /\ DOMAIN row = 1..n
      /\ Range(row) \subseteq Nat \cup {NaN}
  BY RowOf DEF IsRow
<1>2. CASE NaN \in Range(row)
  BY <1>2 DEF Aggregate
<1>3. CASE NaN \notin Range(row) /\ how = "final"
  <2>1. row[n] \in Nat \cup {NaN}
    BY <1>1 DEF IsRow
  <2>2. QED
    BY <1>1, <1>3, <2>1 DEF Aggregate
<1>4. CASE NaN \notin Range(row) /\ how # "final"
  <2>1. RankOf(how, n) \in 1..n
    <3>1. Min({2, n}) = IF 2 <= n THEN 2 ELSE n
      BY <1>1, SmallerOf
    <3>2. QED
      BY <1>1, <1>4, <3>1 DEF RankOf
  <2>2. Ranked(row, RankOf(how, n)) \in Range(row)
    BY <1>4, <2>1, RankedOf
  <2>3. QED
    BY <1>1, <1>4, <2>2 DEF Aggregate
<1>5. QED
  BY <1>2, <1>3, <1>4

LEMMA TrajectoryWidens ==
  ASSUME NEW spec, NEW wider, NEW x, NEW y, NEW d, NEW f, IsArray(x), IsArray(y),
         CriterionIsDeclared(spec), spec.tol \in Nat, wider.tol \in Nat, spec.tol <= wider.tol,
         spec.floor \in Nat \ {0}, wider.floor = spec.floor, wider.how = spec.how,
         Trajectory(spec, x, y, d).status = "pass"
  PROVE  Trajectory(wider, x, y, f).status = "pass"
<1> DEFINE curve == ErrorCurve(x, y)
<1>1. /\ Shape(x) = Shape(y)
      /\ ~(Steps(x) * x.envs < spec.floor)
      /\ \A t \in DOMAIN curve : ~Beyond(Aggregate(curve[t], spec.how), spec.tol)
  BY TrajectoryDecides
<1>2. x.envs \in Nat \ {0}
  BY <1>1, SomeEnvironment
<1>3. spec.how \in {"max", "any", "second_largest", "all", "final"}
  BY DEF CriterionIsDeclared
<1>4. \A t \in DOMAIN curve : IsRow(curve[t], x.envs)
  BY <1>1, <1>2, CurveOf DEF IsRow
<1> HIDE DEF curve
<1>5. \A t \in DOMAIN curve : Aggregate(curve[t], spec.how) \in Nat \cup {NaN}
  BY <1>3, <1>4, AggregateType
<1>6. \A t \in DOMAIN curve : ~Beyond(Aggregate(curve[t], wider.how), wider.tol)
  BY <1>1, <1>5 DEF Beyond
<1>7. Trajectory(wider, x, y, f) = Pass
  BY <1>1, <1>6 DEF Trajectory, curve
<1>8. QED
  BY <1>7 DEF Pass, Outcome

LEMMA PermutationWidens ==
  ASSUME NEW spec, NEW wider, NEW x, NEW y, IsArray(x), IsArray(y),
         spec.tol \in Nat, wider.tol \in Nat, spec.tol <= wider.tol,
         Permutation(spec, x, y).status = "pass"
  PROVE  Permutation(wider, x, y).status = "pass"
<1>1. /\ Shape(x) = Shape(y) /\ Steps(x) # 0
      /\ Cardinality({Closest(x, y, j) : j \in Envs(y)}) = x.envs
      /\ \A j \in Envs(y) : ~Beyond(Cost(x, y, j, Closest(x, y, j)), spec.tol)
  BY PermutationPassed
<1>2. Steps(x) = Steps(y) /\ Envs(x) = Envs(y)
  BY <1>1 DEF Shape, Envs
<1>3. \A j \in Envs(y) : Cost(x, y, j, Closest(x, y, j)) \in Nat \cup {NaN}
  BY <1>1, <1>2, ClosestOf, CostOf
<1>4. \A j \in Envs(y) : ~Beyond(Cost(x, y, j, Closest(x, y, j)), wider.tol)
  BY <1>1, <1>3 DEF Beyond
<1>5. Permutation(wider, x, y) = Pass
  BY <1>1, <1>4 DEF Permutation, Assigned
<1>6. QED
  BY <1>5 DEF Pass, Outcome

\* Two criteria on the same event find the same times.
LEMMA SameTimes ==
  ASSUME NEW p, NEW q, p.condition = q.condition, p.threshold = q.threshold, NEW x, NEW y,
         NEW e
  PROVE  TimingDelta(p, x, y, e) = TimingDelta(q, x, y, e)
<1>1. \A v : Hit(v, p) <=> Hit(v, q)
  BY DEF Hit
<1>2. ASSUME NEW a PROVE FirstCrossing(a, e, p) = FirstCrossing(a, e, q)
  <2>1. {t \in DOMAIN a.rows : Hit(a.rows[t][e], p)} = {t \in DOMAIN a.rows : Hit(a.rows[t][e], q)}
    BY <1>1
  <2>2. QED
    BY <2>1 DEF FirstCrossing
<1>3. QED
  BY <1>2 DEF TimingDelta

LEMMA EventWidens ==
  ASSUME NEW spec, NEW wider, NEW x, NEW y, IsArray(x), IsArray(y),
         spec.tol \in Nat, wider.tol \in Nat, spec.tol <= wider.tol,
         wider.unit = spec.unit, wider.floor = spec.floor,
         wider.condition = spec.condition, wider.threshold = spec.threshold,
         Event(spec, x, y).status = "pass"
  PROVE  Event(wider, x, y).status = "pass"
<1>1. /\ spec.unit = "steps" /\ 0 \notin {Steps(x), Steps(y)}
      /\ ~(Cardinality(Paired(x, y)) < spec.floor)
      /\ CountMismatches(spec, x, y) = {}
      /\ \A e \in Paired(x, y) : ~(TimingDelta(spec, x, y, e) > spec.tol)
  BY DEF Event, Raised, Insufficient, Inconclusive, Outcome
<1>2. CountMismatches(wider, x, y) = {}
  BY <1>1, SameCrossings
<1>3. \A e \in Paired(x, y) : ~(TimingDelta(wider, x, y, e) > wider.tol)
  <2>1. \A e : TimingDelta(wider, x, y, e) = TimingDelta(spec, x, y, e)
    BY SameTimes
  <2>2. \A e : TimingDelta(spec, x, y, e) \in Nat
    BY DeltaType
  <2>3. QED
    BY <1>1, <2>1, <2>2
<1>4. Event(wider, x, y) = Pass
  BY <1>1, <1>2, <1>3 DEF Event
<1>5. QED
  BY <1>4 DEF Pass, Outcome

LEMMA PairedOf ==
  ASSUME NEW x, NEW y, IsArray(x), IsArray(y)
  PROVE  IsFiniteSet(Paired(x, y)) /\ Cardinality(Paired(x, y)) \in Nat
<1>1. x.envs \in Nat /\ y.envs \in Nat
  BY DEF IsArray
<1>2. Min({x.envs, y.envs}) \in Nat
  BY <1>1, SmallerOf
<1>3. IsFiniteSet(Paired(x, y))
  BY <1>2, FS_Interval DEF Paired
<1>4. QED
  BY <1>3, FS_CardinalityType

\* A product grows with its factor.
LEMMA ProductGrows ==
  ASSUME NEW n \in Nat, NEW a \in Nat, NEW b \in Nat, a <= b
  PROVE  a * n \in Nat /\ b * n \in Nat /\ a * n <= b * n
<1>1. PICK k \in Nat : b = a + k
  <2>1. b - a \in Nat /\ b = a + (b - a)
    OBVIOUS
  <2>2. QED
    BY <2>1
<1>2. b * n = a * n + k * n
  BY <1>1
<1>3. k * n \in Nat /\ a * n \in Nat
  OBVIOUS
<1>4. QED
  BY <1>2, <1>3

LEMMA DecisionLoosens ==
  ASSUME NEW spec, NEW looser, NEW x, NEW y, IsArray(x), IsArray(y),
         spec.tol \in Nat, looser.tol \in Nat, looser.tol <= spec.tol,
         looser.unit = spec.unit, looser.floor = spec.floor, looser.polarity = spec.polarity,
         looser.condition = spec.condition, looser.threshold = spec.threshold,
         Decision(spec, x, y).status = "pass"
  PROVE  Decision(looser, x, y).status = "pass"
<1> DEFINE n == Cardinality(Paired(x, y))
           agree == Cardinality(Paired(x, y) \ CountMismatches(spec, x, y))
<1>1. /\ spec.unit = "fraction" /\ 0 \notin {Steps(x), Steps(y)}
      /\ spec.polarity \in {"survived", "triggered"}
      /\ ~(n < spec.floor)
      /\ 100 * agree >= spec.tol * n
  BY DEF Decision, Raised, Insufficient, Inconclusive, Outcome
<1>2. CountMismatches(looser, x, y) = CountMismatches(spec, x, y)
  BY SameCrossings
<1>3. n \in Nat /\ agree \in Nat
  <2>1. IsFiniteSet(Paired(x, y) \ CountMismatches(spec, x, y))
    BY PairedOf, FS_Difference
  <2>2. QED
    BY <2>1, PairedOf, FS_CardinalityType
<1> HIDE DEF n, agree
<1>4. 100 * agree >= looser.tol * n
  <2>1. looser.tol * n <= spec.tol * n /\ looser.tol * n \in Nat /\ spec.tol * n \in Nat
    BY <1>3, ProductGrows
  <2>2. 100 * agree \in Nat
    BY <1>3
  <2>3. QED
    BY <1>1, <2>1, <2>2
<1>5. Decision(looser, x, y) = Pass
  BY <1>1, <1>2, <1>4 DEF Decision, n, agree
<1>6. QED
  BY <1>5 DEF Pass, Outcome

\* How far a number is outside a band of numbers.
LEMMA BreachOf ==
  ASSUME NEW n \in Nat \ {0}, NEW row \in [1..n -> Number], NEW v \in Number, NEW tol \in Int
  PROVE  /\ Breach(row, v, tol) \in Int \cup {NaN}
         /\ Breach(row, v, tol) = NaN <=> NaN \in Range(row) \cup {v}
         /\ Breach(row, v, tol) # NaN =>
              /\ v \in Int /\ Min(Range(row)) \in Int /\ Max(Range(row)) \in Int
              /\ Breach(row, v, tol)
                   = IF Min(Range(row)) - tol - v >= v - (Max(Range(row)) + tol)
                     THEN Min(Range(row)) - tol - v ELSE v - (Max(Range(row)) + tol)
<1>1. CASE NaN \in Range(row) \cup {v}
  BY <1>1 DEF Breach
<1>2. CASE NaN \notin Range(row) \cup {v}
  <2>1. v \in Int
    BY <1>2 DEF Number
  <2>2. Range(row) \in SUBSET Int /\ Range(row) # {}
    BY <1>2 DEF Number, Range
  <2>3. IsFiniteSet(Range(row))
    <3>1. DOMAIN row = 1..n /\ row = [e \in DOMAIN row |-> row[e]]
      OBVIOUS
    <3>2. IsFiniteSet(DOMAIN row)
      BY <3>1, FS_Interval
    <3>3. QED
      BY <3>1, <3>2, FiniteRange
  <2>4. Min(Range(row)) \in Int /\ Max(Range(row)) \in Int
    BY <2>2, <2>3, MinOf, MaxOf
  <2> DEFINE below == Min(Range(row)) - tol - v
             above == v - (Max(Range(row)) + tol)
  <2>5. below \in Int /\ above \in Int
    BY <2>1, <2>4
  <2>6. Breach(row, v, tol) = Max({below, above})
    BY <1>2 DEF Breach
  <2> HIDE DEF below, above
  <2>7. Max({below, above}) = IF below >= above THEN below ELSE above
    BY <2>5, LargerOf
  <2>8. Breach(row, v, tol) \in Int /\ Breach(row, v, tol) # NaN
    BY <2>5, <2>6, <2>7, NaNAssumption
  <2>9. QED
    BY <1>2, <2>1, <2>4, <2>6, <2>7, <2>8 DEF below, above
<1>3. QED
  BY <1>1, <1>2

LEMMA BreachShrinks ==
  ASSUME NEW n \in Nat \ {0}, NEW row \in [1..n -> Number], NEW v \in Number,
         NEW tol \in Nat, NEW wider \in Nat, tol <= wider
  PROVE  /\ Breach(row, v, wider) = NaN <=> Breach(row, v, tol) = NaN
         /\ Breach(row, v, tol) # NaN => Breach(row, v, wider) <= Breach(row, v, tol)
<1>1. Breach(row, v, wider) = NaN <=> Breach(row, v, tol) = NaN
  <2>1. Breach(row, v, tol) = NaN <=> NaN \in Range(row) \cup {v}
    BY BreachOf
  <2>2. Breach(row, v, wider) = NaN <=> NaN \in Range(row) \cup {v}
    BY BreachOf
  <2>3. QED
    BY <2>1, <2>2
<1>2. ASSUME Breach(row, v, tol) # NaN PROVE Breach(row, v, wider) <= Breach(row, v, tol)
  <2> DEFINE low == Min(Range(row))
             high == Max(Range(row))
  <2>1. /\ v \in Int /\ low \in Int /\ high \in Int
        /\ Breach(row, v, tol) = IF low - tol - v >= v - (high + tol)
                                 THEN low - tol - v ELSE v - (high + tol)
    BY <1>2, BreachOf
  <2>2. Breach(row, v, wider) = IF low - wider - v >= v - (high + wider)
                                THEN low - wider - v ELSE v - (high + wider)
    BY <1>1, <1>2, BreachOf
  <2> HIDE DEF low, high
  <2>3. QED
    BY <2>1, <2>2
<1>3. QED
  BY <1>1, <1>2

\* The curve of the envelope oracle, and its finite values.
BreachCurve(x, y, tol) ==
  [t \in 1..Max({Steps(x), Steps(y)}) |-> [e \in Envs(y) |->
     Breach(x.rows[Broadcast(x, t)], y.rows[Broadcast(y, t)][e], tol)]]

FiniteOf(curve) == (UNION {Range(curve[t]) : t \in DOMAIN curve}) \ {NaN}

LEMMA EnvelopeDecides ==
  ASSUME NEW spec, NEW x, NEW y, NEW d
  PROVE  /\ Envelope(spec, x, y, d).status \in {"pass", "fail"} =>
              /\ ~(x.envs < 2) /\ 0 \notin {Steps(x), Steps(y)}
              /\ Steps(x) # Steps(y) => 1 \in {Steps(x), Steps(y)}
         /\ Envelope(spec, x, y, d).status = "pass" =>
              /\ FiniteOf(BreachCurve(x, y, spec.tol)) # {}
              /\ \A v \in FiniteOf(BreachCurve(x, y, spec.tol)) : v <= 0
         /\ /\ ~(x.envs < 2) /\ 0 \notin {Steps(x), Steps(y)}
            /\ Steps(x) # Steps(y) => 1 \in {Steps(x), Steps(y)}
            /\ FiniteOf(BreachCurve(x, y, spec.tol)) # {}
            /\ \A v \in FiniteOf(BreachCurve(x, y, spec.tol)) : v <= 0
            => Envelope(spec, x, y, d) = Pass
         /\ Envelope(spec, x, y, d).status = "fail" =>
              /\ Envelope(spec, x, y, d) = FailAt(Localize(x, y, BreachCurve(x, y, spec.tol), 0, d))
              /\ ~ (/\ FiniteOf(BreachCurve(x, y, spec.tol)) # {}
                    /\ \A v \in FiniteOf(BreachCurve(x, y, spec.tol)) : v <= 0)
<1> DEFINE curve == BreachCurve(x, y, spec.tol)
           some  == x.envs < 2
           odd   == \/ 0 \in {Steps(x), Steps(y)}
                    \/ Steps(x) # Steps(y) /\ 1 \notin {Steps(x), Steps(y)}
           inside == FiniteOf(curve) # {} /\ \A v \in FiniteOf(curve) : v <= 0
<1>1. DOMAIN curve = 1..Max({Steps(x), Steps(y)})
  BY DEF BreachCurve
<1>2. FiniteOf(curve) = (UNION {Range(curve[t]) : t \in 1..Max({Steps(x), Steps(y)})}) \ {NaN}
  BY <1>1 DEF FiniteOf
<1>3. \E o \in {Raised} \cup {FailAt(Localize(x, y, curve, 0, d))} :
        Envelope(spec, x, y, d) = IF some THEN Skipped ELSE IF odd THEN Raised
                                  ELSE IF inside THEN Pass ELSE o
  <2> DEFINE worst == ArgMax(curve[ViolationStep(curve, 0)])
             apart == \/ worst > x.envs
                      \/ ViolationStep(curve, 0) > Min({Steps(x), Steps(y)})
             o == IF apart THEN Raised ELSE FailAt(Localize(x, y, curve, 0, d))
  <2>1. Envelope(spec, x, y, d) = IF some THEN Skipped ELSE IF odd THEN Raised
                                  ELSE IF inside THEN Pass ELSE o
    BY <1>2 DEF Envelope, BreachCurve
  <2>2. o \in {Raised} \cup {FailAt(Localize(x, y, curve, 0, d))}
    OBVIOUS
  <2> HIDE DEF o, curve, some, odd, inside
  <2>3. QED
    BY <2>1, <2>2
<1>4. /\ Skipped.status = "skipped" /\ Raised.status = "inconclusive" /\ Pass.status = "pass"
      /\ \A r : FailAt(r).status = "fail"
  BY DEF Skipped, Raised, Inconclusive, Pass, FailAt, Outcome
<1> HIDE DEF some, odd, inside, curve
<1>5. /\ Envelope(spec, x, y, d).status \in {"pass", "fail"} => ~some /\ ~odd
      /\ Envelope(spec, x, y, d).status = "pass" => inside
      /\ ~some /\ ~odd /\ inside => Envelope(spec, x, y, d) = Pass
  BY <1>3, <1>4
<1>6. ASSUME Envelope(spec, x, y, d).status = "fail"
      PROVE  Envelope(spec, x, y, d) = FailAt(Localize(x, y, curve, 0, d)) /\ ~inside
  BY <1>3, <1>4, <1>6
<1>7. QED
  BY <1>5, <1>6 DEF some, odd, inside, curve

\* The rows that broadcasting pairs with each other are rows of the two arrays.
LEMMA BroadcastOf ==
  ASSUME NEW x, NEW y, IsArray(x), IsArray(y), 0 \notin {Steps(x), Steps(y)},
         Steps(x) # Steps(y) => 1 \in {Steps(x), Steps(y)},
         NEW t \in 1..Max({Steps(x), Steps(y)})
  PROVE  /\ x.rows[Broadcast(x, t)] \in [Envs(x) -> Number]
         /\ y.rows[Broadcast(y, t)] \in [Envs(y) -> Number]
<1>1. /\ Steps(x) \in Nat /\ DOMAIN x.rows = 1..Steps(x)
      /\ Steps(y) \in Nat /\ DOMAIN y.rows = 1..Steps(y)
  BY DEF IsArray, Steps
<1>2. Max({Steps(x), Steps(y)}) = IF Steps(x) >= Steps(y) THEN Steps(x) ELSE Steps(y)
  BY <1>1, LargerOf
<1>3. Broadcast(x, t) \in 1..Steps(x) /\ Broadcast(y, t) \in 1..Steps(y)
  BY <1>1, <1>2 DEF Broadcast
<1>4. QED
  BY <1>1, <1>3 DEF IsArray

LEMMA FiniteIs ==
  ASSUME NEW curve, NEW v
  PROVE  v \in FiniteOf(curve) <=> v # NaN /\ \E t \in DOMAIN curve : v \in Range(curve[t])
<1>1. ASSUME NEW t \in DOMAIN curve, v \in Range(curve[t]) PROVE v \in UNION {Range(curve[u]) : u \in DOMAIN curve}
  <2>1. Range(curve[t]) \in {Range(curve[u]) : u \in DOMAIN curve}
    OBVIOUS
  <2>2. QED
    BY <1>1, <2>1
<1>2. ASSUME v \in UNION {Range(curve[u]) : u \in DOMAIN curve}
      PROVE  \E t \in DOMAIN curve : v \in Range(curve[t])
  BY <1>2
<1>3. QED
  BY <1>1, <1>2 DEF FiniteOf

LEMMA FiniteCell ==
  ASSUME NEW x, NEW y, NEW tol
  PROVE  /\ \A t \in 1..Max({Steps(x), Steps(y)}), e \in Envs(y) :
              LET v == Breach(x.rows[Broadcast(x, t)], y.rows[Broadcast(y, t)][e], tol)
              IN  v # NaN => v \in FiniteOf(BreachCurve(x, y, tol))
         /\ \A v \in FiniteOf(BreachCurve(x, y, tol)) :
              /\ v # NaN
              /\ \E t \in 1..Max({Steps(x), Steps(y)}), e \in Envs(y) :
                   v = Breach(x.rows[Broadcast(x, t)], y.rows[Broadcast(y, t)][e], tol)
<1> DEFINE curve == BreachCurve(x, y, tol)
           steps == 1..Max({Steps(x), Steps(y)})
           At(t, e) == Breach(x.rows[Broadcast(x, t)], y.rows[Broadcast(y, t)][e], tol)
<1>1. DOMAIN curve = steps
  BY DEF BreachCurve
<1>2. \A t \in steps : DOMAIN curve[t] = Envs(y) /\ \A e \in Envs(y) : curve[t][e] = At(t, e)
  BY DEF BreachCurve
<1> HIDE DEF curve, steps, At
<1>3. \A t \in steps, e \in Envs(y) : At(t, e) # NaN => At(t, e) \in FiniteOf(curve)
  <2>1. \A t \in steps, e \in Envs(y) : At(t, e) \in Range(curve[t])
    BY <1>2 DEF Range
  <2>2. QED
    BY <1>1, <2>1, FiniteIs
<1>4. ASSUME NEW v \in FiniteOf(curve)
      PROVE  v # NaN /\ \E t \in steps, e \in Envs(y) : v = At(t, e)
  <2>1. v # NaN /\ \E t \in steps : v \in Range(curve[t])
    BY <1>1, FiniteIs
  <2>2. \A t \in steps : Range(curve[t]) = {curve[t][e] : e \in Envs(y)}
    BY <1>2 DEF Range
  <2>3. QED
    BY <1>2, <2>1, <2>2
<1>5. QED
  BY <1>3, <1>4 DEF curve, steps, At

LEMMA EnvelopeWidens ==
  ASSUME NEW spec, NEW wider, NEW x, NEW y, NEW d, NEW f, IsArray(x), IsArray(y),
         spec.tol \in Nat, wider.tol \in Nat, spec.tol <= wider.tol,
         Envelope(spec, x, y, d).status = "pass"
  PROVE  Envelope(wider, x, y, f).status = "pass"
<1> DEFINE length == Max({Steps(x), Steps(y)})
           At(t, e, tol) == Breach(x.rows[Broadcast(x, t)], y.rows[Broadcast(y, t)][e], tol)
<1>1. /\ ~(x.envs < 2) /\ 0 \notin {Steps(x), Steps(y)}
      /\ Steps(x) # Steps(y) => 1 \in {Steps(x), Steps(y)}
      /\ FiniteOf(BreachCurve(x, y, spec.tol)) # {}
      /\ \A v \in FiniteOf(BreachCurve(x, y, spec.tol)) : v <= 0
  BY EnvelopeDecides
<1>2. x.envs \in Nat \ {0} /\ Envs(x) = 1..x.envs
  BY <1>1 DEF IsArray, Envs
<1>3. ASSUME NEW t \in 1..length, NEW e \in Envs(y)
      PROVE  /\ At(t, e, wider.tol) = NaN <=> At(t, e, spec.tol) = NaN
             /\ At(t, e, spec.tol) # NaN => At(t, e, wider.tol) <= At(t, e, spec.tol)
             /\ At(t, e, spec.tol) \in Int \cup {NaN} /\ At(t, e, wider.tol) \in Int \cup {NaN}
  <2> DEFINE row == x.rows[Broadcast(x, t)]
             v   == y.rows[Broadcast(y, t)][e]
  <2>1. row \in [1..x.envs -> Number] /\ v \in Number
    BY <1>1, <1>2, BroadcastOf
  <2> HIDE DEF row, v
  <2>2. /\ Breach(row, v, wider.tol) = NaN <=> Breach(row, v, spec.tol) = NaN
        /\ Breach(row, v, spec.tol) # NaN => Breach(row, v, wider.tol) <= Breach(row, v, spec.tol)
    BY <1>2, <2>1, BreachShrinks
  <2>3. Breach(row, v, spec.tol) \in Int \cup {NaN}
    BY <1>2, <2>1, BreachOf
  <2>4. Breach(row, v, wider.tol) \in Int \cup {NaN}
    BY <1>2, <2>1, BreachOf
  <2>5. QED
    BY <2>2, <2>3, <2>4 DEF row, v
<1>4. FiniteOf(BreachCurve(x, y, wider.tol)) # {}
  <2>1. PICK t \in 1..length, e \in Envs(y) : At(t, e, spec.tol) # NaN
    BY <1>1, FiniteCell
  <2>2. At(t, e, wider.tol) # NaN
    BY <1>3, <2>1
  <2>3. QED
    BY <2>2, FiniteCell
<1>5. ASSUME NEW v \in FiniteOf(BreachCurve(x, y, wider.tol)) PROVE v <= 0
  <2>1. PICK t \in 1..length, e \in Envs(y) : v = At(t, e, wider.tol) /\ v # NaN
    BY FiniteCell
  <2>2. At(t, e, spec.tol) # NaN
    BY <1>3, <2>1
  <2>3. At(t, e, spec.tol) <= 0
    BY <1>1, <2>2, FiniteCell
  <2> HIDE DEF At
  <2>4. QED
    BY <1>3, <2>1, <2>2, <2>3
<1>6. Envelope(wider, x, y, f) = Pass
  BY <1>1, <1>4, <1>5, EnvelopeDecides
<1>7. QED
  BY <1>6 DEF Pass, Outcome

\* A wider tolerance, or for a decision a smaller one, lets pass what passed.
LEMMA JudgementWidens ==
  ASSUME NEW spec, NEW wider, NEW x, NEW y, NEW d, NEW f, IsArray(x), IsArray(y),
         CriterionIsDeclared(spec), spec.type \in Gated \ {"statistical_equivalence"},
         spec.tol \in Nat, wider.tol \in Nat, spec.floor \in Nat \ {0},
         IF spec.type = "decision_equivalence" THEN wider.tol <= spec.tol
                                               ELSE spec.tol <= wider.tol,
         wider.type = spec.type, wider.floor = spec.floor, wider.how = spec.how,
         wider.unit = spec.unit, wider.polarity = spec.polarity,
         wider.condition = spec.condition, wider.threshold = spec.threshold,
         Judgement(spec, x, y, d).status = "pass"
  PROVE  Judgement(wider, x, y, f).status = "pass"
<1>1. CASE spec.type \in {"trajectory_equivalence", "ulp_equivalence"}
  <2>1. Judgement(spec, x, y, d) = Trajectory(spec, x, y, d)
    BY <1>1 DEF Judgement
  <2>2. Judgement(wider, x, y, f) = Trajectory(wider, x, y, f)
    BY <1>1 DEF Judgement
  <2>3. QED
    BY <1>1, <2>1, <2>2, TrajectoryWidens
<1>2. CASE spec.type = "trajectory_envelope"
  <2>1. Judgement(spec, x, y, d) = Envelope(spec, x, y, d)
    BY <1>2 DEF Judgement
  <2>2. Judgement(wider, x, y, f) = Envelope(wider, x, y, f)
    BY <1>2 DEF Judgement
  <2>3. QED
    BY <1>2, <2>1, <2>2, EnvelopeWidens
<1>3. CASE spec.type = "event_equivalence"
  <2>1. Judgement(spec, x, y, d) = Event(spec, x, y) /\ Judgement(wider, x, y, f) = Event(wider, x, y)
    BY <1>3 DEF Judgement
  <2>2. QED
    BY <1>3, <2>1, EventWidens
<1>4. CASE spec.type = "decision_equivalence"
  <2>1. /\ Judgement(spec, x, y, d) = Decision(spec, x, y)
        /\ Judgement(wider, x, y, f) = Decision(wider, x, y)
    BY <1>4 DEF Judgement
  <2>2. QED
    BY <1>4, <2>1, DecisionLoosens
<1>5. CASE spec.type = "env_permutation_invariance"
  <2>1. /\ Judgement(spec, x, y, d) = Permutation(spec, x, y)
        /\ Judgement(wider, x, y, f) = Permutation(wider, x, y)
    BY <1>5 DEF Judgement
  <2>2. QED
    BY <1>5, <2>1, PermutationWidens
<1>6. QED
  BY <1>1, <1>2, <1>3, <1>4, <1>5 DEF Gated

\* Whatever the tolerances, a pass stays a pass under a wider one.
AlwaysMonotone ==
  \A i \in Run(Gated \ {"statistical_equivalence"}), t \in Nat :
    LET spec == M.oracles[i]
    IN  /\ outcomes[i].status = "pass"
        /\ IF spec.type = "decision_equivalence" THEN t <= spec.tol ELSE spec.tol <= t
        => StatusOn([spec EXCEPT !.tol = t], Baseline(i), Candidate(i)) = {"pass"}

LEMMA MonotoneFollows == Reported /\ Explained /\ Judged => AlwaysMonotone
<1> SUFFICES ASSUME Reported, Explained, Judged,
                    NEW i \in Run(Gated \ {"statistical_equivalence"}), NEW t \in Nat,
                    outcomes[i].status = "pass",
                    IF M.oracles[i].type = "decision_equivalence" THEN t <= M.oracles[i].tol
                                                                  ELSE M.oracles[i].tol <= t
             PROVE  StatusOn([M.oracles[i] EXCEPT !.tol = t], Baseline(i), Candidate(i)) = {"pass"}
  BY DEF AlwaysMonotone
<1> DEFINE spec  == M.oracles[i]
           wider == [spec EXCEPT !.tol = t]
           x == Baseline(i)
           y == Candidate(i)
           d == ConfigDifferences(B, C)
<1>1. /\ spec.type \in Gated \ {"statistical_equivalence"}
      /\ spec.signal \in DOMAIN B.signals \cap DOMAIN C.signals
      /\ SpecFields \subseteq DOMAIN spec /\ CriterionIsDeclared(spec)
      /\ IsArray(x) /\ IsArray(y)
  BY Ran
<1>2. spec.type \in Certain /\ i \in Run(Certain)
  BY <1>1 DEF Certain, Pairwise, Run
<1>3. spec.tol \in Nat /\ spec.floor \in Nat \ {0} /\ outcomes[i] = Judgement(spec, x, y, d)
  BY <1>1, <1>2, Reporting
<1>4. /\ wider.tol = t /\ wider.type = spec.type /\ wider.signal = spec.signal
      /\ wider.floor = spec.floor /\ wider.how = spec.how /\ wider.unit = spec.unit
      /\ wider.condition = spec.condition /\ wider.threshold = spec.threshold
      /\ wider.polarity = spec.polarity
  BY <1>1, WithTolerance
<1> HIDE DEF spec, wider, x, y, d
<1>5. wider.tol # None
  BY <1>4, NoneAssumption
<1>6. PICK f : StatusOn(wider, x, y) = {Judgement(wider, x, y, f).status}
  BY <1>1, <1>2, <1>4, <1>5, OnArrays
<1>7. IF spec.type = "decision_equivalence" THEN wider.tol <= spec.tol
                                            ELSE spec.tol <= wider.tol
  BY <1>4 DEF spec
<1>8. Judgement(wider, x, y, f).status = "pass"
  BY <1>1, <1>3, <1>4, <1>7, JudgementWidens
<1>9. QED
  BY <1>6, <1>8 DEF spec, wider, x, y

\* The tolerances TLC tries are among them.
LEMMA MonotoneSampled ==
  Reported /\ Explained /\ Judged /\ AlwaysMonotone => ToleranceIsMonotone
<1> SUFFICES ASSUME Reported, Explained, Judged, AlwaysMonotone,
                    NEW i \in Run(Gated \ {"statistical_equivalence"}),
                    outcomes[i].status = "pass",
                    NEW t \in IF M.oracles[i].type = "decision_equivalence"
                                 THEN {0, M.oracles[i].tol \div 2}
                                 ELSE {M.oracles[i].tol + 1, M.oracles[i].tol + 3}
             PROVE  StatusOn([M.oracles[i] EXCEPT !.tol = t], Baseline(i), Candidate(i)) = {"pass"}
  BY DEF ToleranceIsMonotone
<1>1. i \in Run(Gated)
  BY DEF Run
<1>2. M.oracles[i].tol \in Nat
  BY <1>1, Gating
<1>3. t \in Nat /\ IF M.oracles[i].type = "decision_equivalence" THEN t <= M.oracles[i].tol
                                                               ELSE M.oracles[i].tol <= t
  BY <1>2
<1>4. QED
  BY <1>3 DEF AlwaysMonotone

-----------------------------------------------------------------------------
(* Localization.                                                             *)

\* It violates a limit when one does.
LEMMA WorstOf ==
  ASSUME NEW n, n \in Nat, NEW row, row \in [1..n -> Int \cup {NaN}], NEW limit, limit \in Int,
         Violating(row, limit) # {}
  PROVE  ArgMax(row) \in Violating(row, limit)
<1>1. PICK f \in 1..n : Beyond(row[f], limit)
  BY DEF Violating
<1>2. ArgMax(row) \in 1..n /\ ~Above(row[f], row[ArgMax(row)])
  <2>1. n \in Nat \ {0}
    BY <1>1
  <2>2. QED
    BY <2>1, ArgMaxOf
<1>3. Beyond(row[ArgMax(row)], limit)
  BY <1>1, <1>2 DEF Beyond, Above
<1>4. QED
  BY <1>2, <1>3 DEF Violating

\* What a record says of where a comparison failed.
LEMMA LocalizedAt ==
  ASSUME NEW x, NEW y, NEW n \in Nat, NEW m \in Nat, NEW curve \in [1..n -> [1..m -> Int \cup {NaN}]],
         NEW limit \in Int, NEW d,
         \E t \in 1..n : Violating(curve[t], limit) # {}
  PROVE  LET at == Localize(x, y, curve, limit, d)
         IN  /\ at.step \in 1..n /\ at.worst \in at.envs
             /\ Violating(curve[at.step], limit) # {}
             /\ \A t \in 1..n : t < at.step => Violating(curve[t], limit) = {}
<1> DEFINE step == ViolationStep(curve, limit)
           at == Localize(x, y, curve, limit, d)
<1>1. DOMAIN curve = 1..n
  OBVIOUS
<1>2. /\ step \in 0..n /\ step # 0 /\ Violating(curve[step], limit) # {}
      /\ \A t \in 1..n : t < step => Violating(curve[t], limit) = {}
  BY <1>1, ViolationOf
<1> HIDE DEF step
<1>3. at.step = step /\ at.envs = Violating(curve[step], limit) /\ at.worst = ArgMax(curve[step])
  BY <1>2 DEF Localize, step
<1>4. ArgMax(curve[step]) \in Violating(curve[step], limit)
  BY <1>2, WorstOf
<1>5. QED
  BY <1>2, <1>3, <1>4

\* The beginning of an array.
LEMMA PrefixOf ==
  ASSUME NEW a, IsArray(a), NEW k \in 1..Steps(a)
  PROVE  /\ IsArray(Prefix(a, k)) /\ Steps(Prefix(a, k)) = k
         /\ Prefix(a, k).envs = a.envs /\ DOMAIN Prefix(a, k).rows = 1..k
         /\ \A t \in 1..k : Prefix(a, k).rows[t] = a.rows[t]
<1> DEFINE S == [Envs(a) -> Number]
<1>1. a.rows \in Seq(S) /\ Steps(a) = Len(a.rows) /\ a.envs \in Nat
      /\ a = [envs |-> a.envs, rows |-> a.rows]
  BY DEF IsArray, Steps
<1>2. Prefix(a, k) = [envs |-> a.envs, rows |-> SubSeq(a.rows, 1, k)]
  <2>1. [[envs |-> a.envs, rows |-> a.rows] EXCEPT !.rows = SubSeq(@, 1, k)]
          = [envs |-> a.envs, rows |-> SubSeq(a.rows, 1, k)]
    OBVIOUS
  <2>2. QED
    BY <1>1, <2>1 DEF Prefix
<1> HIDE DEF S
<1>3. /\ SubSeq(a.rows, 1, k) \in Seq(S) /\ Len(SubSeq(a.rows, 1, k)) = k
      /\ DOMAIN SubSeq(a.rows, 1, k) = 1..k
      /\ \A t \in 1..k : SubSeq(a.rows, 1, k)[t] = a.rows[t]
  BY <1>1
<1>4. /\ Prefix(a, k).envs = a.envs /\ Prefix(a, k).rows = SubSeq(a.rows, 1, k)
      /\ Envs(Prefix(a, k)) = Envs(a)
  BY <1>2 DEF Envs
<1>5. Prefix(a, k).rows \in Seq([Envs(Prefix(a, k)) -> Number])
  BY <1>3, <1>4 DEF S
<1>6. QED
  BY <1>1, <1>2, <1>3, <1>4, <1>5 DEF IsArray, Steps

\* Two arrays of one shape, cut after the same step.
LEMMA PrefixesOf ==
  ASSUME NEW x, NEW y, IsArray(x), IsArray(y), Shape(x) = Shape(y), NEW k \in 1..Steps(x)
  PROVE  LET p == Prefix(x, k)
             q == Prefix(y, k)
         IN  /\ IsArray(p) /\ IsArray(q) /\ Shape(p) = Shape(q)
             /\ Steps(p) = k /\ Steps(q) = k /\ p.envs = x.envs /\ q.envs = x.envs
             /\ DOMAIN p.rows = 1..k /\ DOMAIN q.rows = 1..k
             /\ \A t \in 1..k : /\ p.rows[t] = x.rows[t] /\ q.rows[t] = y.rows[t]
                                /\ t \in DOMAIN x.rows
<1>1. Steps(x) = Steps(y) /\ x.envs = y.envs
  BY DEF Shape
<1>2. k \in 1..Steps(y)
  BY <1>1
<1>3. /\ IsArray(Prefix(x, k)) /\ Steps(Prefix(x, k)) = k
      /\ Prefix(x, k).envs = x.envs /\ DOMAIN Prefix(x, k).rows = 1..k
      /\ \A t \in 1..k : Prefix(x, k).rows[t] = x.rows[t]
  BY PrefixOf
<1>4. /\ IsArray(Prefix(y, k)) /\ Steps(Prefix(y, k)) = k
      /\ Prefix(y, k).envs = y.envs /\ DOMAIN Prefix(y, k).rows = 1..k
      /\ \A t \in 1..k : Prefix(y, k).rows[t] = y.rows[t]
  BY <1>2, PrefixOf
<1>5. \A t \in 1..k : t \in DOMAIN x.rows
  BY DEF IsArray, Steps
<1>6. QED
  BY <1>1, <1>3, <1>4, <1>5 DEF Shape

\* Their error curve is the beginning of the error curve.
LEMMA PrefixCurve ==
  ASSUME NEW x, NEW y, IsArray(x), IsArray(y), Shape(x) = Shape(y), NEW k \in 1..Steps(x)
  PROVE  /\ DOMAIN ErrorCurve(Prefix(x, k), Prefix(y, k)) = 1..k
         /\ \A t \in 1..k :
              ErrorCurve(Prefix(x, k), Prefix(y, k))[t] = ErrorCurve(x, y)[t]
<1> DEFINE p == Prefix(x, k)
           q == Prefix(y, k)
<1>1. /\ DOMAIN p.rows = 1..k /\ p.envs = x.envs
      /\ \A t \in 1..k : /\ p.rows[t] = x.rows[t] /\ q.rows[t] = y.rows[t]
                         /\ t \in DOMAIN x.rows
  BY PrefixesOf
<1> HIDE DEF p, q
<1>2. Envs(p) = Envs(x)
  BY <1>1 DEF Envs
<1>3. QED
  BY <1>1, <1>2 DEF ErrorCurve, p, q

\* An error curve of arrays with n environments.
LEMMA CurveType ==
  ASSUME NEW x, NEW y, IsArray(x), IsArray(y), Shape(x) = Shape(y)
  PROVE  /\ Steps(x) \in Nat /\ x.envs \in Nat /\ DOMAIN x.rows = 1..Steps(x)
         /\ ErrorCurve(x, y) \in [1..Steps(x) -> [1..x.envs -> Int \cup {NaN}]]
<1>1. Steps(x) \in Nat /\ x.envs \in Nat /\ DOMAIN x.rows = 1..Steps(x)
  BY DEF IsArray, Steps
<1>2. \A t \in 1..Steps(x) : ErrorCurve(x, y)[t] \in [1..x.envs -> Int \cup {NaN}]
  <2>1. \A t \in 1..Steps(x) : ErrorCurve(x, y)[t] \in [1..x.envs -> Nat \cup {NaN}]
    BY <1>1, CurveOf
  <2>2. QED
    BY <2>1
<1>3. ErrorCurve(x, y) = [t \in 1..Steps(x) |-> ErrorCurve(x, y)[t]]
  BY <1>1 DEF ErrorCurve
<1>4. QED
  BY <1>1, <1>2, <1>3

\* An aggregate is beyond a limit only where some environment is.
LEMMA BeyondIsViolating ==
  ASSUME NEW n, NEW row, IsRow(row, n), NEW limit \in Int,
         NEW how \in {"max", "any", "second_largest", "all", "final"}
  PROVE  /\ Beyond(Aggregate(row, how), limit) => Violating(row, limit) # {}
         /\ how \in {"max", "any"} /\ Violating(row, limit) # {}
              => Beyond(Aggregate(row, how), limit)
<1>1. /\ n \in Nat \ {0} /\ Len(row) = n /\ DOMAIN row = 1..n
      /\ Range(row) \subseteq Nat \cup {NaN}
  BY RowOf DEF IsRow
<1>2. Violating(row, limit) # {} <=> NaN \in Range(row) \/ Over(row, limit) # {}
  BY DEF Violating, Over, Range, Beyond
<1>3. ASSUME how \in {"max", "any"}
      PROVE  Beyond(Aggregate(row, how), limit) <=> Violating(row, limit) # {}
  <2>1. ~Beyond(Aggregate(row, how), limit)
          <=> NaN \notin Range(row) /\ Cardinality(Over(row, limit)) <= 0
    BY <1>3, AggregateMeans DEF Allowance
  <2>2. IsFiniteSet(Over(row, limit)) /\ Cardinality(Over(row, limit)) \in Nat
    BY CountOf DEF Over
  <2>3. Over(row, limit) = {} <=> Cardinality(Over(row, limit)) = 0
    BY <2>2, FS_EmptySet
  <2>4. QED
    BY <1>2, <2>1, <2>2, <2>3
<1>4. ASSUME how \in {"second_largest", "all"}, Beyond(Aggregate(row, how), limit)
      PROVE  Violating(row, limit) # {}
  <2>1. SUFFICES ASSUME Violating(row, limit) = {} PROVE FALSE
    OBVIOUS
  <2>2. Cardinality(Over(row, limit)) = 0 /\ NaN \notin Range(row)
    BY <1>2, <2>1, FS_EmptySet
  <2>3. 0 <= Allowance(how, n)
    BY <1>1, <1>4 DEF Allowance
  <2>4. QED
    BY <1>4, <2>2, <2>3, AggregateMeans
<1>5. ASSUME how = "final", Beyond(Aggregate(row, how), limit)
      PROVE  Violating(row, limit) # {}
  <2>1. CASE NaN \in Range(row)
    BY <1>2, <2>1
  <2>2. CASE NaN \notin Range(row)
    <3>1. Aggregate(row, how) = row[n] /\ n \in DOMAIN row
      BY <1>1, <1>5, <2>2 DEF Aggregate
    <3>2. QED
      BY <1>5, <3>1 DEF Violating
  <2>3. QED
    BY <2>1, <2>2
<1>6. QED
  BY <1>3, <1>4, <1>5

\* Where a trajectory oracle says it failed.
LEMMA TrajectoryLocalized ==
  ASSUME NEW spec, NEW one, NEW x, NEW y, NEW d, IsArray(x), IsArray(y),
         Shape(x) = Shape(y), spec.how \in {"max", "any", "second_largest", "all", "final"},
         spec.tol \in Nat, spec.floor \in Nat \ {0},
         one.tol = spec.tol, one.how = spec.how, one.floor = 1,
         Trajectory(spec, x, y, d).status = "fail"
  PROVE  LET at == Trajectory(spec, x, y, d).record
         IN  /\ at.step \in 1..Steps(x) /\ at.worst \in at.envs
             /\ at.step > 1 => \A f :
                  Trajectory(one, Prefix(x, at.step - 1), Prefix(y, at.step - 1), f).status = "pass"
             /\ spec.how \in {"max", "any"} => \A f :
                  Trajectory(one, Prefix(x, at.step), Prefix(y, at.step), f).status = "fail"
<1> DEFINE curve == ErrorCurve(x, y)
           at == Localize(x, y, curve, spec.tol, d)
<1>1. /\ ~(Steps(x) * x.envs < spec.floor)
      /\ ~ \A t \in DOMAIN curve : ~Beyond(Aggregate(curve[t], spec.how), spec.tol)
  BY TrajectoryDecides
<1>2. x.envs \in Nat \ {0} /\ Steps(x) \in Nat \ {0}
  BY <1>1, SomeEnvironment
<1>3. Trajectory(spec, x, y, d) = Exceeded(spec, at)
  BY <1>1 DEF Trajectory
<1>4. /\ DOMAIN curve = 1..Steps(x) /\ curve \in [1..Steps(x) -> [1..x.envs -> Int \cup {NaN}]]
      /\ \A t \in 1..Steps(x) : IsRow(curve[t], x.envs)
  BY <1>2, CurveOf, CurveType DEF IsRow
<1> HIDE DEF curve
<1>5. \A t \in 1..Steps(x) :
        Beyond(Aggregate(curve[t], spec.how), spec.tol) => Violating(curve[t], spec.tol) # {}
  BY <1>4, BeyondIsViolating
<1>6. \E t \in 1..Steps(x) : Violating(curve[t], spec.tol) # {}
  BY <1>1, <1>4, <1>5
<1>7. /\ at.step \in 1..Steps(x) /\ at.worst \in at.envs
      /\ Violating(curve[at.step], spec.tol) # {}
      /\ \A t \in 1..Steps(x) : t < at.step => Violating(curve[t], spec.tol) = {}
  <2>1. Steps(x) \in Nat /\ x.envs \in Nat /\ spec.tol \in Int
    BY <1>2
  <2>2. curve \in [1..Steps(x) -> [1..x.envs -> Int \cup {NaN}]]
    BY <1>4
  <2>3. QED
    BY <1>6, <2>1, <2>2, LocalizedAt
<1> DEFINE step == at.step
<1> HIDE DEF at
<1>8. ASSUME NEW k \in 1..Steps(x)
      PROVE  /\ Shape(Prefix(x, k)) = Shape(Prefix(y, k))
             /\ ~(Steps(Prefix(x, k)) * Prefix(x, k).envs < 1)
             /\ DOMAIN ErrorCurve(Prefix(x, k), Prefix(y, k)) = 1..k
             /\ \A t \in 1..k : ErrorCurve(Prefix(x, k), Prefix(y, k))[t] = curve[t]
  <2>1. /\ Shape(Prefix(x, k)) = Shape(Prefix(y, k))
        /\ Steps(Prefix(x, k)) = k /\ Prefix(x, k).envs = x.envs
    BY PrefixesOf
  <2>2. k * x.envs >= 1
    BY <1>2
  <2>3. ~(Steps(Prefix(x, k)) * Prefix(x, k).envs < 1)
    BY <1>2, <2>1, <2>2
  <2>4. /\ DOMAIN ErrorCurve(Prefix(x, k), Prefix(y, k)) = 1..k
        /\ \A t \in 1..k : ErrorCurve(Prefix(x, k), Prefix(y, k))[t] = ErrorCurve(x, y)[t]
    BY PrefixCurve
  <2>5. QED
    BY <2>1, <2>3, <2>4 DEF curve
<1>9. ASSUME step > 1, NEW f
      PROVE  Trajectory(one, Prefix(x, step - 1), Prefix(y, step - 1), f).status = "pass"
  <2> DEFINE k == step - 1
  <2>1. k \in 1..Steps(x) /\ k < step /\ \A t \in 1..k : t \in 1..Steps(x) /\ t < step
    BY <1>2, <1>7, <1>9
  <2>2. \A t \in 1..k : ~Beyond(Aggregate(curve[t], spec.how), spec.tol)
    BY <1>5, <1>7, <2>1
  <2> HIDE DEF k
  <2>3. Trajectory(one, Prefix(x, k), Prefix(y, k), f) = Pass
    BY <1>8, <2>1, <2>2 DEF Trajectory
  <2>4. QED
    BY <2>3 DEF Pass, Outcome, k
<1>10. ASSUME spec.how \in {"max", "any"}, NEW f
       PROVE  Trajectory(one, Prefix(x, step), Prefix(y, step), f).status = "fail"
  <2>1. step \in 1..step /\ step \in 1..Steps(x)
    BY <1>2, <1>7
  <2>2. Beyond(Aggregate(curve[step], spec.how), spec.tol)
    BY <1>4, <1>7, <1>10, <2>1, BeyondIsViolating
  <2>3. \E r : Trajectory(one, Prefix(x, step), Prefix(y, step), f) = Exceeded(one, r)
    BY <1>8, <2>1, <2>2 DEF Trajectory
  <2>4. QED
    BY <2>3 DEF Exceeded, Outcome
<1>11. Trajectory(spec, x, y, d).record = at
  BY <1>3 DEF Exceeded, Outcome
<1>12. QED
  BY <1>7, <1>9, <1>10, <1>11

\* The cells of a row of an error curve that violate a limit of 0 are those that differ.
LEMMA DifferentCells ==
  ASSUME NEW x, NEW y, IsArray(x), IsArray(y), Shape(x) = Shape(y), NEW t \in DOMAIN x.rows
  PROVE  Violating(ErrorCurve(x, y)[t], 0) = {} <=> x.rows[t] = y.rows[t] /\ NaN \notin Range(x.rows[t])
<1> DEFINE row == ErrorCurve(x, y)[t]
           a == x.rows[t]
           b == y.rows[t]
<1>1. DOMAIN row = Envs(x)
  BY CurveOf DEF Envs
<1>2. \A e \in Envs(x) : row[e] = Distance(a[e], b[e]) /\ a[e] \in Number /\ b[e] \in Number
  <2>1. \A e \in Envs(x) : ErrorCurve(x, y)[t][e] = Distance(x.rows[t][e], y.rows[t][e])
    BY CurveOf
  <2>2. \A e \in Envs(x) : x.rows[t][e] \in Number /\ y.rows[t][e] \in Number
    BY CurveOf
  <2>3. QED
    BY <2>1, <2>2
<1>3. a \in [Envs(x) -> Number] /\ b \in [Envs(x) -> Number]
  <2>1. DOMAIN y.rows = DOMAIN x.rows /\ Envs(y) = Envs(x)
    BY DEF Shape, Steps, IsArray, Envs
  <2>2. QED
    BY <2>1 DEF IsArray
<1> HIDE DEF row, a, b
<1>4. ASSUME NEW e \in Envs(x) PROVE ~Beyond(row[e], 0) <=> a[e] = b[e] /\ a[e] # NaN
  <2>1. row[e] = Distance(a[e], b[e]) /\ a[e] \in Number /\ b[e] \in Number
    BY <1>2
  <2>2. QED
    BY <2>1, NaNAssumption DEF Beyond, Distance, Number
<1>5. Violating(row, 0) = {} <=> \A e \in Envs(x) : a[e] = b[e] /\ a[e] # NaN
  BY <1>1, <1>4 DEF Violating
<1>6. a = b <=> \A e \in Envs(x) : a[e] = b[e]
  BY <1>3
<1>7. NaN \notin Range(a) <=> \A e \in Envs(x) : a[e] # NaN
  BY <1>3 DEF Range
<1>8. QED
  BY <1>5, <1>6, <1>7 DEF row, a, b

\* Two arrays are equal, and finite, when no step of theirs differs.
LEMMA DifferentArrays ==
  ASSUME NEW x, NEW y, IsArray(x), IsArray(y), Shape(x) = Shape(y)
  PROVE  x = y /\ NaN \notin Values(x)
           <=> \A t \in DOMAIN x.rows : Violating(ErrorCurve(x, y)[t], 0) = {}
<1>1. x.envs = y.envs /\ DOMAIN x.rows = DOMAIN y.rows
      /\ DOMAIN x.rows = 1..Len(x.rows) /\ DOMAIN y.rows = 1..Len(y.rows)
  BY DEF Shape, Steps, IsArray
<1>2. x = y <=> x.rows = y.rows
  BY <1>1 DEF IsArray
<1>3. x.rows = y.rows <=> \A t \in DOMAIN x.rows : x.rows[t] = y.rows[t]
  <2>1. x.rows \in [1..Len(x.rows) -> [Envs(x) -> Number]]
    BY DEF IsArray
  <2>2. y.rows \in [1..Len(y.rows) -> [Envs(y) -> Number]]
    BY DEF IsArray
  <2>3. /\ x.rows = [t \in DOMAIN x.rows |-> x.rows[t]]
        /\ y.rows = [t \in DOMAIN x.rows |-> y.rows[t]]
    BY <1>1, <2>1, <2>2
  <2>4. QED
    BY <2>3
<1>4. NaN \notin Values(x) <=> \A t \in DOMAIN x.rows : NaN \notin Range(x.rows[t])
  BY DEF Values
<1>5. QED
  BY <1>2, <1>3, <1>4, DifferentCells

\* Where an exact oracle says it failed.
LEMMA ExactLocalized ==
  ASSUME NEW x, NEW y, NEW d, IsArray(x), IsArray(y), Shape(x) = Shape(y),
         Exact(x, y, d).status = "fail"
  PROVE  LET at == Exact(x, y, d).record
         IN  /\ at.step \in 1..Steps(x) /\ at.worst \in at.envs
             /\ at.step > 1 => \A f :
                  Exact(Prefix(x, at.step - 1), Prefix(y, at.step - 1), f).status = "pass"
             /\ \A f : Exact(Prefix(x, at.step), Prefix(y, at.step), f).status = "fail"
<1> DEFINE curve == ErrorCurve(x, y)
           at == Localize(x, y, curve, 0, d)
           same(a, b) == a = b /\ NaN \notin Values(a)
<1>1. ~same(x, y)
  BY DEF Exact, Pass, Outcome
<1>2. Exact(x, y, d) = FailAt(at)
  BY <1>1 DEF Exact
<1>3. /\ Steps(x) \in Nat /\ x.envs \in Nat /\ DOMAIN x.rows = 1..Steps(x)
      /\ curve \in [1..Steps(x) -> [1..x.envs -> Int \cup {NaN}]]
  BY CurveType
<1>4. \E t \in 1..Steps(x) : Violating(curve[t], 0) # {}
  BY <1>1, <1>3, DifferentArrays
<1> HIDE DEF curve
<1>5. /\ at.step \in 1..Steps(x) /\ at.worst \in at.envs
      /\ Violating(curve[at.step], 0) # {}
      /\ \A t \in 1..Steps(x) : t < at.step => Violating(curve[t], 0) = {}
  <2>1. 0 \in Int
    OBVIOUS
  <2>2. QED
    BY <1>3, <1>4, <2>1, LocalizedAt
<1> DEFINE step == at.step
<1> HIDE DEF at
<1>6. ASSUME NEW k \in 1..Steps(x)
      PROVE  /\ Shape(Prefix(x, k)) = Shape(Prefix(y, k))
             /\ same(Prefix(x, k), Prefix(y, k)) <=> \A t \in 1..k : Violating(curve[t], 0) = {}
  <2> DEFINE p == Prefix(x, k)
             q == Prefix(y, k)
  <2>1. IsArray(p) /\ IsArray(q) /\ Shape(p) = Shape(q) /\ DOMAIN p.rows = 1..k
    BY PrefixesOf
  <2>2. \A t \in 1..k : ErrorCurve(p, q)[t] = ErrorCurve(x, y)[t]
    BY PrefixCurve
  <2> HIDE DEF p, q
  <2>3. same(p, q) <=> \A t \in 1..k : Violating(ErrorCurve(p, q)[t], 0) = {}
    BY <2>1, DifferentArrays
  <2>4. QED
    BY <2>1, <2>2, <2>3 DEF curve, p, q
<1> HIDE DEF same
<1>7. ASSUME step > 1, NEW f
      PROVE  Exact(Prefix(x, step - 1), Prefix(y, step - 1), f).status = "pass"
  <2>1. step - 1 \in 1..Steps(x) /\ \A t \in 1..(step - 1) : t \in 1..Steps(x) /\ t < step
    BY <1>3, <1>5, <1>7
  <2>2. same(Prefix(x, step - 1), Prefix(y, step - 1))
    BY <1>5, <1>6, <2>1
  <2>3. Exact(Prefix(x, step - 1), Prefix(y, step - 1), f) = Pass
    BY <1>6, <2>1, <2>2 DEF Exact, same
  <2>4. QED
    BY <2>3 DEF Pass, Outcome
<1>8. ASSUME NEW f PROVE Exact(Prefix(x, step), Prefix(y, step), f).status = "fail"
  <2>1. step \in 1..Steps(x) /\ step \in 1..step
    BY <1>3, <1>5
  <2>2. ~same(Prefix(x, step), Prefix(y, step))
    BY <1>5, <1>6, <2>1
  <2>3. \E r : Exact(Prefix(x, step), Prefix(y, step), f) = FailAt(r)
    BY <1>6, <2>1, <2>2 DEF Exact, same
  <2>4. QED
    BY <2>3 DEF FailAt, Outcome
<1>9. Exact(x, y, d).record = at
  BY <1>2 DEF FailAt, Outcome
<1>10. QED
  BY <1>5, <1>7, <1>8, <1>9

\* The curve of an envelope oracle on arrays of one shape.
LEMMA BreachCurveOf ==
  ASSUME NEW x, NEW y, IsArray(x), IsArray(y), Shape(x) = Shape(y), x.envs \in Nat \ {0},
         NEW tol, tol \in Int
  PROVE  /\ BreachCurve(x, y, tol) \in [1..Steps(x) -> [1..x.envs -> Int \cup {NaN}]]
         /\ \A t \in 1..Steps(x) : \A e \in 1..x.envs :
              BreachCurve(x, y, tol)[t][e] = Breach(x.rows[t], y.rows[t][e], tol)
<1>1. /\ Steps(x) \in Nat /\ Steps(y) = Steps(x) /\ Envs(x) = 1..x.envs /\ Envs(y) = 1..x.envs
      /\ DOMAIN x.rows = 1..Steps(x) /\ DOMAIN y.rows = 1..Steps(x)
  BY DEF IsArray, Shape, Steps, Envs
<1>2. Max({Steps(x), Steps(y)}) = Steps(x)
  <2>1. Steps(x) \in Int /\ Steps(y) \in Int
    BY <1>1
  <2>2. Max({Steps(x), Steps(y)}) = IF Steps(x) >= Steps(y) THEN Steps(x) ELSE Steps(y)
    BY <2>1, LargerOf
  <2>3. QED
    BY <1>1, <2>2
<1>3. \A t \in 1..Steps(x) : Broadcast(x, t) = t /\ Broadcast(y, t) = t
  BY <1>1 DEF Broadcast
<1>4. BreachCurve(x, y, tol)
        = [t \in 1..Steps(x) |-> [e \in 1..x.envs |-> Breach(x.rows[t], y.rows[t][e], tol)]]
  BY <1>1, <1>2, <1>3 DEF BreachCurve
<1>5. ASSUME NEW t \in 1..Steps(x), NEW e \in 1..x.envs
      PROVE  Breach(x.rows[t], y.rows[t][e], tol) \in Int \cup {NaN}
  <2>1. x.rows[t] \in [1..x.envs -> Number] /\ y.rows[t] \in [1..x.envs -> Number]
    BY <1>1 DEF IsArray
  <2>2. y.rows[t][e] \in Number
    BY <2>1
  <2>3. QED
    BY <2>1, <2>2, BreachOf
<1>6. QED
  BY <1>2, <1>4, <1>5

\* A curve without a violation is inside its band.
LEMMA InsideOf ==
  ASSUME NEW k, k \in Nat \ {0}, NEW n, n \in Nat \ {0}, NEW curve,
         curve \in [1..k -> [1..n -> Int \cup {NaN}]],
         \A t \in 1..k : Violating(curve[t], 0) = {}
  PROVE  FiniteOf(curve) # {} /\ \A v \in FiniteOf(curve) : v <= 0
<1>1. ASSUME NEW t \in 1..k, NEW e \in 1..n
      PROVE  curve[t][e] \in Int /\ curve[t][e] <= 0
  <2>1. DOMAIN curve[t] = 1..n /\ curve[t][e] \in Int \cup {NaN}
    OBVIOUS
  <2>2. e \notin Violating(curve[t], 0)
    OBVIOUS
  <2>3. ~Beyond(curve[t][e], 0)
    BY <2>1, <2>2 DEF Violating
  <2>4. QED
    BY <2>1, <2>3 DEF Beyond
<1>2. \A t \in 1..k : Range(curve[t]) = {curve[t][e] : e \in 1..n}
  BY DEF Range
<1>3. \A v : v \in FiniteOf(curve) <=> v # NaN /\ \E t \in DOMAIN curve : v \in Range(curve[t])
  BY FiniteIs
<1>4. curve[1][1] \in Range(curve[1]) /\ curve[1][1] # NaN /\ 1 \in DOMAIN curve
  BY <1>1, <1>2, NaNAssumption
<1>5. FiniteOf(curve) # {}
  BY <1>3, <1>4
<1>6. \A v \in FiniteOf(curve) : v <= 0
  BY <1>1, <1>2, <1>3
<1>7. QED
  BY <1>5, <1>6

\* An envelope oracle on arrays of one shape passes unless there is a violation.
LEMMA EnvelopeMeans ==
  ASSUME NEW spec, NEW x, NEW y, NEW d, IsArray(x), IsArray(y), Shape(x) = Shape(y),
         ~(x.envs < 2), Steps(x) # 0, spec.tol \in Int
  PROVE  /\ (\A t \in 1..Steps(x) : Violating(BreachCurve(x, y, spec.tol)[t], 0) = {})
              => Envelope(spec, x, y, d) = Pass
         /\ Envelope(spec, x, y, d).status = "fail"
              => \E t \in 1..Steps(x) : Violating(BreachCurve(x, y, spec.tol)[t], 0) # {}
<1> DEFINE curve == BreachCurve(x, y, spec.tol)
<1>1. x.envs \in Nat \ {0} /\ Steps(x) \in Nat \ {0} /\ Steps(y) = Steps(x)
  BY DEF IsArray, Steps, Shape
<1>2. curve \in [1..Steps(x) -> [1..x.envs -> Int \cup {NaN}]]
  BY <1>1, BreachCurveOf
<1>3. \A v : v \in FiniteOf(curve) <=> v # NaN /\ \E t \in DOMAIN curve : v \in Range(curve[t])
  BY FiniteIs
<1> HIDE DEF curve
<1>4. ASSUME \A t \in 1..Steps(x) : Violating(curve[t], 0) = {}
      PROVE  FiniteOf(curve) # {} /\ \A v \in FiniteOf(curve) : v <= 0
  BY <1>1, <1>2, <1>4, InsideOf
<1>5. FiniteOf(curve) # {} /\ (\A v \in FiniteOf(curve) : v <= 0) => Envelope(spec, x, y, d) = Pass
  BY <1>1, EnvelopeDecides DEF curve
<1>6. Envelope(spec, x, y, d).status = "fail"
        => ~(FiniteOf(curve) # {} /\ \A v \in FiniteOf(curve) : v <= 0)
  BY EnvelopeDecides DEF curve
<1>7. QED
  BY <1>4, <1>5, <1>6 DEF curve

\* Where an envelope oracle says it failed.
LEMMA EnvelopeLocalized ==
  ASSUME NEW spec, NEW one, NEW x, NEW y, NEW d, IsArray(x), IsArray(y),
         Shape(x) = Shape(y), spec.tol \in Nat, one.tol = spec.tol,
         Envelope(spec, x, y, d).status = "fail"
  PROVE  LET at == Envelope(spec, x, y, d).record
         IN  /\ at.step \in 1..Steps(x) /\ at.worst \in at.envs
             /\ at.step > 1 => \A f :
                  Envelope(one, Prefix(x, at.step - 1), Prefix(y, at.step - 1), f).status = "pass"
<1> DEFINE curve == BreachCurve(x, y, spec.tol)
           at == Localize(x, y, curve, 0, d)
<1>1. /\ ~(x.envs < 2) /\ Steps(x) # 0
      /\ Envelope(spec, x, y, d) = FailAt(at)
  BY EnvelopeDecides
<1>2. x.envs \in Nat \ {0} /\ Steps(x) \in Nat /\ spec.tol \in Int
  BY <1>1 DEF IsArray, Steps
<1>3. curve \in [1..Steps(x) -> [1..x.envs -> Int \cup {NaN}]]
  BY <1>2, BreachCurveOf
<1>4. \E t \in 1..Steps(x) : Violating(curve[t], 0) # {}
  BY <1>1, EnvelopeMeans
<1> HIDE DEF curve
<1>5. /\ at.step \in 1..Steps(x) /\ at.worst \in at.envs
      /\ \A t \in 1..Steps(x) : t < at.step => Violating(curve[t], 0) = {}
  <2>1. 0 \in Int /\ x.envs \in Nat
    BY <1>2
  <2>2. QED
    BY <1>2, <1>3, <1>4, <2>1, LocalizedAt
<1> DEFINE step == at.step
<1> HIDE DEF at
<1>6. ASSUME step > 1, NEW f
      PROVE  Envelope(one, Prefix(x, step - 1), Prefix(y, step - 1), f).status = "pass"
  <2> DEFINE k == step - 1
             p == Prefix(x, k)
             q == Prefix(y, k)
  <2>1. k \in 1..Steps(x) /\ \A t \in 1..k : t \in 1..Steps(x) /\ t < step
    BY <1>2, <1>5, <1>6
  <2> HIDE DEF k
  <2>2. /\ IsArray(p) /\ IsArray(q) /\ Shape(p) = Shape(q)
        /\ Steps(p) = k /\ p.envs = x.envs
        /\ \A t \in 1..k : p.rows[t] = x.rows[t] /\ q.rows[t] = y.rows[t]
    BY <2>1, PrefixesOf
  <2> HIDE DEF p, q
  <2>3. /\ BreachCurve(p, q, spec.tol) \in [1..k -> [1..x.envs -> Int \cup {NaN}]]
        /\ \A t \in 1..k : \A e \in 1..x.envs :
             BreachCurve(p, q, spec.tol)[t][e] = Breach(p.rows[t], q.rows[t][e], spec.tol)
    <3>1. p.envs \in Nat \ {0} /\ spec.tol \in Int
      BY <1>2, <2>2
    <3>2. /\ BreachCurve(p, q, spec.tol) \in [1..Steps(p) -> [1..p.envs -> Int \cup {NaN}]]
          /\ \A t \in 1..Steps(p) : \A e \in 1..p.envs :
               BreachCurve(p, q, spec.tol)[t][e] = Breach(p.rows[t], q.rows[t][e], spec.tol)
      BY <2>2, <3>1, BreachCurveOf
    <3>3. QED
      BY <2>2, <3>2
  <2>4. \A t \in 1..Steps(x) : \A e \in 1..x.envs :
          curve[t][e] = Breach(x.rows[t], y.rows[t][e], spec.tol)
    <3>1. x.envs \in Nat \ {0} /\ spec.tol \in Int
      BY <1>2
    <3>2. QED
      BY <3>1, BreachCurveOf DEF curve
  <2>5. \A t \in 1..k : \A e \in 1..x.envs : BreachCurve(p, q, spec.tol)[t][e] = curve[t][e]
    BY <2>1, <2>2, <2>3, <2>4
  <2>6. \A t \in 1..k : Violating(BreachCurve(p, q, spec.tol)[t], 0) = Violating(curve[t], 0)
    BY <1>3, <2>1, <2>3, <2>5 DEF Violating
  <2>7. \A t \in 1..k : Violating(BreachCurve(p, q, one.tol)[t], 0) = {}
    BY <1>5, <2>1, <2>6
  <2>8. ~(p.envs < 2) /\ Steps(p) # 0 /\ one.tol \in Int
    BY <1>1, <2>1, <2>2
  <2>9. Envelope(one, p, q, f) = Pass
    BY <2>2, <2>7, <2>8, EnvelopeMeans
  <2>10. QED
    BY <2>9 DEF Pass, Outcome, k, p, q
<1>7. Envelope(spec, x, y, d).record = at
  BY <1>1 DEF FailAt, Outcome
<1>8. QED
  BY <1>5, <1>6, <1>7

\* A criterion with a sample floor of one.
LEMMA WithFloor ==
  ASSUME NEW spec, SpecFields \subseteq DOMAIN spec
  PROVE  LET s == [spec EXCEPT !.floor = 1]
         IN  /\ s.floor = 1 /\ s.type = spec.type /\ s.signal = spec.signal
             /\ s.tol = spec.tol /\ s.how = spec.how
BY DEF SpecFields

LEMMA LocalizedFollows == Reported /\ Explained /\ Judged => FailureIsLocalized
<1> DEFINE types == {"trajectory_equivalence", "ulp_equivalence", "exact_equivalence",
                     "trajectory_envelope"}
<1> SUFFICES ASSUME Reported, Explained, Judged, NEW i \in Run(types),
                    outcomes[i].status = "fail", Shape(Baseline(i)) = Shape(Candidate(i))
             PROVE  LET spec == [M.oracles[i] EXCEPT !.floor = 1]
                        at   == outcomes[i].record
                        On(k) == StatusOn(spec, Prefix(Baseline(i), k), Prefix(Candidate(i), k))
                        strict == spec.type = "exact_equivalence"
                                    \/ (spec.type # "trajectory_envelope" /\ spec.how \in {"max", "any"})
                    IN  /\ at.step >= 1 /\ at.worst \in at.envs
                        /\ at.step > 1 => On(at.step - 1) = {"pass"}
                        /\ strict => On(at.step) = {"fail"}
  BY DEF FailureIsLocalized
<1> DEFINE spec == M.oracles[i]
           one  == [spec EXCEPT !.floor = 1]
           x == Baseline(i)
           y == Candidate(i)
           d == ConfigDifferences(B, C)
           at == outcomes[i].record
           strict == one.type = "exact_equivalence"
                       \/ (one.type # "trajectory_envelope" /\ one.how \in {"max", "any"})
<1>1. /\ spec.type \in types
      /\ spec.signal \in DOMAIN B.signals \cap DOMAIN C.signals
      /\ SpecFields \subseteq DOMAIN spec /\ CriterionIsDeclared(spec)
      /\ IsArray(x) /\ IsArray(y)
  BY Ran
<1>2. i \in Run(Certain) /\ spec.type \in Certain
  BY <1>1 DEF Certain, Pairwise, Gated, Run
<1>3. /\ spec.type \in Gated => spec.tol \in Nat /\ spec.floor \in Nat \ {0}
      /\ outcomes[i] = Judgement(spec, x, y, d)
  BY <1>2, Reporting
<1>4. /\ one.floor = 1 /\ one.type = spec.type /\ one.signal = spec.signal
      /\ one.tol = spec.tol /\ one.how = spec.how
  BY <1>1, WithFloor
<1> HIDE DEF one, spec, x, y, d
<1>5. /\ at.step \in 1..Steps(x) /\ at.worst \in at.envs
      /\ at.step > 1 => \A f :
           Judgement(one, Prefix(x, at.step - 1), Prefix(y, at.step - 1), f).status = "pass"
      /\ strict => \A f : Judgement(one, Prefix(x, at.step), Prefix(y, at.step), f).status = "fail"
  <2>1. Shape(x) = Shape(y) /\ outcomes[i].status = "fail"
    BY DEF x, y
  <2>2. CASE spec.type \in {"trajectory_equivalence", "ulp_equivalence"}
    <3>1. /\ outcomes[i] = Trajectory(spec, x, y, d)
          /\ \A a, b, f : Judgement(one, a, b, f) = Trajectory(one, a, b, f)
      BY <1>3, <1>4, <2>2 DEF Judgement
    <3>2. spec.tol \in Nat /\ spec.floor \in Nat \ {0}
      BY <1>3, <2>2 DEF Gated
    <3>3. spec.how \in {"max", "any", "second_largest", "all", "final"}
      BY <1>1 DEF CriterionIsDeclared
    <3>4. /\ at.step \in 1..Steps(x) /\ at.worst \in at.envs
          /\ at.step > 1 => \A f :
               Trajectory(one, Prefix(x, at.step - 1), Prefix(y, at.step - 1), f).status = "pass"
          /\ spec.how \in {"max", "any"} => \A f :
               Trajectory(one, Prefix(x, at.step), Prefix(y, at.step), f).status = "fail"
      BY <1>1, <1>4, <2>1, <3>1, <3>2, <3>3, TrajectoryLocalized
    <3>5. strict => spec.how \in {"max", "any"}
      BY <1>4, <2>2
    <3>6. QED
      BY <3>1, <3>4, <3>5
  <2>3. CASE spec.type = "exact_equivalence"
    <3>1. /\ outcomes[i] = Exact(x, y, d)
          /\ \A a, b, f : Judgement(one, a, b, f) = Exact(a, b, f)
      BY <1>3, <1>4, <2>3 DEF Judgement
    <3>2. QED
      BY <1>1, <2>1, <3>1, ExactLocalized
  <2>4. CASE spec.type = "trajectory_envelope"
    <3>1. /\ outcomes[i] = Envelope(spec, x, y, d)
          /\ \A a, b, f : Judgement(one, a, b, f) = Envelope(one, a, b, f)
      BY <1>3, <1>4, <2>4 DEF Judgement
    <3>2. spec.tol \in Nat
      BY <1>3, <2>4 DEF Gated
    <3>3. ~strict
      BY <1>4, <2>4
    <3>4. QED
      BY <1>1, <1>4, <2>1, <3>1, <3>2, <3>3, EnvelopeLocalized
  <2>5. QED
    BY <1>1, <2>2, <2>3, <2>4
<1>6. ASSUME NEW k \in 1..Steps(x)
      PROVE  \E f : StatusOn(one, Prefix(x, k), Prefix(y, k))
                       = {Judgement(one, Prefix(x, k), Prefix(y, k), f).status}
  <2>1. IsArray(Prefix(x, k)) /\ IsArray(Prefix(y, k))
    BY <1>1, PrefixesOf DEF x, y
  <2>2. one.type \in Gated => one.tol # None
    BY <1>3, <1>4, NoneAssumption
  <2>3. QED
    BY <1>1, <1>2, <1>4, <2>1, <2>2, OnArrays
<1>7. Steps(x) \in Nat
  BY <1>1 DEF IsArray, Steps
<1> HIDE DEF at, strict
<1>8. at.step > 1 => StatusOn(one, Prefix(x, at.step - 1), Prefix(y, at.step - 1)) = {"pass"}
  <2>1. at.step > 1 => at.step - 1 \in 1..Steps(x)
    BY <1>5, <1>7
  <2>2. QED
    BY <1>5, <1>6, <2>1
<1>9. strict => StatusOn(one, Prefix(x, at.step), Prefix(y, at.step)) = {"fail"}
  BY <1>5, <1>6
<1>10. at.step >= 1 /\ at.worst \in at.envs
  BY <1>5, <1>7
<1>11. QED
  BY <1>8, <1>9, <1>10 DEF at, strict, one, spec, x, y

-----------------------------------------------------------------------------
(* Sums over a finite set of environments.                                   *)

\* The sums of a row over every set of its environments, taken in any order.
Sums(h, row, S) ==
  /\ h \in [SUBSET S -> Int] /\ h[{}] = 0
  /\ \A s \in SUBSET S : \A e \in s : h[s] = row[e] + h[s \ {e}]

\* The function that FoldFunction computes.
First(s) == CHOOSE e \in s : TRUE
Adds(h, row, S) == h = [s \in SUBSET S |-> IF s = {} THEN 0 ELSE row[First(s)] + h[s \ {First(s)}]]
Total(row) == (CHOOSE h : Adds(h, row, DOMAIN row))[DOMAIN row]

\* So what the statistical oracle adds up is the total.
LEMMA FoldIsTotal ==
  ASSUME NEW row
  PROVE  FoldFunction(LAMBDA p, q : p + q, 0, row) = Total(row)
BY DEF FoldFunction, FoldFunctionOnSet, MapThenFoldSet, Total, Adds, First

\* Such sums exist: a least set without them would have them once an element is set aside.
LEMMA SumsExist ==
  ASSUME NEW S, IsFiniteSet(S), NEW row, \A e \in S : row[e] \in Int
  PROVE  \E h : Sums(h, row, S)
<1> DEFINE without == {T \in SUBSET S : ~ \E h : Sums(h, row, T)}
<1> SUFFICES ASSUME without # {} PROVE FALSE
  OBVIOUS
<1>1. PICK T \in without : \A U \in without : ~(<<U, T>> \in StrictSubsetOrdering(S))
  <2>1. IsWellFoundedOn(StrictSubsetOrdering(S), SUBSET S)
    BY FS_StrictSubsetOrderingWellFounded, FS_FiniteSubsetsOfFinite
  <2>2. without \subseteq SUBSET S
    OBVIOUS
  <2> HIDE DEF without
  <2>3. QED
    BY <2>1, <2>2, WFMin
<1>2. T # {}
  <2>1. Sums([s \in SUBSET {} |-> 0], row, {})
    BY DEF Sums
  <2>2. QED
    BY <1>1, <2>1
<1>3. PICK z \in T : TRUE
  BY <1>2
<1>4. z \in S /\ row[z] \in Int /\ \A e \in T : row[e] \in Int
  BY <1>1, <1>3
<1>5. PICK g : Sums(g, row, T \ {z})
  <2>1. <<T \ {z}, T>> \in StrictSubsetOrdering(S)
    BY <1>1, <1>3 DEF StrictSubsetOrdering
  <2>2. QED
    BY <1>1, <2>1
<1> DEFINE h == [s \in SUBSET T |-> IF z \in s THEN row[z] + g[s \ {z}] ELSE g[s]]
<1>6. \A s \in SUBSET T : s \ {z} \in SUBSET (T \ {z}) /\ g[s \ {z}] \in Int
  BY <1>5 DEF Sums
<1>7. h \in [SUBSET T -> Int]
  <2>1. ASSUME NEW s \in SUBSET T PROVE h[s] \in Int
    <3>1. CASE z \in s
      <4>1. row[z] \in Int /\ g[s \ {z}] \in Int
        BY <1>4, <1>6
      <4>2. h[s] = row[z] + g[s \ {z}]
        BY <3>1
      <4> HIDE DEF h
      <4>3. QED
        BY <4>1, <4>2
    <3>2. CASE z \notin s
      <4>1. s \ {z} = s
        BY <3>2
      <4>2. QED
        BY <1>6, <3>2, <4>1
    <3>3. QED
      BY <3>1, <3>2
  <2>2. QED
    BY <2>1
<1>8. h[{}] = 0
  BY <1>5 DEF Sums
<1>9. ASSUME NEW s \in SUBSET T, NEW e \in s PROVE h[s] = row[e] + h[s \ {e}]
  <2>1. s \ {e} \in SUBSET T
    OBVIOUS
  <2>2. CASE e = z
    <3>1. h[s] = row[z] + g[s \ {z}] /\ h[s \ {e}] = g[s \ {z}]
      BY <2>1, <2>2
    <3>2. QED
      BY <2>2, <3>1
  <2>3. CASE e # z /\ z \in s
    <3>1. h[s] = row[z] + g[s \ {z}] /\ h[s \ {e}] = row[z] + g[(s \ {e}) \ {z}]
      BY <2>1, <2>3
    <3>2. s \ {z} \in SUBSET (T \ {z}) /\ e \in s \ {z}
      BY <2>3
    <3>3. g[s \ {z}] = row[e] + g[(s \ {z}) \ {e}]
      BY <1>5, <3>2 DEF Sums
    <3>4. (s \ {z}) \ {e} = (s \ {e}) \ {z}
      OBVIOUS
    <3>5. row[e] \in Int /\ g[(s \ {e}) \ {z}] \in Int
      BY <1>4, <1>6, <2>1
    <3>6. h[s] = row[z] + (row[e] + g[(s \ {e}) \ {z}])
      BY <3>1, <3>3, <3>4
    <3>7. row[z] \in Int
      BY <1>4
    <3> HIDE DEF h
    <3> DEFINE a == row[z]
               b == row[e]
               c == g[(s \ {e}) \ {z}]
    <3>8. a + (b + c) = b + (a + c)
      <4>1. a \in Int /\ b \in Int /\ c \in Int
        BY <3>5, <3>7
      <4> HIDE DEF a, b, c
      <4>2. QED
        BY <4>1
    <3>9. QED
      BY <3>1, <3>6, <3>8
  <2>4. CASE z \notin s
    <3>1. h[s] = g[s] /\ h[s \ {e}] = g[s \ {e}]
      BY <2>1, <2>4
    <3>2. s \in SUBSET (T \ {z})
      BY <2>4
    <3>3. QED
      BY <1>5, <3>1, <3>2 DEF Sums
  <2>5. QED
    BY <2>2, <2>3, <2>4
<1>10. Sums(h, row, T)
  <2> HIDE DEF h
  <2>1. QED
    BY <1>7, <1>8, <1>9 DEF Sums
<1>11. QED
  BY <1>1, <1>10

\* There is one such function, whichever element is taken from a set first.
LEMMA AddsIsSums ==
  ASSUME NEW S, IsFiniteSet(S), NEW row, NEW h, Sums(h, row, S), NEW g, Adds(g, row, S)
  PROVE  g = h
<1> DEFINE apart == {s \in SUBSET S : g[s] # h[s]}
<1>1. /\ g = [s \in SUBSET S |-> g[s]]
      /\ \A s \in SUBSET S : g[s] = IF s = {} THEN 0 ELSE row[First(s)] + g[s \ {First(s)}]
  <2> DEFINE G(s) == IF s = {} THEN 0 ELSE row[First(s)] + g[s \ {First(s)}]
  <2>1. g = [s \in SUBSET S |-> G(s)]
    BY DEF Adds
  <2> HIDE DEF G
  <2>2. g = [s \in SUBSET S |-> g[s]] /\ \A s \in SUBSET S : g[s] = G(s)
    BY <2>1
  <2>3. QED
    BY <2>2 DEF G
<1>2. apart = {}
  <2> SUFFICES ASSUME apart # {} PROVE FALSE
    OBVIOUS
  <2>1. PICK s \in apart : \A r \in apart : ~(<<r, s>> \in StrictSubsetOrdering(S))
    <3>1. IsWellFoundedOn(StrictSubsetOrdering(S), SUBSET S)
      BY FS_StrictSubsetOrderingWellFounded, FS_FiniteSubsetsOfFinite
    <3>2. apart \subseteq SUBSET S
      OBVIOUS
    <3> HIDE DEF apart
    <3>3. QED
      BY <3>1, <3>2, WFMin
  <2>2. s # {}
    BY <1>1, <2>1 DEF Sums
  <2>3. First(s) \in s
    BY <2>2 DEF First
  <2>4. s \ {First(s)} \in SUBSET S /\ <<s \ {First(s)}, s>> \in StrictSubsetOrdering(S)
    BY <2>1, <2>3 DEF StrictSubsetOrdering
  <2>5. g[s \ {First(s)}] = h[s \ {First(s)}]
    BY <2>1, <2>4
  <2>6. g[s] = row[First(s)] + g[s \ {First(s)}]
    BY <1>1, <2>1, <2>2
  <2>7. h[s] = row[First(s)] + h[s \ {First(s)}]
    BY <2>1, <2>3 DEF Sums
  <2>8. QED
    BY <2>1, <2>5, <2>6, <2>7
<1>3. QED
  BY <1>1, <1>2 DEF Sums

\* The sums over all orders are what FoldFunction computes.
LEMMA SumsAdds ==
  ASSUME NEW S, NEW row, NEW h, Sums(h, row, S)
  PROVE  Adds(h, row, S)
<1>1. \A s \in SUBSET S : h[s] = IF s = {} THEN 0 ELSE row[First(s)] + h[s \ {First(s)}]
  <2>1. ASSUME NEW s \in SUBSET S, s # {} PROVE h[s] = row[First(s)] + h[s \ {First(s)}]
    <3>1. First(s) \in s
      BY <2>1 DEF First
    <3>2. QED
      BY <3>1 DEF Sums
  <2>2. QED
    BY <2>1 DEF Sums
<1>2. QED
  BY <1>1 DEF Sums, Adds

\* So a total is the sum in any order ...
LEMMA TotalIsSum ==
  ASSUME NEW row, IsFiniteSet(DOMAIN row), \A e \in DOMAIN row : row[e] \in Int
  PROVE  \A h : Sums(h, row, DOMAIN row) => Total(row) = h[DOMAIN row]
<1> SUFFICES ASSUME NEW h, Sums(h, row, DOMAIN row) PROVE Total(row) = h[DOMAIN row]
  OBVIOUS
<1> DEFINE g == CHOOSE g : Adds(g, row, DOMAIN row)
<1>1. Adds(g, row, DOMAIN row)
  BY SumsAdds
<1> HIDE DEF g
<1>2. g = h
  BY <1>1, AddsIsSums
<1>3. QED
  BY <1>2 DEF Total, g

\* ... and that of a row with its environments renamed is the same.
LEMMA TotalRenamed ==
  ASSUME NEW S, IsFiniteSet(S), NEW row, NEW other, DOMAIN row = S, DOMAIN other = S,
         \A e \in S : row[e] \in Int, NEW p, p \in [S -> S],
         \A a, b \in S : p[a] = p[b] => a = b, {p[e] : e \in S} = S,
         \A e \in S : other[e] = row[p[e]]
  PROVE  Total(other) = Total(row)
<1>1. PICK h : Sums(h, row, S)
  BY SumsExist
<1> DEFINE Image(s) == {p[e] : e \in s}
           k == [s \in SUBSET S |-> h[Image(s)]]
<1>2. \A s \in SUBSET S : Image(s) \in SUBSET S
  OBVIOUS
<1>3. k \in [SUBSET S -> Int]
  BY <1>1, <1>2 DEF Sums
<1>4. k[{}] = 0
  <2>1. Image({}) = {}
    OBVIOUS
  <2>2. QED
    BY <1>1, <2>1 DEF Sums
<1>5. ASSUME NEW s \in SUBSET S, NEW e \in s PROVE k[s] = other[e] + k[s \ {e}]
  <2>1. p[e] \in Image(s)
    OBVIOUS
  <2>2. Image(s) \ {p[e]} = Image(s \ {e})
    OBVIOUS
  <2>3. k[s] = h[Image(s)] /\ k[s \ {e}] = h[Image(s \ {e})]
    OBVIOUS
  <2>4. other[e] = row[p[e]]
    OBVIOUS
  <2> HIDE DEF k, Image
  <2>5. h[Image(s)] = row[p[e]] + h[Image(s) \ {p[e]}]
    BY <1>1, <1>2, <2>1 DEF Sums
  <2>6. QED
    BY <2>2, <2>3, <2>4, <2>5
<1>6. Sums(k, other, S)
  <2> HIDE DEF k
  <2>1. QED
    BY <1>3, <1>4, <1>5 DEF Sums
<1>7. k[S] = h[S]
  OBVIOUS
<1> HIDE DEF k
<1>8. \A e \in S : other[e] \in Int
  OBVIOUS
<1>9. Total(other) = k[S] /\ Total(row) = h[S]
  BY <1>1, <1>6, <1>8, TotalIsSum
<1>10. QED
  BY <1>7, <1>9

-----------------------------------------------------------------------------
(* Environments in another order.                                            *)

\* A renaming of environments reaches every one of them, and keeps their number.
LEMMA Renaming ==
  ASSUME NEW n, n \in Nat, NEW p, p \in Bijections(n)
  PROVE  /\ p \in [1..n -> 1..n] /\ \A j \in 1..n : \E e \in 1..n : p[e] = j
         /\ \A a, b \in 1..n : p[a] = p[b] => a = b
         /\ \A S \in SUBSET (1..n) :
              /\ IsFiniteSet(S)
              /\ Cardinality({e \in 1..n : p[e] \in S}) = Cardinality(S)
<1>1. IsFiniteSet(1..n)
  BY FS_Interval
<1>2. p \in [1..n -> 1..n] /\ \A a, b \in 1..n : p[a] = p[b] => a = b
  BY DEF Bijections
<1>3. \A j \in 1..n : \E e \in 1..n : p[e] = j
  <2>1. p \in Injection(1..n, 1..n)
    BY <1>2 DEF Injection, IsInjective
  <2>2. p \in Surjection(1..n, 1..n)
    BY <1>1, <2>1, FS_Injection
  <2>3. QED
    BY <2>2 DEF Surjection
<1>4. ASSUME NEW S \in SUBSET (1..n)
      PROVE  IsFiniteSet(S) /\ Cardinality({e \in 1..n : p[e] \in S}) = Cardinality(S)
  <2> DEFINE T == {e \in 1..n : p[e] \in S}
             f == [e \in T |-> p[e]]
  <2>1. f \in [T -> S]
    OBVIOUS
  <2>2. \A a, b \in T : f[a] = f[b] => a = b
    BY <1>2
  <2>3. \A j \in S : \E e \in T : f[e] = j
    BY <1>3
  <2>4. IsFiniteSet(T) /\ IsFiniteSet(S)
    BY <1>1, FS_Subset
  <2> HIDE DEF f, T
  <2>5. f \in Bijection(T, S)
    BY <2>1, <2>2, <2>3 DEF Bijection, Injection, Surjection, IsInjective
  <2>6. Cardinality(S) = Cardinality(T)
    BY <2>4, <2>5, FS_Bijection DEF ExistsBijection
  <2>7. QED
    BY <2>4, <2>6 DEF T
<1>5. \A S \in SUBSET (1..n) :
        IsFiniteSet(S) /\ Cardinality({e \in 1..n : p[e] \in S}) = Cardinality(S)
  BY <1>4
<1>6. QED
  BY <1>2, <1>3, <1>5

\* The environments that a renaming takes into a set.
Renamed(S, p, n) == {e \in 1..n : p[e] \in S}

LEMMA CountRenamed ==
  ASSUME NEW n, n \in Nat, NEW p, p \in Bijections(n), NEW S, S \in SUBSET (1..n)
  PROVE  Cardinality(Renamed(S, p, n)) = Cardinality(S)
BY Renaming DEF Renamed

\* Its values are the same.
LEMMA RenamedRange ==
  ASSUME NEW S, NEW p, p \in [S -> S], \A j \in S : \E e \in S : p[e] = j,
         NEW row, NEW other, DOMAIN row = S, DOMAIN other = S, \A e \in S : other[e] = row[p[e]]
  PROVE  Range(other) = Range(row)
<1>1. ASSUME NEW v \in Range(other) PROVE v \in Range(row)
  <2>1. PICK e \in S : v = other[e]
    BY DEF Range
  <2>2. p[e] \in S /\ v = row[p[e]]
    BY <2>1
  <2>3. QED
    BY <2>2 DEF Range
<1>2. ASSUME NEW v \in Range(row) PROVE v \in Range(other)
  <2>1. PICK j \in S : v = row[j]
    BY DEF Range
  <2>2. PICK e \in S : p[e] = j
    OBVIOUS
  <2>3. v = other[e]
    BY <2>1, <2>2
  <2>4. QED
    BY <2>3 DEF Range
<1>3. QED
  BY <1>1, <1>2

\* An array with its environments renamed has its shape and, at every step, its values.
LEMMA RelabelOf ==
  ASSUME NEW a, IsArray(a), NEW p, p \in Bijections(a.envs)
  PROVE  LET b == Relabel(a, p)
         IN  /\ IsArray(b) /\ b.envs = a.envs /\ Envs(b) = Envs(a)
             /\ Steps(b) = Steps(a) /\ Shape(b) = Shape(a) /\ DOMAIN b.rows = DOMAIN a.rows
             /\ \A t \in DOMAIN a.rows : \A e \in Envs(a) : b.rows[t][e] = a.rows[t][p[e]]
             /\ \A t \in DOMAIN a.rows : Range(b.rows[t]) = Range(a.rows[t])
<1> DEFINE b == Relabel(a, p)
           rows == [t \in DOMAIN a.rows |-> [e \in Envs(a) |-> a.rows[t][p[e]]]]
<1>1. a.envs \in Nat /\ a.rows \in Seq([Envs(a) -> Number]) /\ Envs(a) = 1..a.envs
      /\ a = [envs |-> a.envs, rows |-> a.rows]
  BY DEF IsArray, Envs
<1>2. b = [a EXCEPT !.rows = rows]
  BY DEF Relabel
<1>3. b.envs = a.envs /\ b.rows = rows /\ b = [envs |-> b.envs, rows |-> b.rows]
  BY <1>1, <1>2
<1>4. DOMAIN a.rows = 1..Len(a.rows) /\ Len(a.rows) \in Nat
  BY <1>1
<1>5. \A t \in DOMAIN a.rows : a.rows[t] \in [Envs(a) -> Number]
  BY <1>1
<1>6. p \in [Envs(a) -> Envs(a)] /\ \A j \in Envs(a) : \E e \in Envs(a) : p[e] = j
  BY <1>1, Renaming
<1>7. rows \in Seq([Envs(a) -> Number])
  BY <1>4, <1>5, <1>6, SeqDef
<1>8. Len(rows) = Len(a.rows)
  BY <1>4, <1>7, LenProperties
<1>9. \A t \in DOMAIN a.rows : \A e \in Envs(a) : b.rows[t][e] = a.rows[t][p[e]]
  BY <1>3
<1>10. ASSUME NEW t \in DOMAIN a.rows PROVE Range(b.rows[t]) = Range(a.rows[t])
  <2>1. DOMAIN b.rows[t] = Envs(a) /\ \A e \in Envs(a) : b.rows[t][e] = a.rows[t][p[e]]
    BY <1>3
  <2>2. DOMAIN a.rows[t] = Envs(a)
    BY <1>5
  <2> HIDE DEF b, rows
  <2>3. QED
    BY <1>6, <2>1, <2>2, RenamedRange
<1> HIDE DEF b, rows
<1>11. Envs(b) = Envs(a) /\ Steps(b) = Steps(a) /\ Shape(b) = Shape(a)
  BY <1>3, <1>8 DEF Envs, Steps, Shape
<1>12. DOMAIN b.rows = DOMAIN a.rows
  BY <1>3 DEF rows
<1>13. IsArray(b)
  BY <1>1, <1>3, <1>7, <1>11 DEF IsArray
<1>14. QED
  BY <1>3, <1>9, <1>10, <1>11, <1>12, <1>13 DEF b

\* A row is another one with its environments renamed.
Renames(other, row, p, n) ==
  /\ DOMAIN row = 1..n /\ DOMAIN other = 1..n
  /\ \A e \in 1..n : other[e] = row[p[e]]

\* Its values, whether one violates a limit and how many exceed a value are the same.
LEMMA RenamedRow ==
  ASSUME NEW n, n \in Nat, NEW p, p \in Bijections(n), NEW row, NEW other, Renames(other, row, p, n)
  PROVE  /\ Range(other) = Range(row)
         /\ \A limit : Violating(other, limit) = {} <=> Violating(row, limit) = {}
         /\ \A v : Cardinality(Over(other, v)) = Cardinality(Over(row, v))
<1>1. p \in [1..n -> 1..n] /\ \A j \in 1..n : \E e \in 1..n : p[e] = j
  BY Renaming
<1>2. Range(other) = Range(row)
  <2> DEFINE S == 1..n
  <2>1. /\ DOMAIN row = S /\ DOMAIN other = S /\ \A e \in S : other[e] = row[p[e]]
        /\ p \in [S -> S] /\ \A j \in S : \E e \in S : p[e] = j
    BY <1>1 DEF Renames
  <2> HIDE DEF S
  <2>2. QED
    BY <2>1, RenamedRange
<1>3. ASSUME NEW limit PROVE Violating(other, limit) = {} <=> Violating(row, limit) = {}
  <2>1. Violating(row, limit) = {} <=> \A j \in 1..n : ~Beyond(row[j], limit)
    BY DEF Violating, Renames
  <2>2. Violating(other, limit) = {} <=> \A e \in 1..n : ~Beyond(row[p[e]], limit)
    BY DEF Violating, Renames
  <2>3. QED
    BY <1>1, <2>1, <2>2
<1>4. ASSUME NEW v PROVE Cardinality(Over(other, v)) = Cardinality(Over(row, v))
  <2>1. Over(row, v) \in SUBSET (1..n)
    BY DEF Over, Renames
  <2>2. Over(other, v) = {e \in 1..n : p[e] \in Over(row, v)}
    BY <1>1 DEF Over, Renames
  <2> DEFINE S == Over(row, v)
  <2>3. Cardinality({e \in 1..n : p[e] \in S}) = Cardinality(S)
    <3>1. S \in SUBSET (1..n)
      BY <2>1
    <3> HIDE DEF S
    <3>2. QED
      BY SMTT(20), <3>1, Renaming
  <2>4. QED
    BY <2>2, <2>3
<1>5. QED
  BY <1>2, <1>3, <1>4

\* The rows of an error curve are renamed with the environments.
LEMMA RenamedCurve ==
  ASSUME NEW x, NEW y, IsArray(x), IsArray(y), Shape(x) = Shape(y), NEW p, p \in Bijections(x.envs),
         NEW t \in DOMAIN x.rows
  PROVE  Renames(ErrorCurve(Relabel(x, p), Relabel(y, p))[t], ErrorCurve(x, y)[t], p, x.envs)
<1> DEFINE a == Relabel(x, p)
           b == Relabel(y, p)
<1>1. /\ Envs(x) = 1..x.envs /\ Envs(y) = Envs(x) /\ y.envs = x.envs /\ x.envs \in Nat
      /\ DOMAIN y.rows = DOMAIN x.rows
  BY DEF IsArray, Shape, Envs, Steps
<1>2. /\ IsArray(a) /\ Envs(a) = Envs(x) /\ Shape(a) = Shape(x) /\ DOMAIN a.rows = DOMAIN x.rows
      /\ \A e \in Envs(x) : a.rows[t][e] = x.rows[t][p[e]]
  BY RelabelOf
<1>3. /\ IsArray(b) /\ Shape(b) = Shape(x)
      /\ \A e \in Envs(x) : b.rows[t][e] = y.rows[t][p[e]]
  BY <1>1, RelabelOf
<1>4. p \in [1..x.envs -> 1..x.envs]
  BY <1>1, Renaming
<1> HIDE DEF a, b
<1>5. a.envs = x.envs
  BY <1>2 DEF Shape
<1>6. /\ DOMAIN ErrorCurve(a, b)[t] = 1..x.envs
      /\ \A e \in 1..x.envs : ErrorCurve(a, b)[t][e] = Distance(a.rows[t][e], b.rows[t][e])
  BY <1>1, <1>2, <1>3, <1>5, CurveOf
<1>7. /\ DOMAIN ErrorCurve(x, y)[t] = 1..x.envs
      /\ \A e \in 1..x.envs : ErrorCurve(x, y)[t][e] = Distance(x.rows[t][e], y.rows[t][e])
  BY <1>1, CurveOf
<1>8. QED
  BY ZenonT(30), <1>1, <1>2, <1>3, <1>4, <1>6, <1>7 DEF Renames, a, b

\* The aggregates of a step depend on counts and extremes alone.
LEMMA TrajectoryRenamed ==
  ASSUME NEW spec, NEW x, NEW y, IsArray(x), IsArray(y), x.envs = y.envs,
         NEW p, p \in Bijections(x.envs), spec.tol \in Nat, spec.floor \in Nat \ {0},
         spec.how \in {"max", "any", "second_largest", "all"}, NEW d, NEW f
  PROVE  Trajectory(spec, Relabel(x, p), Relabel(y, p), f).status = Trajectory(spec, x, y, d).status
<1> DEFINE a == Relabel(x, p)
           b == Relabel(y, p)
           over(curve) == \A t \in DOMAIN curve : ~Beyond(Aggregate(curve[t], spec.how), spec.tol)
           judged(u, v) == IF Shape(u) # Shape(v) \/ Steps(u) * u.envs < spec.floor THEN "inconclusive"
                           ELSE IF over(ErrorCurve(u, v)) THEN "pass" ELSE "fail"
<1>1. /\ IsArray(a) /\ Shape(a) = Shape(x) /\ a.envs = x.envs /\ Steps(a) = Steps(x)
      /\ DOMAIN a.rows = DOMAIN x.rows
  BY RelabelOf
<1>2. IsArray(b) /\ Shape(b) = Shape(y)
  BY RelabelOf
<1>3. ASSUME NEW u, NEW v, NEW g PROVE Trajectory(spec, u, v, g).status = judged(u, v)
  BY DEF Trajectory, Incomparable, Insufficient, Inconclusive, Pass, Exceeded, Outcome
<1> HIDE DEF a, b
<1>4. ASSUME Shape(x) = Shape(y), ~(Steps(x) * x.envs < spec.floor)
      PROVE  over(ErrorCurve(a, b)) <=> over(ErrorCurve(x, y))
  <2>1. x.envs \in Nat \ {0}
    BY <1>4, SomeEnvironment
  <2>2. DOMAIN ErrorCurve(a, b) = DOMAIN x.rows /\ DOMAIN ErrorCurve(x, y) = DOMAIN x.rows
    BY <1>1, <1>2, <1>4, CurveOf
  <2>3. ASSUME NEW t \in DOMAIN x.rows
        PROVE  ~Beyond(Aggregate(ErrorCurve(a, b)[t], spec.how), spec.tol)
                 <=> ~Beyond(Aggregate(ErrorCurve(x, y)[t], spec.how), spec.tol)
    <3> DEFINE row == ErrorCurve(x, y)[t]
               other == ErrorCurve(a, b)[t]
    <3>1. IsRow(row, x.envs)
      BY <1>4, <2>1, CurveOf DEF IsRow
    <3>2. IsRow(other, x.envs)
      BY <1>1, <1>2, <1>4, <2>1, CurveOf DEF IsRow
    <3>3. Renames(other, row, p, x.envs)
      BY <1>4, RenamedCurve DEF a, b
    <3> HIDE DEF row, other
    <3>4. Range(other) = Range(row)
          /\ Cardinality(Over(other, spec.tol)) = Cardinality(Over(row, spec.tol))
      BY <2>1, <3>3, RenamedRow
    <3>5. spec.tol \in Int
      OBVIOUS
    <3>6. ~Beyond(Aggregate(row, spec.how), spec.tol)
            <=> NaN \notin Range(row) /\ Cardinality(Over(row, spec.tol)) <= Allowance(spec.how, x.envs)
      BY <3>1, <3>5, AggregateMeans
    <3>7. ~Beyond(Aggregate(other, spec.how), spec.tol)
            <=> NaN \notin Range(other) /\ Cardinality(Over(other, spec.tol)) <= Allowance(spec.how, x.envs)
      BY <3>2, <3>5, AggregateMeans
    <3>8. QED
      BY <3>4, <3>6, <3>7 DEF row, other
  <2>4. QED
    BY <2>2, <2>3
<1>5. judged(a, b) = judged(x, y)
  <2> HIDE DEF over
  <2>1. QED
    BY <1>1, <1>2, <1>4
<1> HIDE DEF judged
<1>6. QED
  BY <1>3, <1>5 DEF a, b

\* Equal arrays stay equal, and different ones different.
LEMMA ExactRenamed ==
  ASSUME NEW x, NEW y, IsArray(x), IsArray(y), x.envs = y.envs, NEW p, p \in Bijections(x.envs),
         NEW d, NEW f
  PROVE  Exact(Relabel(x, p), Relabel(y, p), f).status = Exact(x, y, d).status
<1> DEFINE a == Relabel(x, p)
           b == Relabel(y, p)
           same(u, v) == u = v /\ NaN \notin Values(u)
<1>1. IsArray(a) /\ Shape(a) = Shape(x) /\ DOMAIN a.rows = DOMAIN x.rows
  BY RelabelOf
<1>2. IsArray(b) /\ Shape(b) = Shape(y)
  BY RelabelOf
<1>3. ASSUME NEW u, NEW v, NEW g
      PROVE  Exact(u, v, g).status = IF Shape(u) = Shape(v) /\ same(u, v) THEN "pass" ELSE "fail"
  BY DEF Exact, Fail, Pass, FailAt, Outcome
<1> HIDE DEF a, b
<1>4. ASSUME Shape(x) = Shape(y) PROVE same(a, b) <=> same(x, y)
  <2>1. same(a, b) <=> \A t \in DOMAIN x.rows : Violating(ErrorCurve(a, b)[t], 0) = {}
    BY <1>1, <1>2, <1>4, DifferentArrays
  <2>2. same(x, y) <=> \A t \in DOMAIN x.rows : Violating(ErrorCurve(x, y)[t], 0) = {}
    BY <1>4, DifferentArrays
  <2> HIDE DEF same
  <2>3. x.envs \in Nat
    BY DEF IsArray
  <2>4. \A t \in DOMAIN x.rows :
          Violating(ErrorCurve(a, b)[t], 0) = {} <=> Violating(ErrorCurve(x, y)[t], 0) = {}
    BY <1>4, <2>3, RenamedCurve, RenamedRow DEF a, b
  <2>5. QED
    BY <2>1, <2>2, <2>4
<1> HIDE DEF same
<1>5. QED
  BY <1>1, <1>2, <1>3, <1>4 DEF a, b

\* Whether a curve is inside its band is the same with its environments renamed, and so is
\* the step that violates first.
LEMMA RenamedCurves ==
  ASSUME NEW n, n \in Nat, NEW p, p \in Bijections(n), NEW curve, NEW other,
         DOMAIN other = DOMAIN curve, \A t \in DOMAIN curve : Renames(other[t], curve[t], p, n)
  PROVE  /\ FiniteOf(other) = FiniteOf(curve)
         /\ \A limit : ViolationStep(other, limit) = ViolationStep(curve, limit)
<1>1. \A t \in DOMAIN curve : Range(other[t]) = Range(curve[t])
  BY RenamedRow
<1>2. \A v : v \in FiniteOf(other) <=> v \in FiniteOf(curve)
  BY <1>1, FiniteIs
<1>3. FiniteOf(other) = FiniteOf(curve)
  BY <1>2
<1>4. ASSUME NEW limit PROVE ViolationStep(other, limit) = ViolationStep(curve, limit)
  <2>1. \A t \in DOMAIN curve : Violating(other[t], limit) = {} <=> Violating(curve[t], limit) = {}
    BY RenamedRow
  <2>2. {t \in DOMAIN other : Violating(other[t], limit) # {}}
          = {t \in DOMAIN curve : Violating(curve[t], limit) # {}}
    BY <2>1
  <2>3. QED
    BY <2>2 DEF ViolationStep
<1>5. QED
  BY <1>3, <1>4

\* The curve of an envelope oracle on arrays that can be compared.
LEMMA BreachCurveType ==
  ASSUME NEW x, NEW y, IsArray(x), IsArray(y), x.envs = y.envs, x.envs \in Nat \ {0},
         0 \notin {Steps(x), Steps(y)}, Steps(x) # Steps(y) => 1 \in {Steps(x), Steps(y)},
         NEW tol, tol \in Int
  PROVE  /\ Max({Steps(x), Steps(y)}) \in Nat \ {0}
         /\ BreachCurve(x, y, tol) \in [1..Max({Steps(x), Steps(y)}) -> [1..x.envs -> Int \cup {NaN}]]
<1> DEFINE length == Max({Steps(x), Steps(y)})
           At(t, e) == Breach(x.rows[Broadcast(x, t)], y.rows[Broadcast(y, t)][e], tol)
<1>1. Steps(x) \in Int /\ Steps(y) \in Int /\ Envs(x) = 1..x.envs /\ Envs(y) = 1..x.envs
      /\ Steps(x) \in Nat \ {0} /\ Steps(y) \in Nat \ {0}
  BY DEF IsArray, Steps, Envs
<1>2. length = IF Steps(x) >= Steps(y) THEN Steps(x) ELSE Steps(y)
  BY <1>1, LargerOf
<1>3. length \in Nat \ {0}
  BY <1>1, <1>2
<1>4. ASSUME NEW t \in 1..length, NEW e \in 1..x.envs PROVE At(t, e) \in Int \cup {NaN}
  <2> DEFINE row == x.rows[Broadcast(x, t)]
             v == y.rows[Broadcast(y, t)][e]
  <2>1. row \in [1..x.envs -> Number] /\ v \in Number
    BY <1>1, BroadcastOf
  <2> HIDE DEF row, v
  <2>2. Breach(row, v, tol) \in Int \cup {NaN}
    BY <2>1, BreachOf
  <2>3. QED
    BY <2>2 DEF row, v
<1>5. BreachCurve(x, y, tol) = [t \in 1..length |-> [e \in 1..x.envs |-> At(t, e)]]
  BY <1>1 DEF BreachCurve
<1> HIDE DEF length, At
<1>6. BreachCurve(x, y, tol) \in [1..length -> [1..x.envs -> Int \cup {NaN}]]
  BY <1>4, <1>5
<1>7. QED
  BY <1>3, <1>6 DEF length

\* How an envelope oracle decides on subjects with as many environments.
EnvelopeSays(x, y, curve) ==
  IF x.envs < 2 THEN "skipped"
  ELSE IF \/ 0 \in {Steps(x), Steps(y)}
          \/ Steps(x) # Steps(y) /\ 1 \notin {Steps(x), Steps(y)} THEN "inconclusive"
  ELSE IF FiniteOf(curve) # {} /\ \A v \in FiniteOf(curve) : v <= 0 THEN "pass"
  ELSE IF ViolationStep(curve, 0) > Min({Steps(x), Steps(y)}) THEN "inconclusive"
  ELSE "fail"

LEMMA EnvelopeStatus ==
  ASSUME NEW spec, NEW x, NEW y, NEW d, IsArray(x), IsArray(y), x.envs = y.envs, spec.tol \in Int
  PROVE  Envelope(spec, x, y, d).status = EnvelopeSays(x, y, BreachCurve(x, y, spec.tol))
<1> DEFINE curve == BreachCurve(x, y, spec.tol)
           length == Max({Steps(x), Steps(y)})
           step  == ViolationStep(curve, 0)
           worst == ArgMax(curve[step])
           some  == x.envs < 2
           odd   == \/ 0 \in {Steps(x), Steps(y)}
                    \/ Steps(x) # Steps(y) /\ 1 \notin {Steps(x), Steps(y)}
           inside == FiniteOf(curve) # {} /\ \A v \in FiniteOf(curve) : v <= 0
           late  == step > Min({Steps(x), Steps(y)})
           far   == worst > x.envs
           at    == Localize(x, y, curve, 0, d)
<1>1. DOMAIN curve = 1..length
  BY DEF BreachCurve
<1>2. FiniteOf(curve) = (UNION {Range(curve[t]) : t \in 1..length}) \ {NaN}
  BY <1>1 DEF FiniteOf
<1>3. Envelope(spec, x, y, d) = IF some THEN Skipped ELSE IF odd THEN Raised
                                ELSE IF inside THEN Pass
                                ELSE IF far \/ late THEN Raised ELSE FailAt(at)
  BY <1>2 DEF Envelope, BreachCurve
<1>4. /\ Skipped.status = "skipped" /\ Raised.status = "inconclusive" /\ Pass.status = "pass"
      /\ \A r : FailAt(r).status = "fail"
  BY DEF Skipped, Raised, Inconclusive, Pass, FailAt, Outcome
<1>5. ASSUME ~some, ~odd, ~inside PROVE ~far
  <2>1. x.envs \in Nat \ {0}
    BY <1>5 DEF IsArray
  <2>2. length \in Nat \ {0} /\ curve \in [1..length -> [1..x.envs -> Int \cup {NaN}]]
    BY <1>5, <2>1, BreachCurveType
  <2> HIDE DEF curve, length
  <2>3. \E t \in 1..length : Violating(curve[t], 0) # {}
    BY <1>5, <2>1, <2>2, InsideOf
  <2>4. step \in 1..length
    <3>1. length \in Nat /\ DOMAIN curve = 1..length
      BY <2>2
    <3>2. step \in 0..length /\ step # 0
      BY <2>3, <3>1, ViolationOf
    <3>3. QED
      BY <3>1, <3>2
  <2>5. curve[step] \in [1..x.envs -> Int \cup {NaN}]
    BY <2>2, <2>4
  <2>6. worst \in 1..x.envs
    BY <2>1, <2>5, ArgMaxOf
  <2> HIDE DEF worst
  <2>7. QED
    BY <2>1, <2>6
<1> HIDE DEF some, odd, inside, late, far, at
<1>6. Envelope(spec, x, y, d).status =
        IF some THEN "skipped" ELSE IF odd THEN "inconclusive" ELSE IF inside THEN "pass"
        ELSE IF late THEN "inconclusive" ELSE "fail"
  BY <1>3, <1>4, <1>5
<1>7. QED
  BY <1>6 DEF EnvelopeSays, some, odd, inside, late

\* A band is the same whatever the order of the environments it spans.
LEMMA BreachSame ==
  ASSUME NEW row, NEW other, Range(other) = Range(row), NEW v, NEW tol
  PROVE  Breach(other, v, tol) = Breach(row, v, tol)
BY DEF Breach

\* Its environments renamed, an envelope is violated at the same step.
LEMMA EnvelopeRenamed ==
  ASSUME NEW spec, NEW x, NEW y, IsArray(x), IsArray(y), x.envs = y.envs,
         NEW p, p \in Bijections(x.envs), spec.tol \in Nat, NEW d, NEW f
  PROVE  Envelope(spec, Relabel(x, p), Relabel(y, p), f).status = Envelope(spec, x, y, d).status
<1> DEFINE a == Relabel(x, p)
           b == Relabel(y, p)
           curve == BreachCurve(x, y, spec.tol)
           other == BreachCurve(a, b, spec.tol)
           length == Max({Steps(x), Steps(y)})
           odd == \/ 0 \in {Steps(x), Steps(y)}
                  \/ Steps(x) # Steps(y) /\ 1 \notin {Steps(x), Steps(y)}
<1>1. /\ IsArray(a) /\ a.envs = x.envs /\ Steps(a) = Steps(x) /\ DOMAIN a.rows = DOMAIN x.rows
      /\ \A t \in DOMAIN x.rows : Range(a.rows[t]) = Range(x.rows[t])
  BY RelabelOf
<1>2. /\ IsArray(b) /\ b.envs = x.envs /\ Steps(b) = Steps(y) /\ DOMAIN b.rows = DOMAIN y.rows
      /\ \A t \in DOMAIN y.rows : \A e \in Envs(y) : b.rows[t][e] = y.rows[t][p[e]]
  BY RelabelOf
<1>3. spec.tol \in Int /\ x.envs \in Nat
  BY DEF IsArray
<1> HIDE DEF a, b
<1>4. ASSUME ~odd PROVE FiniteOf(other) = FiniteOf(curve) /\ ViolationStep(other, 0) = ViolationStep(curve, 0)
  <2>1. /\ Steps(x) \in Nat \ {0} /\ DOMAIN x.rows = 1..Steps(x)
        /\ Steps(y) \in Nat \ {0} /\ DOMAIN y.rows = 1..Steps(y)
    BY <1>4 DEF IsArray, Steps
  <2>2. length = IF Steps(x) >= Steps(y) THEN Steps(x) ELSE Steps(y)
    <3>1. Steps(x) \in Int /\ Steps(y) \in Int
      BY <2>1
    <3>2. QED
      BY <3>1, LargerOf
  <2>3. Envs(y) = 1..x.envs /\ Envs(b) = 1..x.envs
    BY <1>2 DEF Envs
  <2>4. /\ DOMAIN curve = 1..length
        /\ \A t \in 1..length : DOMAIN curve[t] = 1..x.envs
        /\ \A t \in 1..length : \A e \in 1..x.envs :
             curve[t][e] = Breach(x.rows[Broadcast(x, t)], y.rows[Broadcast(y, t)][e], spec.tol)
    BY <2>3 DEF BreachCurve
  <2>5. /\ DOMAIN other = 1..length
        /\ \A t \in 1..length : DOMAIN other[t] = 1..x.envs
        /\ \A t \in 1..length : \A e \in 1..x.envs :
             other[t][e] = Breach(a.rows[Broadcast(a, t)], b.rows[Broadcast(b, t)][e], spec.tol)
    BY <1>1, <1>2, <2>3 DEF BreachCurve
  <2> HIDE DEF curve, other
  <2>6. ASSUME NEW t \in 1..length PROVE Renames(other[t], curve[t], p, x.envs)
    <3>1. Broadcast(a, t) = Broadcast(x, t) /\ Broadcast(b, t) = Broadcast(y, t)
      BY <1>1, <1>2 DEF Broadcast
    <3>2. Broadcast(x, t) \in DOMAIN x.rows /\ Broadcast(y, t) \in DOMAIN y.rows
      BY <1>4, <2>1, <2>2 DEF Broadcast
    <3>3. p \in [1..x.envs -> 1..x.envs]
      BY <1>3, Renaming
    <3>4. ASSUME NEW e \in 1..x.envs PROVE other[t][e] = curve[t][p[e]]
      <4> DEFINE row == x.rows[Broadcast(x, t)]
                 new == a.rows[Broadcast(x, t)]
                 v == y.rows[Broadcast(y, t)][p[e]]
      <4>1. Range(new) = Range(row)
        BY <1>1, <3>2
      <4>2. b.rows[Broadcast(y, t)][e] = v
        BY <1>2, <2>3, <3>2
      <4>3. other[t][e] = Breach(new, v, spec.tol)
        BY <2>5, <3>1, <4>2
      <4>4. curve[t][p[e]] = Breach(row, v, spec.tol)
        BY <2>4, <3>3
      <4> HIDE DEF row, new, v
      <4>5. QED
        BY <4>1, <4>3, <4>4, BreachSame
    <3>5. QED
      BY <2>4, <2>5, <3>4 DEF Renames
  <2>7. DOMAIN other = DOMAIN curve /\ \A t \in DOMAIN curve : Renames(other[t], curve[t], p, x.envs)
    BY <2>4, <2>5, <2>6
  <2>8. QED
    BY <1>3, <2>7, RenamedCurves
<1>5. Envelope(spec, x, y, d).status = EnvelopeSays(x, y, curve)
  BY <1>3, EnvelopeStatus
<1>6. Envelope(spec, a, b, f).status = EnvelopeSays(a, b, other)
  <2>1. a.envs = b.envs
    BY <1>1, <1>2
  <2>2. QED
    BY <1>1, <1>2, <1>3, <2>1, EnvelopeStatus
<1> HIDE DEF curve, other
<1>7. EnvelopeSays(a, b, other) = EnvelopeSays(x, y, curve)
  BY <1>1, <1>2, <1>4 DEF EnvelopeSays
<1>8. QED
  BY <1>5, <1>6, <1>7 DEF a, b

\* When an event fires goes with the environment.
LEMMA CrossingRenamed ==
  ASSUME NEW a, IsArray(a), NEW p, p \in Bijections(a.envs), NEW e, e \in Envs(a), NEW spec
  PROVE  FirstCrossing(Relabel(a, p), e, spec) = FirstCrossing(a, p[e], spec)
<1>1. /\ DOMAIN Relabel(a, p).rows = DOMAIN a.rows
      /\ \A t \in DOMAIN a.rows : Relabel(a, p).rows[t][e] = a.rows[t][p[e]]
  BY RelabelOf
<1>2. {t \in DOMAIN Relabel(a, p).rows : Hit(Relabel(a, p).rows[t][e], spec)}
        = {t \in DOMAIN a.rows : Hit(a.rows[t][p[e]], spec)}
  BY <1>1
<1>3. QED
  BY <1>2 DEF FirstCrossing

\* The environments that disagree are renamed, and so are the deltas of the others.
LEMMA EventsRenamed ==
  ASSUME NEW spec, NEW x, NEW y, IsArray(x), IsArray(y), x.envs = y.envs,
         NEW p, p \in Bijections(x.envs)
  PROVE  LET a == Relabel(x, p)
             b == Relabel(y, p)
         IN  /\ Paired(x, y) = 1..x.envs /\ Paired(a, b) = 1..x.envs
             /\ CountMismatches(spec, x, y) \in SUBSET (1..x.envs)
             /\ CountMismatches(spec, a, b) = {e \in 1..x.envs : p[e] \in CountMismatches(spec, x, y)}
             /\ \A e \in 1..x.envs : TimingDelta(spec, a, b, e) = TimingDelta(spec, x, y, p[e])
<1> DEFINE a == Relabel(x, p)
           b == Relabel(y, p)
<1>1. x.envs \in Nat /\ Envs(x) = 1..x.envs /\ Envs(y) = 1..x.envs
  BY DEF IsArray, Envs
<1>2. a.envs = x.envs /\ b.envs = x.envs
  BY RelabelOf
<1>3. p \in [1..x.envs -> 1..x.envs]
  BY <1>1, Renaming
<1>4. \A e \in 1..x.envs : /\ FirstCrossing(a, e, spec) = FirstCrossing(x, p[e], spec)
                           /\ FirstCrossing(b, e, spec) = FirstCrossing(y, p[e], spec)
  BY <1>1, CrossingRenamed
<1> HIDE DEF a, b
<1>5. Min({x.envs, x.envs}) = x.envs
  <2> DEFINE n == x.envs
  <2>1. n \in Int
    BY <1>1
  <2> HIDE DEF n
  <2>2. Min({n, n}) = n
    BY <2>1, SmallerOf
  <2>3. QED
    BY <2>2 DEF n
<1>6. Paired(x, y) = 1..x.envs /\ Paired(a, b) = 1..x.envs
  BY <1>2, <1>5 DEF Paired
<1>7. CountMismatches(spec, x, y) \in SUBSET (1..x.envs)
  BY <1>6 DEF CountMismatches
<1>8. CountMismatches(spec, a, b) = {e \in 1..x.envs : p[e] \in CountMismatches(spec, x, y)}
  BY <1>3, <1>4, <1>6 DEF CountMismatches
<1>9. \A e \in 1..x.envs : TimingDelta(spec, a, b, e) = TimingDelta(spec, x, y, p[e])
  BY <1>4 DEF TimingDelta
<1>10. QED
  BY <1>6, <1>7, <1>8, <1>9 DEF a, b

\* An event oracle asks whether one of them is late ...
LEMMA EventRenamed ==
  ASSUME NEW spec, NEW x, NEW y, IsArray(x), IsArray(y), x.envs = y.envs,
         NEW p, p \in Bijections(x.envs)
  PROVE  Event(spec, Relabel(x, p), Relabel(y, p)).status = Event(spec, x, y).status
<1> DEFINE a == Relabel(x, p)
           b == Relabel(y, p)
           late(u, v) == \E e \in Paired(u, v) : TimingDelta(spec, u, v, e) > spec.tol
<1>1. x.envs \in Nat
  BY DEF IsArray
<1>2. p \in [1..x.envs -> 1..x.envs] /\ \A j \in 1..x.envs : \E e \in 1..x.envs : p[e] = j
  BY <1>1, Renaming
<1>3. /\ Paired(x, y) = 1..x.envs /\ Paired(a, b) = 1..x.envs
      /\ CountMismatches(spec, x, y) \in SUBSET (1..x.envs)
      /\ CountMismatches(spec, a, b) = {e \in 1..x.envs : p[e] \in CountMismatches(spec, x, y)}
      /\ \A e \in 1..x.envs : TimingDelta(spec, a, b, e) = TimingDelta(spec, x, y, p[e])
  BY EventsRenamed
<1>4. Steps(a) = Steps(x) /\ Steps(b) = Steps(y)
  BY RelabelOf
<1> HIDE DEF a, b
<1>5. CountMismatches(spec, a, b) = {} <=> CountMismatches(spec, x, y) = {}
  BY <1>2, <1>3
<1>6. late(a, b) <=> late(x, y)
  BY <1>2, <1>3
<1>7. ASSUME NEW u, NEW v
      PROVE  Event(spec, u, v).status =
               IF spec.unit # "steps" \/ 0 \in {Steps(u), Steps(v)} THEN "inconclusive"
               ELSE IF Cardinality(Paired(u, v)) < spec.floor THEN "inconclusive"
               ELSE IF CountMismatches(spec, u, v) # {} THEN "fail"
               ELSE IF late(u, v) THEN "fail" ELSE "pass"
  BY DEF Event, Raised, Insufficient, Inconclusive, Pass, Outcome
<1> HIDE DEF late
<1>8. Event(spec, a, b).status = Event(spec, x, y).status
  BY <1>3, <1>4, <1>5, <1>6, <1>7
<1>9. QED
  BY <1>8 DEF a, b

\* ... and a decision oracle how many agree.
LEMMA DecisionRenamed ==
  ASSUME NEW spec, NEW x, NEW y, IsArray(x), IsArray(y), x.envs = y.envs,
         NEW p, p \in Bijections(x.envs)
  PROVE  Decision(spec, Relabel(x, p), Relabel(y, p)).status = Decision(spec, x, y).status
<1> DEFINE a == Relabel(x, p)
           b == Relabel(y, p)
           agree(u, v) == Cardinality(Paired(u, v) \ CountMismatches(spec, u, v))
<1>1. x.envs \in Nat
  BY DEF IsArray
<1>2. p \in [1..x.envs -> 1..x.envs]
  BY <1>1, Renaming
<1>3. /\ Paired(x, y) = 1..x.envs /\ Paired(a, b) = 1..x.envs
      /\ CountMismatches(spec, x, y) \in SUBSET (1..x.envs)
      /\ CountMismatches(spec, a, b) = {e \in 1..x.envs : p[e] \in CountMismatches(spec, x, y)}
      /\ \A e \in 1..x.envs : TimingDelta(spec, a, b, e) = TimingDelta(spec, x, y, p[e])
  BY EventsRenamed
<1>4. Steps(a) = Steps(x) /\ Steps(b) = Steps(y)
  BY RelabelOf
<1> HIDE DEF a, b
<1>5. agree(a, b) = agree(x, y)
  <2> DEFINE S == Paired(x, y) \ CountMismatches(spec, x, y)
  <2>1. S \in SUBSET (1..x.envs)
    BY <1>3
  <2>2. Paired(a, b) \ CountMismatches(spec, a, b) = Renamed(S, p, x.envs)
    BY <1>2, <1>3 DEF Renamed
  <2> HIDE DEF S
  <2>3. Cardinality(Renamed(S, p, x.envs)) = Cardinality(S)
    BY <1>1, <2>1, CountRenamed
  <2>4. QED
    BY <2>2, <2>3 DEF S
<1>6. ASSUME NEW u, NEW v
      PROVE  Decision(spec, u, v).status =
               IF spec.unit # "fraction" \/ 0 \in {Steps(u), Steps(v)} THEN "inconclusive"
               ELSE IF spec.polarity \notin {"survived", "triggered"} THEN "inconclusive"
               ELSE IF Cardinality(Paired(u, v)) < spec.floor THEN "inconclusive"
               ELSE IF 100 * agree(u, v) >= spec.tol * Cardinality(Paired(u, v)) THEN "pass"
               ELSE "fail"
  BY DEF Decision, Raised, Insufficient, Inconclusive, Pass, Outcome
<1> HIDE DEF agree
<1>7. Decision(spec, a, b).status = Decision(spec, x, y).status
  BY <1>3, <1>4, <1>5, <1>6
<1>8. QED
  BY <1>7 DEF a, b

\* The summary of an environment goes with it, and is a number.
LEMMA SummaryRenamed ==
  ASSUME NEW a, IsArray(a), NEW p, p \in Bijections(a.envs), NEW e, e \in Envs(a), NEW how,
         Steps(a) # 0
  PROVE  Summary(Relabel(a, p), e, how) = Summary(a, p[e], how)
<1> DEFINE b == Relabel(a, p)
<1>1. /\ DOMAIN b.rows = DOMAIN a.rows /\ Steps(b) = Steps(a)
      /\ \A t \in DOMAIN a.rows : b.rows[t][e] = a.rows[t][p[e]]
  BY RelabelOf
<1> HIDE DEF b
<1>2. {b.rows[t][e] : t \in DOMAIN b.rows} = {a.rows[t][p[e]] : t \in DOMAIN a.rows}
  BY <1>1
<1>3. b.rows[Steps(b)][e] = a.rows[Steps(a)][p[e]]
  <2>1. Steps(a) \in DOMAIN a.rows
    BY DEF Steps, IsArray
  <2>2. QED
    BY <1>1, <2>1
<1>4. Summary(b, e, how) = Summary(a, p[e], how)
  BY <1>2, <1>3 DEF Summary
<1>5. QED
  BY <1>4 DEF b

LEMMA SummaryType ==
  ASSUME NEW a, IsArray(a), NEW e, e \in Envs(a), NEW how, Steps(a) # 0
  PROVE  Summary(a, e, how) \in Int \cup {NaN}
<1> DEFINE column == {a.rows[t][e] : t \in DOMAIN a.rows}
           sizes  == {Magnitude(v) : v \in column}
           f      == [t \in DOMAIN a.rows |-> Magnitude(a.rows[t][e])]
<1>1. DOMAIN a.rows = 1..Steps(a) /\ Steps(a) \in Nat \ {0}
  BY DEF Steps, IsArray
<1>2. \A t \in DOMAIN a.rows : a.rows[t][e] \in Int \cup {NaN}
  BY DEF IsArray, Number
<1>3. \A v \in Int : Magnitude(v) \in Int
  BY DEF Magnitude
<1>4. ASSUME NaN \notin column PROVE Max(sizes) \in Int
  <2>1. sizes \in SUBSET Int
    BY <1>2, <1>3, <1>4
  <2>2. sizes # {}
    <3>1. 1 \in DOMAIN a.rows
      BY <1>1
    <3>2. a.rows[1][e] \in column
      BY <3>1
    <3>3. Magnitude(a.rows[1][e]) \in sizes
      BY <3>2
    <3>4. QED
      BY <3>3
  <2>3. IsFiniteSet(sizes)
    <3>1. Range(f) = sizes
      BY DEF Range
    <3>2. DOMAIN f = 1..Steps(a) /\ f = [t \in DOMAIN f |-> f[t]]
      BY <1>1
    <3> HIDE DEF f, sizes
    <3>3. IsFiniteSet(DOMAIN f)
      BY <1>1, <3>2, FS_Interval
    <3>4. QED
      BY <3>1, <3>2, <3>3, FiniteRange
  <2> HIDE DEF sizes
  <2>4. QED
    BY <2>1, <2>2, <2>3, MaxOf
<1>5. a.rows[Steps(a)][e] \in Int \cup {NaN}
  BY <1>1, <1>2
<1>6. Summary(a, e, how) = IF how = "final"
                             THEN IF a.rows[Steps(a)][e] = NaN THEN NaN
                                  ELSE Magnitude(a.rows[Steps(a)][e])
                             ELSE IF NaN \in column THEN NaN ELSE Max(sizes)
  BY DEF Summary
<1> HIDE DEF sizes, column
<1>7. QED
  BY <1>3, <1>4, <1>5, <1>6

\* So the paired differences are renamed with the environments.
LEMMA DifferencesRenamed ==
  ASSUME NEW spec, NEW x, NEW y, IsArray(x), IsArray(y), x.envs = y.envs,
         Steps(x) # 0, Steps(y) # 0, NEW p, p \in Bijections(x.envs)
  PROVE  LET row   == PairedDifference(spec, x, y)
             other == PairedDifference(spec, Relabel(x, p), Relabel(y, p))
         IN  /\ DOMAIN row = 1..x.envs /\ DOMAIN other = 1..x.envs
             /\ \A e \in 1..x.envs : row[e] \in Int \cup {NaN}
             /\ \A e \in 1..x.envs : other[e] = row[p[e]]
<1> DEFINE a == Relabel(x, p)
           b == Relabel(y, p)
           row   == PairedDifference(spec, x, y)
           other == PairedDifference(spec, a, b)
           P(e) == Summary(x, e, spec.summary)
           Q(e) == Summary(y, e, spec.summary)
<1>1. Envs(x) = 1..x.envs /\ Envs(y) = 1..x.envs /\ x.envs \in Nat
  BY DEF IsArray, Envs
<1>2. Envs(a) = 1..x.envs
  BY <1>1, RelabelOf
<1>3. p \in [1..x.envs -> 1..x.envs]
  BY <1>1, Renaming
<1>4. \A e \in 1..x.envs : Summary(a, e, spec.summary) = P(p[e])
  BY <1>1, SummaryRenamed
<1>5. \A e \in 1..x.envs : Summary(b, e, spec.summary) = Q(p[e])
  BY <1>1, SummaryRenamed
<1>6. \A e \in 1..x.envs : P(e) \in Int \cup {NaN} /\ Q(e) \in Int \cup {NaN}
  BY <1>1, SummaryType
<1>7. row = [e \in 1..x.envs |-> IF NaN \in {P(e), Q(e)} THEN NaN ELSE Q(e) - P(e)]
  BY <1>1 DEF PairedDifference
<1>8. other = [e \in 1..x.envs |-> IF NaN \in {Summary(a, e, spec.summary), Summary(b, e, spec.summary)}
                                   THEN NaN
                                   ELSE Summary(b, e, spec.summary) - Summary(a, e, spec.summary)]
  BY <1>2 DEF PairedDifference
<1> HIDE DEF row, other, P, Q, a, b
<1>9. \A e \in 1..x.envs : row[e] \in Int \cup {NaN}
  BY <1>6, <1>7
<1>10. \A e \in 1..x.envs : other[e] = row[p[e]]
  BY <1>3, <1>4, <1>5, <1>7, <1>8
<1>11. DOMAIN row = 1..x.envs /\ DOMAIN other = 1..x.envs
  BY <1>7, <1>8
<1>12. QED
  BY <1>9, <1>10, <1>11 DEF row, other, a, b

\* How a statistical oracle decides for an interval.
StatisticalSays(spec, x, y, i, diffs) ==
  IF spec.kind # "statistical" \/ x.envs # y.envs \/ 0 \in {Steps(x), Steps(y)}
     \/ x.envs < Max({spec.floor, BootstrapMinPairs}) \/ NaN \in Range(diffs) THEN "inconclusive"
  ELSE IF Inside(spec, i) THEN "pass"
  ELSE IF Outside(spec, i) /\ Magnitude(Total(diffs)) < spec.mme * x.envs THEN "pass"
  ELSE IF Outside(spec, i) THEN "fail" ELSE "inconclusive"

LEMMA StatisticalStatus ==
  ASSUME NEW spec, NEW x, NEW y, NEW i
  PROVE  Statistical(spec, x, y, i).status
           = StatisticalSays(spec, x, y, i, PairedDifference(spec, x, y))
<1> DEFINE diffs == PairedDifference(spec, x, y)
           total == FoldFunction(LAMBDA p, q : p + q, 0, diffs)
<1>1. total = Total(diffs)
  BY FoldIsTotal
<1>2. Statistical(spec, x, y, i).status =
        IF spec.kind # "statistical" \/ x.envs # y.envs \/ 0 \in {Steps(x), Steps(y)}
           \/ x.envs < Max({spec.floor, BootstrapMinPairs}) \/ NaN \in Range(diffs) THEN "inconclusive"
        ELSE IF Inside(spec, i) THEN "pass"
        ELSE IF Outside(spec, i) /\ Magnitude(total) < spec.mme * x.envs THEN "pass"
        ELSE IF Outside(spec, i) THEN "fail" ELSE "inconclusive"
  BY DEF Statistical, Raised, Insufficient, Inconclusive, Pass, Fail, Outcome
<1> HIDE DEF total, diffs
<1>3. QED
  BY <1>1, <1>2 DEF StatisticalSays, diffs

\* What a statistical oracle may report of two arrays.
Reports(spec, x, y) ==
  IF x.envs = y.envs /\ 0 \notin {Steps(x), Steps(y)}
    THEN {Statistical(spec, x, y, i) : i \in Intervals(spec, x, y)}
    ELSE {Statistical(spec, x, y, <<0, 0>>)}

\* Renamed differences have the same intervals, and the same total to compare.
LEMMA StatisticalRenamed ==
  ASSUME NEW spec, NEW x, NEW y, IsArray(x), IsArray(y), x.envs = y.envs,
         NEW p, p \in Bijections(x.envs), NEW o, o \in Reports(spec, x, y)
  PROVE  \E r \in Reports(spec, Relabel(x, p), Relabel(y, p)) : r.status = o.status
<1> DEFINE a == Relabel(x, p)
           b == Relabel(y, p)
           row   == PairedDifference(spec, x, y)
           other == PairedDifference(spec, a, b)
<1>1. a.envs = x.envs /\ b.envs = x.envs /\ Steps(a) = Steps(x) /\ Steps(b) = Steps(y)
  BY RelabelOf
<1>2. CASE 0 \in {Steps(x), Steps(y)}
  <2>1. o = Statistical(spec, x, y, <<0, 0>>)
    BY <1>2 DEF Reports
  <2>2. Statistical(spec, a, b, <<0, 0>>) \in Reports(spec, a, b)
    BY <1>1, <1>2 DEF Reports
  <2> HIDE DEF a, b, row, other
  <2>3. o.status = "inconclusive"
    <3>1. o.status = StatisticalSays(spec, x, y, <<0, 0>>, row)
      BY <2>1, StatisticalStatus DEF row
    <3>2. QED
      BY <1>2, <3>1 DEF StatisticalSays
  <2>4. Statistical(spec, a, b, <<0, 0>>).status = StatisticalSays(spec, a, b, <<0, 0>>, other)
    BY StatisticalStatus DEF other
  <2>5. StatisticalSays(spec, a, b, <<0, 0>>, other) = "inconclusive"
    BY <1>1, <1>2 DEF StatisticalSays
  <2>6. QED
    BY <2>2, <2>3, <2>4, <2>5 DEF a, b
<1>3. CASE 0 \notin {Steps(x), Steps(y)}
  <2>1. /\ DOMAIN row = 1..x.envs /\ DOMAIN other = 1..x.envs
        /\ \A e \in 1..x.envs : row[e] \in Int \cup {NaN}
        /\ \A e \in 1..x.envs : other[e] = row[p[e]]
    <3>1. Steps(x) # 0 /\ Steps(y) # 0
      BY <1>3
    <3>2. QED
      BY <3>1, DifferencesRenamed
  <2>2. /\ x.envs \in Nat /\ p \in [1..x.envs -> 1..x.envs]
        /\ \A j \in 1..x.envs : \E e \in 1..x.envs : p[e] = j
        /\ \A c, d \in 1..x.envs : p[c] = p[d] => c = d
    <3>1. x.envs \in Nat
      BY DEF IsArray
    <3>2. QED
      BY <3>1, Renaming
  <2> DEFINE S == 1..x.envs
  <2>3. IsFiniteSet(S)
    BY <2>2, FS_Interval
  <2> HIDE DEF a, b, row, other
  <2>4. /\ DOMAIN row = S /\ DOMAIN other = S /\ \A e \in S : other[e] = row[p[e]]
        /\ \A e \in S : row[e] \in Int \cup {NaN}
        /\ p \in [S -> S] /\ \A j \in S : \E e \in S : p[e] = j
        /\ \A c, d \in S : p[c] = p[d] => c = d
    BY <2>1, <2>2
  <2> HIDE DEF S
  <2>5. Range(other) = Range(row)
    BY <2>4, RenamedRange
  <2>6. ASSUME NaN \notin Range(row) PROVE Total(other) = Total(row)
    <3>1. \A e \in S : row[e] \in Int
      BY <2>4, <2>6 DEF Range
    <3>2. {p[e] : e \in S} = S
      BY <2>4
    <3>3. QED
      BY <2>3, <2>4, <3>1, <3>2, TotalRenamed
  <2>7. Intervals(spec, a, b) = Intervals(spec, x, y)
    BY <2>5 DEF Intervals, row, other
  <2>8. PICK i \in Intervals(spec, x, y) : o = Statistical(spec, x, y, i)
    BY <1>3 DEF Reports
  <2>9. Statistical(spec, a, b, i) \in Reports(spec, a, b)
    BY <1>1, <1>3, <2>7 DEF Reports
  <2>10. o.status = StatisticalSays(spec, x, y, i, row)
    BY <2>8, StatisticalStatus DEF row
  <2>11. Statistical(spec, a, b, i).status = StatisticalSays(spec, a, b, i, other)
    BY StatisticalStatus DEF other
  <2>12. StatisticalSays(spec, a, b, i, other) = StatisticalSays(spec, x, y, i, row)
    BY <1>1, <2>5, <2>6 DEF StatisticalSays
  <2>13. QED
    BY <2>9, <2>10, <2>11, <2>12 DEF a, b
<1>4. QED
  BY <1>2, <1>3

\* What an oracle reports does not depend on how the environments are named.
LEMMA JudgementRenamed ==
  ASSUME NEW spec, spec.type \in Certain \ {"env_permutation_invariance"}, CriterionIsDeclared(spec),
         spec.type \in Gated => spec.tol \in Nat /\ spec.floor \in Nat \ {0}, spec.how # "final",
         NEW x, NEW y, IsArray(x), IsArray(y), x.envs = y.envs,
         NEW p, p \in Bijections(x.envs), NEW d, NEW f
  PROVE  Judgement(spec, Relabel(x, p), Relabel(y, p), f).status = Judgement(spec, x, y, d).status
<1> DEFINE a == Relabel(x, p)
           b == Relabel(y, p)
<1>1. CASE spec.type \in {"trajectory_equivalence", "ulp_equivalence"}
  <2>1. /\ Judgement(spec, x, y, d) = Trajectory(spec, x, y, d)
        /\ Judgement(spec, a, b, f) = Trajectory(spec, a, b, f)
    BY <1>1 DEF Judgement
  <2>2. spec.tol \in Nat /\ spec.floor \in Nat \ {0}
    BY <1>1 DEF Gated
  <2>3. spec.how \in {"max", "any", "second_largest", "all"}
    BY DEF CriterionIsDeclared
  <2>4. QED
    BY <2>1, <2>2, <2>3, TrajectoryRenamed
<1>2. CASE spec.type = "exact_equivalence"
  <2>1. Judgement(spec, x, y, d) = Exact(x, y, d) /\ Judgement(spec, a, b, f) = Exact(a, b, f)
    BY <1>2 DEF Judgement
  <2>2. QED
    BY <2>1, ExactRenamed
<1>3. CASE spec.type = "trajectory_envelope"
  <2>1. /\ Judgement(spec, x, y, d) = Envelope(spec, x, y, d)
        /\ Judgement(spec, a, b, f) = Envelope(spec, a, b, f)
    BY <1>3 DEF Judgement
  <2>2. spec.tol \in Nat
    BY <1>3 DEF Gated
  <2>3. QED
    BY <2>1, <2>2, EnvelopeRenamed
<1>4. CASE spec.type = "event_equivalence"
  <2>1. Judgement(spec, x, y, d) = Event(spec, x, y) /\ Judgement(spec, a, b, f) = Event(spec, a, b)
    BY <1>4 DEF Judgement
  <2>2. QED
    BY <2>1, EventRenamed
<1>5. CASE spec.type = "decision_equivalence"
  <2>1. /\ Judgement(spec, x, y, d) = Decision(spec, x, y)
        /\ Judgement(spec, a, b, f) = Decision(spec, a, b)
    BY <1>5 DEF Judgement
  <2>2. QED
    BY <2>1, DecisionRenamed
<1>6. QED
  BY <1>1, <1>2, <1>3, <1>4, <1>5 DEF Certain, Pairwise, Gated

\* What the statistical oracle may report on the signals of two subjects.
LEMMA ReportsIs ==
  ASSUME NEW spec, spec.type = "statistical_equivalence", spec.tol # None,
         NEW b, NEW c, NEW w, spec.signal \in DOMAIN b.signals \cap DOMAIN c.signals
  PROVE  OutcomesOf(spec, b, c, w)
           = Reports(spec, Trim(b.signals[spec.signal], w), Trim(c.signals[spec.signal], w))
BY DEF OutcomesOf, Reports, Pairwise, Gated

\* An oracle without its tolerance raises, whatever the subjects.
LEMMA Ungated ==
  ASSUME NEW spec, spec.type \in Gated, spec.tol = None, NEW b, NEW c, NEW w
  PROVE  OutcomesOf(spec, b, c, w) = {Raised}
BY DEF OutcomesOf, Pairwise

\* Two arrays in the place of the signals of both subjects.
LEMMA InPlace ==
  ASSUME Reported, NEW n, n \in DOMAIN B.signals \cap DOMAIN C.signals,
         NEW x, NEW y, IsArray(x), IsArray(y)
  PROVE  LET b == With(B, n, x)
             c == With(C, n, y)
         IN  /\ n \in DOMAIN b.signals \cap DOMAIN c.signals
             /\ Trim(b.signals[n], 0) = x /\ Trim(c.signals[n], 0) = y
<1>1. "signals" \in DOMAIN B /\ "signals" \in DOMAIN C
  BY Subjects
<1>2. /\ With(B, n, x).signals = [B.signals EXCEPT ![n] = x]
      /\ With(C, n, y).signals = [C.signals EXCEPT ![n] = y]
  BY <1>1 DEF With
<1>3. Trim(x, 0) = x /\ Trim(y, 0) = y
  BY TrimmedOfNothing DEF IsArray
<1>4. QED
  BY <1>2, <1>3

\* The names of the environments decide nothing.
LEMMA OrderFollows == Reported /\ Explained /\ Judged => OrderIsImmaterial
<1> DEFINE types == Pairwise \ {"env_permutation_invariance"}
<1> SUFFICES ASSUME Reported, Explained, Judged, NEW i \in Run(types),
                    Baseline(i).envs = Candidate(i).envs, M.oracles[i].how # "final",
                    NEW p \in Bijections(Baseline(i).envs)
             PROVE  outcomes[i].status
                      \in StatusOn(M.oracles[i], Relabel(Baseline(i), p), Relabel(Candidate(i), p))
  BY DEF OrderIsImmaterial
<1> DEFINE spec == M.oracles[i]
           n == spec.signal
           x == Baseline(i)
           y == Candidate(i)
           a == Relabel(x, p)
           b == Relabel(y, p)
           again == OutcomesOf(spec, With(B, n, a), With(C, n, b), 0)
<1>1. /\ spec.type \in types
      /\ n \in DOMAIN B.signals \cap DOMAIN C.signals
      /\ CriterionIsDeclared(spec)
      /\ outcomes[i] \in OutcomesOf(spec, B, C, Warmup(M))
      /\ IsArray(x) /\ IsArray(y)
  BY Ran
<1>2. x = Trim(B.signals[n], Warmup(M)) /\ y = Trim(C.signals[n], Warmup(M))
  BY DEF Baseline, Candidate, Window
<1>3. IsArray(a) /\ IsArray(b)
  BY <1>1, RelabelOf
<1>4. x.envs = y.envs /\ spec.how # "final" /\ p \in Bijections(x.envs)
  OBVIOUS
<1>5. spec.tol # None /\ spec.type \in Gated => spec.tol \in Nat /\ spec.floor \in Nat \ {0}
  BY <1>1 DEF CriterionIsDeclared
<1>6. outcomes[i].status \in {o.status : o \in again}
  <2>1. CASE spec.type \in Gated /\ spec.tol = None
    <3>1. OutcomesOf(spec, B, C, Warmup(M)) = {Raised} /\ again = {Raised}
      BY <2>1, Ungated
    <3>2. QED
      BY <1>1, <3>1
  <2>2. CASE spec.type = "statistical_equivalence" /\ spec.tol # None
    <3> HIDE DEF spec, x, y, again
    <3>1. outcomes[i] \in Reports(spec, x, y)
      BY <1>1, <1>2, <2>2, ReportsIs
    <3>2. PICK r \in Reports(spec, a, b) : r.status = outcomes[i].status
      BY <1>1, <1>4, <3>1, StatisticalRenamed
    <3> HIDE DEF a, b
    <3>3. again = Reports(spec, a, b)
      BY <1>1, <1>3, <2>2, InPlace, ReportsIs DEF again
    <3>4. QED
      BY <3>2, <3>3
  <2>3. CASE spec.type # "statistical_equivalence" /\ (spec.type \in Gated => spec.tol # None)
    <3>1. spec.type \in Certain \ {"env_permutation_invariance"}
      BY <1>1, <2>3 DEF Certain
    <3> DEFINE d == ConfigDifferences(B, C)
               f == ConfigDifferences(With(B, n, a), With(C, n, b))
    <3> HIDE DEF spec, x, y, again, d, f
    <3>2. outcomes[i] = Judgement(spec, x, y, d)
      BY <1>1, <1>2, <2>3, <3>1, JudgementIs DEF d
    <3>3. Judgement(spec, a, b, f).status = Judgement(spec, x, y, d).status
      BY <1>1, <1>4, <1>5, <2>3, <3>1, JudgementRenamed
    <3> HIDE DEF a, b
    <3>4. again = {Judgement(spec, a, b, f)}
      BY <1>1, <1>3, <2>3, <3>1, InPlace, JudgementIs DEF again, f
    <3>5. QED
      BY <3>2, <3>3, <3>4
  <2>4. QED
    BY <2>1, <2>2, <2>3 DEF Gated
<1>7. QED
  BY <1>6 DEF StatusOn, again, a, b, n, spec, x, y

-----------------------------------------------------------------------------
(* Theorems.                                                                 *)

\* For any experiments: where the event oracle passes, the decision oracle on the same
\* event finds full agreement, under both polarities (event_equivalence,
\* decision_equivalence).
THEOREM EventDecides == Spec => []EventImpliesDecision
BY EventFollows, ReportedHolds, ExplainedHolds, JudgedHolds, PTL

\* For any experiments: a run that declares the finite_state invariant over all signals
\* does not pass on a window with a value that is not finite (invariant, decide).
THEOREM NonFiniteRefused == Spec => []NonFiniteNeverPasses
BY NonFiniteFollows, ReportedHolds, ExplainedHolds, JudgedHolds, PTL

\* For any experiments: a trajectory passes exactly when, at every step, no more
\* environments than the aggregation allows are beyond the tolerance and nothing is
\* non-finite (aggregate, trajectory_equivalence).
THEOREM TrajectoryMeans == Spec => []TrajectoryMeansTolerance
BY TrajectoryFollows, ReportedHolds, ExplainedHolds, JudgedHolds, PTL

\* For any experiments: the record of a failed comparison names a step before which the
\* same oracle finds nothing wrong, the worst environment it names is among the affected
\* ones, and where one environment is enough what goes up to the step fails (localize).
THEOREM Localized == Spec => []FailureIsLocalized
BY LocalizedFollows, ReportedHolds, ExplainedHolds, JudgedHolds, PTL

\* For any experiments: asking for less turns no pass into another outcome, however much
\* wider the tolerance and however lower the agreement asked of a decision; and so for
\* the amounts that a run tries (the oracles gated by a tolerance).
THEOREM Monotone == Spec => [](AlwaysMonotone /\ ToleranceIsMonotone)
BY MonotoneFollows, MonotoneSampled, ReportedHolds, ExplainedHolds, JudgedHolds, PTL

\* For any experiments: what the metamorphic oracle accepts is a matching, every
\* environment of one run with one of the other that is within tolerance of it
\* (permutation).
THEOREM Matching == Spec => []PermutationMeansMatching
BY MatchingFollows, ReportedHolds, ExplainedHolds, JudgedHolds, PTL

\* For any experiments: naming the environments of both subjects differently, in the same
\* way, leaves the status of every oracle that reduces over all of them what it was; for
\* the statistical oracle, among what it may report (aggregate, event_equivalence,
\* decision_equivalence, statistical_equivalence).
THEOREM OrderDoesNotMatter == Spec => []OrderIsImmaterial
BY OrderFollows, ReportedHolds, ExplainedHolds, JudgedHolds, PTL

=============================================================================
