---------------------------- MODULE MCExperiment ----------------------------
(***************************************************************************)
(* The experiments of ControlCases, which vary in what the controls look   *)
(* at, and those of DataCases, which vary in the data the oracles judge.   *)
(***************************************************************************)
EXTENDS ControlCases, DataCases, Comparison, OracleLaws

MCSortedNames == <<"x", "y">>
MCMixed == {"rad and m"}
MCWeak  == Weak

\* Runs that are compared: of the default pair of subjects and of pairs where one is
\* partial or differs in a control or in a signal, under manifests that differ in their
\* oracles, policy and tolerances.
Both == TwoSignals

ComparedPairs ==
  LET Shifted == [Both EXCEPT !.signals["x"].rows[1] = <<1>>]
      FarX    == [Both EXCEPT !.signals["x"].rows[2] = <<3>>]
      FarY    == [Both EXCEPT !.signals["y"].rows[2] = <<3>>]
      Partial(s) == [s EXCEPT !.complete = FALSE]
  IN  {<<Both, s>> : s \in {Shifted, FarX, FarY, Both, Partial(Shifted),
                            [Shifted EXCEPT !.contract["x"]["frame"] = "other"],
                            [Shifted EXCEPT !.meta["asset_identity"] = "m2"]}}
      \cup {<<Partial(Both), s>> : s \in {Shifted, Partial(Shifted)}}

ComparedManifests ==
  LET Two == [DefaultManifest EXCEPT !.same = {"asset_identity"},
                                     !.oracles = <<BaseSpec, [BaseSpec EXCEPT !.signal = "y"]>>]
  IN  {Two, [Two EXCEPT !.policy.invalidOnViolation = FALSE], [Two EXCEPT !.oracles[1].tol = 2]}

MCRepeatable ==
  {[manifest |-> m, baseline |-> s[1], candidate |-> s[2]] :
     m \in ComparedManifests, s \in ComparedPairs}

MCExperiments == MCRepeatable \cup (ControlExperiments \cup DataExperiments)

\* The experiments on the oracle that matches environments.
PermutationExperiments ==
  {x \in DataExperiments :
     \E i \in DOMAIN x.manifest.oracles : x.manifest.oracles[i].type = "env_permutation_invariance"}
=============================================================================
