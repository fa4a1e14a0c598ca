---------------------------- MODULE ControlCases ----------------------------
(***************************************************************************)
(* Experiments that vary in what the controls look at: a default pair of   *)
(* subjects and a default manifest, each changed in a few respects.        *)
(***************************************************************************)
EXTENDS Validity

Rad      == [dimension |-> "rad", prose |-> ""]
RadProse == [dimension |-> "rad", prose |-> "(joint angle)"]
Deg      == [dimension |-> "deg", prose |-> ""]
Mixed    == [dimension |-> "rad and m", prose |-> ""]

Arr(n, rows) == [envs |-> n, rows |-> rows]

\* Two steps of one environment, fewer or more steps, more environments, and the same
\* bytes in another shape.
Arrays ==
  {Arr(1, <<<<0>>, <<1>>>>), Arr(1, <<<<0>>, <<2>>>>), Arr(1, <<<<NaN>>, <<1>>>>),
   Arr(1, <<<<0>>>>), Arr(1, <<<<0>>, <<1>>, <<1>>>>), Arr(2, <<<<0, 1>>, <<1, 0>>>>),
   Arr(2, <<<<0, 1>>>>)}

DefaultMeta == [k \in MetaKeys |-> "m1"]

DefaultSubject ==
  [signals |-> [n \in {"x"} |-> Arr(1, <<<<0>>, <<1>>>>)], meta |-> DefaultMeta,
   actions |-> "a1", features |-> {"contacts"}, complete |-> TRUE,
   contract |-> [n \in {"x", "y"} |-> [unit |-> Rad, frame |-> "world", dtype |-> "f4"]]]

Variants ==
  LET D == DefaultSubject
  IN  {[D EXCEPT !.signals["x"] = a] : a \in Arrays}
      \cup {[D EXCEPT !.signals = [n \in {"x", "y"} |-> a]] : a \in {D.signals["x"]}}
      \cup {[D EXCEPT !.meta[k] = v] :
              k \in {"asset_identity", "seed", "solver_settings", "physics_dt"},
              v \in {None, "m2"}}
      \cup {[D EXCEPT !.actions = v] : v \in {None, "a2"}}
      \cup {[D EXCEPT !.features = {}], [D EXCEPT !.complete = FALSE]}
      \cup {[D EXCEPT !.contract["x"]["unit"] = u] : u \in {None, RadProse, Deg, Mixed}}
      \cup {[D EXCEPT !.contract["x"][p] = v] : p \in {"frame", "dtype"}, v \in {None, "other"}}

BaseSpec ==
  [type |-> "trajectory_equivalence", signal |-> "x", signals |-> <<>>, tol |-> 1, floor |-> 1,
   how |-> "max", unit |-> "rad", kind |-> "numerical", mme |-> 0, threshold |-> 0,
   condition |-> "above", polarity |-> "survived", features |-> {}, summary |-> "final",
   check |-> "finite_state", lower |-> 0, upper |-> 1]

Of(type) == [BaseSpec EXCEPT !.type = type]
Finite   == [Of("invariant") EXCEPT !.signal = None, !.tol = None]
Replay   == [Of("action_replay_consumption") EXCEPT !.signal = None, !.tol = None]
Features == [Of("required_features") EXCEPT !.signal = None, !.tol = None, !.features = {"contacts"}]
EventOf  == [Of("event_equivalence") EXCEPT !.unit = "steps"]
Stat     == [Of("statistical_equivalence") EXCEPT !.kind = "statistical"]

OracleLists ==
  {<<BaseSpec, Finite>>, <<EventOf>>, <<Replay>>, <<Features, BaseSpec>>, <<Of("exact_equivalence")>>,
   <<Of("trajectory_envelope")>>, <<Of("no_such_oracle"), BaseSpec>>, <<Stat>>,
   <<[BaseSpec EXCEPT !.signal = "y"]>>, <<[BaseSpec EXCEPT !.unit = "deg"]>>,
   <<[BaseSpec EXCEPT !.tol = None]>>, <<[EventOf EXCEPT !.unit = "rad"]>>}

DefaultManifest ==
  [same |-> {}, allowed |-> {}, unverifiable |-> {}, workload |-> [steps |-> 2, warmup |-> 0],
   oracles |-> <<BaseSpec, Finite>>, policy |-> DefaultPolicy, mode |-> "comparison"]

Required ==
  {{"asset_identity", "seeds"}, {"action_sequence"}, {"observation_definition"},
   {"num_envs", "horizon"}, {"solver_specific_parameters", "task_variant"}}

Manifests ==
  LET D == DefaultManifest
      Changed ==
        {[D EXCEPT !.same = s] : s \in Required \cup {{}}}
        \cup {[D EXCEPT !.allowed = {"solver_specific_parameters"},
                        !.unverifiable = {"asset_binary_identity", "seeds"}],
              [D EXCEPT !.mode = "identity_check"],
              [D EXCEPT !.policy.invalidOnViolation = FALSE],
              [D EXCEPT !.policy.unsupportedIsFailure = TRUE]}
        \cup {[D EXCEPT !.workload.warmup = w] : w \in {None, 1, -1}}
  IN  Changed \cup {[m EXCEPT !.oracles = <<EventOf>>] : m \in Changed}
        \cup {[D EXCEPT !.oracles = o] : o \in OracleLists}

\* Either each subject is changed in one respect and their contents differ, or only
\* the candidate is changed.
Moved == {[s EXCEPT !.signals["x"].rows[1] = [e \in DOMAIN @ |-> 1]] : s \in Variants}

\* Two subjects of which each is known by hashes, by one of two names, or not at all.
Weak == {"weak:arm:joints=7", "weak:leg:joints=3"}

Assets == {[DefaultSubject EXCEPT !.meta["asset_identity"] = v] : v \in Weak \cup {"m1", None}}

\* Legacy subjects: two signals of two steps, or one of the two shorter or longer.
TwoSignals ==
  [DefaultSubject EXCEPT !.signals = [n \in {"x", "y"} |-> DefaultSubject.signals["x"]]]

Uneven ==
  {[TwoSignals EXCEPT !.signals[n] = Arr(1, SubSeq(<<<<0>>, <<1>>, <<0>>>>, 1, k))] :
     n \in {"x", "y"}, k \in 1..3}

JudgingY ==
  {<<[Of(t) EXCEPT !.signal = "y", !.unit = "steps", !.floor = f]>> :
     t \in Pairwise, f \in {1, 2}} \cup {<<Finite>>}

LegacyCases ==
  ({[DefaultManifest EXCEPT !.same = {"asset_identity", "horizon"}]} \X Assets \X Assets)
  \cup ({[DefaultManifest EXCEPT !.workload.warmup = w, !.oracles = o] :
            w \in {0, 1, -1}, o \in JudgingY} \X Uneven \X Uneven)

Cases ==
  {q \in Manifests \X Variants \X (Variants \cup Moved) :
     q[2] = DefaultSubject \/ q[3] \in Moved}

\* The candidate of a legacy case starts elsewhere, as those of Moved do.
Restarted(s) == [s EXCEPT !.signals["x"].rows[1] = <<1>>]

ControlExperiments ==
  {[manifest |-> q[1], baseline |-> q[2], candidate |-> q[3]] : q \in Cases}
  \cup {[manifest |-> q[1], baseline |-> q[2], candidate |-> Restarted(q[3])] : q \in LegacyCases}
=============================================================================
