--------------------------- MODULE MCCalibration ----------------------------
(***************************************************************************)
(* The controls and oracles of validation/examples/calibration_base.yaml,  *)
(* without the statistical oracle on a signal that is judged already, on   *)
(* pendulums below and above the severity at which detection is claimed.   *)
(***************************************************************************)
EXTENDS Calibration

BaseSpec(type, signal) ==
  [type |-> type, signal |-> signal, signals |-> <<>>, tol |-> IF signal = None THEN None ELSE 0,
   floor |-> 1, how |-> "second_largest", unit |-> "rad", kind |-> "engineering", mme |-> 0,
   threshold |-> 0, condition |-> "above", polarity |-> "survived", features |-> {},
   summary |-> "max", check |-> "finite_state", lower |-> 0, upper |-> 1]

BaseManifest ==
  [same |-> {"asset_identity", "action_sequence", "initial_state_distribution",
             "observation_definition", "control_frequency", "num_envs", "horizon",
             "task_variant", "solver_specific_parameters"},
   allowed |-> {}, unverifiable |-> {}, workload |-> [steps |-> 4, warmup |-> 0],
   oracles |-> <<BaseSpec("invariant", None)>>
                 \o [i \in DOMAIN PendulumNames |->
                       BaseSpec("trajectory_equivalence", PendulumNames[i])]
                 \o <<BaseSpec("action_replay_consumption", None),
                      BaseSpec("observation_definition_stability", None)>>,
   policy |-> DefaultPolicy, mode |-> "comparison"]

Pendulum(drive, velocity, envs) ==
  [drive_amplitude |-> drive, initial_velocity |-> velocity, num_envs |-> envs, steps |-> 4,
   dt |-> 1, gravity |-> 1, length |-> 1, damping |-> 0]

\* What two seeds draw: the initial angle of every environment.
Draws == <<<<1, 2, 4>>, <<2, -1, 3>>>>

Tolerating(tol) ==
  [BaseManifest EXCEPT !.oracles =
     [i \in DOMAIN @ |-> IF @[i].tol = None THEN @[i] ELSE [@[i] EXCEPT !.tol = tol]]]

Campaign(tol, params, draws) == [manifest |-> Tolerating(tol), params |-> params, seeds |-> draws]

\* One environment has no other to be compared with; two have one too few for a
\* reduction that discards the worst.
MCCampaigns ==
  {Campaign(tol, Pendulum(drive, velocity, envs), SubSeq(Draws, 1, 1)) :
     tol \in {0, 1}, drive \in {0, 2}, velocity \in {0, 1}, envs \in 1..3}
  \cup {Campaign(0, Pendulum(2, 1, 3), Draws)}

MCExperiments ==
  UNION {{TrialExperiment(c, f, seed) : f \in FaultNames, seed \in Range(c.seeds)} :
           c \in MCCampaigns}

\* Every one of these is a campaign the theorems speak of.
ASSUME BaseAssumption == \A c \in Campaigns : CalibrationBase(c)
=============================================================================
