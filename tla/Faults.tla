------------------------------- MODULE Faults -------------------------------
(***************************************************************************)
(* The synthetic subject, a damped driven pendulum, and the faults of the  *)
(* taxonomy that calibration puts into it (signals.py, faults.py): those   *)
(* of the surface "generation" change the parameters it is integrated      *)
(* with, those of "trace" the arrays or metadata recorded of it.           *)
(*                                                                         *)
(* Integers stand for the floating-point quantities, the angle itself for  *)
(* its sine, and a rotation about one axis for its quaternion: what counts *)
(* here is which parameters, steps, environments and signals a fault moves.*)
(***************************************************************************)
EXTENDS Validity

PendulumNames == <<"abs_pole_angle", "pole_ang_vel", "pole_angle", "pole_quat">>

ASSUME NamesAssumption == SortedNames = PendulumNames

\* The faults, in the order of TAXONOMY.
Taxonomy ==
  <<"none", "ignored_reset_velocity", "wrong_env_origin", "incorrect_clone_count",
    "quaternion_ordering", "dropped_action", "shifted_action_timing", "observation_field_swap",
    "stale_sensor_state", "incorrect_timestep", "unit_scaling", "altered_friction",
    "altered_mass", "silent_nan", "truncated_rollout", "corrupted_metadata",
    "unsupported_feature_misreported">>

FaultNames == Range(Taxonomy)

\* An asset identity is recorded, whether it is the right one or not.
ASSUME RecordedAssumption == None \notin {"damped_pendulum.v1", "corrupted-asset"}

Undetectable == {"none", "unsupported_feature_misreported"}

\* responsible_oracle = "experiment_validity"
ForValidity ==
  {"incorrect_clone_count", "incorrect_timestep", "truncated_rollout", "corrupted_metadata"}

\* default_params, at the scale of this model; steps count from 0.
Default ==
  [spacing |-> 2, offset |-> 1, factor |-> 2, gravity_scale |-> 2, damping |-> 1, length |-> 2,
   start |-> 1, length_held |-> 2, step |-> 1, env |-> 0]

-----------------------------------------------------------------------------
(* Generation.                                                               *)

ApplyGenerationFault(f, k) ==
  CASE f = "ignored_reset_velocity" -> [k EXCEPT !.apply_reset_velocity = FALSE]
    [] f = "dropped_action"         -> [k EXCEPT !.drive_amplitude = 0]
    [] f = "shifted_action_timing"  -> [k EXCEPT !.drive_step_offset = Default.offset]
    [] f = "incorrect_timestep"     -> [k EXCEPT !.dt = @ * Default.factor]
    [] f = "unit_scaling"           -> [k EXCEPT !.gravity = @ * Default.gravity_scale]
    [] f = "altered_friction"       -> [k EXCEPT !.damping = Default.damping]
    [] f = "altered_mass"           -> [k EXCEPT !.length = Default.length]
    [] OTHER -> k

\* sin(0.05 * t) over the few steps of this model.
Wave(t) == t

\* State t of environment e: semi-implicit Euler, the velocity first.
Motion(k, seed, e) ==
  LET torque(t) == LET i == t - k.drive_step_offset
                   IN  IF i \in 0..(k.steps - 1) THEN k.drive_amplitude * Wave(i) ELSE 0
      state[t \in 0..k.steps] ==
        IF t = 0 THEN [angle |-> seed[e],
                       vel   |-> IF k.apply_reset_velocity THEN k.initial_velocity ELSE 0]
        ELSE LET s == state[t - 1]
                 accel == torque(t - 1) - (k.gravity * s.angle) \div k.length - k.damping * s.vel
                 vel   == s.vel + k.dt * accel
             IN  [angle |-> s.angle + k.dt * vel, vel |-> vel]
  IN  state

\* _damped_pendulum.  What it records is what was declared: the asset, the initial
\* state and the commanded actions know nothing of the parameters that were applied.
DampedPendulum(k, seed) ==
  LET motion == [e \in 1..k.num_envs |-> Motion(k, seed, e)]
      Of(value(_)) == [envs |-> k.num_envs,
                       rows |-> [t \in 1..k.steps |-> [e \in 1..k.num_envs |-> value(motion[e][t])]]]
      angle(s) == s.angle
      vel(s)   == s.vel
      size(s)  == Magnitude(s.angle)
      recorded == [asset_identity |-> "damped_pendulum.v1", physics_dt |-> k.dt,
                   control_frequency_hz |-> k.dt, seed |-> seed,
                   task_variant |-> "damped_pendulum.v1", solver_settings |-> "semi_implicit_euler",
                   initial_state_digest |-> <<seed, k.initial_velocity, k.num_envs>>]
  IN  [signals  |-> [n \in Range(PendulumNames) |->
                       CASE n = "abs_pole_angle" -> Of(size)
                         [] n = "pole_ang_vel"   -> Of(vel)
                         [] OTHER                -> Of(angle)],
       meta     |-> [key \in MetaKeys |-> IF key \in DOMAIN recorded THEN recorded[key] ELSE None],
       actions  |-> [t \in 1..k.steps |->
                       [e \in 1..k.num_envs |-> k.declared_drive_amplitude * Wave(t - 1)]],
       features |-> {},
       complete |-> TRUE,
       contract |-> [n \in Range(PendulumNames) |-> [p \in Properties |-> None]]]

-----------------------------------------------------------------------------
(* Traces.                                                                   *)

\* np.ptp.  The components of a unit quaternion span about one whatever it turns by.
Span(s, n) ==
  LET finite == Values(s.signals[n]) \ {NaN}
  IN  IF n = "pole_quat" THEN 1 ELSE IF finite = {} THEN 0 ELSE Max(finite) - Min(finite)

\* _first_moving_signal: the first of those with the largest span.
Target(s) ==
  LET widest == {i \in DOMAIN PendulumNames : \A j \in DOMAIN PendulumNames :
                   Span(s, PendulumNames[i]) >= Span(s, PendulumNames[j])}
  IN  PendulumNames[Min(widest)]

\* The array with each cell replaced by what value makes of step, environment and cell.
Cells(a, value(_, _, _)) ==
  [a EXCEPT !.rows = [t \in DOMAIN @ |-> [e \in Envs(a) |-> value(t, e, @[t][e])]]]

FewerEnvs(a, n)  == [envs |-> n, rows |-> [t \in DOMAIN a.rows |-> SubSeq(a.rows[t], 1, n)]]
OnTarget(s, value(_, _, _)) == [s EXCEPT !.signals[Target(s)] = Cells(@, value)]
OnAll(s, array(_))  == [s EXCEPT !.signals = [n \in DOMAIN @ |-> array(@[n])]]

\* From wxyz to xyzw: a rotation by at least a right angle away from any of these.
Reordered == 100

ApplyTraceFault(f, s) ==
  CASE f = "wrong_env_origin" ->
         OnTarget(s, LAMBDA t, e, v : v + (e - 1) * Default.spacing)
    [] f = "incorrect_clone_count" ->
         LET keep == Max({1, NumEnvs(s) - 1})
         IN  [OnAll(s, LAMBDA a : FewerEnvs(a, keep)) EXCEPT
                !.actions = [t \in DOMAIN @ |-> SubSeq(@[t], 1, keep)]]
    [] f = "quaternion_ordering" ->
         [s EXCEPT !.signals["pole_quat"] = Cells(@, LAMBDA t, e, v : v + Reordered)]
    [] f = "observation_field_swap" ->
         [s EXCEPT !.signals[PendulumNames[1]] = s.signals[PendulumNames[2]],
                   !.signals[PendulumNames[2]] = s.signals[PendulumNames[1]]]
    [] f = "stale_sensor_state" ->
         LET first == Default.start + 1
             held  == first..(Default.start + Default.length_held)
             row   == s.signals[Target(s)].rows[Max({Default.start, 1})]
         IN  IF Default.start >= Horizon(s) THEN s
             ELSE OnTarget(s, LAMBDA t, e, v : IF t \in held THEN row[e] ELSE v)
    [] f = "silent_nan" ->
         LET step == Min({Default.step, Horizon(s) - 1}) + 1
             env  == Min({Default.env, NumEnvs(s) - 1}) + 1
         IN  OnTarget(s, LAMBDA t, e, v : IF <<t, e>> = <<step, env>> THEN NaN ELSE v)
    [] f = "truncated_rollout" ->
         LET keep == Max({1, Horizon(s) \div 2})
         IN  [OnAll(s, LAMBDA a : Prefix(a, keep)) EXCEPT
                !.actions = SubSeq(@, 1, keep), !.complete = FALSE]
    [] f = "corrupted_metadata" -> [s EXCEPT !.meta["asset_identity"] = "corrupted-asset"]
    [] f = "unsupported_feature_misreported" ->
         [s EXCEPT !.features = @ \cup {"articulation_tendons"}]
    [] OTHER -> s

\* Parameters that are given are kept, the others have their defaults.
Filled(params, defaults) ==
  [p \in DOMAIN params \cup DOMAIN defaults |->
     IF p \in DOMAIN params THEN params[p] ELSE defaults[p]]

\* Defaults that are filled in after the fault, from what it left.
LoadSynthetic_FaultFirst(f, params, seed) ==
  LET k == ApplyGenerationFault(f, Filled(params, [drive_step_offset |-> 0,
                                                   apply_reset_velocity |-> TRUE]))
  IN  ApplyTraceFault(f,
        DampedPendulum(Filled(k, [declared_drive_amplitude |-> k.drive_amplitude]), seed))

\* _load_synthetic, with params that may not declare what they drive with.
LoadSynthetic(f, params, seed) ==
  LET k == Filled(params, [drive_step_offset |-> 0, apply_reset_velocity |-> TRUE,
                           declared_drive_amplitude |-> params.drive_amplitude])
  IN  ApplyTraceFault(f, DampedPendulum(ApplyGenerationFault(f, k), seed))
=============================================================================
