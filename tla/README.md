# Verification of ivf

`ivf` decides whether a candidate robot-simulation stack still agrees with a
baseline. It loads two recorded subjects, checks that they may be compared at
all, runs the oracles a manifest declares, rolls the outcomes up into one
verdict and seals everything into an evidence bundle. A sidecar,
`parity-capture`, records the subjects inside the simulator. This directory
holds TLA+ models of both programs, TLC configurations that check them on small
instances, and proofs, checked by TLAPS, that hold for instances of any size.

Every definition is written from the source. `PROJECT.json` gives, for each
definition, the lines it stands for, and for each property a plausible bug in
the code that the run finds.

    tlc -workers 2 -config CommandLine.cfg MCCommandLine
    tlapm CalibrationProofs.tla

## The system

| Component | State | Operations | Talks to |
| --- | --- | --- | --- |
| runner (`runner.py`) | run id, suffix, subjects, checks, outcomes, verdict | `validate()`: claim a directory, load, check, run oracles, decide, write, finalize | everything below; the results root it shares with other invocations |
| evidence bundle (`evidence.py`) | a directory: 13 files at most, `CHECKSUMS.sha256`, `SEAL.json`, file modes | `create`, `write_*`, `finalize`, `open`, `verify` | the file system, and whoever keeps the bundle afterwards |
| verdicts (`verdicts.py`, `decide`) | none | roll-up, exit codes | runner, command line |
| validity layer (`validity.py`, `signal_contract.py`) | a list of checks | `check_experiment`, `normalize_unit`, `content_digest` | manifest, subjects |
| oracles (`oracles/`) | none | one function per oracle type, `aggregate` | subjects, divergence |
| divergence (`divergence.py`) | a record | `localize`, `classify` | the four numerical oracles |
| capture boundary, reader (`bundle.py`, `signals.py`) | what it has read of a directory | `is_v1`, `load_v1`, `_verify_checksums`, the legacy loader, the root lock | a directory `parity-capture` writes |
| parity-capture (`src/adapters/parity_capture`) | the directory it writes, one manifest it shares with the other role | `cmd_capture`, `write_bundle`, `finalize_v1`, `_update_ivf_manifest` | the reader, another capture |
| manifest (`manifest.py`) | a parsed manifest | `load_manifest` | every component |
| signal sources (`signals.py`) | signals | synthetic, bundle, Isaac Lab, pooling over seeds | runner |
| command line (`cli.py`) | where a command is, what it has read, its exit status | `validate`, `reproduce`, `report`, `compare`, `calibrate`, `doctor`; `main()` turns exceptions, interrupts and broken pipes into a status | runner, bundles that others may be writing, the pipe it prints to |
| comparison (`compare.py`) | a report | `compare_bundles` | two records of runs |
| fault taxonomy (`faults.py`) | none | seventeen faults, applied to the parameters a pendulum is integrated with or to the trace of it | synthetic source |
| calibration (`calibration.py`) | the rows of a matrix | one run per fault and seed, `_analyze`, `consistent` | runner, faults |
| report, environment probe, tolerance provenance | none | rendering, probing | bundles |

Behaviour that is hard to test, and what would be correct:

- *Claiming a run id.* The suffix loop looks, then `create()` looks, then
  `mkdir(parents=True)` makes two directories in several system calls. No two
  invocations may come to own one directory.
- *Leaving a record.* Up to thirteen files, a listing and a seal are written one
  after the other while disks fill and processes are killed. What verifies must
  be a whole record, and what a run answers must be on record.
- *Turning failures into verdicts.* Two try blocks, four kinds of exception, two
  policy knobs. An infrastructure failure must never come out as a scientific
  verdict, and a scientific verdict must be about comparable subjects.
- *Keeping a bundle.* Edits, losses and additions after sealing must be
  noticed, unless everything was resealed.
- *Handing a capture over.* A reader meets a directory at any moment of a
  capture, and two captures share one manifest without a lock.
- *Branching on an exit status.* A script sees one number. It must say what is on
  record, although the command read a bundle in several looks while its writer
  was at work, and whatever interrupts it.
- *Comparing two runs.* Checks that share an id replace one another, and what is
  new depends on which bundle was named first. "No material differences" must
  be true of everything that matters.
- *Calibrating.* An error counts as a detection, a subject compared with itself
  is refused, and an aggregation discards the worst environment. A detection
  must be owed to the fault and a miss to the tolerance.
- *Judging.* NaN, ties, shapes that do not agree, aggregations, off-by-one at
  the first violating step: what an outcome means is a statement about arrays
  that no example pins down.

The file `PROJECT.json` lists each hazard at its line with the properties aimed at
it.

## Modules

    Verdicts ── EvidenceFiles ─┬─ Runner (⊑ RunLedger) ─┬─ RunnerProofs, MCRunner
                               │                        └─ CommandLine ── MCCommandLine
                               │                           (its proofs are in RunnerProofs)
                               └─ EvidenceIntegrity ── EvidenceIntegrityProofs, MC...
    TrajectoryBundle ── TrajectoryBundleProofs, MCTrajectoryBundle
    CaptureHandoff ── CaptureHandoffProofs, MCCaptureHandoff
    Signals ── Divergence ── Oracles ── Validity ─┬─ Experiment (with Verdicts)
                                                  └─ Faults
    Experiment ─┬─ ExperimentProofs ─┬─ ComparisonProofs (with Comparison)
                │                    └─ OracleLawsProofs (with OracleLaws)
                │                       └─ CalibrationProofs (with Calibration)
                ├─ ControlCases, DataCases, Comparison, OracleLaws ── MCExperiment
                └─ Calibration (with Faults) ── MCCalibration

**Runner** is `validate()` and the bundle operations it calls, for any number of
concurrent invocations. An action is a step after which another process, an
error or a kill can be observed: a look at the file system, one `mkdir(2)`, the
loading of a role, the checks, the oracles, one file written, the listing, the
seal, the chmod. `CutShort` is what an interrupted step may leave; `WriteFails`
is the second except clause, `Die` a KeyboardInterrupt or a kill, which no
except clause catches. `dirs` is the results root and `pc` the statement an
invocation is at. A file holds who wrote it, whether it is whole, and, for
`verdict.json`, the verdict.

**RunLedger** is what the results root promises without files: run ids have one
holder, a holder enters one record, a record is never changed, and an answer is
what is on record, or ERROR. `Runner` implements it under
`Holder`, `OnRecord` and `Answered`, where a record is a bundle that verifies.

**CommandLine** is the `ivf` command on top of it: `validate` makes a run,
`reproduce` reads a bundle and may make another, `reproduce --verify-only`
(here `verify`) stops after reading, `report` prints a path and
`report --output` (`render`) reads five files. There is one command for each run
of `Runner`, `at` is the place in it, and each look at a bundle is a step of its
own: the seal and the listing, the recorded files, `verdict.json`, the recorded
manifest, the comparison at the end. `exit` is the status, with a mark for a
standard output that was closed: `main()` answers 0 then. `Interrupt` is a
KeyboardInterrupt anywhere. A manifest is told apart by its verdict policy.

**EvidenceFiles** is the pure part of `evidence.py`: listing, seal and the
problems `verify()` reports. A digest is the content it is the digest of, that
is, SHA-256 is taken to be collision free. **EvidenceIntegrity** lets a sealed
bundle be edited, file by file, listing and seal included, and finalized again.

**TrajectoryBundle** is the capture boundary as a protocol over one directory:
captures write payload, metadata, listing and marker, each opened and closed in
two steps, and readers classify the directory, then read it in the order of
`load_v1` or of the legacy loader. Nothing else coordinates them.
**CaptureHandoff** is the shared manifest: read, change one role, open, write,
close, print the status. A manifest being written is a prefix of its sections.

**Signals** has arrays of integers and NaN, trimming and aggregation;
**Divergence** has `localize()` and the rules of `classify()`; **Oracles** has
every registered oracle, mapping a specification and two subjects to the set of
outcomes the code can produce (one, except where a bootstrap decides);
**Validity** has the report of `check_experiment`; **Experiment** runs them one
after the other, as `validate()` does between loading and writing.
**Comparison** runs an experiment, keeps its record, runs another and compares
the two. A check has the `check_id` of the code, so that of several checks under
one id the last one counts. Which of the bundles fails `verify()`, and whether
the experiments have different names, is left open (`Doubts`).

**Faults** is the synthetic pendulum and the taxonomy of faults. Integers stand
for floating-point quantities, the angle for its sine, and a rotation about one
axis for its quaternion: what the properties tell apart is which parameters,
steps, environments and signals a fault moves, and whether the declared
metadata, initial state and actions still say the same afterwards.
**Calibration** is a campaign: for each fault and each seed a trial, which is an
experiment as above, and its analysis. `LoseEvidence` and `BreakTrial` are the
two ways a trial ends in an error, before and after there are outcomes. An
exception of `create()` itself leaves the campaign without a matrix, and is not
a step here.

**OracleLaws** adds no behaviour: its properties run an oracle again on
prefixes, relabelled environments or other tolerances and relate the results.

The two halves meet at `Verdicts!Decide`: `Runner` leaves the checks and the
statuses of the oracles open, `Experiment` computes them.

## What the runs check

| Run | What it shows | Instance, and why it is enough |
| --- | --- | --- |
| `CommandLine` | Every exit status has a record behind it; what a reader found stays true; "reproduced" means run again; a bundle that verifies is the whole record of its run; no infrastructure failure is recorded as PASS, FAIL or INCONCLUSIVE; every command ends | A `validate` and one other command that names its bundle, with and without a reader of its output and with an equal or another manifest. Two policies, one status set that they judge alike and one that they judge differently. What two commands do to each other goes through one bundle, so two are enough; two suffixes, so that the run inside `reproduce` finds a name |
| `Runner_race` | One owner per directory, sealed bundles final, refinement of the ledger, every run ends | Two invocations on one base id with two suffixes, one status set: every interleaving of the claim and of the writes |
| `Runner_controls` (violation) | With `invalid_experiment_on_control_violation: false`, violated controls give PASS | one invocation, every failure |
| `Runner_writeerror` (violation) | A chmod that fails after the seal: a write error is reported and the bundle verifies | one invocation |
| `EvidenceIntegrity` | `verify()` misses changed files only when listing and seal were both replaced; what is as sealed verifies | Two files and an unused name, two contents, all sequences of edits |
| `Boundary` | What the v1 reader accepts is one finished capture; the lock is honoured; what was finished before is accepted | Two captures and a reader in one directory, which starts empty or with a legacy bundle |
| `Boundary_interrupted` (violation) | A capture interrupted before `metadata.json` is whole is not refused as incomplete | one capture, one reader |
| `Handoff` | Captures that take turns are recorded, and a "ready" that was printed is true | Two captures of each role |
| `Handoff_overlap` (violation) | Of two overlapping captures one loses its entry, though both exit 0 | one capture of each role |
| `Experiment` | Which comparisons are refused; that every control is reported on; that the judged window is not empty; that exchanging the roles does not change validity; that verdicts are explained; what a pass means, where a failure is located and how oracles relate; what `ivf compare` may say of two runs | Pairs of subjects that each differ from a default in one respect (an array, a metadata value, the actions, features, completeness, a unit, frame or dtype), under manifests that require, allow or set aside controls, change the warm-up, a policy, the mode, or the oracles. Pairs of legacy subjects: assets known by hashes, by one of two weak names or not at all, and two signals of one to three steps each, judged by every oracle that compares a signal and by the `finite_state` invariant under a warm-up of 0, 1 and -1. Checks are independent of each other, so one or two deviations at a time reach each of their outcomes. Every oracle on grids of two steps and two environments with at most one NaN, on one to three environments, on subjects of different sizes, and curves of seven steps, long enough for every rule of `classify()`. Compared are runs of nine pairs of subjects under three manifests, which differ in a policy or a tolerance, and runs that could not load |
| `Oracles_reordered` (violation) | The permutation oracle fails a reordered subject with two equal environments | the experiments of `Experiment` that have such an oracle |
| `Calibration` | What a detection is owed to, what a miss is due to, from where on detection is certain, and what a consistent matrix means | The controls and oracles of `validation/examples/calibration_base.yaml` on pendulums of one to three environments (`second_largest` has nothing to discard from one, half of two, and a majority of three), driven or not, moving at the reset or not, with tolerance 0 and 1, one seed; and two seeds on the severest. Four steps, of which a truncated rollout keeps two. `MaxErrors` = 1: the trials of a campaign do not depend on each other |

Bounds that stand in for unbounded things: `MaxAttempt` (the suffix loop),
`Bases`, `Runs`, `Captures`, `Readers`, the integer values and the sizes of
arrays, `BootstrapMinPairs` (`_BOOTSTRAP_MIN_PAIRS`, 8 in the code, 2 here, so that both
sides of the threshold are reached). With as many suffixes as invocations the loop always
finds a free name. `MixedDimensions` holds the one unit that names two
dimensions, and a tolerance in it is refused, for the oracles that reduce to a
scalar.

*Deadlock* is checked in the file protocols, which stutter only when all
processes have ended; an experiment stops when it has decided and a campaign
when its matrix is complete, so it is switched off in `Experiment`,
`Oracles_reordered` and `Calibration`.

*Fairness.* Two properties need any. `EveryRunEnds` assumes weak fairness of
`Step(p)`, and `EveryCommandEnds` of `CommandStep(p)`: that the operating system
keeps scheduling a process that can take a step. `Interrupt` is not in
`CommandStep`. `Die` is
not in `Step`, so nothing is promised by interrupting; `WriteFails` is enabled
together with the write it spoils, so fairness never forces a failure either.

*Assumptions inside properties.* `OneWriter` in the boundary properties: two
captures given the same empty directory mix their files, and nothing is claimed
of that. `calm` in `TurnsAreRecorded`: overlapping captures do lose updates,
which `Handoff_overlap` shows. `OrderIsImmaterial` leaves out the aggregation
`final`, which reads the last environment only, and the permutation oracle.
`Exited`, in the properties of the command line, leaves out commands whose
standard output was closed: those end with 0 whatever they found.
`ComparisonIsMirrored` speaks of bundles that both verify. `Severe` in
`SevereIsDetected` asks for a drive, a velocity and three environments; below
that `MissIsBelowTolerance` says why a fault was missed. `ConsistentIsEarned`
speaks of the negative control alone: in the rows of the other faults an error
counts as a detection.

## What is proved

For every value of the constants, by TLAPS:

- `RunnerProofs`. `IInv` is inductive: `TypeOK`; distinct runs hold distinct
  directories; `RunInv`, which says for each label what the directory of a run
  holds (`Progress`: the files written so far, all of them, the listing of
  them, the seal); `Judged`, what a scientific verdict rests on; and
  `Unclaimed`, that a directory nobody holds is empty. The safety properties
  are not inductive: that a verified bundle is whole depends on the seal being
  written only after the listing, and the listing only after every file, which
  is what `Progress` records. The step lemmas go action by action: what an
  action of `p` does to `p` and its directory (`ClaimKeeps`, `JudgeKeeps`,
  `RecordKeeps`, `DieKeeps`), and that it leaves every other run and directory
  alone (the `Frame` lemmas). From it follow `TypeCorrect`, `Exclusive`,
  `WholeRecord`, `Recorded`, `NeverScience`, the action property `Final`, and
  `Implementation`: every step maps to a step of `RunLedger` or to a stutter
  (`MakeSignals` takes an id, `WriteSeal` enters the record, `MakeReadOnly` and
  `WriteFails` answer).
- `RunnerProofs`, second part, about `CommandLine`. `CommandsAreRuns`: the commands do to the results root
  only what runs do, so every theorem of the first part holds under them
  (`RecordsUnderCommands`). `CommandInvariant`: `IInv` together with
  `CommandsInv`, which for each command says which places it can be at and how
  far its run is (`Placed`), that from the seal on a reader stands on a bundle
  that verifies (`Standing`), that a run made again is of the recorded manifest
  and in another bundle (`Again`), and that a status of 0 to 4 is the one of
  what was decided (`Settled`). `Standing` is inductive only because a sealed
  bundle is never written again, which is where `IInv` comes in. From it:
  `CommandTypeCorrect`, `ReadingIsLasting` (`ReadingStands`), `StatusIsOnRecord`
  (`ExitIsOnRecord`) and `ReproductionIsARun` (`ReproducedMeansAgain`).
- `EvidenceIntegrityProofs`. `TypeCorrect`; `Detection`, for any set of names
  and contents, from the lemma that a listing determines the files it lists;
  `NoFalseAlarm`.
- `ExperimentProofs`. The invariant `Reported` says that a report, once made, is
  the report on these two subjects, and a verdict the one `decide()` gives.
  `Comparable` (`ScienceIsComparable`) and `Unassumed` (`NothingIsAssumed`)
  follow from what each check of the report means (`RequiredIsCompared`,
  `ProtocolIsChecked`, `PropertyIsCompared`, `NamedIsReported`), for any
  manifests and subjects that satisfy `WellFormed`. `Unassumed` makes one
  exception, and names it: two assets known by the same weak identity, which the
  code reports as matched (see below). `Exchangeable`
  (`RolesAreExchangeable`) shows for each group of checks that the report on
  the exchanged subjects has a check that failed exactly when this one has; the
  one check that reads the baseline's unit only is covered by the comparison of
  the units (`MirroredIsValid`). `AllExplained` (`ReasonsExplain`) needs a
  second invariant, `Explained`: outcomes are those of declared oracles, all of
  them once it is decided, and each oracle reports a code that fits its status
  (`OutcomesAreCoded`, oracle by oracle). `WindowKept` (`WindowIsNotEmpty`)
  needs a third, `Windowed`: oracles run on a valid report only, and a valid
  report bounds the horizon, so that a signal as long as the measured one keeps the
  whole window (`WindowIsWhole`); of a shorter one, as a legacy bundle may hold,
  nothing need be left, and what is shown is that no criterion with a tolerance
  passes on it (`PassNeedsSteps`, oracle by oracle). A fourth, `Judged`, says that
  each outcome is one of the oracle at its place in the manifest, which
  `WindowKept` needs too, and `TypeCorrect` (`TypeOK`) rests on it: whatever the oracle, a record it leaves is of a step and of
  environments that one of the subjects has (`OutcomesFit`). That needs to know
  what the numerical operators return: that the greatest and the least of a
  finite set of integers exist and are in it. They do because a set of integers
  without one, smallest under inclusion, would have a smaller one in it
  (`Greatest`, from the well-foundedness of inclusion among finite sets), which
  takes the place of an induction.
- `OracleLawsProofs`. What the outcomes of the oracles mean. `TrajectoryMeans`
  (`TrajectoryMeansTolerance`): `RankedOf` is the number with so many above it,
  and from it `AggregateMeans` says of each aggregation how many environments of
  a row may exceed the tolerance. `Localized` (`FailureIsLocalized`): an oracle
  on a prefix of the data sees the prefix of what it saw, so that nothing is
  wrong before the first violation; the worst environment is one of those that
  violate at it. `Monotone` (`ToleranceIsMonotone`): proved as
  `AlwaysMonotone`, for every wider tolerance and not the two a run tries.
  `Matching` (`PermutationMeansMatching`): every environment is assigned one
  and all are taken, so that the assignment, onto a finite set of the same size,
  is one-to-one. `OrderDoesNotMatter` (`OrderIsImmaterial`): a renaming of the
  environments keeps the values of a row and how many of them are above anything,
  which is all that the aggregations, the envelope, the events and the decisions
  depend on; the statistical oracle adds up differences, and a sum over a finite
  set is the same in any order (`SumsExist`: a smallest set without such a sum
  would have one; `AddsIsSums`: it is what the code's fold computes; `TotalRenamed`).
  `EventDecides` (`EventImpliesDecision`): where the event oracle
  passes there are no count mismatches, and the decision oracle counts nothing
  else. `NonFiniteRefused` (`NonFiniteNeverPasses`): a NaN in a window is a bad
  cell, the invariant oracle fails or raises on it, and `decide()` passes neither.
- `ComparisonProofs`. The comparison remembers records of experiments
  (`AllRemembered`): either nothing was loaded, or the checks are those of two
  subjects, oracles ran exactly if they are valid, and the reasons are those of
  the oracles or of the checks. `EachIsAnExperiment` lifts the theorems of
  `ExperimentProofs` to experiments run one after the other; `Unchanged`,
  `Mirrored` and `FreshNamed` are what a comparison may say, and
  `ComparisonTypes` (`ComparisonTypeOK`) of what shape it is.
- `TrajectoryBundleProofs`. `BoundaryTypeCorrect`; and under `OneWriter` the
  inductive `BoundaryInv` (theorem `Boundary`): the writer has left the files
  before the present one final, with the digests of what it wrote, and nothing
  carries a whole marker before it is done (`Behind`); and what a reader has
  seen so far is of a capture that is done, and stays so, because nobody writes
  after the marker (`Reads`). From it `AcceptedFinished`, `LockHonoured` and
  `FinishedReadable`, for any number of captures and readers.
- `CaptureHandoffProofs`. `HandoffTypeCorrect`; and `TurnsRecorded`
  (`TurnsAreRecorded`), from `TakingTurns`: as long as nobody has overlapped
  anybody, at most one capture is at work, and what it has in memory holds
  whatever the others put on record.
- `CalibrationProofs`, for campaigns on any pendulum, with any seeds and any
  number of trials. The inductive invariant `AllTabulated` is that of an
  experiment with `Tabulated`: each row of the matrix is what `_analyze` makes of
  a run of the trial of its fault and seed, or of an error in it, and the trial
  that is running is the one the next row is due for. `CalibrationTypes`
  (`CalibrationTypeOK`) follows from it, under `invalid_experiment_on_control_violation`:
  the matrix has the type of rows of that policy. The others need to know what
  happens in a trial, and hold under `CalibrationBase`, below. `CreditDue`
  (`CreditIsDue`) and `ConsistencyEarned` (`ConsistentIsEarned`): a fault that
  leaves every signal as it was (the negative control, the claim of a feature,
  corrupted metadata) gives two subjects whose oracles all pass or are skipped (`AlikeOutcome`, `AlikePasses`), as their errors are zero everywhere, a
  sum of zeros is zero, and the values are numbers. They are numbers because the
  recursive `Motion` of the pendulum exists and stays in the integers: a step
  without it would have a first one, which the previous step contradicts.
  `MissExplained` (`MissIsBelowTolerance`): what is not flagged is valid and did
  not fail. Valid, in comparison mode, with the asset and the shapes required to
  be the same, it has changed the data and is of the baseline's size, and
  corrupted metadata is excluded; then a trajectory oracle has the samples it
  asks for and is not inconclusive, so that it passed, and `TrajectoryMeans`
  bounds what it tolerated (`TrajectoryFound`).

`CalibrationBase` says what of the base manifest those three rest on, and
`MCCalibration` evaluates it on every campaign the run checks: the mode is
`comparison`, under the default policy; asset, number of environments and horizon
are required to be the same; there is no warm-up; there is a trajectory oracle;
and each criterion is of a signal of the pendulum, with a floor that its
environments and steps reach. `validation/examples/calibration_base.yaml` is such
a manifest. Without these the properties may fail for reasons that are not the
code's: under a floor that is not reached, say, every trial is INCONCLUSIVE, which
is neither a detection nor a pass.

Assumed: `ValueAssumption` and its like (the markers `Absent`, `Torn`, `None`
are none of the values they stand beside; a file with a digest in it is neither
absent nor torn, `DigestAssumption`), `OriginalAssumption` (a sealed bundle has
contents the model knows), collision-free digests. `ExperimentAssumption`: a
manifest the parser let through (`WellFormed`); units that have a name
(`normalize_unit` always gives one); subjects with a signal (one without has 0
steps, and V-11 refuses it); arrays that are rectangular, each on its own. The
signals of a subject need not agree in steps or environments: `load_v1` makes sure
that they do, the legacy loader does not, and there the horizon and the number of
environments are those of the first signal (`AnySignal`; which one that is is left
open). `WeakAssumption`: a weak asset identity is a name, not a missing one.
`NumericAssumption`: arrays of numbers (NaN is none), and criteria as the parser lets them through (a tolerance is not negative, at
least one pair of samples is asked for, the aggregation is one of those
modelled). `SortedAssumption`: the alphabetical order is a sequence with a place
for every signal. `NamesAssumption` and `RecordedAssumption`: that order is the
one of the pendulum's signals, and an asset identity, right or corrupted, is not
a missing one. `CampaignAssumption`: a campaign has the manifest's fields and a
sequence of seeds, the experiments are its trials, and the arrays of a pendulum
have one shape, as those of one simulation do (`OneShape`).

Only model-checked: the liveness properties `EveryRunEnds` and
`EveryCommandEnds`; and `SevereIsDetected`, which is true of the particular
pendulums of the run. Whether a
fault can be seen depends on the motion (with a time step of zero no drive moves
anything), so there is no theorem for all pendulums.
`MissIsBelowTolerance`, which is proved, is what remains.

## Where the code and its documents disagree

Five runs marked *violation* each show one, quoted in `PROJECT.json`. Others met
while reading, without a run:

- A weak asset identity is matched. `signals.py:351-354` says that a bundle
  without asset hashes gets an identity marked as weak so that the validity layer
  "can say "unverifiable" rather than "matched"". `validity.py:155-172` does not
  look for the mark: two bundles with the same scenario name and the same number of
  joints pass V-01, whatever assets they were captured with. `NothingIsAssumed`
  states this as its one exception, and the instance has these subjects.
- A legacy bundle is measured by its first signal. Another may be shorter, so that
  the warm-up leaves nothing of it, and exact equality and the invariants then pass
  on an empty window, as `WindowIsNotEmpty` says; an oracle that counts samples does
  not.
- `docs/oracles.md:99-100`: an agreement rate finer than the environments can
  resolve "returns `INCONCLUSIVE`". `event.py` compares the number of environments
  with `min_samples` and nothing else; a finer rate is a PASS or a FAIL.
- `docs/verdicts.md:21-23`: of an INVALID_EXPERIMENT "the oracle numbers are
  recorded but decide nothing". No oracle is run, and nothing recorded
  (`runner.py:335-341`).

- `runner.py:317-320`: the loser of a race for a run id gets an uncaught
  `EvidenceError` or `FileExistsError`, where the comment promises a suffix.
- `runner.py:343-371`: `error` is set for INVALID_EXPERIMENT and UNSUPPORTED
  too; `docs/evidence-schema.md:51` ties it to ERROR.
- `signals.py:440`: a v1 bundle is digested and then opened again; `is_v1`
  looks at the directory before that. The legacy route never compares
  `bundle_sha256` (`docs/capture-boundary.md:60`).
- `cli.py:110` of parity-capture records paths relative to the directory each
  capture ran in (`docs/capture-boundary.md:187`); "ready" is printed when the
  entries are there, whether or not the bundles still are.
- `min_samples` gates neither the envelope nor the permutation oracle
  (`docs/manifests.md:167`); an envelope ignores NaN (`numeric.py:287`), and a
  candidate with more environments than the baseline can make it raise, which
  comes out as "inconclusive".
- `manifest.py:258` accepts a negative warm-up, and nothing consults
  `inconclusive_on_insufficient_samples` (`manifest.py:379`).
- The unit of a tolerance is compared with the baseline's unit only;
  `content_digest` ignores shapes; metadata recorded on one side only counts as
  a configuration difference when a divergence is classified.
- `action_at_violation` indexes the actions with a step counted after the
  warm-up.
- A wider margin of the statistical oracle can turn a pass into "inconclusive",
  which is why `ToleranceIsMonotone` leaves that oracle out.
- `cli.py:20` reserves status 1 "for a scientific FAIL and nothing else". It is
  also the status of `report` without a `report.html` (122), of
  `compare --fail-on-change` (161), of `reproduce` with another verdict (221), of
  `calibrate` with an inconsistent matrix (239) and of `doctor` (61).
- `report` answers 0 as soon as `report.html` exists, also in a bundle that was
  cut short inside that file. A broken pipe turns every status into 0
  (`cli.py:359`).
- `reproduce` prints a comparison and ignores what it says, "not comparable"
  included: equal verdicts are enough for 0, also two ERRORs.
- `compare.py:12` calls runs of different manifests or oracle sets incomparable;
  the code refuses different experiment names, schemas and bundles that do not
  verify, and lists the rest as changes. An oracle that raised in one of two runs
  has no tolerance there, and is reported as "the acceptance criterion itself
  changed" (`compare.py:228`).
- A fault that does nothing, as a dropped action in a passive scenario or an
  ignored velocity of zero, is "undetectable" by its own `limitations`
  (`faults.py:87`, `:129`); in a campaign it is refused as a comparison of a
  subject with itself, and that counts as detected. The limitation of
  `quaternion_ordering` says that an identity trajectory does not change when the
  components are reordered; (1, 0, 0, 0) becomes (0, 0, 0, 1).
- `consistent` looks at neither the layer nor the verdict of a detection, so that
  errors make a matrix consistent, except in the rows that expect none.
- Pooling over seeds takes the actions and the metadata of the first seed
  (`runner.py:109`), which a check of environment counts would not notice.

## What is not modelled

- In the oracles: vectors (a signal has one component), the geodesic, relative
  and mean or p95 reductions, quaternions and `unit_quaternion`. They need real
  arithmetic. Infinities are folded into NaN: the code treats both as
  non-finite, except in exact equality and in `ulp_equivalence`, where two equal
  infinities agree (`numeric.py:259`).
- The reported values, windows and actions of a divergence record, reason texts,
  metrics, the contents of provenance, the HTML report, the environment probe,
  the tolerance-provenance report: they inform and decide nothing.
- The simulators and their stepping; the Isaac Lab source; the pooling of several
  seeds into one subject. In `Runner` loading is one step that succeeds or fails.
- The fields of the capture contract: metadata is one value that is right for
  its capture or not. Nor is a completion marker that records no digest of the
  listing: `load_v1` lets one pass (`bundle.py:419`), but `finalize_v1` writes none.
- `doctor` and the parsing of arguments. Of the manifest parser what it
  guarantees (`WellFormed`, and the outcomes of `LoadManifest`); not how.
- Infinitesimal faults: the pendulum is an integer one, so that thresholds of
  detection are shown to exist and to have a cause, not where they lie.

## Plan

Done, in this order: Verdicts, EvidenceFiles, Runner with RunLedger and its
proofs; EvidenceIntegrity and its proofs; the capture boundary and the handoff;
signals, divergence, oracles, validity, Experiment and its first proofs; the
command line over Runner and its proofs; Comparison and its proofs; Faults and
Calibration; the proofs of the capture boundary and of the handoff; the proofs of
the laws of the oracles and of the type invariants of experiments and comparisons;
the proofs about a calibration.

Left:

1. The parser's checks as a module that establishes `WellFormed`, and the capture
   contract as fields.
2. The pooling of seeds between loading and checking.
3. Conditions on a pendulum under which `SevereIsDetected` could be a theorem.
