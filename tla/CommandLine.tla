---------------------------- MODULE CommandLine ----------------------------
(***************************************************************************)
(* The ivf command (cli.py) over one results root: "validate", which makes *)
(* a run of Runner, and the commands that read a bundle while others may   *)
(* be writing it: "reproduce" (with --verify-only: "verify"), which may go *)
(* on to make a run of its own, and "report" (with --output: "render").    *)
(* What a caller branches on is the exit status.  Each read of a bundle is *)
(* a step of its own, so that a writer may get between two of them.        *)
(***************************************************************************)
EXTENDS Runner

CONSTANT Invocations   \* the commands that are run, one per element of Runs

Readers  == {"verify", "reproduce", "report", "render"}
Commands == [verb : {"validate"}, of : {None}, policy : Policies, pipe : BOOLEAN]
              \cup [verb : Readers, of : RunId, policy : Policies, pipe : BOOLEAN]

ASSUME InvocationAssumption == Invocations \subseteq [Runs -> Commands]

VARIABLES
  command,   \* of each invocation: a verb, the bundle it names, the verdict_policy of the
             \* manifest it names or finds at the recorded path, and whether anybody
             \* reads its standard output to the end
  at,        \* where the command is
  recorded,  \* the verdict reproduce has read from the bundle it names, or None
  exit       \* the exit status and whether standard output was closed, or None

cliVars == <<command, at, recorded, exit>>
allVars == <<vars, cliVars>>

EX_USAGE    == 64
Interrupted == 130

Places == {"parse", "run", "open", "seal", "files", "verdict", "manifest", "report",
           "render", "compare", "over"}
Statuses == 0..5 \cup {EX_USAGE, Interrupted}
Exits    == [status : Statuses, broken : BOOLEAN]

ASSUME ExitAssumption == None \notin Exits

CInit ==
  /\ Init
  /\ command  \in Invocations
  /\ policy   = [p \in Runs |-> command[p].policy]
  /\ at       = [p \in Runs |-> "parse"]
  /\ recorded = [p \in Runs |-> None]
  /\ exit     = [p \in Runs |-> None]

Move(p, place) == at' = [at EXCEPT ![p] = place] /\ UNCHANGED <<command, recorded, exit>>

Leave(p, status, broken) ==
  /\ at'   = [at EXCEPT ![p] = "over"]
  /\ exit' = [exit EXCEPT ![p] = [status |-> status, broken |-> broken]]
  /\ UNCHANGED <<command, recorded>>

\* main() turns every exception a command lets through into an ERROR line and 5.
Raise(p) == Leave(p, 5, FALSE)

\* The command prints its answer and returns; main() turns a BrokenPipeError of the
\* printing into 0.
Answer(p, status) == IF command[p].pipe THEN Leave(p, status, FALSE) ELSE Leave(p, 0, TRUE)

Is(p, verbs) == command[p].verb \in verbs
Named(p)     == dirs[command[p].of]

-----------------------------------------------------------------------------
(* ivf validate, and the run inside ivf reproduce.                           *)

\* load_manifest: a ManifestError is a usage error; anything else it raises, as a
\* tolerance that is no number does, is an operational one.
LoadManifest(p) ==
  /\ at[p] = "parse"
  /\ Is(p, {"validate"})
  /\ \/ Move(p, "run")
     \/ Leave(p, EX_USAGE, FALSE)
     \/ Raise(p)
  /\ UNCHANGED vars

\* A step of validate().
RunStep(p) ==
  /\ at[p] = "run"
  /\ Step(p)
  /\ UNCHANGED cliVars

\* A validate() whose answer is what it decided even if the bundle was not written.
Verdict_Decided(p) == verdict[p]

\* The verdict of the RunResult.
ResultVerdict(p) == IF pc[p] = "write_error" THEN "ERROR" ELSE verdict[p]

\* validate() returned: cmd_validate answers, cmd_reproduce goes on to compare.
RunReturns(p) ==
  /\ at[p] = "run"
  /\ pc[p] \in {"returned", "write_error"}
  /\ IF Is(p, {"validate"}) THEN Answer(p, ExitCode[ResultVerdict(p)])
                            ELSE Move(p, "compare")
  /\ UNCHANGED vars

\* EvidenceBundle.create() raised out of validate().
RunRaises(p) ==
  /\ at[p] = "run"
  /\ pc[p] \in {"refused", "raised"}
  /\ Raise(p)
  /\ UNCHANGED vars

-----------------------------------------------------------------------------
(* Reading a bundle.                                                         *)

\* _resolve_bundle
Resolve(p) ==
  /\ at[p] = "parse"
  /\ Is(p, Readers)
  /\ IF Named(p).root THEN Move(p, "open") ELSE Leave(p, EX_USAGE, FALSE)
  /\ UNCHANGED vars

\* EvidenceBundle.open() does not raise: the seal parses and is of this schema, or
\* there is none yet and verdict.json exists.
Opens(d) ==
  IF d.seal = Absent THEN d.file["verdict.json"] # Absent
                     ELSE d.seal # Torn /\ d.seal.schema = Supported

\* read_json() of each of these names returns.
Readable(d, names) == \A n \in names : d.file[n] # Absent /\ d.file[n].whole

Open(p) ==
  /\ at[p] = "open"
  /\ IF Opens(Named(p))
     THEN Move(p, IF Is(p, {"verify", "reproduce"}) THEN "seal" ELSE command[p].verb)
     ELSE Raise(p)
  /\ UNCHANGED vars

\* A verify() for which a bundle without a seal is merely not finished yet.
SealHolds_Optional(d) ==
  d.sums # Absent /\ (d.seal = Absent \/ (d.seal # Torn /\ SealProblems(d) = {}))

\* verify() finds the seal, the listing, and that the one is the digest of the other.
SealHolds(d) == d.seal \notin {Absent, Torn} /\ d.sums # Absent /\ SealProblems(d) = {}

\* The first half of verify().  A torn SEAL.json makes it raise.
VerifySeal(p) ==
  /\ at[p] = "seal"
  /\ IF SealHolds(Named(p))        THEN Move(p, "files")
     ELSE IF Named(p).seal = Torn THEN Raise(p)
     ELSE Answer(p, 5)
  /\ UNCHANGED vars

\* The second half: every recorded file, then every file that is not recorded.
VerifyFiles(p) ==
  /\ at[p] = "files"
  /\ IF FileProblems(Named(p)) = {} THEN Move(p, "verdict") ELSE Answer(p, 5)
  /\ UNCHANGED vars

\* The recorded verdict, which is printed; --verify-only ends here.
ReadVerdict(p) ==
  /\ at[p] = "verdict"
  /\ IF Readable(Named(p), {"verdict.json"})
     THEN /\ recorded' = [recorded EXCEPT ![p] = Named(p).file["verdict.json"].verdict]
          /\ IF Is(p, {"verify"}) \/ ~command[p].pipe
             THEN /\ at'   = [at EXCEPT ![p] = "over"]
                  /\ exit' = [exit EXCEPT ![p] = [status |-> 0, broken |-> ~command[p].pipe]]
             ELSE at' = [at EXCEPT ![p] = "manifest"] /\ UNCHANGED exit
          /\ UNCHANGED command
     ELSE Raise(p)
  /\ UNCHANGED vars

\* ivf report prints the path of report.html, whatever is in it; --output renders anew.
Report(p) ==
  /\ at[p] \in {"report", "render"}
  /\ IF at[p] = "report"
     THEN IF Named(p).file["report.html"] # Absent THEN Answer(p, 0) ELSE Leave(p, 1, FALSE)
     ELSE IF Readable(Named(p), {"verdict.json", "manifest.resolved.json", "validity.json",
                                 "oracles.json", "provenance.json"})
          THEN Answer(p, 0) ELSE Raise(p)
  /\ UNCHANGED vars

-----------------------------------------------------------------------------
(* The rest of ivf reproduce.                                                *)

\* The digest of the manifest at the recorded path is the one in verdict.json.  Two
\* manifests are told apart here by their verdict_policy.
SameManifest(p) == policy[p] = policy[Named(p).file["verdict.json"].by]

\* The manifest is gone (3), does not load (5), is another one (4), or is run again.
FindManifest(p) ==
  /\ at[p] = "manifest"
  /\ \/ Answer(p, 3)
     \/ Raise(p)
     \/ IF SameManifest(p) THEN Move(p, "run") ELSE Answer(p, 4)
  /\ UNCHANGED vars

\* A comparison with what the new run decided, not with what it answered.
SameVerdict_Decided(p) == verdict[p] = recorded[p]

SameVerdict(p) == ResultVerdict(p) = recorded[p]

\* compare_bundles raises when either bundle cannot be opened or lacks a file it
\* reads; its report is printed, and only the verdict decides the status.
CompareRuns(p) ==
  LET both == {Named(p), dirs[bundle[p]]}
      read == {"verdict.json", "manifest.resolved.json", "provenance.json",
               "validity.json", "oracles.json"}
  IN  /\ at[p] = "compare"
      /\ IF \A d \in both : Opens(d) /\ Readable(d, read)
         THEN Answer(p, IF SameVerdict(p) THEN 0 ELSE 1)
         ELSE Raise(p)
      /\ UNCHANGED vars

\* KeyboardInterrupt, wherever the command is.  A kill leaves the same files behind.
Interrupt(p) ==
  /\ at[p] # "over"
  /\ Leave(p, Interrupted, FALSE)
  /\ IF at[p] = "run" /\ pc[p] \notin Ended \cup {"idle"} THEN Die(p) ELSE UNCHANGED vars

-----------------------------------------------------------------------------
CommandStep(p) ==
  \/ LoadManifest(p) \/ RunStep(p) \/ RunReturns(p) \/ RunRaises(p)
  \/ Resolve(p) \/ Open(p) \/ VerifySeal(p) \/ VerifyFiles(p) \/ ReadVerdict(p) \/ Report(p)
  \/ FindManifest(p) \/ CompareRuns(p)

AllOver == \A p \in Runs : at[p] = "over"

CNext ==
  \/ \E p \in Runs : CommandStep(p) \/ Interrupt(p)
  \/ AllOver /\ UNCHANGED allVars

CSpec == CInit /\ [][CNext]_allVars

\* The operating system keeps scheduling every command.
FairCSpec == CSpec /\ \A p \in Runs : WF_allVars(CommandStep(p))

-----------------------------------------------------------------------------
(* Properties                                                                *)

\* The shape of the variables of the commands alone.
LocalTypeOK ==
  /\ command \in [Runs -> Commands]
  /\ at \in [Runs -> Places]
  /\ recorded \in [Runs -> Verdict \cup {None}]
  /\ exit \in [Runs -> Exits \cup {None}]

\* Type correctness of the runs and of the commands that make and read them.
CTypeOK == TypeOK /\ LocalTypeOK

\* Command p has exited, with a status of S that says what the command found.
Exited(p, S) == exit[p] # None /\ ~exit[p].broken /\ exit[p].status \in S

\* A scientific exit status has a record behind it: unless the pipe broke, a validate
\* that exits 0 to 4 leaves a bundle that verifies, is locked, and records the verdict
\* of that very status (cli.py 15-22, cmd_validate).
ExitIsOnRecord ==
  \A p \in Runs :
    Is(p, {"validate"}) /\ Exited(p, 0..4) =>
      /\ bundle[p] # None
      /\ Verified(dirs[bundle[p]])
      /\ dirs[bundle[p]].readonly
      /\ ExitCode[dirs[bundle[p]].file["verdict.json"].verdict] = exit[p].status

\* What a reader found stays true: when verify or reproduce ends with anything but an
\* operational failure, the bundle it names verifies and records the verdict that was
\* reported, although its writer was at work between the reads (cmd_reproduce, verify).
ReadingStands ==
  \A p \in Runs :
    Is(p, {"verify", "reproduce"}) /\ Exited(p, {0, 1, 3, 4}) =>
      /\ Verified(Named(p))
      /\ Named(p).file["verdict.json"].verdict = recorded[p]

\* "Reproduced" means done again: reproduce exits 0 only after another run of the same
\* manifest, in a bundle of its own, came to the recorded verdict, which that bundle
\* records too unless it is ERROR; and 1 only after a run that came to another one.
ReproducedMeansAgain ==
  \A p \in Runs :
    Is(p, {"reproduce"}) /\ Exited(p, {0, 1}) =>
      /\ bundle[p] \notin {None, command[p].of}
      /\ policy[p] = policy[Named(p).file["verdict.json"].by]
      /\ (exit[p].status = 0) <=> (ResultVerdict(p) = recorded[p])
      /\ exit[p].status = 0 /\ recorded[p] # "ERROR" =>
           /\ Verified(dirs[bundle[p]])
           /\ dirs[bundle[p]].file["verdict.json"].verdict = recorded[p]

\* Every command that keeps being scheduled exits: the suffix loop finds a free name
\* however many runs compete for it, and no error path hangs.
EveryCommandEnds == \A p \in Runs : <>(exit[p] # None)

-----------------------------------------------------------------------------
(* The inductive invariant behind the theorems about commands in RunnerProofs. *)

\* Which commands get where, and how far their runs are then.
Placed(p) ==
  /\ (exit[p] # None) <=> (at[p] = "over")
  /\ at[p] \notin {"run", "compare", "over"} => pc[p] = "idle"
  /\ at[p] = "compare" => pc[p] \in {"returned", "write_error"}
  /\ at[p] = "run" => Is(p, {"validate", "reproduce"})
  /\ at[p] \in {"seal", "files", "verdict"} => Is(p, {"verify", "reproduce"})
  /\ at[p] \in {"manifest", "compare"} => Is(p, {"reproduce"})
  /\ at[p] = "open" => Is(p, Readers)
  /\ at[p] \in {"report", "render"} => Is(p, {"report", "render"})

\* From the seal on a reader stands on a bundle that verifies, and it has read the
\* verdict recorded there.
Standing(p) ==
  Is(p, {"verify", "reproduce"}) =>
    /\ at[p] \in {"files", "verdict", "manifest", "run", "compare"} \/ Exited(p, {0, 1, 3, 4}) =>
         Verified(Named(p))
    /\ at[p] \in {"manifest", "run", "compare"} \/ Exited(p, {0, 1, 3, 4}) =>
         recorded[p] = Named(p).file["verdict.json"].verdict

\* A run made again is of the manifest recorded and in a bundle of its own.
Again(p) ==
  Is(p, {"reproduce"}) =>
    /\ at[p] \in {"run", "compare"} \/ Exited(p, {0, 1}) =>
         SameManifest(p) /\ bundle[p] # command[p].of
    /\ Exited(p, {0, 1}) =>
         /\ pc[p] \in {"returned", "write_error"}
         /\ (exit[p].status = 0) <=> SameVerdict(p)

\* A validate that answers 0 to 4 has returned what it decided.
Settled(p) ==
  Is(p, {"validate"}) /\ Exited(p, 0..4) =>
    pc[p] = "returned" /\ exit[p].status = ExitCode[verdict[p]]

CommandInv(p) == Placed(p) /\ Standing(p) /\ Again(p) /\ Settled(p)

=============================================================================
