------------------------------- MODULE Runner -------------------------------
(***************************************************************************)
(* Concurrent invocations of validate() (runner.py) over one results root. *)
(* Each invocation picks a run id, claims a bundle directory, loads both   *)
(* subjects, checks the experiment, runs the oracles, decides, and writes  *)
(* its evidence bundle file by file up to the seal.  Any step that writes  *)
(* may fail, leaving a partial file, and the process may die at any point. *)
(* The results root is shared and nothing locks it.                        *)
(***************************************************************************)
EXTENDS Verdicts, Sequences

CONSTANTS
  Runs,         \* invocations of validate()
  Bases,        \* run ids as make_run_id() or the caller gives them
  MaxAttempt,   \* bound on the -NN suffix
  Policies,     \* verdict policies of the manifests
  Failures,     \* kinds of exception loading a subject may raise
  StatusSets,   \* statuses the declared oracles may report together
  Absent, Torn, \* see EvidenceFiles
  None          \* no value yet

ASSUME AttemptAssumption  == MaxAttempt \in Nat \ {0}
ASSUME PolicyAssumption   == Policies \subseteq Policy
ASSUME FailureAssumption  == Failures \subseteq Failure
ASSUME StatusAssumption   == StatusSets \subseteq SUBSET Status

Attempts == 1..MaxAttempt
RunId    == Bases \X Attempts
Roles    == {"baseline", "candidate"}

\* The order in which validate() writes the data files of a bundle.
WriteOrder ==
  <<"manifest.original.yaml", "manifest.resolved.json", "verdict.json",
    "validity.json", "oracles.json", "divergence.jsonl", "provenance.json",
    "baseline.npz", "baseline.metadata.json",
    "candidate.npz", "candidate.metadata.json",
    "reproduce.sh", "report.html">>

BundleFile == {WriteOrder[i] : i \in 1..13}

SignalFiles(role) ==
  IF role = "baseline" THEN {"baseline.npz", "baseline.metadata.json"}
                       ELSE {"candidate.npz", "candidate.metadata.json"}

\* The files a run writes: the signals of a role only when that role was loaded.
Required(loadedRoles) ==
  BundleFile \ UNION {SignalFiles(r) : r \in Roles \ loadedRoles}

INSTANCE EvidenceFiles WITH Name <- BundleFile

\* File contents: who wrote the file and whether it is whole; verdict.json also says
\* the verdict and whether its "error" field is set.
Content ==
  [by : Runs, whole : BOOLEAN, verdict : Verdict \cup {None}, error : BOOLEAN]

Digests == {"sha256"} \X Content
Listing == [BundleFile -> Digests \cup {Absent}]
Seal    == [schema : Schemas, checksums : {"sha256"} \X Listing]

Dir == [root : BOOLEAN, signals : BOOLEAN, file : [BundleFile -> Content \cup {Absent}],
        sums : Listing \cup {Absent, Torn}, seal : Seal \cup {Absent, Torn},
        readonly : BOOLEAN]

\* Absent, Torn and None are none of the values they stand beside.
ASSUME ValueAssumption ==
  /\ Absent \notin Content \cup Digests \cup Listing \cup Seal
  /\ Torn \notin {Absent} \cup Listing \cup Seal
  /\ None \notin Runs \cup Verdict \cup RunId

VARIABLES
  dirs,      \* the results root: a bundle value per run id
  pc,        \* where each invocation is
  base,      \* its base id
  attempt,   \* its current suffix
  policy,    \* verdict_policy of its manifest
  bundle,    \* the EvidenceBundle handle create() returned, a run id, or None
  loaded,    \* roles loaded so far
  validity,  \* "unknown" while it is None in the code
  statuses,  \* statuses of its oracle outcomes
  failure,   \* the kind of exception the first try block caught
  verdict,   \* its verdict
  written    \* data files it has written in full

dirVars    == <<dirs>>
nameVars   == <<base, attempt, policy>>
resultVars == <<loaded, validity, statuses, failure, verdict>>
vars == <<dirs, pc, nameVars, bundle, resultVars, written>>

Id(p) == <<base[p], attempt[p]>>

Goto(p, label) == pc' = [pc EXCEPT ![p] = label]

Writing == {"write", "checksums", "seal", "lock"}
Ended   == {"returned", "write_error", "refused", "raised", "crashed"}
Labels  == {"idle", "probe", "create", "mkdir", "mkparent", "load", "check", "oracles"}
             \cup Writing \cup Ended

Init ==
  /\ dirs     = [i \in RunId |-> NoBundle]
  /\ pc       = [p \in Runs |-> "idle"]
  /\ base     \in [Runs -> Bases]
  /\ attempt  = [p \in Runs |-> 1]
  /\ policy   \in [Runs -> Policies]
  /\ bundle   = [p \in Runs |-> None]
  /\ loaded   = [p \in Runs |-> {}]
  /\ validity = [p \in Runs |-> "unknown"]
  /\ statuses = [p \in Runs |-> {}]
  /\ failure  = [p \in Runs |-> "none"]
  /\ verdict  = [p \in Runs |-> "ERROR"]
  /\ written  = [p \in Runs |-> {}]

-----------------------------------------------------------------------------
(* Claiming a directory: the suffix loop, then EvidenceBundle.create().      *)

\* The invocation starts with its base id; two of them in the same second, for
\* the same manifest, have the same one.
Start(p) ==
  /\ pc[p] = "idle"
  /\ Goto(p, "probe")
  /\ UNCHANGED <<dirs, nameVars, bundle, resultVars, written>>

\* A loop that forgets to rebuild run_id from the new suffix.
Suffix_Stale(n) == n

\* run_id = f"{base_id}-{attempt:02d}" for the next attempt.
Suffix(n) == n + 1

\* while (root / run_id).exists(): try the next suffix.
ProbeTaken(p) ==
  /\ pc[p] = "probe"
  /\ dirs[Id(p)].root
  /\ attempt[p] < MaxAttempt
  /\ attempt' = [attempt EXCEPT ![p] = Suffix(@)]
  /\ UNCHANGED <<dirs, pc, base, policy, bundle, resultVars, written>>

ProbeFree(p) ==
  /\ pc[p] = "probe"
  /\ ~dirs[Id(p)].root
  /\ Goto(p, "create")
  /\ UNCHANGED <<dirs, nameVars, bundle, resultVars, written>>

\* create() looks again and refuses a directory that has appeared meanwhile.  The
\* EvidenceError is raised outside both try blocks of validate().
CreateRefuses(p) ==
  /\ pc[p] = "create"
  /\ dirs[Id(p)].root
  /\ Goto(p, "refused")
  /\ UNCHANGED <<dirs, nameVars, bundle, resultVars, written>>

CreateProceeds(p) ==
  /\ pc[p] = "create"
  /\ ~dirs[Id(p)].root
  /\ Goto(p, "mkdir")
  /\ UNCHANGED <<dirs, nameVars, bundle, resultVars, written>>

\* A mkdir that tolerates an existing signals directory (exist_ok=True).
SignalsFree_ExistOk(i) == TRUE

\* (root / "signals").mkdir(parents=True): mkdir(2) on signals succeeds for one
\* caller only.
SignalsFree(i) == ~dirs[i].signals

\* mkdir(2) on signals with its parent there.
MakeSignals(p) ==
  /\ pc[p] = "mkdir"
  /\ dirs[Id(p)].root
  /\ SignalsFree(Id(p))
  /\ dirs'   = [dirs EXCEPT ![Id(p)].signals = TRUE]
  /\ bundle' = [bundle EXCEPT ![p] = Id(p)]
  /\ Goto(p, "load")
  /\ UNCHANGED <<nameVars, resultVars, written>>

\* FileExistsError: another invocation made signals first.
SignalsExist(p) ==
  /\ pc[p] = "mkdir"
  /\ ~SignalsFree(Id(p))
  /\ Goto(p, "refused")
  /\ UNCHANGED <<dirs, nameVars, bundle, resultVars, written>>

\* FileNotFoundError: pathlib makes the parents, tolerating ones that exist, and
\* tries again.
ParentMissing(p) ==
  /\ pc[p] = "mkdir"
  /\ ~dirs[Id(p)].root
  /\ Goto(p, "mkparent")
  /\ UNCHANGED <<dirs, nameVars, bundle, resultVars, written>>

MakeParent(p) ==
  /\ pc[p] = "mkparent"
  /\ dirs' = [dirs EXCEPT ![Id(p)].root = TRUE]
  /\ Goto(p, "mkdir")
  /\ UNCHANGED <<nameVars, bundle, resultVars, written>>

\* Any other OSError of the two mkdir calls.
MkdirFails(p) ==
  /\ pc[p] \in {"mkdir", "mkparent"}
  /\ Goto(p, "raised")
  /\ UNCHANGED <<dirs, nameVars, bundle, resultVars, written>>

-----------------------------------------------------------------------------
(* The first try block: load, check, run the oracles, decide.                *)

NextRole(p) == IF "baseline" \in loaded[p] THEN "candidate" ELSE "baseline"

\* _load_subject_multiseed succeeds for the next role.
Load(p) ==
  /\ pc[p] = "load"
  /\ loaded' = [loaded EXCEPT ![p] = @ \cup {NextRole(p)}]
  /\ Goto(p, IF NextRole(p) = "candidate" THEN "check" ELSE "load")
  /\ UNCHANGED <<dirs, nameVars, bundle, validity, statuses, failure, verdict, written>>

\* An except clause that lets a subject that cannot be loaded count as a failing one.
Caught_AsFail(kind) == IF kind = "source" THEN "FAIL" ELSE VerdictOfFailure[kind]

\* An except clause that stores the kind of the exception in place of a verdict.
Caught_Kind(kind) == kind

\* The except clauses: which verdict an exception of a kind becomes.
Caught(kind) == VerdictOfFailure[kind]

\* Loading either subject, or checking the experiment, raises.
FirstTryFails(p) ==
  /\ pc[p] \in {"load", "check"}
  /\ \E kind \in IF pc[p] = "load" THEN Failures ELSE {"other"} :
       /\ failure' = [failure EXCEPT ![p] = kind]
       /\ verdict' = [verdict EXCEPT ![p] = Caught(kind)]
  /\ Goto(p, "write")
  /\ UNCHANGED <<dirs, nameVars, bundle, loaded, validity, statuses, written>>

\* check_experiment finds every declared control held: the oracles run.
CheckValid(p) ==
  /\ pc[p] = "check"
  /\ validity' = [validity EXCEPT ![p] = "valid"]
  /\ Goto(p, "oracles")
  /\ UNCHANGED <<dirs, nameVars, bundle, loaded, statuses, failure, verdict, written>>

\* An invalidated experiment produces no oracle outcomes; decide() rolls up none.
CheckInvalid(p) ==
  /\ pc[p] = "check"
  /\ validity' = [validity EXCEPT ![p] = "invalid"]
  /\ verdict'  = [verdict EXCEPT ![p] = Decide(policy[p], FALSE, {})]
  /\ Goto(p, "write")
  /\ UNCHANGED <<dirs, nameVars, bundle, loaded, statuses, failure, written>>

\* _run_oracles turns an unknown type into "unsupported" and a raising oracle into
\* "inconclusive", so it always returns; decide() follows.
RunOracles(p) ==
  /\ pc[p] = "oracles"
  /\ \E reported \in StatusSets :
       /\ statuses' = [statuses EXCEPT ![p] = reported]
       /\ verdict'  = [verdict EXCEPT ![p] = Decide(policy[p], TRUE, reported)]
  /\ Goto(p, "write")
  /\ UNCHANGED <<dirs, nameVars, bundle, loaded, validity, failure, written>>

-----------------------------------------------------------------------------
(* The second try block: write the bundle, finalize it, return.              *)

\* What a finished write puts into file n.
ContentOf(p, n) ==
  IF n = "verdict.json"
  THEN [by |-> p, whole |-> TRUE, verdict |-> verdict[p], error |-> failure[p] # "none"]
  ELSE [by |-> p, whole |-> TRUE, verdict |-> None, error |-> FALSE]

PartOf(p) == [by |-> p, whole |-> FALSE, verdict |-> None, error |-> FALSE]

Pending(p) == Required(loaded[p]) \ written[p]

\* The file the code writes now: the first one in WriteOrder still pending.
IsNext(p, n) ==
  \E i \in 1..13 :
    /\ WriteOrder[i] = n
    /\ n \in Pending(p)
    /\ \A j \in 1..(i - 1) : WriteOrder[j] \notin Pending(p)

WriteFile(p) ==
  /\ pc[p] = "write"
  /\ \E n \in BundleFile :
       /\ IsNext(p, n)
       /\ dirs'    = [dirs EXCEPT ![bundle[p]].file[n] = ContentOf(p, n)]
       /\ written' = [written EXCEPT ![p] = @ \cup {n}]
  /\ UNCHANGED <<pc, nameVars, bundle, resultVars>>

\* A script that finalizes without looking at what is still to be written.
AllWritten_Early(p) == "verdict.json" \in written[p]

AllWritten(p) == Pending(p) = {}

\* finalize() refuses a bundle that already has a seal.
FinalizeStarts(p) ==
  /\ pc[p] = "write"
  /\ AllWritten(p)
  /\ dirs[bundle[p]].seal = Absent
  /\ Goto(p, "checksums")
  /\ UNCHANGED <<dirs, nameVars, bundle, resultVars, written>>

\* finalize(): digest every file present and write the listing.
WriteChecksums(p) ==
  /\ pc[p] = "checksums"
  /\ dirs' = [dirs EXCEPT ![bundle[p]].sums = Checksums(dirs[bundle[p]])]
  /\ Goto(p, "seal")
  /\ UNCHANGED <<nameVars, bundle, resultVars, written>>

\* finalize(): the digest of the listing, read back, goes into SEAL.json.
WriteSeal(p) ==
  /\ pc[p] = "seal"
  /\ dirs' = [dirs EXCEPT ![bundle[p]].seal = SealOf(dirs[bundle[p]])]
  /\ Goto(p, "lock")
  /\ UNCHANGED <<nameVars, bundle, resultVars, written>>

\* _make_read_only, then validate() returns what it decided.
MakeReadOnly(p) ==
  /\ pc[p] = "lock"
  /\ dirs' = [dirs EXCEPT ![bundle[p]].readonly = TRUE]
  /\ Goto(p, "returned")
  /\ UNCHANGED <<nameVars, bundle, resultVars, written>>

\* What an interrupted step may leave of the file it was writing: nothing new, or
\* a part of it.  An interrupted chmod loop leaves some files writable.
CutShort(p) ==
  \/ UNCHANGED dirs
  \/ /\ pc[p] = "write"
     /\ \E n \in BundleFile :
          /\ IsNext(p, n)
          /\ dirs' = [dirs EXCEPT ![bundle[p]].file[n] = PartOf(p)]
  \/ /\ pc[p] = "checksums"
     /\ dirs' = [dirs EXCEPT ![bundle[p]].sums = Torn]
  \/ /\ pc[p] = "seal"
     /\ dirs' = [dirs EXCEPT ![bundle[p]].seal = Torn]

\* The second except clause: an ERROR result with IVF-EVIDENCE-WRITE-ERROR.  It also
\* catches a refusal by finalize() and any exception between two writes.
WriteFails(p) ==
  /\ pc[p] \in Writing
  /\ CutShort(p)
  /\ Goto(p, "write_error")
  /\ UNCHANGED <<nameVars, bundle, resultVars, written>>

\* KeyboardInterrupt, SystemExit or a killed process: no except clause runs.
Die(p) ==
  /\ pc[p] \notin Ended \cup {"idle"}
  /\ CutShort(p)
  /\ Goto(p, "crashed")
  /\ UNCHANGED <<nameVars, bundle, resultVars, written>>

-----------------------------------------------------------------------------
Claim(p) ==
  \/ Start(p) \/ ProbeTaken(p) \/ ProbeFree(p) \/ CreateRefuses(p) \/ CreateProceeds(p)
  \/ MakeSignals(p) \/ SignalsExist(p) \/ ParentMissing(p) \/ MakeParent(p) \/ MkdirFails(p)

Judge(p) ==
  Load(p) \/ FirstTryFails(p) \/ CheckValid(p) \/ CheckInvalid(p) \/ RunOracles(p)

Record(p) ==
  \/ WriteFile(p) \/ FinalizeStarts(p) \/ WriteChecksums(p) \/ WriteSeal(p)
  \/ MakeReadOnly(p) \/ WriteFails(p)

Step(p) == Claim(p) \/ Judge(p) \/ Record(p)

Done == \A p \in Runs : pc[p] \in Ended

Next ==
  \/ \E p \in Runs : Step(p) \/ Die(p)
  \/ Done /\ UNCHANGED vars

Spec == Init /\ [][Next]_vars

\* The operating system keeps scheduling every invocation that has not ended; it
\* is under no obligation to interrupt one, or to make its writes fail.
FairSpec == Spec /\ \A p \in Runs : WF_vars(Step(p))

-----------------------------------------------------------------------------
(* Properties                                                                *)

\* One type invariant: the shape of the results root and of every local variable.
TypeOK ==
  /\ dirs \in [RunId -> Dir]
  /\ pc \in [Runs -> Labels]
  /\ base \in [Runs -> Bases]
  /\ attempt \in [Runs -> Attempts]
  /\ policy \in [Runs -> Policies]
  /\ bundle \in [Runs -> RunId \cup {None}]
  /\ loaded \in [Runs -> SUBSET Roles]
  /\ validity \in [Runs -> {"unknown", "valid", "invalid"}]
  /\ statuses \in [Runs -> SUBSET Status]
  /\ failure \in [Runs -> Failure \cup {"none"}]
  /\ verdict \in [Runs -> Verdict]
  /\ written \in [Runs -> SUBSET BundleFile]

\* No two invocations ever hold the same bundle directory, and whatever a directory
\* holds was written by the invocation that holds it: the -NN suffix loop and
\* create() never let one run write into another's evidence (runner.py 314-320).
ExclusiveOwner ==
  /\ \A p, q \in Runs : p # q /\ bundle[p] # None => bundle[p] # bundle[q]
  /\ \A i \in RunId, n \in BundleFile :
       dirs[i].file[n] # Absent => bundle[dirs[i].file[n].by] = i

\* A bundle that verify() accepts is the whole record of one run: every file that run
\* writes is there and whole, nothing else is, and verdict.json says what the run
\* decided, whatever failed or was killed on the way (evidence.py 130-151, 174-222).
VerifiedIsWholeRecord ==
  \A i \in RunId : Verified(dirs[i]) =>
    \E p \in Runs :
      /\ bundle[p] = i
      /\ \A n \in BundleFile :
           dirs[i].file[n] = IF n \in Required(loaded[p]) THEN ContentOf(p, n) ELSE Absent

\* validate() hands back a verdict of its own only with a bundle behind it that
\* verifies, records that very verdict and can no longer be written (runner.py 417-420).
ReturnedIsRecorded ==
  \A p \in Runs : pc[p] = "returned" =>
    /\ Verified(dirs[bundle[p]])
    /\ dirs[bundle[p]].file["verdict.json"].verdict = verdict[p]
    /\ dirs[bundle[p]].readonly

\* Infrastructure failure is never a scientific result: a verified record that says
\* PASS, FAIL or INCONCLUSIVE is of a run that loaded both subjects, whose checks
\* completed and in which nothing was caught (verdicts.py 10-16).
InfrastructureIsNeverScience ==
  \A i \in RunId :
    Verified(dirs[i])
      /\ dirs[i].file["verdict.json"].verdict \in {"PASS", "FAIL", "INCONCLUSIVE"} =>
      \E p \in Runs :
        bundle[p] = i /\ loaded[p] = Roles /\ failure[p] = "none" /\ validity[p] # "unknown"

\* Once a bundle verifies it goes on verifying with the same files: no invocation,
\* its own included, changes it (evidence.py 12-14).
SealedIsFinal ==
  [][\A i \in RunId :
       Verified(dirs[i]) => Verified(dirs'[i]) /\ dirs'[i].file = dirs[i].file]_vars

\* Every invocation that keeps being scheduled comes to an end: the suffix loop finds
\* a free name however many runs compete for it, and no error path hangs.
EveryRunEnds == \A p \in Runs : <>(pc[p] \in Ended)

-----------------------------------------------------------------------------
(* What the repository says of validate() and the code does not keep.        *)

\* "PASS: every declared control held" (verdicts.py 30-31).
PassMeansControlsHeld ==
  \A p \in Runs : pc[p] = "returned" /\ verdict[p] = "PASS" => validity[p] = "valid"

\* "IVF-EVIDENCE-WRITE-ERROR: The evidence bundle could not be written" (verdicts.py
\* 171): a run that reports it has left no bundle that verifies.
WriteErrorMeansNoBundle ==
  \A p \in Runs : pc[p] = "write_error" => ~Verified(dirs[bundle[p]])

-----------------------------------------------------------------------------
(* The inductive invariant behind the theorems of RunnerProofs.              *)

\* Bundle d holds exactly the finished files S of run p.
Holds(d, p, S) ==
  \A n \in BundleFile : d.file[n] = IF n \in S THEN ContentOf(p, n) ELSE Absent

Unsealed(d) == d.seal \in {Absent, Torn}

\* Bundle d is the finished, sealed record of run p.
SealedBy(d, p) ==
  /\ Holds(d, p, Required(loaded[p]))
  /\ d.sums = Checksums(d)
  /\ d.seal = SealOf(d)

\* What the directory d of run p looks like at each label.
Progress(p, d) ==
  /\ \A n \in BundleFile : d.file[n] # Absent => d.file[n].by = p
  /\ pc[p] \in {"load", "check", "oracles"} =>
       written[p] = {} /\ Holds(d, p, {}) /\ d.seal = Absent
  /\ pc[p] = "write" => Holds(d, p, written[p]) /\ d.seal = Absent
                          /\ written[p] \subseteq Required(loaded[p])
  /\ pc[p] \in {"checksums", "seal"} =>
       Holds(d, p, Required(loaded[p])) /\ d.seal = Absent
  /\ pc[p] = "seal" => d.sums = Checksums(d)
  /\ pc[p] \in {"lock", "returned"} => SealedBy(d, p)
  /\ pc[p] = "returned" => d.readonly
  /\ pc[p] \in {"write_error", "crashed"} => Unsealed(d) \/ SealedBy(d, p)

\* A run holds a directory exactly from the mkdir of signals on, and that directory
\* is as far along as the run is.
RunInv(p) ==
  /\ pc[p] \in {"idle", "probe", "create", "mkdir", "mkparent", "refused", "raised"} =>
       bundle[p] = None /\ written[p] = {}
  /\ pc[p] \in {"load", "check", "oracles", "returned", "write_error"} \cup Writing =>
       bundle[p] # None
  /\ bundle[p] # None => dirs[bundle[p]].signals /\ Progress(p, dirs[bundle[p]])

\* A directory nobody holds is empty.
Unclaimed(i) ==
  (\A p \in Runs : bundle[p] # i) =>
    dirs[i].seal = Absent /\ \A n \in BundleFile : dirs[i].file[n] = Absent

\* How far run p has come in judging its subjects, and what a scientific verdict of
\* its rests on.
Judged(p) ==
  /\ pc[p] \in {"idle", "probe", "create", "mkdir", "mkparent", "load", "check", "oracles"} =>
       failure[p] = "none" /\ verdict[p] = "ERROR"
  /\ pc[p] \in {"check", "oracles"} => loaded[p] = Roles
  /\ pc[p] = "oracles" => validity[p] = "valid"
  /\ verdict[p] \in {"PASS", "FAIL", "INCONCLUSIVE"} =>
       loaded[p] = Roles /\ failure[p] = "none" /\ validity[p] # "unknown"

IInv ==
  /\ TypeOK
  /\ \A p, q \in Runs : p # q /\ bundle[p] # None => bundle[p] # bundle[q]
  /\ \A p \in Runs : RunInv(p) /\ Judged(p)
  /\ \A i \in RunId : Unclaimed(i)

-----------------------------------------------------------------------------
(* The abstract ledger this module implements (RunLedger).                   *)

Holder ==
  [i \in RunId |-> IF \E p \in Runs : bundle[p] = i
                   THEN CHOOSE p \in Runs : bundle[p] = i ELSE None]

OnRecord ==
  [i \in RunId |-> IF Verified(dirs[i]) THEN dirs[i].file["verdict.json"].verdict ELSE None]

Answered ==
  [p \in Runs |-> IF pc[p] = "returned" THEN verdict[p]
                  ELSE IF pc[p] = "write_error" THEN "ERROR" ELSE None]

Ledger == INSTANCE RunLedger WITH holder <- Holder, record <- OnRecord, answer <- Answered

\* Every behaviour of the runner is a behaviour of an append-only ledger with one
\* holder per run id, in which a run answers only what it recorded, or ERROR.
ImplementsLedger == Ledger!Spec
=============================================================================
