---------------------------- MODULE RunnerProofs ----------------------------
(***************************************************************************)
(* Proofs about Runner and the CommandLine over it, for any number of      *)
(* invocations, base ids, suffixes and policies.                           *)
(*                                                                         *)
(* First the runs: type correctness, the inductive invariant IInv, and     *)
(* from it the safety properties TLC checks on small instances.  Then the  *)
(* commands: they add nothing to what the runs do to the results root, so  *)
(* that every theorem about the runs holds of them, and an exit status     *)
(* says what is on record.                                                 *)
(***************************************************************************)
EXTENDS CommandLine, TLAPS

\* verdict.json is one of the data files, and every run writes it.
LEMMA VerdictFile ==
  /\ "verdict.json" \in BundleFile
  /\ \A l \in SUBSET Roles : "verdict.json" \in Required(l)
<1>1. WriteOrder[3] = "verdict.json" /\ 3 \in 1..13
  BY DEF WriteOrder
<1>2. "verdict.json" \in BundleFile
  BY <1>1 DEF BundleFile
<1>3. \A r \in Roles : "verdict.json" \notin SignalFiles(r)
  BY DEF SignalFiles, Roles
<1>4. QED
  BY <1>2, <1>3 DEF Required

\* What a run writes into a file is a content.
LEMMA ContentType ==
  ASSUME TypeOK, NEW p \in Runs, NEW n \in BundleFile
  PROVE  ContentOf(p, n) \in Content /\ PartOf(p) \in Content
BY DEF TypeOK, ContentOf, PartOf, Content

\* The listing and the seal of a directory are a Listing and a Seal.
LEMMA SealType ==
  ASSUME NEW d \in Dir
  PROVE  /\ Checksums(d) \in Listing
         /\ d.sums \in Listing => SealOf(d) \in Seal
<1>1. \A n \in BundleFile : d.file[n] # Absent => d.file[n] \in Content
  BY DEF Dir
<1>2. \A n \in BundleFile :
        (IF d.file[n] = Absent THEN Absent ELSE Digest(d.file[n])) \in Digests \cup {Absent}
  BY <1>1 DEF Digests, Digest
<1>3. Checksums(d) \in Listing
  BY <1>2 DEF Checksums, Listing
<1>4. ASSUME d.sums \in Listing PROVE SealOf(d) \in Seal
  BY <1>4 DEF SealOf, Seal, Schemas, Supported, Digest
<1>5. QED
  BY <1>3, <1>4

-----------------------------------------------------------------------------
(* Type correctness.                                                         *)

\* decide() and the except clauses yield verdicts.
LEMMA VerdictType ==
  /\ \A pol \in Policy, v \in BOOLEAN, S \in SUBSET Status : Decide(pol, v, S) \in Verdict
  /\ \A k \in Failure : Caught(k) \in Verdict
BY DEF Decide, Verdict, Caught, VerdictOfFailure, Failure, Policy

\* Changing one part of a directory leaves a directory.
LEMMA DirUpdates ==
  ASSUME NEW d \in Dir
  PROVE  /\ \A n \in BundleFile, c \in Content : [d EXCEPT !.file[n] = c] \in Dir
         /\ \A s \in Listing \cup {Torn} : [d EXCEPT !.sums = s] \in Dir
         /\ \A s \in Seal \cup {Torn} : [d EXCEPT !.seal = s] \in Dir
         /\ \A v \in BOOLEAN : /\ [d EXCEPT !.root = v] \in Dir
                               /\ [d EXCEPT !.signals = v] \in Dir
                               /\ [d EXCEPT !.readonly = v] \in Dir
<1>1. ASSUME NEW n \in BundleFile, NEW c \in Content
      PROVE  [d EXCEPT !.file[n] = c] \in Dir
  <2>1. [d.file EXCEPT ![n] = c] \in [BundleFile -> Content \cup {Absent}]
    BY DEF Dir
  <2>2. QED
    BY <2>1 DEF Dir
<1>2. QED
  BY <1>1 DEF Dir

\* A partial write keeps the results root well formed.
LEMMA CutShortType ==
  ASSUME TypeOK, NEW p \in Runs, bundle[p] \in RunId, CutShort(p)
  PROVE  dirs' \in [RunId -> Dir]
<1> DEFINE d == dirs[bundle[p]]
<1>d. d \in Dir /\ dirs \in [RunId -> Dir]
  BY DEF TypeOK
<1>1. CASE UNCHANGED dirs
  BY <1>1, <1>d
<1>2. ASSUME NEW n \in BundleFile,
             dirs' = [dirs EXCEPT ![bundle[p]].file[n] = PartOf(p)]
      PROVE  dirs' \in [RunId -> Dir]
  <2>1. [d EXCEPT !.file[n] = PartOf(p)] \in Dir
    BY <1>d, ContentType, DirUpdates
  <2>2. QED
    BY <2>1, <1>2, <1>d
<1>3. CASE dirs' = [dirs EXCEPT ![bundle[p]].sums = Torn]
  <2>1. [d EXCEPT !.sums = Torn] \in Dir
    BY <1>d, DirUpdates
  <2>2. QED
    BY <2>1, <1>3, <1>d
<1>4. CASE dirs' = [dirs EXCEPT ![bundle[p]].seal = Torn]
  <2>1. [d EXCEPT !.seal = Torn] \in Dir
    BY <1>d, DirUpdates
  <2>2. QED
    BY <2>1, <1>4, <1>d
<1>5. QED
  BY <1>1, <1>2, <1>3, <1>4 DEF CutShort

\* A run that writes has a directory to write to.
LEMMA Handle ==
  ASSUME TypeOK, NEW p \in Runs, RunInv(p), pc[p] \in Writing
  PROVE  bundle[p] \in RunId /\ dirs[bundle[p]] \in Dir
BY DEF TypeOK, RunInv

LEMMA TypeStep ==
  ASSUME TypeOK, \A p \in Runs : RunInv(p), Next
  PROVE  TypeOK'
<1> USE DEF Goto
<1>1. ASSUME NEW p \in Runs, Claim(p) PROVE TypeOK'
  <2>d. Id(p) \in RunId /\ dirs[Id(p)] \in Dir /\ dirs \in [RunId -> Dir]
    BY DEF TypeOK, Id, RunId
  <2>1. CASE ProbeTaken(p)
    <3>1. attempt[p] + 1 \in Attempts
      BY <2>1, AttemptAssumption DEF ProbeTaken, TypeOK, Attempts
    <3>s. Suffix(attempt[p]) = attempt[p] + 1
      BY DEF Suffix
    <3>2. QED
      BY <2>1, <3>1, <3>s DEF ProbeTaken, TypeOK, resultVars
  <2>2. CASE MakeSignals(p)
    <3>1. [dirs[Id(p)] EXCEPT !.signals = TRUE] \in Dir
      BY <2>d, DirUpdates
    <3>2. dirs' \in [RunId -> Dir]
      BY <2>2, <2>d, <3>1 DEF MakeSignals
    <3>3. QED
      BY <2>2, <2>d, <3>2 DEF MakeSignals, TypeOK, Labels, nameVars, resultVars
  <2>3. CASE MakeParent(p)
    <3>1. [dirs[Id(p)] EXCEPT !.root = TRUE] \in Dir
      BY <2>d, DirUpdates
    <3>2. dirs' \in [RunId -> Dir]
      BY <2>3, <2>d, <3>1 DEF MakeParent
    <3>3. QED
      BY <2>3, <3>2 DEF MakeParent, TypeOK, Labels, nameVars, resultVars
  <2>4. CASE Start(p) \/ ProbeFree(p) \/ CreateRefuses(p) \/ CreateProceeds(p)
               \/ SignalsExist(p) \/ ParentMissing(p) \/ MkdirFails(p)
    BY <2>4 DEF Start, ProbeFree, CreateRefuses, CreateProceeds, SignalsExist,
                ParentMissing, MkdirFails, TypeOK, Labels, Ended, nameVars, resultVars
  <2>5. QED
    BY <1>1, <2>1, <2>2, <2>3, <2>4 DEF Claim
<1>2. ASSUME NEW p \in Runs, Judge(p) PROVE TypeOK'
  <2>1. CASE Load(p)
    <3>1. NextRole(p) \in Roles
      BY DEF NextRole, Roles
    <3>2. QED
      BY <2>1, <3>1 DEF Load, TypeOK, Labels, nameVars, resultVars
  <2>2. CASE FirstTryFails(p)
    <3>1. PICK kind \in Failure : /\ failure' = [failure EXCEPT ![p] = kind]
                                  /\ verdict' = [verdict EXCEPT ![p] = Caught(kind)]
      BY <2>2, FailureAssumption DEF FirstTryFails, Failure
    <3>2. Caught(kind) \in Verdict
      BY VerdictType
    <3>3. QED
      BY <2>2, <3>1, <3>2 DEF FirstTryFails, TypeOK, Labels, Writing, nameVars, resultVars
  <2>3. CASE CheckValid(p)
    BY <2>3 DEF CheckValid, TypeOK, Labels, nameVars, resultVars
  <2>4. CASE CheckInvalid(p)
    <3>1. Decide(policy[p], FALSE, {}) \in Verdict
      BY VerdictType, PolicyAssumption DEF TypeOK
    <3>2. QED
      BY <2>4, <3>1 DEF CheckInvalid, TypeOK, Labels, Writing, nameVars, resultVars
  <2>5. CASE RunOracles(p)
    <3>1. PICK S \in StatusSets :
            /\ statuses' = [statuses EXCEPT ![p] = S]
            /\ verdict'  = [verdict EXCEPT ![p] = Decide(policy[p], TRUE, S)]
      BY <2>5 DEF RunOracles
    <3>2. S \in SUBSET Status /\ Decide(policy[p], TRUE, S) \in Verdict
      BY VerdictType, StatusAssumption, PolicyAssumption DEF TypeOK
    <3>3. QED
      BY <2>5, <3>1, <3>2 DEF RunOracles, TypeOK, Labels, Writing, nameVars, resultVars
  <2>6. QED
    BY <1>2, <2>1, <2>2, <2>3, <2>4, <2>5 DEF Judge
<1>3. ASSUME NEW p \in Runs, Record(p) PROVE TypeOK'
  <2>p. pc[p] \in Writing
    BY <1>3 DEF Record, WriteFile, FinalizeStarts, WriteChecksums, WriteSeal,
                MakeReadOnly, WriteFails, Writing
  <2>d. bundle[p] \in RunId /\ dirs[bundle[p]] \in Dir /\ dirs \in [RunId -> Dir]
    BY <2>p, Handle DEF TypeOK
  <2>1. CASE WriteFile(p)
    <3>1. PICK n \in BundleFile :
            /\ dirs'    = [dirs EXCEPT ![bundle[p]].file[n] = ContentOf(p, n)]
            /\ written' = [written EXCEPT ![p] = @ \cup {n}]
      BY <2>1 DEF WriteFile
    <3>2. [dirs[bundle[p]] EXCEPT !.file[n] = ContentOf(p, n)] \in Dir
      BY <2>d, ContentType, DirUpdates
    <3>3. dirs' \in [RunId -> Dir]
      BY <2>d, <3>1, <3>2
    <3>4. QED
      BY <2>1, <3>1, <3>3 DEF WriteFile, TypeOK, nameVars, resultVars
  <2>2. CASE FinalizeStarts(p)
    BY <2>2 DEF FinalizeStarts, TypeOK, Labels, Writing, nameVars, resultVars
  <2>3. CASE WriteChecksums(p)
    <3>1. [dirs[bundle[p]] EXCEPT !.sums = Checksums(dirs[bundle[p]])] \in Dir
      BY <2>d, SealType, DirUpdates
    <3>2. dirs' \in [RunId -> Dir]
      BY <2>3, <2>d, <3>1 DEF WriteChecksums
    <3>3. QED
      BY <2>3, <3>2 DEF WriteChecksums, TypeOK, Labels, Writing, nameVars, resultVars
  <2>4. CASE WriteSeal(p)
    <3>1. dirs[bundle[p]].sums \in Listing
      <4>1. pc[p] = "seal" /\ RunInv(p) /\ bundle[p] # None
        BY <2>4, <2>d, ValueAssumption DEF WriteSeal
      <4>2. dirs[bundle[p]].sums = Checksums(dirs[bundle[p]])
        BY <4>1 DEF RunInv, Progress
      <4>3. QED
        BY <4>2, <2>d, SealType
    <3>2. [dirs[bundle[p]] EXCEPT !.seal = SealOf(dirs[bundle[p]])] \in Dir
      BY <2>d, <3>1, SealType, DirUpdates
    <3>3. dirs' \in [RunId -> Dir]
      BY <2>4, <2>d, <3>2 DEF WriteSeal
    <3>4. QED
      BY <2>4, <3>3 DEF WriteSeal, TypeOK, Labels, Writing, nameVars, resultVars
  <2>5. CASE MakeReadOnly(p)
    <3>1. [dirs[bundle[p]] EXCEPT !.readonly = TRUE] \in Dir
      BY <2>d, DirUpdates
    <3>2. dirs' \in [RunId -> Dir]
      BY <2>5, <2>d, <3>1 DEF MakeReadOnly
    <3>3. QED
      BY <2>5, <3>2 DEF MakeReadOnly, TypeOK, Labels, Ended, nameVars, resultVars
  <2>6. CASE WriteFails(p)
    <3>1. dirs' \in [RunId -> Dir]
      BY <2>6, <2>d, CutShortType DEF WriteFails
    <3>2. QED
      BY <2>6, <3>1 DEF WriteFails, TypeOK, Labels, Ended, nameVars, resultVars
  <2>7. QED
    BY <1>3, <2>1, <2>2, <2>3, <2>4, <2>5, <2>6 DEF Record
<1>4. ASSUME NEW p \in Runs, Die(p) PROVE TypeOK'
  <2>1. dirs' \in [RunId -> Dir]
    <3>1. CASE pc[p] \in Writing
      BY <1>4, <3>1, Handle, CutShortType DEF Die
    <3>2. CASE pc[p] \notin Writing
      BY <1>4, <3>2 DEF Die, CutShort, Writing, TypeOK
    <3>3. QED
      BY <3>1, <3>2
  <2>2. QED
    BY <1>4, <2>1 DEF Die, TypeOK, Labels, Ended, nameVars, resultVars
<1>5. CASE UNCHANGED vars
  BY <1>5 DEF vars, TypeOK, nameVars, resultVars
<1>6. QED
  BY <1>1, <1>2, <1>3, <1>4, <1>5 DEF Next, Step

-----------------------------------------------------------------------------
(* What a step of one invocation leaves alone.                               *)

\* The local variables of every other invocation.
LEMMA LocalFrame ==
  ASSUME TypeOK, NEW p \in Runs, NEW q \in Runs \ {p}, Step(p) \/ Die(p)
  PROVE  /\ pc'[q] = pc[q] /\ bundle'[q] = bundle[q] /\ written'[q] = written[q]
         /\ loaded'[q] = loaded[q] /\ failure'[q] = failure[q] /\ verdict'[q] = verdict[q]
         /\ validity'[q] = validity[q]
<1> USE DEF TypeOK, Goto, nameVars, resultVars
<1>1. CASE Claim(p)
  BY <1>1 DEF Claim, Start, ProbeTaken, ProbeFree, CreateRefuses, CreateProceeds,
              MakeSignals, SignalsExist, ParentMissing, MakeParent, MkdirFails
<1>2. CASE Judge(p)
  BY ZenonT(30), <1>2 DEF Judge, Load, FirstTryFails, CheckValid, CheckInvalid, RunOracles
<1>3. CASE Record(p)
  BY <1>3 DEF Record, WriteFile, FinalizeStarts, WriteChecksums, WriteSeal,
              MakeReadOnly, WriteFails
<1>4. CASE Die(p)
  BY <1>4 DEF Die
<1>5. QED
  BY <1>1, <1>2, <1>3, <1>4 DEF Step

\* The handle it has, except that MakeSignals gives it one.
LEMMA HandleFrame ==
  ASSUME TypeOK, NEW p \in Runs, Step(p) \/ Die(p)
  PROVE  bundle'[p] = bundle[p] \/ MakeSignals(p)
<1> USE DEF TypeOK, nameVars, resultVars
<1>1. CASE Claim(p)
  BY <1>1 DEF Claim, Start, ProbeTaken, ProbeFree, CreateRefuses, CreateProceeds,
              SignalsExist, ParentMissing, MakeParent, MkdirFails
<1>2. CASE Judge(p)
  BY <1>2 DEF Judge, Load, FirstTryFails, CheckValid, CheckInvalid, RunOracles
<1>3. CASE Record(p)
  BY <1>3 DEF Record, WriteFile, FinalizeStarts, WriteChecksums, WriteSeal,
              MakeReadOnly, WriteFails
<1>4. CASE Die(p)
  BY <1>4 DEF Die
<1>5. QED
  BY <1>1, <1>2, <1>3, <1>4 DEF Step

\* What is recorded of directory i does not change.
SameRecord(i) ==
  /\ dirs'[i].file = dirs[i].file /\ dirs'[i].sums = dirs[i].sums
  /\ dirs'[i].seal = dirs[i].seal /\ dirs'[i].readonly = dirs[i].readonly
  /\ dirs[i].signals => dirs'[i].signals

\* The content of every directory it does not hold.
LEMMA DirFrame ==
  ASSUME TypeOK, NEW p \in Runs, Step(p) \/ Die(p), NEW i \in RunId, i # bundle[p]
  PROVE  SameRecord(i)
<1> USE DEF SameRecord
<1>d. dirs \in [RunId -> Dir] /\ Id(p) \in RunId
  BY DEF TypeOK, Id, RunId
<1>0. CASE dirs' = dirs
  BY <1>0
<1>1. CASE MakeSignals(p)
  BY <1>1, <1>d DEF MakeSignals, Dir
<1>2. CASE MakeParent(p)
  BY <1>2, <1>d DEF MakeParent, Dir
<1>3. CASE WriteFile(p)
  BY <1>3, <1>d DEF WriteFile
<1>4. CASE WriteChecksums(p)
  BY <1>4, <1>d DEF WriteChecksums
<1>5. CASE WriteSeal(p)
  BY <1>5, <1>d DEF WriteSeal
<1>6. CASE MakeReadOnly(p)
  BY <1>6, <1>d DEF MakeReadOnly
<1>7. CASE CutShort(p)
  BY <1>7, <1>d DEF CutShort
<1>8. \/ dirs' = dirs \/ MakeSignals(p) \/ MakeParent(p) \/ WriteFile(p)
      \/ WriteChecksums(p) \/ WriteSeal(p) \/ MakeReadOnly(p) \/ CutShort(p)
  BY DEF Step, Claim, Judge, Record, Die, Start, ProbeTaken, ProbeFree, CreateRefuses,
         CreateProceeds, SignalsExist, ParentMissing, MkdirFails, Load, FirstTryFails,
         CheckValid, CheckInvalid, RunOracles, FinalizeStarts, WriteFails
<1>9. QED
  BY <1>0, <1>1, <1>2, <1>3, <1>4, <1>5, <1>6, <1>7, <1>8

\* So the invariant of an invocation outlives the steps of the others.
LEMMA RunFrame ==
  ASSUME NEW q \in Runs, RunInv(q),
         pc'[q] = pc[q], bundle'[q] = bundle[q], written'[q] = written[q],
         loaded'[q] = loaded[q], failure'[q] = failure[q], verdict'[q] = verdict[q],
         bundle[q] # None => SameRecord(bundle[q])
  PROVE  RunInv(q)'
<1>1. CASE bundle[q] = None
  BY <1>1 DEF RunInv
<1>2. CASE bundle[q] # None
  <2> DEFINE d == dirs[bundle[q]]
  <2>1. /\ dirs'[bundle'[q]].file = d.file /\ dirs'[bundle'[q]].sums = d.sums
        /\ dirs'[bundle'[q]].seal = d.seal /\ dirs'[bundle'[q]].readonly = d.readonly
        /\ dirs'[bundle'[q]].signals
    BY <1>2 DEF SameRecord, RunInv
  <2>2. Progress(q, d)
    BY <1>2 DEF RunInv
  <2>3. \A n \in BundleFile : ContentOf(q, n)' = ContentOf(q, n)
    BY DEF ContentOf
  <2>4. Progress(q, dirs[bundle[q]])'
    <3>1. \A S : Holds(d, q, S) => Holds(dirs[bundle[q]], q, S)'
      BY <2>1, <2>3 DEF Holds
    <3>2. Checksums(dirs[bundle[q]])' = Checksums(d) /\ SealOf(dirs[bundle[q]])' = SealOf(d)
      BY <2>1 DEF Checksums, SealOf
    <3>3. SealedBy(d, q) => SealedBy(dirs[bundle[q]], q)'
      BY <2>1, <3>1, <3>2 DEF SealedBy
    <3>4. Unsealed(d) => Unsealed(dirs[bundle[q]])'
      BY <2>1 DEF Unsealed
    <3>5. QED
      BY <2>1, <2>2, <3>1, <3>2, <3>3, <3>4 DEF Progress
  <2>5. QED
    BY <1>2, <2>1, <2>4 DEF RunInv
<1>3. QED
  BY <1>1, <1>2

-----------------------------------------------------------------------------
(* What a step of an invocation does to its own directory.                   *)

\* Interrupting a write never leaves a sealed bundle, and spoils no finished one.
LEMMA CutShortKeeps ==
  ASSUME TypeOK, NEW p \in Runs, RunInv(p), bundle[p] \in RunId, CutShort(p),
         UNCHANGED <<bundle, resultVars, written>>,
         pc'[p] \in {"write_error", "crashed"}
  PROVE  RunInv(p)'
<1> DEFINE i == bundle[p]
           d == dirs[i]
<1>d. d \in Dir /\ dirs \in [RunId -> Dir] /\ i # None
  BY ValueAssumption DEF TypeOK
<1>p. d.signals /\ Progress(p, d)
  BY <1>d DEF RunInv
<1>c. bundle'[p] = i /\ \A n \in BundleFile : ContentOf(p, n)' = ContentOf(p, n)
  BY DEF ContentOf, resultVars
<1>l. Required(loaded[p])' = Required(loaded[p])
  BY DEF resultVars
<1>o. \A n \in BundleFile : d.file[n] # Absent => d.file[n].by = p
  BY <1>p DEF Progress
<1>1. CASE UNCHANGED dirs
  <2>1. Unsealed(d) \/ SealedBy(d, p)
    <3>1. pc[p] \in {"load", "check", "oracles", "returned", "write_error", "crashed"}
                     \cup Writing
      BY <1>d DEF RunInv, TypeOK, Labels, Ended
    <3>2. QED
      BY <3>1, <1>p DEF Progress, Writing, Unsealed
  <2>2. dirs'[bundle'[p]] = d
    BY <1>1, <1>c
  <2>3. (Unsealed(dirs[bundle[p]]) \/ SealedBy(dirs[bundle[p]], p))'
    BY <2>1, <2>2, <1>c, <1>l DEF Unsealed, SealedBy, Holds, Checksums, SealOf
  <2>4. QED
    BY <2>2, <2>3, <1>p, <1>o, <1>d DEF RunInv, Progress, Writing
<1>2. ASSUME NEW n \in BundleFile, pc[p] = "write",
             dirs' = [dirs EXCEPT ![i].file[n] = PartOf(p)]
      PROVE  RunInv(p)'
  <2>1. d.seal = Absent
    BY <1>2, <1>p DEF Progress
  <2>2. dirs'[i] = [d EXCEPT !.file[n] = PartOf(p)]
    BY <1>2, <1>d
  <2>3. dirs'[i].seal = Absent /\ dirs'[i].signals
          /\ dirs'[i].file = [d.file EXCEPT ![n] = PartOf(p)]
    BY <2>1, <2>2, <1>d, <1>p DEF Dir
  <2>4. \A m \in BundleFile : dirs'[i].file[m] # Absent => dirs'[i].file[m].by = p
    BY <2>3, <1>o, <1>d DEF Dir, PartOf
  <2>5. QED
    BY <2>3, <2>4, <1>c, <1>d DEF RunInv, Progress, Unsealed, Writing
<1>3. CASE pc[p] = "checksums" /\ dirs' = [dirs EXCEPT ![i].sums = Torn]
  <2>1. d.seal = Absent
    BY <1>3, <1>p DEF Progress
  <2>2. dirs'[i].file = d.file /\ dirs'[i].seal = Absent /\ dirs'[i].signals
    BY <2>1, <1>3, <1>d, <1>p DEF Dir
  <2>3. QED
    BY <2>2, <1>o, <1>c, <1>d DEF RunInv, Progress, Unsealed, Writing
<1>4. CASE pc[p] = "seal" /\ dirs' = [dirs EXCEPT ![i].seal = Torn]
  <2>1. dirs'[i].file = d.file /\ dirs'[i].seal = Torn /\ dirs'[i].signals
    BY <1>4, <1>d, <1>p DEF Dir
  <2>2. QED
    BY <2>1, <1>o, <1>c, <1>d DEF RunInv, Progress, Unsealed, Writing
<1>5. QED
  BY <1>1, <1>2, <1>3, <1>4 DEF CutShort

\* Claiming: only a directory whose signals nobody has made is taken, and it is empty.
LEMMA ClaimKeeps ==
  ASSUME IInv, NEW p \in Runs, Claim(p)
  PROVE  RunInv(p)'
<1> USE DEF Goto, nameVars, resultVars
<1>t. TypeOK /\ RunInv(p) /\ Id(p) \in RunId
  BY DEF IInv, TypeOK, Id, RunId
<1>n. bundle[p] = None /\ written[p] = {}
  BY <1>t DEF RunInv, Claim, Start, ProbeTaken, ProbeFree, CreateRefuses, CreateProceeds,
              MakeSignals, SignalsExist, ParentMissing, MakeParent, MkdirFails
<1>1. CASE MakeSignals(p)
  <2>1. ~dirs[Id(p)].signals
    BY <1>1 DEF MakeSignals, SignalsFree
  <2>2. \A q \in Runs : bundle[q] # Id(p)
    BY <2>1, <1>t, ValueAssumption DEF IInv, RunInv
  <2>3. Unclaimed(Id(p))
    BY <1>t DEF IInv
  <2>u. dirs[Id(p)].seal = Absent /\ \A n \in BundleFile : dirs[Id(p)].file[n] = Absent
    BY <2>2, <2>3 DEF Unclaimed
  <2>4. /\ dirs'[Id(p)].signals
        /\ dirs'[Id(p)].file = dirs[Id(p)].file /\ dirs'[Id(p)].seal = dirs[Id(p)].seal
        /\ bundle'[p] = Id(p) /\ pc'[p] = "load" /\ written'[p] = {}
    BY <1>1, <1>t, <1>n DEF MakeSignals, TypeOK, Dir
  <2>5. QED
    BY <2>u, <2>4, <1>t, ValueAssumption DEF RunInv, Progress, Holds, Writing
<1>2. CASE ~MakeSignals(p)
  <2>1. bundle'[p] = None /\ written'[p] = {}
    BY <1>2, <1>n, <1>t DEF Claim, Start, ProbeTaken, ProbeFree, CreateRefuses,
       CreateProceeds, SignalsExist, ParentMissing, MakeParent, MkdirFails, TypeOK
  <2>2. pc'[p] \in {"probe", "create", "mkdir", "mkparent", "refused", "raised"}
    BY <1>2, <1>t DEF Claim, Start, ProbeTaken, ProbeFree, CreateRefuses,
       CreateProceeds, SignalsExist, ParentMissing, MakeParent, MkdirFails, TypeOK
  <2>3. QED
    BY <2>1, <2>2 DEF RunInv, Writing
<1>3. QED
  BY <1>1, <1>2

\* Judging: the directory stays empty until the first write.
LEMMA JudgeKeeps ==
  ASSUME IInv, NEW p \in Runs, Judge(p)
  PROVE  RunInv(p)'
<1> USE DEF Goto, nameVars, resultVars
<1>t. TypeOK /\ RunInv(p)
  BY DEF IInv
<1>1. pc[p] \in {"load", "check", "oracles"} /\ dirs' = dirs /\ bundle' = bundle
        /\ written' = written /\ pc'[p] \in {"load", "check", "oracles", "write"}
  BY <1>t DEF Judge, Load, FirstTryFails, CheckValid, CheckInvalid, RunOracles, TypeOK
<1>2. bundle[p] # None
  BY <1>1, <1>t DEF RunInv
<1>3. written[p] = {} /\ dirs[bundle[p]].seal = Absent /\ dirs[bundle[p]].signals
        /\ \A n \in BundleFile : dirs[bundle[p]].file[n] = Absent
  BY <1>1, <1>2, <1>t DEF RunInv, Progress, Holds
<1>4. QED
  BY <1>1, <1>2, <1>3 DEF RunInv, Progress, Holds, Writing

\* Writing: every step puts down what the next label of the invariant asks for.
LEMMA RecordKeeps ==
  ASSUME IInv, NEW p \in Runs, Record(p)
  PROVE  RunInv(p)'
<1> USE DEF Goto, nameVars, resultVars
<1> DEFINE i == bundle[p]
           d == dirs[i]
<1>t. TypeOK /\ RunInv(p)
  BY DEF IInv
<1>w. pc[p] \in Writing
  BY DEF Record, WriteFile, FinalizeStarts, WriteChecksums, WriteSeal, MakeReadOnly,
         WriteFails, Writing
<1>d. i \in RunId /\ d \in Dir /\ dirs \in [RunId -> Dir] /\ i # None
  BY <1>t, <1>w, Handle, ValueAssumption DEF TypeOK
<1>p. d.signals /\ Progress(p, d)
  BY <1>t, <1>d DEF RunInv
<1>o. \A n \in BundleFile : d.file[n] # Absent => d.file[n].by = p
  BY <1>p DEF Progress
<1>1. CASE WriteFile(p)
  <2>1. PICK n \in BundleFile :
          /\ n \in Pending(p)
          /\ dirs'    = [dirs EXCEPT ![i].file[n] = ContentOf(p, n)]
          /\ written' = [written EXCEPT ![p] = @ \cup {n}]
    BY <1>1 DEF WriteFile, IsNext
  <2>2. pc[p] = "write" /\ pc'[p] = "write" /\ bundle'[p] = i
          /\ written'[p] = written[p] \cup {n}
    BY <1>1, <1>t, <2>1 DEF WriteFile, TypeOK
  <2>3. Holds(d, p, written[p]) /\ d.seal = Absent /\ written[p] \subseteq Required(loaded[p])
    BY <1>p, <2>2 DEF Progress
  <2>4. dirs'[i].file = [d.file EXCEPT ![n] = ContentOf(p, n)]
          /\ dirs'[i].seal = Absent /\ dirs'[i].signals
    BY <2>1, <2>3, <1>d, <1>p DEF Dir
  <2>5. \A m \in BundleFile : ContentOf(p, m)' = ContentOf(p, m) /\ ContentOf(p, m).by = p
    BY <1>1 DEF WriteFile, ContentOf
  <2>6. \A m \in BundleFile :
          dirs'[i].file[m] = IF m \in written'[p] THEN ContentOf(p, m) ELSE Absent
    BY <2>2, <2>3, <2>4, <1>d DEF Holds, Dir
  <2>7. written'[p] \subseteq Required(loaded'[p])
    BY <1>1, <2>1, <2>2, <2>3 DEF Pending, WriteFile
  <2>8. QED
    BY <2>2, <2>4, <2>5, <2>6, <2>7, <1>d DEF RunInv, Progress, Holds, Writing
<1>2. CASE FinalizeStarts(p)
  <2>1. pc[p] = "write" /\ pc'[p] = "checksums" /\ Pending(p) = {}
          /\ UNCHANGED <<dirs, bundle, resultVars, written>>
    BY <1>2, <1>t DEF FinalizeStarts, AllWritten, TypeOK
  <2>2. Holds(d, p, written[p]) /\ d.seal = Absent /\ written[p] = Required(loaded[p])
    BY <1>p, <2>1 DEF Progress, Pending
  <2>3. (Holds(dirs[bundle[p]], p, Required(loaded[p])))'
    BY <2>1, <2>2 DEF Holds, ContentOf
  <2>4. QED
    BY <2>1, <2>2, <2>3, <1>o, <1>p, <1>d DEF RunInv, Progress, Writing
<1>3. CASE WriteChecksums(p)
  <2>1. pc[p] = "checksums" /\ pc'[p] = "seal" /\ bundle'[p] = i
          /\ UNCHANGED <<resultVars, written>>
    BY <1>3, <1>t DEF WriteChecksums, TypeOK
  <2>2. Holds(d, p, Required(loaded[p])) /\ d.seal = Absent
    BY <1>p, <2>1 DEF Progress
  <2>3. dirs'[i].file = d.file /\ dirs'[i].sums = Checksums(d)
          /\ dirs'[i].seal = Absent /\ dirs'[i].signals
    BY <1>3, <2>2, <1>d, <1>p DEF WriteChecksums, Dir
  <2>4. dirs'[i].sums = Checksums(dirs'[i])
    BY <2>3 DEF Checksums
  <2>5. (Holds(dirs[bundle[p]], p, Required(loaded[p])))'
    BY <2>1, <2>2, <2>3 DEF Holds, ContentOf
  <2>6. (dirs[bundle[p]].sums = Checksums(dirs[bundle[p]]))'
    BY <2>1, <2>4
  <2>7. QED
    BY <2>1, <2>3, <2>5, <2>6, <1>o, <1>d DEF RunInv, Progress, Writing
<1>4. CASE WriteSeal(p)
  <2>1. pc[p] = "seal" /\ pc'[p] = "lock" /\ bundle'[p] = i
          /\ UNCHANGED <<resultVars, written>>
    BY <1>4, <1>t DEF WriteSeal, TypeOK
  <2>2. Holds(d, p, Required(loaded[p])) /\ d.sums = Checksums(d)
    BY <1>p, <2>1 DEF Progress
  <2>3. dirs'[i].file = d.file /\ dirs'[i].sums = d.sums
          /\ dirs'[i].seal = SealOf(d) /\ dirs'[i].signals
    BY <1>4, <1>d, <1>p DEF WriteSeal, Dir
  <2>4. (SealedBy(dirs[bundle[p]], p))'
    <3>1. (Holds(dirs[bundle[p]], p, Required(loaded[p])))'
      BY <2>1, <2>2, <2>3 DEF SealedBy, Holds, ContentOf
    <3>2. dirs'[i].sums = Checksums(dirs'[i])
      BY <2>2, <2>3 DEF SealedBy, Checksums
    <3>3. dirs'[i].seal = SealOf(dirs'[i])
      BY <2>2, <2>3 DEF SealedBy, SealOf
    <3>4. QED
      BY <2>1, <3>1, <3>2, <3>3 DEF SealedBy
  <2>5. QED
    BY <2>1, <2>3, <2>4, <1>o, <1>d DEF RunInv, Progress, Writing
<1>5. CASE MakeReadOnly(p)
  <2>1. pc[p] = "lock" /\ pc'[p] = "returned" /\ bundle'[p] = i
          /\ UNCHANGED <<resultVars, written>>
    BY <1>5, <1>t DEF MakeReadOnly, TypeOK
  <2>2. SealedBy(d, p)
    BY <1>p, <2>1 DEF Progress
  <2>3. dirs'[i].file = d.file /\ dirs'[i].sums = d.sums /\ dirs'[i].seal = d.seal
          /\ dirs'[i].readonly /\ dirs'[i].signals
    BY <1>5, <1>d, <1>p DEF MakeReadOnly, Dir
  <2>4. (SealedBy(dirs[bundle[p]], p))'
    <3>1. (Holds(dirs[bundle[p]], p, Required(loaded[p])))'
      BY <2>1, <2>2, <2>3 DEF SealedBy, Holds, ContentOf
    <3>2. dirs'[i].sums = Checksums(dirs'[i])
      BY <2>2, <2>3 DEF SealedBy, Checksums
    <3>3. dirs'[i].seal = SealOf(dirs'[i])
      BY <2>2, <2>3 DEF SealedBy, SealOf
    <3>4. QED
      BY <2>1, <3>1, <3>2, <3>3 DEF SealedBy
  <2>5. QED
    BY <2>1, <2>3, <2>4, <1>o, <1>d DEF RunInv, Progress, Writing
<1>6. CASE WriteFails(p)
  <2>1. CutShort(p) /\ pc'[p] = "write_error" /\ UNCHANGED <<bundle, resultVars, written>>
    BY <1>6, <1>t DEF WriteFails, TypeOK
  <2>2. QED
    BY <2>1, <1>t, <1>d, CutShortKeeps
<1>7. QED
  BY <1>1, <1>2, <1>3, <1>4, <1>5, <1>6 DEF Record

\* A process may die before it holds a directory, or at any point after.
LEMMA DieKeeps ==
  ASSUME IInv, NEW p \in Runs, Die(p)
  PROVE  RunInv(p)'
<1>t. TypeOK /\ RunInv(p)
  BY DEF IInv
<1>1. CutShort(p) /\ pc'[p] = "crashed" /\ UNCHANGED <<bundle, resultVars, written>>
  BY <1>t DEF Die, Goto, TypeOK
<1>2. CASE bundle[p] = None
  BY <1>1, <1>2 DEF RunInv, Writing
<1>3. CASE bundle[p] # None
  BY <1>1, <1>3, <1>t, CutShortKeeps DEF TypeOK
<1>4. QED
  BY <1>2, <1>3
-----------------------------------------------------------------------------
(* What a verdict rests on.                                                  *)

\* A step of its own keeps the account of what an invocation has judged.
LEMMA JudgedStep ==
  ASSUME TypeOK, NEW p \in Runs, Judged(p), Step(p) \/ Die(p)
  PROVE  Judged(p)'
<1> USE DEF TypeOK, Goto, nameVars, resultVars
<1>1. CASE Claim(p)
  BY <1>1 DEF Claim, Start, ProbeTaken, ProbeFree, CreateRefuses, CreateProceeds,
              MakeSignals, SignalsExist, ParentMissing, MakeParent, MkdirFails, Judged
<1>2. CASE Load(p)
  <2>1. pc'[p] = "check" => loaded'[p] = Roles
    BY <1>2 DEF Load, NextRole, Roles
  <2>2. QED
    BY <1>2, <2>1 DEF Load, Judged
<1>3. CASE FirstTryFails(p)
  <2>1. \A k \in Failures : Caught(k) \notin {"PASS", "FAIL", "INCONCLUSIVE"}
    BY FailureAssumption DEF Caught, VerdictOfFailure, Failure
  <2>2. Caught("other") \notin {"PASS", "FAIL", "INCONCLUSIVE"}
    BY DEF Caught, VerdictOfFailure
  <2>3. pc'[p] = "write" /\ verdict'[p] \notin {"PASS", "FAIL", "INCONCLUSIVE"}
    BY <1>3, <2>1, <2>2 DEF FirstTryFails
  <2>4. QED
    BY <2>3 DEF Judged
<1>4. CASE CheckValid(p)
  BY <1>4 DEF CheckValid, Judged
<1>5. CASE CheckInvalid(p)
  BY <1>5 DEF CheckInvalid, Judged
<1>6. CASE RunOracles(p)
  BY <1>6 DEF RunOracles, Judged
<1>7. CASE Record(p)
  BY <1>7 DEF Record, WriteFile, FinalizeStarts, WriteChecksums, WriteSeal,
              MakeReadOnly, WriteFails, Writing, Judged
<1>8. CASE Die(p)
  BY <1>8 DEF Die, Judged
<1>9. QED
  BY <1>1, <1>2, <1>3, <1>4, <1>5, <1>6, <1>7, <1>8 DEF Step, Judge

-----------------------------------------------------------------------------
(* The inductive invariant.                                                  *)

LEMMA InitIInv == Init => IInv
<1> SUFFICES ASSUME Init PROVE IInv
  OBVIOUS
<1>1. NoBundle \in Dir
  BY DEF NoBundle, Dir
<1>2. TypeOK
  BY <1>1, AttemptAssumption DEF Init, TypeOK, Labels, Attempts, Verdict
<1>3. \A p \in Runs : RunInv(p) /\ Judged(p)
  BY DEF Init, RunInv, Judged, Writing
<1>4. \A i \in RunId : Unclaimed(i)
  BY DEF Init, Unclaimed, NoBundle
<1>5. QED
  BY <1>2, <1>3, <1>4 DEF IInv, Init

LEMMA NextIInv == IInv /\ [Next]_vars => IInv'
<1> SUFFICES ASSUME IInv, [Next]_vars PROVE IInv'
  OBVIOUS
<1>t. TypeOK /\ \A p \in Runs : RunInv(p)
  BY DEF IInv
<1>1. CASE UNCHANGED vars
  <2> USE <1>1 DEF vars, nameVars, resultVars
  <2>1. TypeOK'
    BY <1>t DEF TypeOK
  <2>2. ASSUME NEW q \in Runs PROVE RunInv(q)' /\ Judged(q)'
    BY <1>t, RunFrame DEF SameRecord, Judged, IInv
  <2>3. \A i \in RunId : Unclaimed(i)'
    BY DEF IInv, Unclaimed
  <2>4. QED
    BY <2>1, <2>2, <2>3 DEF IInv
<1>2. ASSUME NEW p \in Runs, Step(p) \/ Die(p), Next PROVE IInv'
  <2>1. TypeOK'
    BY <1>2, <1>t, TypeStep
  <2>2. RunInv(p)' /\ Judged(p)'
    BY <1>2, ClaimKeeps, JudgeKeeps, RecordKeeps, DieKeeps, JudgedStep DEF Step, IInv
  <2>3. ASSUME NEW q \in Runs, q # p PROVE RunInv(q)' /\ Judged(q)'
    <3>1. bundle[q] # None => bundle[q] \in RunId /\ bundle[q] # bundle[p]
      BY <2>3, <1>t DEF IInv, TypeOK
    <3>2. bundle[q] # None => SameRecord(bundle[q])
      BY <3>1, <1>2, <1>t, DirFrame
    <3>3. q \in Runs \ {p}
      BY <2>3
    <3>4. /\ pc'[q] = pc[q] /\ bundle'[q] = bundle[q] /\ written'[q] = written[q]
          /\ loaded'[q] = loaded[q] /\ failure'[q] = failure[q] /\ verdict'[q] = verdict[q]
          /\ validity'[q] = validity[q]
      BY <3>3, <1>2, <1>t, LocalFrame
    <3>5. RunInv(q)'
      BY <3>2, <3>4, <1>t, RunFrame
    <3>6. QED
      BY <3>4, <3>5 DEF IInv, Judged
  <2>4. \A q \in Runs \ {p} : bundle'[q] = bundle[q]
    BY <1>2, <1>t, LocalFrame
  <2>5. bundle'[p] = bundle[p] \/
          (/\ bundle[p] = None /\ bundle'[p] = Id(p)
           /\ \A q \in Runs : bundle[q] # Id(p))
    <3>1. CASE MakeSignals(p)
      <4>1. ~dirs[Id(p)].signals /\ bundle'[p] = Id(p) /\ Id(p) \in RunId
        BY <3>1, <1>t DEF MakeSignals, SignalsFree, TypeOK, Id, RunId
      <4>2. \A q \in Runs : bundle[q] # Id(p)
        BY <4>1, <1>t, ValueAssumption DEF RunInv
      <4>3. bundle[p] = None
        BY <3>1, <1>t DEF MakeSignals, RunInv
      <4>4. QED
        BY <4>1, <4>2, <4>3
    <3>2. QED
      BY <3>1, <1>2, <1>t, HandleFrame
  <2>6. \A q, r \in Runs : q # r /\ bundle'[q] # None => bundle'[q] # bundle'[r]
    BY <2>4, <2>5 DEF IInv
  <2>7. ASSUME NEW i \in RunId, \A q \in Runs : bundle'[q] # i
        PROVE  dirs'[i].seal = Absent /\ \A n \in BundleFile : dirs'[i].file[n] = Absent
    <3>1. \A q \in Runs : bundle[q] # i
      BY <2>4, <2>5, <2>7, ValueAssumption
    <3>2. SameRecord(i)
      BY <3>1, <1>2, <1>t, DirFrame
    <3>3. QED
      BY <3>1, <3>2 DEF IInv, Unclaimed, SameRecord
  <2>8. QED
    BY <2>1, <2>2, <2>3, <2>6, <2>7 DEF IInv, Unclaimed
<1>3. QED
  BY <1>1, <1>2 DEF Next

\* IInv is an invariant of the runner.
THEOREM Invariant == Spec => []IInv
BY InitIInv, NextIInv, PTL DEF Spec

\* Every variable keeps its type.
THEOREM TypeCorrect == Spec => []TypeOK
<1>1. IInv => TypeOK
  BY DEF IInv
<1>2. QED
  BY <1>1, Invariant, PTL

-----------------------------------------------------------------------------
(* What the invariant implies.                                               *)

\* A finished, sealed record verifies: the digests listed are those of the files, and
\* the seal is that of the listing.
LEMMA SealedVerifies ==
  ASSUME NEW d \in Dir, d.sums = Checksums(d), d.seal = SealOf(d)
  PROVE  Verified(d)
<1>1. d.sums \in Listing /\ d.sums = Checksums(d) /\ d.seal = SealOf(d)
  BY SealType
<1>2. d.seal \in Seal
  BY <1>1, SealType
<1>3. d.seal \notin {Absent, Torn} /\ d.sums \notin {Absent, Torn}
  BY <1>1, <1>2, ValueAssumption
<1>4. d.seal.schema = Supported /\ d.seal.checksums = Digest(d.sums)
  BY <1>1 DEF SealOf
<1>5. \A n \in BundleFile : RecordedDigest(d.sums, n) = Checksums(d)[n]
  BY <1>1, <1>3 DEF RecordedDigest
<1>6. QED
  BY <1>3, <1>4, <1>5 DEF Verified, SealProblems, FileProblems

\* A directory with a whole seal is the sealed record of the run that holds it.
LEMMA SealedIsWhole ==
  ASSUME IInv, NEW i \in RunId, ~Unsealed(dirs[i])
  PROVE  \E p \in Runs : bundle[p] = i /\ SealedBy(dirs[i], p)
<1>2. PICK p \in Runs : bundle[p] = i
  BY DEF IInv, Unclaimed, Unsealed
<1>3. RunInv(p) /\ bundle[p] # None /\ TypeOK
  BY <1>2, ValueAssumption DEF IInv
<1>4. Progress(p, dirs[i])
  BY <1>2, <1>3 DEF RunInv
<1>5. pc[p] \in {"load", "check", "oracles", "returned", "write_error", "crashed"}
                  \cup Writing
  BY <1>3 DEF RunInv, TypeOK, Labels, Ended
<1>6. SealedBy(dirs[i], p)
  BY <1>4, <1>5 DEF Progress, Unsealed, Writing
<1>7. QED
  BY <1>2, <1>6

\* A directory that verifies is the sealed record of the run that holds it.
LEMMA VerifiedIsSealed ==
  ASSUME IInv, NEW i \in RunId, Verified(dirs[i])
  PROVE  \E p \in Runs : bundle[p] = i /\ SealedBy(dirs[i], p)
BY SealedIsWhole DEF Verified, Unsealed

\* No two invocations ever hold, or write into, the same bundle directory.
THEOREM Exclusive == Spec => []ExclusiveOwner
<1>1. ASSUME IInv PROVE ExclusiveOwner
  <2>1. ASSUME NEW i \in RunId, NEW n \in BundleFile, dirs[i].file[n] # Absent
        PROVE  bundle[dirs[i].file[n].by] = i
    <3>1. PICK p \in Runs : bundle[p] = i
      BY <1>1, <2>1 DEF IInv, Unclaimed
    <3>2. Progress(p, dirs[i])
      BY <1>1, <3>1, ValueAssumption DEF IInv, RunInv
    <3>3. QED
      BY <2>1, <3>1, <3>2 DEF Progress
  <2>2. QED
    BY <1>1, <2>1 DEF ExclusiveOwner, IInv
<1>2. QED
  BY <1>1, Invariant, PTL

\* A bundle that verifies is the whole record of the run that holds it.
THEOREM WholeRecord == Spec => []VerifiedIsWholeRecord
<1>1. ASSUME IInv PROVE VerifiedIsWholeRecord
  BY <1>1, VerifiedIsSealed DEF VerifiedIsWholeRecord, SealedBy, Holds
<1>2. QED
  BY <1>1, Invariant, PTL

\* A verdict handed back is on record in a bundle that verifies and is read-only.
THEOREM Recorded == Spec => []ReturnedIsRecorded
<1>1. ASSUME IInv PROVE ReturnedIsRecorded
  <2>1. ASSUME NEW p \in Runs, pc[p] = "returned"
        PROVE  /\ Verified(dirs[bundle[p]])
               /\ dirs[bundle[p]].file["verdict.json"].verdict = verdict[p]
               /\ dirs[bundle[p]].readonly
    <3>1. bundle[p] \in RunId /\ bundle[p] # None /\ dirs[bundle[p]] \in Dir
      BY <1>1, <2>1 DEF IInv, RunInv, TypeOK
    <3>2. SealedBy(dirs[bundle[p]], p) /\ dirs[bundle[p]].readonly
      BY <1>1, <2>1, <3>1 DEF IInv, RunInv, Progress
    <3>3. dirs[bundle[p]].file["verdict.json"] = ContentOf(p, "verdict.json")
      BY <1>1, <3>2, VerdictFile DEF SealedBy, Holds, IInv, TypeOK
    <3>4. QED
      BY <3>1, <3>2, <3>3, SealedVerifies DEF ContentOf, SealedBy
  <2>2. QED
    BY <2>1 DEF ReturnedIsRecorded
<1>2. QED
  BY <1>1, Invariant, PTL

\* Infrastructure failure is never a scientific result.
THEOREM NeverScience == Spec => []InfrastructureIsNeverScience
<1>1. ASSUME IInv PROVE InfrastructureIsNeverScience
  <2>1. ASSUME NEW i \in RunId, Verified(dirs[i]),
               dirs[i].file["verdict.json"].verdict \in {"PASS", "FAIL", "INCONCLUSIVE"}
        PROVE  \E p \in Runs : /\ bundle[p] = i /\ loaded[p] = Roles
                               /\ failure[p] = "none" /\ validity[p] # "unknown"
    <3>1. PICK p \in Runs : bundle[p] = i /\ SealedBy(dirs[i], p)
      BY <1>1, <2>1, VerifiedIsSealed
    <3>2. dirs[i].file["verdict.json"] = ContentOf(p, "verdict.json")
      BY <1>1, <3>1, VerdictFile DEF SealedBy, Holds, IInv, TypeOK
    <3>3. verdict[p] \in {"PASS", "FAIL", "INCONCLUSIVE"}
      BY <2>1, <3>2 DEF ContentOf
    <3>4. QED
      BY <1>1, <3>1, <3>3 DEF IInv, Judged
  <2>2. QED
    BY <2>1 DEF InfrastructureIsNeverScience
<1>2. QED
  BY <1>1, Invariant, PTL

-----------------------------------------------------------------------------
(* Sealed bundles are final.                                                 *)

\* Whether a directory verifies, and what it says, is a matter of its record.
LEMMA VerifiedFrame ==
  ASSUME NEW i \in RunId, SameRecord(i)
  PROVE  Verified(dirs'[i]) = Verified(dirs[i])
BY DEF SameRecord, Verified, SealProblems, FileProblems, Checksums, RecordedDigest

\* The only step that changes the record of a directory its actor holds and that is
\* sealed would be one of an actor that is already past the seal; there is none.
LEMMA SealedStep ==
  ASSUME IInv, NEW p \in Runs, Step(p) \/ Die(p), bundle[p] \in RunId,
         dirs[bundle[p]].seal \notin {Absent, Torn}
  PROVE  SameRecord(bundle[p]) \/ MakeReadOnly(p)
<1>t. TypeOK /\ RunInv(p) /\ bundle[p] # None
  BY ValueAssumption DEF IInv
<1>1. pc[p] \in {"lock", "returned", "write_error", "crashed"}
  BY <1>t DEF RunInv, Progress, TypeOK, Labels, Writing, Ended
<1>2. MakeReadOnly(p) \/ CutShort(p)
  BY <1>1 DEF Step, Claim, Judge, Record, Die, Start, ProbeTaken, ProbeFree, CreateRefuses,
         CreateProceeds, MakeSignals, SignalsExist, ParentMissing, MakeParent, MkdirFails,
         Load, FirstTryFails, CheckValid, CheckInvalid, RunOracles, WriteFile,
         FinalizeStarts, WriteChecksums, WriteSeal, WriteFails
<1>3. QED
  BY <1>1, <1>2 DEF CutShort, SameRecord

\* No step changes the files, the listing or the seal of a bundle that verifies.
LEMMA SealedStays ==
  ASSUME IInv, [Next]_vars, NEW i \in RunId, Verified(dirs[i])
  PROVE  Verified(dirs'[i]) /\ dirs'[i].file = dirs[i].file
<1>t. TypeOK /\ dirs[i].seal \notin {Absent, Torn} /\ dirs \in [RunId -> Dir]
  BY DEF IInv, TypeOK, Verified
<1>1. CASE UNCHANGED vars
  BY <1>1 DEF vars
<1>2. ASSUME NEW p \in Runs, Step(p) \/ Die(p)
      PROVE  SameRecord(i) \/ (MakeReadOnly(p) /\ i = bundle[p])
  BY <1>t, <1>2, DirFrame, SealedStep
<1>3. ASSUME NEW p \in Runs, MakeReadOnly(p), i = bundle[p]
      PROVE  dirs'[i].file = dirs[i].file /\ dirs'[i].sums = dirs[i].sums
               /\ dirs'[i].seal = dirs[i].seal
  BY <1>t, <1>3 DEF MakeReadOnly, Dir
<1>4. dirs'[i].file = dirs[i].file /\ dirs'[i].sums = dirs[i].sums
        /\ dirs'[i].seal = dirs[i].seal
  BY <1>1, <1>2, <1>3 DEF Next, SameRecord, vars
<1>5. QED
  BY <1>4 DEF Verified, SealProblems, FileProblems, Checksums, RecordedDigest

\* Once a bundle verifies it goes on verifying with the same files.
THEOREM Final == Spec => SealedIsFinal
<1>1. IInv /\ [Next]_vars =>
        (\A i \in RunId : Verified(dirs[i]) => Verified(dirs'[i])
                                                /\ dirs'[i].file = dirs[i].file)
  BY SealedStays
<1>2. QED
  BY <1>1, Invariant, PTL DEF Spec, SealedIsFinal

-----------------------------------------------------------------------------
(* The runner implements the ledger.                                         *)

\* The ledger's view of a directory is the run that holds it.
LEMMA HolderIs ==
  ASSUME IInv, NEW p \in Runs, NEW i \in RunId, bundle[p] = i
  PROVE  Holder[i] = p
<1>1. \A q \in Runs : bundle[q] = i => q = p
  BY ValueAssumption DEF IInv
<1>2. QED
  BY <1>1 DEF Holder

\* A step that gives out no handle leaves the holders as they were.
LEMMA HolderFrame ==
  ASSUME TypeOK, bundle' = bundle
  PROVE  Holder' = Holder
BY DEF Holder

\* The answer of a run changes only when it ends by returning.
LEMMA AnsweredFrame ==
  ASSUME TypeOK, NEW p \in Runs, Step(p) \/ Die(p)
  PROVE  \/ Answered' = Answered
         \/ MakeReadOnly(p) /\ Answered' = [Answered EXCEPT ![p] = verdict[p]]
         \/ WriteFails(p) /\ Answered' = [Answered EXCEPT ![p] = "ERROR"]
<1>1. \A q \in Runs \ {p} : pc'[q] = pc[q] /\ verdict'[q] = verdict[q]
  BY LocalFrame
<1>2. \A q \in Runs \ {p} : Answered'[q] = Answered[q]
  BY <1>1 DEF Answered
<1>3. CASE MakeReadOnly(p)
  <2>1. Answered'[p] = verdict[p]
    BY <1>3 DEF MakeReadOnly, Goto, TypeOK, Answered, resultVars
  <2>2. QED
    BY <1>2, <1>3, <2>1 DEF Answered
<1>4. CASE WriteFails(p)
  <2>1. Answered'[p] = "ERROR"
    BY <1>4 DEF WriteFails, Goto, TypeOK, Answered, resultVars
  <2>2. QED
    BY <1>2, <1>4, <2>1 DEF Answered
<1>5. CASE ~MakeReadOnly(p) /\ ~WriteFails(p)
  <2>1. pc[p] \notin {"returned", "write_error"} /\ pc'[p] \notin {"returned", "write_error"}
    BY <1>5 DEF Step, Claim, Judge, Record, Die, Start, ProbeTaken, ProbeFree,
       CreateRefuses, CreateProceeds, MakeSignals, SignalsExist, ParentMissing, MakeParent,
       MkdirFails, Load, FirstTryFails, CheckValid, CheckInvalid, RunOracles, WriteFile,
       FinalizeStarts, WriteChecksums, WriteSeal, TypeOK, Goto, Writing, Ended
  <2>2. QED
    BY <1>2, <2>1 DEF Answered
<1>6. QED
  BY <1>3, <1>4, <1>5

\* The seal is the one step that puts a bundle on record.
LEMMA OnRecordFrame ==
  ASSUME IInv, NEW p \in Runs, Step(p) \/ Die(p), ~WriteSeal(p)
  PROVE  OnRecord' = OnRecord
<1>t. TypeOK /\ RunInv(p) /\ dirs \in [RunId -> Dir]
  BY DEF IInv, TypeOK
<1>1. ASSUME NEW i \in RunId
      PROVE  /\ Verified(dirs'[i]) = Verified(dirs[i])
             /\ Verified(dirs[i]) => dirs'[i].file = dirs[i].file
  <2>1. CASE SameRecord(i)
    BY <2>1, VerifiedFrame DEF SameRecord
  <2>2. CASE ~SameRecord(i)
    <3>1. i = bundle[p]
      BY <2>2, <1>t, DirFrame
    <3>2. CASE MakeReadOnly(p)
      <4>1. dirs'[i].file = dirs[i].file /\ dirs'[i].sums = dirs[i].sums
              /\ dirs'[i].seal = dirs[i].seal
        BY <3>1, <3>2, <1>t DEF MakeReadOnly, Dir
      <4>2. QED
        BY <4>1 DEF Verified, SealProblems, FileProblems, Checksums, RecordedDigest
    <3>3. CASE ~MakeReadOnly(p)
      <4>1. dirs[i].seal \in {Absent, Torn}
        BY <2>2, <3>1, <3>3, SealedStep
      <4>2. dirs'[i].seal \in {Absent, Torn}
        <5>1. bundle[p] # None
          BY <3>1, ValueAssumption
        <5>2. pc[p] # "idle" /\ ~Claim(p)
          BY <5>1, <1>t DEF RunInv, Claim, Start, ProbeTaken, ProbeFree, CreateRefuses,
             CreateProceeds, MakeSignals, SignalsExist, ParentMissing, MakeParent, MkdirFails
        <5>3. dirs' = dirs \/ WriteFile(p) \/ WriteChecksums(p) \/ CutShort(p)
          BY <3>3, <5>2 DEF Step, Judge, Record, Die, Load, FirstTryFails, CheckValid,
             CheckInvalid, RunOracles, FinalizeStarts, WriteFails
        <5>4. CASE dirs' = dirs
          BY <4>1, <5>4
        <5>5. CASE WriteFile(p)
          BY <4>1, <5>5, <3>1, <1>t DEF WriteFile, Dir
        <5>6. CASE WriteChecksums(p)
          BY <4>1, <5>6, <3>1, <1>t DEF WriteChecksums, Dir
        <5>7. CASE CutShort(p)
          BY <4>1, <5>7, <3>1, <1>t DEF CutShort, Dir
        <5>8. QED
          BY <5>3, <5>4, <5>5, <5>6, <5>7
      <4>3. QED
        BY <4>1, <4>2 DEF Verified
    <3>4. QED
      BY <3>2, <3>3
  <2>3. QED
    BY <2>1, <2>2
<1>2. QED
  BY <1>1 DEF OnRecord

\* And it puts the verdict of the run on record, where nothing was.
LEMMA SealPutsOnRecord ==
  ASSUME IInv, IInv', NEW p \in Runs, WriteSeal(p)
  PROVE  /\ bundle[p] \in RunId /\ OnRecord[bundle[p]] = None
         /\ OnRecord' = [OnRecord EXCEPT ![bundle[p]] = verdict[p]]
<1> DEFINE i == bundle[p]
<1>t. TypeOK /\ RunInv(p) /\ dirs \in [RunId -> Dir]
  BY DEF IInv, TypeOK
<1>w. pc[p] = "seal" /\ pc'[p] = "lock" /\ bundle' = bundle /\ verdict' = verdict
  BY <1>t DEF WriteSeal, Goto, TypeOK, resultVars
<1>i. i \in RunId /\ i # None
  BY <1>t, <1>w, Handle, ValueAssumption DEF Writing
<1>1. dirs[i].seal = Absent
  BY <1>t, <1>w, <1>i DEF RunInv, Progress
<1>2. ~Verified(dirs[i])
  BY <1>1 DEF Verified
<1>3. SealedBy(dirs[bundle[p]], p)' /\ (dirs[bundle[p]] \in Dir)'
  BY <1>w, <1>i DEF IInv, RunInv, Progress, TypeOK
<1>4. Verified(dirs'[i])
  <2>1. dirs'[i].sums = Checksums(dirs'[i]) /\ dirs'[i].seal = SealOf(dirs'[i])
    BY <1>3, <1>w DEF SealedBy
  <2>2. QED
    BY <1>3, <1>w, <2>1, SealedVerifies
<1>5. dirs'[i].file["verdict.json"].verdict = verdict[p]
  <2>1. loaded'[p] \in SUBSET Roles
    BY DEF IInv, TypeOK
  <2>2. dirs'[i].file["verdict.json"] = ContentOf(p, "verdict.json")'
    BY <1>3, <1>w, <2>1, VerdictFile DEF SealedBy, Holds
  <2>3. QED
    BY <2>2, <1>w DEF ContentOf
<1>6. \A j \in RunId \ {i} : dirs'[j] = dirs[j]
  BY <1>t DEF WriteSeal
<1>7. QED
  BY <1>2, <1>4, <1>5, <1>6, <1>i DEF OnRecord

\* Every behaviour of the runner is a behaviour of the ledger.
THEOREM Implementation == Spec => ImplementsLedger
<1>1. Init => Ledger!Init
  <2> SUFFICES ASSUME Init PROVE Ledger!Init
    OBVIOUS
  <2>1. \A i \in RunId : ~Verified(dirs[i])
    BY DEF Init, NoBundle, Verified
  <2>2. Holder = [i \in RunId |-> None]
    BY ValueAssumption DEF Init, Holder
  <2>3. QED
    BY <2>1, <2>2 DEF Init, Ledger!Init, OnRecord, Answered
<1>2. IInv /\ IInv' /\ [Next]_vars => [Ledger!Next]_(Ledger!vars)
  <2> SUFFICES ASSUME IInv, IInv', [Next]_vars PROVE [Ledger!Next]_(Ledger!vars)
    OBVIOUS
  <2>t. TypeOK
    BY DEF IInv
  <2>1. CASE UNCHANGED vars
    BY <2>1 DEF vars, nameVars, resultVars, Ledger!vars, Holder, OnRecord, Answered
  <2>2. ASSUME NEW p \in Runs, Step(p) \/ Die(p) PROVE [Ledger!Next]_(Ledger!vars)
    <3>b. TypeOK /\ RunInv(p) /\ None \notin RunId
      BY ValueAssumption DEF IInv
    <3>1. CASE MakeSignals(p)
      <4>1. Id(p) \in RunId /\ bundle' = [bundle EXCEPT ![p] = Id(p)]
              /\ ~dirs[Id(p)].signals /\ bundle[p] = None
        BY <3>1, <3>b DEF MakeSignals, SignalsFree, TypeOK, Id, RunId, RunInv
      <4>2. \A q \in Runs : bundle[q] # Id(p)
        BY <4>1, <3>b DEF IInv, RunInv
      <4>3. Holder[Id(p)] = None /\ \A j \in RunId : Holder[j] # p
        <5>1. \A j \in RunId : bundle[p] # j
          BY <4>1, <3>b
        <5>2. \A j \in RunId : Holder[j] = None \/ bundle[Holder[j]] = j
          BY DEF Holder
        <5>3. QED
          BY <4>1, <4>2, <5>1, <5>2, ValueAssumption DEF Holder
      <4>4. Holder' = [Holder EXCEPT ![Id(p)] = p]
        <5>1. Holder'[Id(p)] = p
          <6>1. \A q \in Runs : bundle'[q] = Id(p) <=> q = p
            BY <4>1, <4>2, <3>b DEF TypeOK
          <6>2. QED
            BY <6>1, <4>1 DEF Holder
        <5>2. ASSUME NEW j \in RunId \ {Id(p)} PROVE Holder'[j] = Holder[j]
          <6>1. \A q \in Runs : bundle'[q] = j <=> bundle[q] = j
            BY <4>1, <3>b DEF TypeOK
          <6>2. QED
            BY <6>1 DEF Holder
        <5>3. Holder = [j \in RunId |-> Holder[j]] /\ Holder' = [j \in RunId |-> Holder'[j]]
          BY DEF Holder
        <5>4. QED
          BY <5>1, <5>2, <5>3, <4>1
      <4>5. OnRecord' = OnRecord
        BY <3>1, <2>2, OnRecordFrame DEF MakeSignals, WriteSeal
      <4>6. Answered' = Answered
        BY <3>1, <2>2, <3>b, AnsweredFrame DEF MakeSignals, MakeReadOnly, WriteFails, Writing
      <4>7. QED
        BY <4>1, <4>3, <4>4, <4>5, <4>6 DEF Ledger!Next, Ledger!Take
    <3>2. CASE WriteSeal(p)
      <4>1. Holder' = Holder /\ Holder[bundle[p]] = p /\ bundle[p] \in RunId
        BY <3>2, <3>b, HolderFrame, HolderIs, SealPutsOnRecord DEF WriteSeal
      <4>2. Answered' = Answered /\ Answered[p] = None
        <5>1. pc[p] = "seal"
          BY <3>2 DEF WriteSeal
        <5>2. ~MakeReadOnly(p) /\ ~WriteFails(p)
          <6>1. pc'[p] = "lock"
            BY <3>2, <3>b DEF WriteSeal, Goto, TypeOK
          <6>2. QED
            BY <5>1, <6>1, <3>b DEF MakeReadOnly, WriteFails, Goto, TypeOK
        <5>3. QED
          BY <5>1, <5>2, <2>2, <3>b, AnsweredFrame DEF Answered
      <4>3. verdict[p] \in Verdict
        BY <3>b DEF TypeOK
      <4>4. QED
        BY <3>2, <4>1, <4>2, <4>3, SealPutsOnRecord DEF Ledger!Next, Ledger!Enter
    <3>3. CASE ~MakeSignals(p) /\ ~WriteSeal(p)
      <4>1. bundle' = bundle
        <5>1. \A q \in Runs \ {p} : bundle'[q] = bundle[q]
          BY <2>2, <3>b, LocalFrame
        <5>2. bundle'[p] = bundle[p]
          BY <2>2, <3>3, <3>b, HandleFrame
        <5>3. bundle' \in [Runs -> RunId \cup {None}] /\ bundle \in [Runs -> RunId \cup {None}]
          BY DEF IInv, TypeOK
        <5>4. QED
          BY <5>1, <5>2, <5>3
      <4>2. Holder' = Holder /\ OnRecord' = OnRecord
        BY <4>1, <2>2, <3>3, <3>b, HolderFrame, OnRecordFrame
      <4>3. CASE Answered' = Answered
        BY <4>2, <4>3 DEF Ledger!vars
      <4>4. CASE MakeReadOnly(p) /\ Answered' = [Answered EXCEPT ![p] = verdict[p]]
        <5>1. pc[p] = "lock" /\ bundle[p] # None
          BY <4>4, <3>b DEF MakeReadOnly, RunInv, Writing
        <5>2. bundle[p] \in RunId /\ SealedBy(dirs[bundle[p]], p) /\ dirs[bundle[p]] \in Dir
          BY <5>1, <3>b DEF RunInv, Progress, TypeOK
        <5>3. Verified(dirs[bundle[p]])
          BY <5>2, SealedVerifies DEF SealedBy
        <5>4. dirs[bundle[p]].file["verdict.json"] = ContentOf(p, "verdict.json")
          BY <5>2, <3>b, VerdictFile DEF SealedBy, Holds, TypeOK
        <5>5. OnRecord[bundle[p]] = verdict[p]
          BY <5>2, <5>3, <5>4 DEF OnRecord, ContentOf
        <5>6. Holder[bundle[p]] = p
          BY <5>2, HolderIs
        <5>7. Answered[p] = None /\ verdict[p] \in Verdict
          BY <5>1, <3>b DEF Answered, TypeOK
        <5>8. QED
          BY <4>2, <4>4, <5>2, <5>5, <5>6, <5>7 DEF Ledger!Next, Ledger!Answer
      <4>5. CASE WriteFails(p) /\ Answered' = [Answered EXCEPT ![p] = "ERROR"]
        <5>1. Answered[p] = None
          BY <4>5 DEF WriteFails, Writing, Answered
        <5>2. "ERROR" \in Verdict
          BY DEF Verdict
        <5>3. QED
          BY <4>2, <4>5, <5>1, <5>2 DEF Ledger!Next, Ledger!Answer
      <4>6. QED
        BY <4>3, <4>4, <4>5, <2>2, <3>b, AnsweredFrame
    <3>4. QED
      BY <3>1, <3>2, <3>3
  <2>3. QED
    BY <2>1, <2>2 DEF Next
<1>3. QED
  BY <1>1, <1>2, Invariant, PTL DEF Spec, ImplementsLedger, Ledger!Spec

-----------------------------------------------------------------------------
(* The commands.                                                             *)

\* The commands do to the results root only what runs do.
LEMMA CommandIsRun == [CNext]_allVars => [Next]_vars
<1>1. ASSUME NEW p \in Runs, CommandStep(p) PROVE [Next]_vars
  BY <1>1 DEF CommandStep, LoadManifest, RunStep, RunReturns, RunRaises, Resolve, Open,
              VerifySeal, VerifyFiles, ReadVerdict, Report, FindManifest, CompareRuns, Next
<1>2. ASSUME NEW p \in Runs, Interrupt(p) PROVE [Next]_vars
  BY <1>2 DEF Interrupt, Next
<1>3. QED
  BY <1>1, <1>2 DEF CNext, allVars

\* Every behaviour of the commands is one of the runs.
THEOREM CommandsAreRuns == CSpec => Spec
<1>1. CInit => Init
  BY DEF CInit
<1>2. QED
  BY <1>1, CommandIsRun, PTL DEF CSpec, Spec

-----------------------------------------------------------------------------
(* Type correctness.                                                         *)

\* Leaving, moving and answering keep the shape of the commands' variables.
LEMMA ExitType ==
  ASSUME LocalTypeOK, NEW p \in Runs, NEW status \in Statuses, NEW broken \in BOOLEAN,
         Leave(p, status, broken)
  PROVE  LocalTypeOK'
BY DEF LocalTypeOK, Leave, Places, Exits

LEMMA MoveType ==
  ASSUME LocalTypeOK, NEW p \in Runs, NEW place \in Places, Move(p, place)
  PROVE  LocalTypeOK'
BY DEF LocalTypeOK, Move

LEMMA AnswerType ==
  ASSUME LocalTypeOK, NEW p \in Runs, NEW status \in Statuses, Answer(p, status)
  PROVE  LocalTypeOK'
<1>1. 0 \in Statuses
  BY DEF Statuses
<1>2. QED
  BY <1>1, ExitType DEF Answer

\* A command names a bundle unless it validates.
LEMMA NamedType ==
  ASSUME TypeOK, LocalTypeOK, NEW p \in Runs, Is(p, Readers)
  PROVE  command[p].of \in RunId /\ Named(p) \in Dir
<1>1. command[p] \in Commands /\ command[p].verb # "validate"
  BY DEF LocalTypeOK, Is, Readers
<1>2. command[p].of \in RunId
  BY <1>1 DEF Commands
<1>3. QED
  BY <1>2 DEF Named, TypeOK

LEMMA LocalTypeStep ==
  ASSUME TypeOK, LocalTypeOK, [CNext]_allVars,
         \A p \in Runs : at[p] \in {"open", "verdict"} => Is(p, Readers)
  PROVE  LocalTypeOK'
<1>s. 0 \in Statuses /\ 1 \in Statuses /\ 3 \in Statuses /\ 4 \in Statuses /\ 5 \in Statuses
  BY DEF Statuses
<1>e. \A v \in Verdict : ExitCode[v] \in Statuses
  BY DEF Verdict, ExitCode, Statuses
<1>u. EX_USAGE \in Statuses /\ Interrupted \in Statuses
  BY DEF Statuses
<1>p. \A x \in {"run", "open", "seal", "files", "manifest", "compare"} : x \in Places
  BY DEF Places
<1>r. ASSUME NEW p \in Runs, Raise(p) PROVE LocalTypeOK'
  BY <1>r, <1>s, ExitType DEF Raise
<1>1. ASSUME NEW p \in Runs, LoadManifest(p) PROVE LocalTypeOK'
  BY <1>1, <1>r, <1>u, <1>p, ExitType, MoveType DEF LoadManifest
<1>2. ASSUME NEW p \in Runs, RunStep(p) PROVE LocalTypeOK'
  BY <1>2 DEF RunStep, cliVars, LocalTypeOK
<1>3. ASSUME NEW p \in Runs, RunReturns(p) PROVE LocalTypeOK'
  <2>1. ResultVerdict(p) \in Verdict
    BY DEF ResultVerdict, TypeOK, Verdict
  <2>2. QED
    BY <1>3, <2>1, <1>e, <1>p, AnswerType, MoveType DEF RunReturns
<1>4. ASSUME NEW p \in Runs, RunRaises(p) PROVE LocalTypeOK'
  BY <1>4, <1>r DEF RunRaises
<1>5. ASSUME NEW p \in Runs, Resolve(p) PROVE LocalTypeOK'
  BY <1>5, <1>u, <1>p, ExitType, MoveType DEF Resolve
<1>6. ASSUME NEW p \in Runs, Open(p) PROVE LocalTypeOK'
  <2>1. command[p].verb \in Readers
    BY <1>6 DEF Open, Is
  <2>2. Is(p, {"verify", "reproduce"}) \/ command[p].verb \in Places
    BY <2>1 DEF Is, Places, Readers
  <2>3. QED
    BY <1>6, <1>r, <1>p, <2>2, MoveType DEF Open
<1>7. ASSUME NEW p \in Runs, VerifySeal(p) PROVE LocalTypeOK'
  BY <1>7, <1>r, <1>s, <1>p, AnswerType, MoveType DEF VerifySeal
<1>8. ASSUME NEW p \in Runs, VerifyFiles(p) PROVE LocalTypeOK'
  BY <1>8, <1>s, AnswerType, MoveType DEF VerifyFiles, Places
<1>9. ASSUME NEW p \in Runs, ReadVerdict(p) PROVE LocalTypeOK'
  <2>1. CASE ~Readable(Named(p), {"verdict.json"})
    BY <1>9, <2>1, <1>r DEF ReadVerdict
  <2>2. CASE Readable(Named(p), {"verdict.json"})
    <3>1. Named(p) \in Dir
      BY <1>9, NamedType DEF ReadVerdict
    <3>2. Named(p).file["verdict.json"] \in Content
      BY <2>2, <3>1, VerdictFile DEF Readable, Dir
    <3>3. Named(p).file["verdict.json"].verdict \in Verdict \cup {None}
      BY <3>2 DEF Content
    <3>4. recorded' \in [Runs -> Verdict \cup {None}] /\ command' = command
      BY <1>9, <2>2, <3>3 DEF ReadVerdict, LocalTypeOK
    <3>5. command[p].pipe \in BOOLEAN
      BY DEF LocalTypeOK, Commands
    <3>6. [status |-> 0, broken |-> ~command[p].pipe] \in Exits
      BY <3>5, <1>s DEF Exits
    <3>7. at' \in [Runs -> Places]
      BY <1>9, <2>2 DEF ReadVerdict, LocalTypeOK, Places
    <3>8. exit' \in [Runs -> Exits \cup {None}]
      BY <1>9, <2>2, <3>6 DEF ReadVerdict, LocalTypeOK
    <3>9. QED
      BY <3>4, <3>7, <3>8 DEF LocalTypeOK
  <2>3. QED
    BY <2>1, <2>2
<1>10. ASSUME NEW p \in Runs, Report(p) PROVE LocalTypeOK'
  BY <1>10, <1>r, <1>s, AnswerType, ExitType DEF Report
<1>11. ASSUME NEW p \in Runs, FindManifest(p) PROVE LocalTypeOK'
  BY <1>11, <1>r, <1>s, <1>p, AnswerType, MoveType DEF FindManifest
<1>12. ASSUME NEW p \in Runs, CompareRuns(p) PROVE LocalTypeOK'
  BY <1>12, <1>r, <1>s, AnswerType DEF CompareRuns
<1>13. ASSUME NEW p \in Runs, Interrupt(p) PROVE LocalTypeOK'
  BY <1>13, <1>u, ExitType DEF Interrupt
<1>14. CASE UNCHANGED allVars
  BY <1>14 DEF allVars, cliVars, LocalTypeOK
<1>15. QED
  BY <1>1, <1>2, <1>3, <1>4, <1>5, <1>6, <1>7, <1>8, <1>9, <1>10, <1>11, <1>12, <1>13, <1>14
     DEF CNext, CommandStep

-----------------------------------------------------------------------------
(* What a step leaves alone.                                                 *)

\* A step of a run keeps every manifest.
LEMMA PolicyFrame == [Next]_vars => policy' = policy
<1>1. ASSUME NEW p \in Runs, Claim(p) PROVE policy' = policy
  BY <1>1 DEF Claim, Start, ProbeTaken, ProbeFree, CreateRefuses, CreateProceeds, MakeSignals,
              SignalsExist, ParentMissing, MakeParent, MkdirFails, nameVars
<1>2. ASSUME NEW p \in Runs, Judge(p) PROVE policy' = policy
  BY <1>2 DEF Judge, Load, FirstTryFails, CheckValid, CheckInvalid, RunOracles, nameVars
<1>3. ASSUME NEW p \in Runs, Record(p) PROVE policy' = policy
  BY <1>3 DEF Record, WriteFile, FinalizeStarts, WriteChecksums, WriteSeal, MakeReadOnly,
              WriteFails, nameVars
<1>4. ASSUME NEW p \in Runs, Die(p) PROVE policy' = policy
  BY <1>4 DEF Die, nameVars
<1>5. QED
  BY <1>1, <1>2, <1>3, <1>4 DEF Next, Step, vars, nameVars

\* The variables of command q, its run included, are as they were.
Still(q) ==
  /\ at'[q] = at[q] /\ exit'[q] = exit[q] /\ recorded'[q] = recorded[q]
  /\ pc'[q] = pc[q] /\ bundle'[q] = bundle[q] /\ verdict'[q] = verdict[q]

\* The bundle a reader stands on stays as it is, whatever run takes a step.
LEMMA NamedStays ==
  ASSUME IInv, LocalTypeOK, [Next]_vars, command' = command,
         NEW q \in Runs, Is(q, Readers), Verified(Named(q))
  PROVE  /\ Verified(Named(q))' /\ Named(q).file' = Named(q).file
         /\ SameManifest(q)' = SameManifest(q)
<1>1. command[q].of \in RunId
  BY NamedType DEF IInv
<1>2. Verified(dirs'[command[q].of]) /\ dirs'[command[q].of].file = dirs[command[q].of].file
  BY <1>1, SealedStays DEF Named
<1>3. QED
  BY <1>2, PolicyFrame DEF Named, SameManifest

LEMMA StillKeeps ==
  ASSUME IInv, LocalTypeOK, [Next]_vars, command' = command,
         NEW q \in Runs, CommandInv(q), Still(q)
  PROVE  CommandInv(q)'
<1>1. \A S : (Is(q, S)' <=> Is(q, S)) /\ (Exited(q, S)' <=> Exited(q, S))
  BY DEF Is, Exited, Still
<1>2. SameVerdict(q)' = SameVerdict(q)
  BY DEF SameVerdict, ResultVerdict, Still
<1>3. Placed(q)' /\ Settled(q)'
  BY <1>1 DEF CommandInv, Placed, Settled, Still
<1>4. Standing(q)'
  <2>1. CASE Is(q, {"verify", "reproduce"}) /\ Verified(Named(q))
    BY <2>1, <1>1, NamedStays DEF CommandInv, Standing, Still, Readers, Is
  <2>2. CASE ~(Is(q, {"verify", "reproduce"}) /\ Verified(Named(q)))
    BY <2>2, <1>1 DEF CommandInv, Standing, Still
  <2>3. QED
    BY <2>1, <2>2
<1>5. Again(q)'
  <2>1. CASE Is(q, {"reproduce"}) /\ Verified(Named(q))
    <3>1. SameManifest(q)' = SameManifest(q)
      BY <2>1, NamedStays DEF Readers, Is
    <3>2. QED
      BY <2>1, <3>1, <1>1, <1>2 DEF CommandInv, Again, Still
  <2>2. CASE Is(q, {"reproduce"}) /\ ~Verified(Named(q))
    <3>1. at[q] \notin {"run", "compare"} /\ ~Exited(q, {0, 1})
      BY <2>2 DEF CommandInv, Standing, Is, Exited
    <3>2. QED
      BY <3>1, <1>1 DEF Again, Still
  <2>3. CASE ~Is(q, {"reproduce"})
    BY <2>3, <1>1 DEF Again
  <2>4. QED
    BY <2>1, <2>2, <2>3
<1>6. QED
  BY <1>3, <1>4, <1>5 DEF CommandInv

-----------------------------------------------------------------------------
(* A seal that holds is that of a whole record.                              *)

LEMMA SealHoldsVerifies ==
  ASSUME IInv, NEW i \in RunId, SealHolds(dirs[i])
  PROVE  Verified(dirs[i])
<1>1. PICK p \in Runs : bundle[p] = i /\ SealedBy(dirs[i], p)
  BY SealedIsWhole DEF SealHolds, Unsealed
<1>2. dirs[i] \in Dir
  BY DEF IInv, TypeOK
<1>3. QED
  BY <1>1, <1>2, SealedVerifies DEF SealedBy

\* Ending without a finding, or with one of a command that finds nothing.
LEMMA LeaveKeeps ==
  ASSUME LocalTypeOK, NEW p \in Runs,
         NEW status \in Statuses, NEW broken \in BOOLEAN, Leave(p, status, broken),
         broken \/ status \in {5, EX_USAGE, Interrupted} \/ Is(p, {"report", "render"})
  PROVE  CommandInv(p)'
<1>1. at'[p] = "over" /\ exit'[p] = [status |-> status, broken |-> broken] /\ command' = command
  BY DEF Leave, LocalTypeOK
<1>2. exit'[p] # None
  BY <1>1, ExitAssumption DEF Exits
<1>3. Placed(p)'
  BY <1>1, <1>2 DEF Placed
<1>4. ~Exited(p, 0..4)' \/ Is(p, {"report", "render"})'
  BY <1>1 DEF Exited, EX_USAGE, Interrupted, Is
<1>5. \/ ~Exited(p, {0, 1, 3, 4})' /\ ~Exited(p, {0, 1})'
      \/ Is(p, {"report", "render"})'
  BY <1>4 DEF Exited
<1>6. QED
  BY <1>1, <1>3, <1>4, <1>5 DEF CommandInv, Standing, Again, Settled, Is

\* Going on: no exit status is there to speak of.
LEMMA MoveKeeps ==
  ASSUME LocalTypeOK, NEW p \in Runs, CommandInv(p), at[p] # "over", UNCHANGED vars,
         NEW place \in Places \ {"over"}, at'[p] = place, UNCHANGED <<command, exit>>,
         place \notin {"run", "compare"} => pc[p] = "idle",
         place = "compare" => pc[p] \in {"returned", "write_error"},
         place = "run" => Is(p, {"validate", "reproduce"}),
         place \in {"seal", "files", "verdict"} => Is(p, {"verify", "reproduce"}),
         place \in {"manifest", "compare"} => Is(p, {"reproduce"}),
         place = "open" => Is(p, Readers),
         place \in {"report", "render"} => Is(p, {"report", "render"}),
         Standing(p)', Again(p)'
  PROVE  CommandInv(p)'
<1>1. exit'[p] = None /\ pc' = pc /\ command' = command
  BY DEF CommandInv, Placed, vars
<1>2. Placed(p)' /\ Settled(p)'
  BY <1>1 DEF Placed, Settled, Exited, Is
<1>3. QED
  BY <1>2 DEF CommandInv

-----------------------------------------------------------------------------
(* The invariant of the commands, one action at a time.                      *)

LEMMA RunStepKeeps ==
  ASSUME IInv, IInv', LocalTypeOK, NEW p \in Runs, CommandInv(p), RunStep(p)
  PROVE  CommandInv(p)'
<1>1. at[p] = "run" /\ UNCHANGED <<command, at, recorded, exit>> /\ Step(p)
  BY DEF RunStep, cliVars
<1>2. [Next]_vars /\ ~Exited(p, {0, 1, 3, 4}) /\ ~Exited(p, {0, 1}) /\ ~Exited(p, 0..4)
  BY <1>1 DEF Next, CommandInv, Placed, Exited
<1>t. TypeOK
  BY DEF IInv
<1>3. \A S : (Is(p, S)' <=> Is(p, S)) /\ (Exited(p, S)' <=> Exited(p, S))
  BY <1>1 DEF Is, Exited
<1>4. Placed(p)' /\ Settled(p)'
  BY <1>1, <1>2, <1>3 DEF CommandInv, Placed, Settled
<1>5. CASE ~Is(p, {"reproduce"})
  <2>1. ~Is(p, {"verify", "reproduce"})
    BY <1>1, <1>5 DEF CommandInv, Placed, Is
  <2>2. QED
    BY <1>3, <1>4, <1>5, <2>1 DEF CommandInv, Standing, Again
<1>6. CASE Is(p, {"reproduce"})
  <2> DEFINE i == command[p].of
  <2>1. Is(p, Readers) /\ Is(p, {"verify", "reproduce"})
    BY <1>6 DEF Is, Readers
  <2>2. Verified(Named(p)) /\ SameManifest(p) /\ bundle[p] # i
          /\ recorded[p] = Named(p).file["verdict.json"].verdict
    BY <1>1, <1>6, <2>1 DEF CommandInv, Standing, Again
  <2>3. /\ Verified(Named(p))' /\ Named(p).file' = Named(p).file
        /\ SameManifest(p)' = SameManifest(p)
    BY <1>1, <1>2, <2>1, <2>2, NamedStays
  <2>4. bundle'[p] # i
    <3>1. i \in RunId
      BY <2>1, NamedType DEF IInv
    <3>2. PICK q \in Runs : bundle[q] = i
      BY <2>2, <3>1, VerifiedIsSealed DEF Named
    <3>3. q # p /\ bundle'[q] = i
      BY <1>1, <1>t, <2>2, <3>2, LocalFrame
    <3>4. QED
      BY <3>1, <3>3, ValueAssumption DEF IInv
  <2>5. Standing(p)' /\ Again(p)'
    BY <1>1, <1>2, <1>3, <2>2, <2>3, <2>4 DEF Standing, Again
  <2>6. QED
    BY <1>4, <2>5 DEF CommandInv
<1>7. QED
  BY <1>5, <1>6

\* The status a run ends with is that of its verdict.
LEMMA RunReturnsKeeps ==
  ASSUME IInv, LocalTypeOK, NEW p \in Runs, CommandInv(p), RunReturns(p)
  PROVE  CommandInv(p)'
<1>0. at[p] = "run" /\ pc[p] \in {"returned", "write_error"} /\ UNCHANGED vars
  BY DEF RunReturns
<1>1. CASE Is(p, {"validate"})
  <2>1. Answer(p, ExitCode[ResultVerdict(p)])
    BY <1>1 DEF RunReturns
  <2>2. ResultVerdict(p) \in Verdict
    BY DEF ResultVerdict, IInv, TypeOK, Verdict
  <2>3. ExitCode[ResultVerdict(p)] \in Statuses /\ 0 \in Statuses
    BY <2>2 DEF Verdict, ExitCode, Statuses
  <2>4. CASE ~command[p].pipe
    BY <2>1, <2>3, <2>4, LeaveKeeps DEF Answer
  <2>5. CASE command[p].pipe
    <3>1. /\ at'[p] = "over" /\ command' = command
          /\ exit'[p] = [status |-> ExitCode[ResultVerdict(p)], broken |-> FALSE]
      BY <2>1, <2>5 DEF Answer, Leave, LocalTypeOK
    <3>2. exit'[p] # None
      <4>1. exit'[p] \in Exits
        BY <3>1, <2>3 DEF Exits
      <4>2. QED
        BY <4>1, ExitAssumption
    <3>3. ExitCode[ResultVerdict(p)] \in 0..4 => ResultVerdict(p) # "ERROR"
      BY <2>2 DEF Verdict, ExitCode
    <3>4. Settled(p)'
      BY <1>0, <3>1, <3>3 DEF Settled, Exited, ResultVerdict, vars, resultVars
    <3>5. QED
      BY <1>1, <3>1, <3>2, <3>4 DEF CommandInv, Placed, Standing, Again, Is
  <2>6. QED
    BY <2>4, <2>5
<1>2. CASE ~Is(p, {"validate"})
  <2>1. Is(p, {"reproduce"}) /\ Move(p, "compare")
    BY <1>0, <1>2 DEF RunReturns, CommandInv, Placed, Is
  <2>2. at'[p] = "compare" /\ UNCHANGED <<command, recorded, exit>>
    BY <2>1 DEF Move, LocalTypeOK
  <2>3. Standing(p)' /\ Again(p)'
    BY <1>0, <2>1, <2>2 DEF CommandInv, Placed, Standing, Again, Exited, Is, SameManifest, Named,
                            vars, nameVars, dirVars
  <2>4. QED
    BY <1>0, <2>1, <2>2, <2>3, MoveKeeps DEF Places, Is
<1>3. QED
  BY <1>1, <1>2

\* The readers up to the recorded verdict.
LEMMA ReadingKeeps ==
  ASSUME IInv, LocalTypeOK, NEW p \in Runs, CommandInv(p),
         \/ Resolve(p) \/ Open(p) \/ VerifySeal(p) \/ VerifyFiles(p) \/ ReadVerdict(p) \/ Report(p)
  PROVE  CommandInv(p)'
<1>s. 0 \in Statuses /\ 1 \in Statuses /\ 5 \in Statuses /\ EX_USAGE \in Statuses
  BY DEF Statuses
<1>v. UNCHANGED vars /\ at[p] \in {"parse", "open", "seal", "files", "verdict", "report", "render"}
  BY DEF Resolve, Open, VerifySeal, VerifyFiles, ReadVerdict, Report
<1>i. pc[p] = "idle" /\ exit[p] = None
  BY <1>v DEF CommandInv, Placed
<1>r. ASSUME Raise(p) PROVE CommandInv(p)'
  BY <1>r, <1>s, LeaveKeeps DEF Raise
<1>a. ASSUME Answer(p, 5) PROVE CommandInv(p)'
  BY <1>a, <1>s, LeaveKeeps DEF Answer
<1>m. ASSUME NEW place, Move(p, place)
      PROVE  at'[p] = place /\ UNCHANGED <<command, recorded, exit>>
  BY <1>m DEF Move, LocalTypeOK
<1>1. CASE Resolve(p)
  <2>1. CASE Leave(p, EX_USAGE, FALSE)
    BY <2>1, <1>s, LeaveKeeps
  <2>2. CASE Move(p, "open")
    <3>1. at'[p] = "open" /\ UNCHANGED <<command, recorded, exit>> /\ Is(p, Readers)
      BY <2>2, <1>m, <1>1 DEF Resolve
    <3>2. Standing(p)' /\ Again(p)'
      BY <3>1, <1>i DEF Standing, Again, Exited
    <3>3. QED
      BY <3>1, <3>2, <1>v, <1>i, MoveKeeps DEF Places
  <2>3. QED
    BY <1>1, <2>1, <2>2 DEF Resolve
<1>2. CASE Open(p)
  <2>1. CASE Raise(p)
    BY <2>1, <1>r
  <2>2. CASE ~Raise(p)
    <3> DEFINE place == IF Is(p, {"verify", "reproduce"}) THEN "seal" ELSE command[p].verb
    <3>1. Move(p, place) /\ Is(p, Readers) /\ at[p] = "open"
      BY <2>2, <1>2 DEF Open, CommandInv, Placed
    <3>2. at'[p] = place /\ UNCHANGED <<command, recorded, exit>>
      BY <3>1, <1>m
    <3>3. \/ place = "seal" /\ Is(p, {"verify", "reproduce"})
          \/ place \in {"report", "render"} /\ Is(p, {"report", "render"})
      BY <3>1 DEF Is, Readers
    <3>4. Standing(p)' /\ Again(p)'
      BY <3>2, <3>3, <1>i DEF Standing, Again, Exited
    <3> HIDE DEF place
    <3>5. place \in Places \ {"over"}
      BY <3>3 DEF Places
    <3>6. QED
      BY <3>1, <3>2, <3>3, <3>4, <3>5, <1>v, <1>i, MoveKeeps
  <2>3. QED
    BY <2>1, <2>2
<1>3. CASE VerifySeal(p)
  <2>0. Is(p, {"verify", "reproduce"}) /\ Is(p, Readers)
    BY <1>3 DEF VerifySeal, CommandInv, Placed, Is, Readers
  <2>1. CASE SealHolds(Named(p))
    <3>1. at'[p] = "files" /\ UNCHANGED <<command, recorded, exit>>
      BY <1>3, <2>1, <1>m DEF VerifySeal
    <3>2. Verified(Named(p))
      BY <2>0, <2>1, NamedType, SealHoldsVerifies DEF Named, IInv
    <3>3. Standing(p)' /\ Again(p)'
      BY <3>1, <3>2, <1>i, <1>v DEF Standing, Again, Exited, Named, Is, vars, dirVars
    <3>4. QED
      BY <3>1, <3>3, <2>0, <1>v, <1>i, MoveKeeps DEF Places
  <2>2. CASE ~SealHolds(Named(p))
    BY <1>3, <2>2, <1>r, <1>a DEF VerifySeal
  <2>3. QED
    BY <2>1, <2>2
<1>4. CASE VerifyFiles(p)
  <2>0. Is(p, {"verify", "reproduce"}) /\ Is(p, Readers) /\ at[p] = "files"
    BY <1>4 DEF VerifyFiles, CommandInv, Placed, Is, Readers
  <2>1. CASE Move(p, "verdict")
    <3>1. at'[p] = "verdict" /\ UNCHANGED <<command, recorded, exit>>
      BY <2>1, <1>m
    <3>2. Verified(Named(p))
      BY <2>0 DEF CommandInv, Standing
    <3>3. Standing(p)' /\ Again(p)'
      BY <3>1, <3>2, <1>i, <1>v DEF Standing, Again, Exited, Named, Is, vars, dirVars
    <3>4. QED
      BY <3>1, <3>3, <2>0, <1>v, <1>i, MoveKeeps DEF Places
  <2>2. QED
    BY <1>4, <2>1, <1>a DEF VerifyFiles
<1>5. CASE ReadVerdict(p)
  <2>0. Is(p, {"verify", "reproduce"}) /\ Is(p, Readers) /\ at[p] = "verdict"
    BY <1>5 DEF ReadVerdict, CommandInv, Placed, Is, Readers
  <2>1. Verified(Named(p))
    BY <2>0 DEF CommandInv, Standing
  <2>2. CASE ~Readable(Named(p), {"verdict.json"})
    BY <1>5, <2>2, <1>r DEF ReadVerdict
  <2>3. CASE Readable(Named(p), {"verdict.json"})
    <3>1. recorded'[p] = Named(p).file["verdict.json"].verdict /\ command' = command
      BY <1>5, <2>3 DEF ReadVerdict, LocalTypeOK
    <3>2. Verified(Named(p))' /\ recorded'[p] = Named(p).file["verdict.json"].verdict'
      BY <2>1, <3>1, <1>v DEF Named, vars, dirVars
    <3>3. CASE Is(p, {"verify"}) \/ ~command[p].pipe
      <4>1. at'[p] = "over" /\ exit'[p] = [status |-> 0, broken |-> ~command[p].pipe]
        BY <1>5, <2>3, <3>3 DEF ReadVerdict, LocalTypeOK
      <4>2. exit'[p] # None
        <5>1. command[p].pipe \in BOOLEAN
          BY DEF LocalTypeOK, Commands
        <5>2. exit'[p] \in Exits
          BY <4>1, <5>1, <1>s DEF Exits
        <5>3. QED
          BY <5>2, ExitAssumption
      <4>3. Placed(p)'
        BY <4>1, <4>2 DEF Placed
      <4>4. Standing(p)' /\ Settled(p)'
        BY <3>1, <3>2, <4>1, <2>0 DEF Standing, Settled, Is
      <4>5. Again(p)'
        <5>1. CASE Is(p, {"verify"})
          BY <3>1, <5>1 DEF Again, Is
        <5>2. CASE ~command[p].pipe
          <6>1. exit'[p].broken = ~command[p].pipe
            BY <4>1
          <6>2. ~Exited(p, {0, 1})' /\ at'[p] = "over"
            BY <4>1, <5>2, <6>1 DEF Exited
          <6>3. QED
            BY <6>2 DEF Again
        <5>3. QED
          BY <3>3, <5>1, <5>2
      <4>6. QED
        BY <4>3, <4>4, <4>5 DEF CommandInv
    <3>4. CASE ~(Is(p, {"verify"}) \/ ~command[p].pipe)
      <4>1. at'[p] = "manifest" /\ UNCHANGED <<command, exit>> /\ Is(p, {"reproduce"})
        BY <1>5, <2>0, <2>3, <3>4 DEF ReadVerdict, LocalTypeOK, Is
      <4>2. Standing(p)' /\ Again(p)'
        BY <3>2, <4>1, <1>i DEF Standing, Again, Exited
      <4>3. QED
        BY <4>1, <4>2, <1>v, <1>i, MoveKeeps DEF Places
    <3>5. QED
      BY <3>3, <3>4
  <2>4. QED
    BY <2>2, <2>3
<1>6. CASE Report(p)
  <2>1. Is(p, {"report", "render"})
    BY <1>6 DEF Report, CommandInv, Placed
  <2>2. QED
    BY <1>6, <2>1, <1>s, <1>r, LeaveKeeps DEF Report, Answer
<1>7. QED
  BY <1>1, <1>2, <1>3, <1>4, <1>5, <1>6

\* The rest of reproduce: the manifest, and the comparison with the run made again.
LEMMA ReproducingKeeps ==
  ASSUME IInv, LocalTypeOK, NEW p \in Runs, CommandInv(p), FindManifest(p) \/ CompareRuns(p)
  PROVE  CommandInv(p)'
<1>s. 0 \in Statuses /\ 1 \in Statuses /\ 3 \in Statuses /\ 4 \in Statuses /\ 5 \in Statuses
  BY DEF Statuses
<1>v. UNCHANGED vars /\ at[p] \in {"manifest", "compare"} /\ Is(p, {"reproduce"})
        /\ Is(p, {"verify", "reproduce"}) /\ Is(p, Readers)
  BY DEF FindManifest, CompareRuns, CommandInv, Placed, Is, Readers
<1>i. /\ Verified(Named(p)) /\ recorded[p] = Named(p).file["verdict.json"].verdict
      /\ command[p].of \in RunId
  BY <1>v, NamedType DEF CommandInv, Standing, IInv
<1>r. ASSUME Raise(p) PROVE CommandInv(p)'
  BY <1>r, <1>s, LeaveKeeps DEF Raise
<1>a. ASSUME NEW status \in {0, 1, 3, 4}, Answer(p, status),
             status \in {0, 1} => /\ SameManifest(p) /\ bundle[p] # command[p].of
                                  /\ pc[p] \in {"returned", "write_error"}
                                  /\ (status = 0) <=> SameVerdict(p)
      PROVE  CommandInv(p)'
  <2>0. status \in Statuses
    BY <1>s
  <2>1. CASE ~command[p].pipe
    BY <1>a, <1>s, <2>1, LeaveKeeps DEF Answer
  <2>2. CASE command[p].pipe
    <3>1. /\ at'[p] = "over" /\ UNCHANGED <<command, recorded>>
          /\ exit'[p] = [status |-> status, broken |-> FALSE]
      BY <1>a, <2>2 DEF Answer, Leave, LocalTypeOK
    <3>2. exit'[p] # None
      <4>1. exit'[p] \in Exits
        BY <3>1, <2>0 DEF Exits
      <4>2. QED
        BY <4>1, ExitAssumption
    <3>3. Placed(p)'
      BY <3>1, <3>2 DEF Placed
    <3>4. Standing(p)'
      BY <3>1, <1>i, <1>v DEF Standing, Named, vars, dirVars
    <3>5. SameManifest(p)' = SameManifest(p) /\ SameVerdict(p)' = SameVerdict(p)
      BY <3>1, <1>v DEF SameManifest, SameVerdict, ResultVerdict, Named, vars, dirVars, nameVars,
                        resultVars
    <3>6. Exited(p, {0, 1})' => status \in {0, 1} /\ exit'[p].status = status
      BY <3>1 DEF Exited
    <3>7. Again(p)'
      BY <3>1, <3>5, <3>6, <1>a, <1>v DEF Again, vars
    <3>8. Settled(p)'
      BY <3>1, <1>v DEF Settled, Is
    <3>9. QED
      BY <3>3, <3>4, <3>7, <3>8 DEF CommandInv
  <2>3. QED
    BY <2>1, <2>2
<1>1. CASE FindManifest(p)
  <2>1. pc[p] = "idle" /\ exit[p] = None
    BY <1>1 DEF FindManifest, CommandInv, Placed
  <2>2. CASE SameManifest(p) /\ Move(p, "run")
    <3>1. at'[p] = "run" /\ UNCHANGED <<command, recorded, exit>>
      BY <2>2 DEF Move, LocalTypeOK
    <3>2. bundle[p] = None
      BY <2>1 DEF IInv, RunInv
    <3>3. bundle[p] # command[p].of
      BY <3>2, <1>i, ValueAssumption
    <3>4. SameManifest(p)' = SameManifest(p)
      BY <3>1, <1>v DEF SameManifest, Named, vars, dirVars, nameVars
    <3>5. Again(p)'
      BY <3>1, <3>3, <3>4, <2>1, <2>2, <1>v DEF Again, Exited, vars
    <3>6. Standing(p)'
      BY <3>1, <1>i, <1>v DEF Standing, Named, vars, dirVars
    <3>7. Is(p, {"validate", "reproduce"}) /\ at[p] # "over"
      BY <1>v DEF Is
    <3>8. QED
      BY <3>1, <3>5, <3>6, <3>7, <1>v, MoveKeeps DEF Places
  <2>3. CASE Answer(p, 3) \/ Answer(p, 4)
    BY <2>3, <1>a
  <2>4. QED
    BY <1>1, <1>r, <2>2, <2>3 DEF FindManifest
<1>2. CASE CompareRuns(p)
  <2>1. pc[p] \in {"returned", "write_error"} /\ SameManifest(p) /\ bundle[p] # command[p].of
    BY <1>2, <1>v DEF CompareRuns, CommandInv, Placed, Again
  <2>2. Raise(p) \/ Answer(p, IF SameVerdict(p) THEN 0 ELSE 1)
    BY <1>2 DEF CompareRuns
  <2>3. CASE Answer(p, IF SameVerdict(p) THEN 0 ELSE 1)
    BY <2>1, <2>3, <1>a
  <2>4. QED
    BY <2>2, <2>3, <1>r
<1>3. QED
  BY <1>1, <1>2

\* What is left: the manifest of a validate, a refusal, an interrupt.
LEMMA OthersKeep ==
  ASSUME LocalTypeOK, NEW p \in Runs, CommandInv(p),
         LoadManifest(p) \/ RunRaises(p) \/ Interrupt(p)
  PROVE  CommandInv(p)'
<1>s. 5 \in Statuses /\ EX_USAGE \in Statuses /\ Interrupted \in Statuses
  BY DEF Statuses
<1>1. CASE \E status \in {5, EX_USAGE, Interrupted} : Leave(p, status, FALSE)
  BY <1>1, <1>s, LeaveKeeps
<1>2. CASE LoadManifest(p) /\ Move(p, "run")
  <2>1. /\ at'[p] = "run" /\ UNCHANGED <<command, recorded, exit>> /\ UNCHANGED vars
        /\ Is(p, {"validate"}) /\ at[p] = "parse"
    BY <1>2 DEF Move, LocalTypeOK, LoadManifest
  <2>2. Standing(p)' /\ Again(p)' /\ Is(p, {"validate", "reproduce"})
    BY <2>1 DEF Standing, Again, Is
  <2>3. QED
    BY <2>1, <2>2, MoveKeeps DEF Places
<1>3. QED
  BY <1>1, <1>2 DEF LoadManifest, RunRaises, Interrupt, Raise

-----------------------------------------------------------------------------
(* The theorems.                                                             *)

\* Every action keeps the variables of the other commands, and of their runs.
LEMMA OthersStill ==
  ASSUME IInv, LocalTypeOK, NEW p \in Runs, NEW q \in Runs \ {p}, CommandStep(p) \/ Interrupt(p)
  PROVE  Still(q) /\ command' = command
<1>t. TypeOK
  BY DEF IInv
<1>1. at'[q] = at[q] /\ exit'[q] = exit[q] /\ recorded'[q] = recorded[q] /\ command' = command
  <2>1. CASE RunStep(p)
    BY <2>1 DEF RunStep, cliVars
  <2>2. CASE ReadVerdict(p)
    BY <2>2 DEF ReadVerdict, Raise, Leave, LocalTypeOK
  <2>3. ASSUME NEW place, Move(p, place)
        PROVE  /\ at'[q] = at[q] /\ exit'[q] = exit[q] /\ recorded'[q] = recorded[q]
               /\ command' = command
    BY <2>3 DEF Move, LocalTypeOK
  <2>4. ASSUME NEW status, NEW broken, Leave(p, status, broken)
        PROVE  /\ at'[q] = at[q] /\ exit'[q] = exit[q] /\ recorded'[q] = recorded[q]
               /\ command' = command
    BY <2>4 DEF Leave, LocalTypeOK
  <2>5. QED
    BY <2>1, <2>2, <2>3, <2>4
       DEF CommandStep, LoadManifest, RunReturns, RunRaises, Resolve, Open, VerifySeal,
           VerifyFiles, Report, FindManifest, CompareRuns, Interrupt, Raise, Answer
<1>2. pc'[q] = pc[q] /\ bundle'[q] = bundle[q] /\ verdict'[q] = verdict[q]
  <2>1. Step(p) \/ Die(p) \/ UNCHANGED vars
    BY DEF CommandStep, LoadManifest, RunStep, RunReturns, RunRaises, Resolve, Open, VerifySeal,
           VerifyFiles, ReadVerdict, Report, FindManifest, CompareRuns, Interrupt
  <2>2. CASE Step(p) \/ Die(p)
    BY <1>t, <2>2, LocalFrame
  <2>3. CASE UNCHANGED vars
    BY <2>3 DEF vars, resultVars
  <2>4. QED
    BY <2>1, <2>2, <2>3
<1>3. QED
  BY <1>1, <1>2 DEF Still

CommandsInv == LocalTypeOK /\ \A p \in Runs : CommandInv(p)

LEMMA CommandsInvInit == CInit => CommandsInv
<1> SUFFICES ASSUME CInit PROVE CommandsInv
  OBVIOUS
<1>1. LocalTypeOK
  BY InvocationAssumption DEF CInit, LocalTypeOK, Places
<1>2. ASSUME NEW p \in Runs PROVE CommandInv(p)
  BY <1>2 DEF CInit, Init, CommandInv, Placed, Standing, Again, Settled, Exited
<1>3. QED
  BY <1>1, <1>2 DEF CommandsInv

LEMMA CommandsInvStep ==
  ASSUME IInv, IInv', CommandsInv, [CNext]_allVars
  PROVE  CommandsInv'
<1>t. TypeOK /\ LocalTypeOK /\ [Next]_vars
  BY CommandIsRun DEF IInv, CommandsInv
<1>1. LocalTypeOK'
  <2>1. \A p \in Runs : at[p] \in {"open", "verdict"} => Is(p, Readers)
    BY DEF CommandsInv, CommandInv, Placed, Is, Readers
  <2>2. QED
    BY <1>t, <2>1, LocalTypeStep
<1>2. ASSUME NEW p \in Runs, CommandStep(p) \/ Interrupt(p), NEW q \in Runs
      PROVE  CommandInv(q)'
  <2>1. CASE q = p
    BY <1>2, <1>t, <2>1, RunStepKeeps, RunReturnsKeeps, ReadingKeeps, ReproducingKeeps, OthersKeep
       DEF CommandStep, CommandsInv
  <2>2. CASE q # p
    BY <1>2, <1>t, <2>2, OthersStill, StillKeeps DEF CommandsInv
  <2>3. QED
    BY <2>1, <2>2
<1>3. ASSUME UNCHANGED allVars, NEW q \in Runs PROVE CommandInv(q)'
  <2>1. Still(q) /\ command' = command
    BY <1>3 DEF allVars, vars, cliVars, resultVars, Still
  <2>2. QED
    BY <1>t, <2>1, StillKeeps DEF CommandsInv
<1>4. QED
  BY <1>1, <1>2, <1>3 DEF CommandsInv, CNext

\* How far every command is, and what it stands on, for any commands.
THEOREM CommandInvariant == CSpec => [](IInv /\ CommandsInv)
<1>1. CSpec => []IInv
  BY CommandsAreRuns, Invariant, PTL
<1>2. CInit => CommandsInv
  BY CommandsInvInit
<1>3. IInv /\ IInv' /\ CommandsInv /\ [CNext]_allVars => CommandsInv'
  BY CommandsInvStep
<1>4. QED
  BY <1>1, <1>2, <1>3, PTL DEF CSpec

\* Every variable of the commands and of their runs keeps its type.
THEOREM CommandTypeCorrect == CSpec => []CTypeOK
<1>1. IInv /\ CommandsInv => CTypeOK
  BY DEF IInv, CommandsInv, CTypeOK
<1>2. QED
  BY <1>1, CommandInvariant, PTL

\* Whatever a reader finds of a bundle stays true of it.
THEOREM ReadingIsLasting == CSpec => []ReadingStands
<1>1. CommandsInv => ReadingStands
  BY DEF CommandsInv, CommandInv, Standing, ReadingStands
<1>2. QED
  BY <1>1, CommandInvariant, PTL

\* A scientific exit status of validate has a locked, verifying record behind it.
THEOREM StatusIsOnRecord == CSpec => []ExitIsOnRecord
<1>1. IInv /\ ReturnedIsRecorded /\ CommandsInv => ExitIsOnRecord
  <2> SUFFICES ASSUME IInv, ReturnedIsRecorded, CommandsInv, NEW p \in Runs,
                      Is(p, {"validate"}), Exited(p, 0..4)
               PROVE  /\ bundle[p] # None
                      /\ Verified(dirs[bundle[p]])
                      /\ dirs[bundle[p]].readonly
                      /\ ExitCode[dirs[bundle[p]].file["verdict.json"].verdict] = exit[p].status
    BY DEF ExitIsOnRecord
  <2>1. pc[p] = "returned" /\ exit[p].status = ExitCode[verdict[p]]
    BY DEF CommandsInv, CommandInv, Settled
  <2>2. bundle[p] # None
    BY <2>1 DEF IInv, RunInv
  <2>3. QED
    BY <2>1, <2>2 DEF ReturnedIsRecorded
<1>2. CSpec => []ReturnedIsRecorded
  BY CommandsAreRuns, Recorded, PTL
<1>3. QED
  BY <1>1, <1>2, CommandInvariant, PTL

\* A reproduction is another run of the same manifest, in a bundle of its own.
THEOREM ReproductionIsARun == CSpec => []ReproducedMeansAgain
<1>1. IInv /\ ReturnedIsRecorded /\ CommandsInv => ReproducedMeansAgain
  <2> SUFFICES ASSUME IInv, ReturnedIsRecorded, CommandsInv, NEW p \in Runs,
                      Is(p, {"reproduce"}), Exited(p, {0, 1})
               PROVE  /\ bundle[p] \notin {None, command[p].of}
                      /\ policy[p] = policy[Named(p).file["verdict.json"].by]
                      /\ (exit[p].status = 0) <=> (ResultVerdict(p) = recorded[p])
                      /\ exit[p].status = 0 /\ recorded[p] # "ERROR" =>
                           /\ Verified(dirs[bundle[p]])
                           /\ dirs[bundle[p]].file["verdict.json"].verdict = recorded[p]
    BY DEF ReproducedMeansAgain
  <2>1. /\ SameManifest(p) /\ bundle[p] # command[p].of
        /\ pc[p] \in {"returned", "write_error"}
        /\ (exit[p].status = 0) <=> SameVerdict(p)
    BY DEF CommandsInv, CommandInv, Again
  <2>2. bundle[p] # None
    BY <2>1 DEF IInv, RunInv, Writing
  <2>3. ASSUME exit[p].status = 0, recorded[p] # "ERROR"
        PROVE  /\ Verified(dirs[bundle[p]])
               /\ dirs[bundle[p]].file["verdict.json"].verdict = recorded[p]
    <3>1. pc[p] = "returned" /\ verdict[p] = recorded[p]
      BY <2>1, <2>3 DEF SameVerdict, ResultVerdict
    <3>2. QED
      BY <3>1 DEF ReturnedIsRecorded
  <2>4. QED
    BY <2>1, <2>2, <2>3 DEF SameManifest, SameVerdict
<1>2. CSpec => []ReturnedIsRecorded
  BY CommandsAreRuns, Recorded, PTL
<1>3. QED
  BY <1>1, <1>2, CommandInvariant, PTL

\* What the runs keep, they keep under the commands: a bundle that verifies is the whole
\* record of one run, none is changed, failures to run are no scientific verdicts, and
\* the runs append to a ledger of verdicts that is never rewritten.
THEOREM RecordsUnderCommands ==
  CSpec => /\ []VerifiedIsWholeRecord
           /\ []InfrastructureIsNeverScience
           /\ SealedIsFinal
           /\ ImplementsLedger
BY CommandsAreRuns, WholeRecord, NeverScience, Final, Implementation, PTL

=============================================================================
