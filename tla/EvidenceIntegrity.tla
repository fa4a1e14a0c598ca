------------------------- MODULE EvidenceIntegrity -------------------------
(***************************************************************************)
(* The life of one bundle after it was finalized, in the hands of people   *)
(* and tools that do not know what it is: files are edited, lost, added or *)
(* cut short, by accident or on purpose, and finalize() may be called on a *)
(* bundle that was opened again (evidence.py 84-102, 130-222).             *)
(***************************************************************************)
EXTENDS EvidenceFiles

CONSTANTS
  Contents,   \* what a data file may hold
  Original    \* the data files as the run left them

ASSUME OriginalAssumption == Original \in [Name -> Contents \cup {Absent}]

Digests  == {"sha256"} \X Contents
Listings == [Name -> Digests \cup {Absent}]
Seals    == [schema : Schemas, checksums : {"sha256"} \X (Listings \cup {Torn})]

ASSUME ValueAssumption ==
  /\ Absent \notin Contents \cup Digests \cup Listings \cup Seals
  /\ Torn \notin {Absent} \cup Listings \cup Seals

\* What finalize() makes of a set of data files.
Finalized(file) ==
  LET sums == Checksums([file |-> file])
  IN  [root |-> TRUE, signals |-> TRUE, file |-> file, sums |-> sums,
       seal |-> SealOf([sums |-> sums]), readonly |-> TRUE]

VARIABLE b   \* the bundle on disk

Init == b = Finalized(Original)

\* A data file is edited, truncated, deleted, or appears.  Read-only modes do not
\* survive Git or an archive, so nothing prevents it.
EditFile ==
  \E n \in Name, c \in Contents \cup {Absent} : b' = [b EXCEPT !.file[n] = c]

\* A line of CHECKSUMS.sha256 is edited or deleted, or the file is cut short or lost.
EditListing ==
  \/ /\ b.sums \notin {Absent, Torn}
     /\ \E n \in Name, d \in Digests \cup {Absent} : b' = [b EXCEPT !.sums[n] = d]
  \/ \E s \in {Absent, Torn} : b' = [b EXCEPT !.sums = s]

\* SEAL.json is edited to carry another schema or the digest of the listing now on
\* disk, or is cut short or lost.
EditSeal ==
  \/ /\ b.sums # Absent
     /\ \E s \in Schemas :
          b' = [b EXCEPT !.seal = [schema |-> s, checksums |-> Digest(b.sums)]]
  \/ \E s \in {Absent, Torn} : b' = [b EXCEPT !.seal = s]

\* EvidenceBundle.open(...).finalize(): it raises on a bundle that has a SEAL.json.
FinalizeAgain ==
  /\ b.seal = Absent
  /\ b' = Finalized(b.file)

Next == EditFile \/ EditListing \/ EditSeal \/ FinalizeAgain

Spec == Init /\ [][Next]_b

-----------------------------------------------------------------------------

Sealed == Finalized(Original)

TypeOK ==
  b \in [root : {TRUE}, signals : {TRUE}, file : [Name -> Contents \cup {Absent}],
         sums : Listings \cup {Absent, Torn}, seal : Seals \cup {Absent, Torn},
         readonly : {TRUE}]

\* A bundle that verifies although its files are not those the run left had both its
\* listing and its seal replaced to match: one of them alone, any number of edits,
\* losses and additions to the files, or a listing and a seal that do not agree, are
\* all detected (docs/evidence-schema.md 147-164, evidence.py 174-222).
UndetectedMeansResealed ==
  Verified(b) /\ b.file # Sealed.file => b.sums # Sealed.sums /\ b.seal # Sealed.seal

\* verify() raises no false alarm: a bundle with its three parts as they were sealed
\* verifies, whatever happened to it in between.
IntactVerifies ==
  b.file = Sealed.file /\ b.sums = Sealed.sums /\ b.seal = Sealed.seal => Verified(b)
=============================================================================
