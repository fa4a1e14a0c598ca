--------------------------- MODULE EvidenceFiles ----------------------------
(***************************************************************************)
(* An evidence bundle directory as a value, and what evidence.py computes  *)
(* from it: the checksum listing, the seal, and the problems verify()      *)
(* reports.  Contents are opaque; SHA-256 is taken to be collision free,   *)
(* so a digest is an injective constructor over contents.                  *)
(***************************************************************************)
EXTENDS Naturals

CONSTANTS
  Name,     \* relative paths of the files a bundle may hold, CHECKSUMS and SEAL excluded
  Absent,   \* no such file
  Torn      \* a CHECKSUMS or SEAL file whose writing was cut short

Digest(content) == <<"sha256", content>>

\* The major version this build reads, and one it does not.
Supported == "v1"
Schemas   == {"v1", "v2"}

\* A bundle is
\*   root, signals : the directory exists; its signals/ subdirectory exists
\*   file          : content of each data file
\*   sums          : CHECKSUMS.sha256, a digest per recorded name
\*   seal          : SEAL.json, the schema and the digest of CHECKSUMS.sha256
\*   readonly      : every file has lost its write permission
NoBundle ==
  [root |-> FALSE, signals |-> FALSE, file |-> [n \in Name |-> Absent],
   sums |-> Absent, seal |-> Absent, readonly |-> FALSE]

\* _compute_checksums: every file that is there, except the two seal files.
Checksums(b) ==
  [n \in Name |-> IF b.file[n] = Absent THEN Absent ELSE Digest(b.file[n])]

\* A seal made before the listing is on disk.
SealOf_Early(b) == [schema |-> Supported, checksums |-> Digest(Absent)]

\* What finalize() writes into SEAL.json: the digest of the listing on disk.
SealOf(b) == [schema |-> Supported, checksums |-> Digest(b.sums)]

\* The digest a listing records for n.  A torn listing never matches its seal, so
\* which of its lines survive does not change the answer; it is taken as empty.
RecordedDigest(sums, n) == IF sums = Torn THEN Absent ELSE sums[n]

SealProblems(b) ==
  {p \in {"schema", "listing"} :
     \/ p = "schema"  /\ b.seal.schema # Supported
     \/ p = "listing" /\ b.seal.checksums # Digest(b.sums)}

\* A recorded file that is missing, one whose digest differs, one never recorded.
FileProblems(b) == {n \in Name : RecordedDigest(b.sums, n) # Checksums(b)[n]}

\* A verify() that never compares CHECKSUMS.sha256 with the seal.
Verified_ListingOnly(b) ==
  b.seal \notin {Absent, Torn} /\ b.sums # Absent /\ FileProblems(b) = {}

\* verify() returns no problem.  A missing seal or listing is a problem; a torn
\* SEAL.json does not parse and verify() raises.
Verified(b) ==
  /\ b.seal \notin {Absent, Torn}
  /\ b.sums # Absent
  /\ SealProblems(b) = {}
  /\ FileProblems(b) = {}
=============================================================================
