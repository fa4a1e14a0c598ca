-------------------------- MODULE TrajectoryBundle --------------------------
(***************************************************************************)
(* The capture boundary as a protocol over one directory: parity-capture   *)
(* writes a trajectory_bundle/v1 file by file (capture.py write_bundle,    *)
(* bundle_writer.py finalize_v1) while ivf may already be reading it       *)
(* (signals.py _load_parity_bundle_subject, bundle.py load_v1).  Nothing   *)
(* but the order of the writes and the digests coordinates them.           *)
(* SHA-256 is taken to be collision free: a digest is modelled by the very *)
(* content it is the digest of.                                            *)
(***************************************************************************)
EXTENDS Naturals, Sequences

CONSTANTS
  Captures,   \* parity-capture processes given this --output directory
  Readers,    \* ivf processes given this directory as a parity_bundle subject
  Legacy,     \* the producer of a pre-v1 bundle, whose metadata has no contract
  Shape,      \* array shapes each capture declares and writes
  Absent, Torn, None

ASSUME NameAssumption ==
  /\ Legacy \notin Captures
  /\ Absent \notin Captures \cup {Legacy, Torn} /\ Torn \notin Captures \cup {Legacy}

Payload   == "trajectories.npz"
Metadata  == "metadata.json"
Listing   == "CHECKSUMS.sha256"
Marker    == "COMPLETE"
Data      == {Payload, Metadata}
WriteSeq  == <<Payload, Metadata, Listing, Marker>>
File      == {WriteSeq[i] : i \in 1..4}

\* A file is absent, torn (opened for writing and not finished), or whole.  Whole
\* data is told by its producer, a whole listing by the digests it records, a whole
\* marker by the digest of the listing.
DataValue    == Captures \cup {Legacy, Torn, Absent}
ListingValue == [Data -> DataValue] \cup {Torn, Absent}

\* A file with a digest in it is neither absent nor torn.
ASSUME DigestAssumption == {Absent, Torn} \cap [Data -> Captures] = {}

VARIABLES
  disk,     \* the directory
  cpc,      \* where each capture is
  at,       \* the file of WriteSeq it is writing
  listing,  \* the digests it has computed
  root,     \* the digest of CHECKSUMS.sha256 it has computed
  writers,  \* the captures that have opened a file here so far
  rpc,      \* where each reader is
  lock,     \* bundle_sha256 in its manifest, or None
  seen,     \* what it has read of each file so far
  route,    \* the reader it took: "v1" or "legacy"
  overAtStart  \* captures that had ended when it started

captureVars == <<cpc, at, listing, root, writers>>
readerVars  == <<rpc, lock, seen, route, overAtStart>>
vars == <<disk, captureVars, readerVars>>

\* The listing a capture computes when nothing disturbs it, whose digest is its root.
RootOf(c) == [n \in Data |-> c]

\* The root of a bundle that was never in this directory.
OtherRoot == [n \in Data |-> Legacy]

Init ==
  /\ disk \in {[f \in File |-> Absent],
               [f \in File |-> IF f \in Data THEN Legacy ELSE Absent]}
  /\ cpc     = [c \in Captures |-> "idle"]
  /\ at      = [c \in Captures |-> 1]
  /\ listing = [c \in Captures |-> [n \in Data |-> Absent]]
  /\ root    = [c \in Captures |-> Absent]
  /\ writers = {}
  /\ rpc     = [r \in Readers |-> "idle"]
  /\ lock    \in [Readers -> {None, OtherRoot} \cup {RootOf(c) : c \in Captures}]
  /\ seen    = [r \in Readers |-> [f \in File |-> Absent]]
  /\ route   = [r \in Readers |-> None]
  /\ overAtStart = [r \in Readers |-> {}]

-----------------------------------------------------------------------------
(* The capture.                                                              *)

Advance(c, label) == cpc' = [cpc EXCEPT ![c] = label]

\* cmd_capture refuses an output directory that is not empty, or boots the simulator.
Begin(c) ==
  /\ cpc[c] = "idle"
  /\ Advance(c, IF \E f \in File : disk[f] # Absent THEN "usage" ELSE "rollout")
  /\ UNCHANGED <<disk, at, listing, root, writers, readerVars>>

\* run_capture steps the simulator to the end of the declared steps.
RollOut(c) ==
  /\ cpc[c] = "rollout"
  /\ Advance(c, "open")
  /\ UNCHANGED <<disk, at, listing, root, writers, readerVars>>

\* A file is opened for writing, which truncates whatever is there.
OpenFile(c) ==
  /\ cpc[c] = "open"
  /\ disk' = [disk EXCEPT ![WriteSeq[at[c]]] = Torn]
  /\ writers' = writers \cup {c}
  /\ Advance(c, "close")
  /\ UNCHANGED <<at, listing, root, readerVars>>

\* A listing and a marker that say who wrote them, and hold no digest.
Content_Producer(c, f) == c

\* What capture c puts into file f.
Content(c, f) ==
  IF f \in Data THEN c ELSE IF f = Listing THEN listing[c] ELSE root[c]

\* Another capture has the same file open: the bytes may end up mixed.
Contended(c) == \E d \in Captures \ {c} : cpc[d] = "close" /\ at[d] = at[c]

\* A capture that digests its directory before metadata.json is written: the listing
\* does not record that file, which the reader refuses as an extra one.
AfterFile_EarlyDigest(i) ==
  CASE WriteSeq[i] = Payload  -> "digest"
    [] WriteSeq[i] = Metadata -> "open"
    [] WriteSeq[i] = Listing  -> "digestListing"
    [] WriteSeq[i] = Marker   -> "done"

\* Where a capture goes after file number i: after the data, it digests the data;
\* after the listing, it digests the listing.
AfterFile(i) ==
  CASE WriteSeq[i] = Payload  -> "open"
    [] WriteSeq[i] = Metadata -> "digest"
    [] WriteSeq[i] = Listing  -> "digestListing"
    [] WriteSeq[i] = Marker   -> "done"

CloseFile(c) ==
  /\ cpc[c] = "close"
  /\ \E value \in {Content(c, WriteSeq[at[c]])} \cup (IF Contended(c) THEN {Torn} ELSE {}) :
       disk' = [disk EXCEPT ![WriteSeq[at[c]]] = value]
  /\ Advance(c, AfterFile(at[c]))
  /\ at' = [at EXCEPT ![c] = IF @ < 4 THEN @ + 1 ELSE @]
  /\ UNCHANGED <<listing, root, writers, readerVars>>

\* finalize_v1 digests the files in name order: metadata.json, then trajectories.npz.
DigestMetadata(c) ==
  /\ cpc[c] = "digest"
  /\ listing' = [listing EXCEPT ![c][Metadata] = disk[Metadata]]
  /\ Advance(c, "digestPayload")
  /\ UNCHANGED <<disk, at, root, writers, readerVars>>

DigestPayload(c) ==
  /\ cpc[c] = "digestPayload"
  /\ listing' = [listing EXCEPT ![c][Payload] = disk[Payload]]
  /\ Advance(c, "open")
  /\ UNCHANGED <<disk, at, root, writers, readerVars>>

DigestListing(c) ==
  /\ cpc[c] = "digestListing"
  /\ root' = [root EXCEPT ![c] = disk[Listing]]
  /\ Advance(c, "open")
  /\ UNCHANGED <<disk, at, listing, writers, readerVars>>

CaptureEnded == {"usage", "done", "failed"}

\* An exception (the simulator, a full disk) or a killed process.  Nothing is cleaned
\* up, and a file that was open stays torn.
CaptureFails(c) ==
  /\ cpc[c] \notin CaptureEnded \cup {"idle"}
  /\ Advance(c, "failed")
  /\ UNCHANGED <<disk, at, listing, root, writers, readerVars>>

-----------------------------------------------------------------------------
(* The reader.                                                               *)

Accepted == {"accepted"}
Refused  == {"incomplete", "contract", "error"}

\* Reader r has looked at file f and goes to a label.
Look(r, f) == seen' = [seen EXCEPT ![r][f] = disk[f]]

Turn(r, label) == rpc' = [rpc EXCEPT ![r] = label]

\* load_subject looks for its subject.
StartReading(r) ==
  /\ rpc[r] = "idle"
  /\ overAtStart' = [overAtStart EXCEPT ![r] = {c \in Captures : cpc[c] \in CaptureEnded}]
  /\ Turn(r, "route")
  /\ UNCHANGED <<disk, captureVars, lock, seen, route>>

\* is_v1: a marker, or metadata that declares the contract.  Torn metadata does not
\* parse as JSON.
Route(r) ==
  /\ rpc[r] = "route"
  /\ \/ /\ disk[Marker] = Absent /\ disk[Metadata] = Torn
        /\ Turn(r, "error")
        /\ UNCHANGED route
     \/ /\ disk[Marker] # Absent \/ disk[Metadata] \in Captures
        /\ Turn(r, "marker")
        /\ route' = [route EXCEPT ![r] = "v1"]
     \/ /\ disk[Marker] = Absent /\ disk[Metadata] \in {Absent, Legacy}
        /\ Turn(r, "legacy")
        /\ route' = [route EXCEPT ![r] = "legacy"]
  /\ UNCHANGED <<disk, captureVars, lock, seen, overAtStart>>

\* load_parity_bundle: both data files must be there; metadata is read first.
ReadLegacyMetadata(r) ==
  /\ rpc[r] = "legacy"
  /\ Look(r, Metadata)
  /\ Turn(r, IF disk[Metadata] \in {Absent, Torn} \/ disk[Payload] = Absent
             THEN "error" ELSE "legacyPayload")
  /\ UNCHANGED <<disk, captureVars, lock, route, overAtStart>>

ReadLegacyPayload(r) ==
  /\ rpc[r] = "legacyPayload"
  /\ Look(r, Payload)
  /\ Turn(r, IF disk[Payload] \in {Absent, Torn} THEN "error" ELSE "accepted")
  /\ UNCHANGED <<disk, captureVars, lock, route, overAtStart>>

\* A strict reader that takes a missing marker for an empty one.
MarkerAccepted_Any(m) == m # Torn

\* The marker is there and is valid JSON.
MarkerAccepted(m) == m \notin {Absent, Torn}

\* load_v1 begins with the completion marker.
ReadMarker(r) ==
  /\ rpc[r] = "marker"
  /\ Look(r, Marker)
  /\ Turn(r, IF MarkerAccepted(disk[Marker]) THEN "listing" ELSE "incomplete")
  /\ UNCHANGED <<disk, captureVars, lock, route, overAtStart>>

\* _verify_checksums: the listing is there and records files; a torn one records none
\* of them, or a digest that is cut.
ReadListing(r) ==
  /\ rpc[r] = "listing"
  /\ Look(r, Listing)
  /\ Turn(r, IF disk[Listing] \in {Absent, Torn} THEN "contract" ELSE "hashMetadata")
  /\ UNCHANGED <<disk, captureVars, lock, route, overAtStart>>

\* Each recorded file is digested and compared, in name order.  The digest of a torn
\* file changes as it is written.
HashMatches(r, f) == disk[f] = seen[r][Listing][f]

HashMetadata(r) ==
  /\ rpc[r] = "hashMetadata"
  /\ Turn(r, IF HashMatches(r, Metadata) THEN "hashPayload" ELSE "contract")
  /\ UNCHANGED <<disk, captureVars, lock, seen, route, overAtStart>>

HashPayload(r) ==
  /\ rpc[r] = "hashPayload"
  /\ Turn(r, IF HashMatches(r, Payload) THEN "sealed" ELSE "contract")
  /\ UNCHANGED <<disk, captureVars, lock, seen, route, overAtStart>>

\* The marker seals a listing by its digest.  The reader also lets a marker pass that
\* records none; finalize_v1 writes no such marker.
Sealed(m, listed) == m = Absent \/ m = listed

\* The listing, digested again from disk, is the one the marker seals.
CheckSealedListing(r) ==
  /\ rpc[r] = "sealed"
  /\ Turn(r, IF Sealed(seen[r][Marker], disk[Listing]) THEN "readMetadata" ELSE "contract")
  /\ UNCHANGED <<disk, captureVars, lock, seen, route, overAtStart>>

\* metadata.json is read and its contract parsed.
ReadMetadata(r) ==
  /\ rpc[r] = "readMetadata"
  /\ Look(r, Metadata)
  /\ Turn(r, CASE disk[Metadata] = Torn               -> "error"
               [] disk[Metadata] \in {Absent, Legacy} -> "contract"
               [] disk[Metadata] \in Captures         -> "readPayload")
  /\ UNCHANGED <<disk, captureVars, lock, route, overAtStart>>

\* trajectories.npz is opened anew; its arrays must have the declared shapes.
ReadPayload(r) ==
  /\ rpc[r] = "readPayload"
  /\ Look(r, Payload)
  /\ Turn(r, IF disk[Payload] \in Captures /\ Shape[disk[Payload]] = Shape[seen[r][Metadata]]
             THEN "root" ELSE "contract")
  /\ UNCHANGED <<disk, captureVars, lock, route, overAtStart>>

\* A caller that never compares the root with the manifest.
LockHolds_Ignored(r, actual) == TRUE

\* The manifest locks no root, or this one.
LockHolds(r, actual) == lock[r] = None \/ lock[r] = actual

\* The root that identifies the bundle is digested once more, and the lock compared.
ReadRoot(r) ==
  /\ rpc[r] = "root"
  /\ Look(r, Listing)
  /\ Turn(r, IF LockHolds(r, disk[Listing]) THEN "accepted" ELSE "contract")
  /\ UNCHANGED <<disk, captureVars, lock, route, overAtStart>>

-----------------------------------------------------------------------------
CaptureStep(c) ==
  \/ Begin(c) \/ RollOut(c) \/ OpenFile(c) \/ CloseFile(c) \/ DigestMetadata(c)
  \/ DigestPayload(c) \/ DigestListing(c) \/ CaptureFails(c)

ReaderStep(r) ==
  \/ StartReading(r) \/ Route(r) \/ ReadLegacyMetadata(r) \/ ReadLegacyPayload(r)
  \/ ReadMarker(r) \/ ReadListing(r) \/ HashMetadata(r) \/ HashPayload(r)
  \/ CheckSealedListing(r) \/ ReadMetadata(r) \/ ReadPayload(r) \/ ReadRoot(r)

Over ==
  /\ \A c \in Captures : cpc[c] \in CaptureEnded
  /\ \A r \in Readers : rpc[r] \in Accepted \cup Refused

Next ==
  \/ \E c \in Captures : CaptureStep(c)
  \/ \E r \in Readers : ReaderStep(r)
  \/ Over /\ UNCHANGED vars

Spec == Init /\ [][Next]_vars

-----------------------------------------------------------------------------
(* Properties                                                                *)

CaptureLabels ==
  {"idle", "rollout", "open", "close", "digest", "digestPayload", "digestListing"}
    \cup CaptureEnded

ReaderLabels ==
  {"idle", "route", "legacy", "legacyPayload", "marker", "listing", "hashMetadata",
   "hashPayload", "sealed", "readMetadata", "readPayload", "root"} \cup Accepted \cup Refused

Directory ==
  {d \in [File -> DataValue \cup ListingValue] :
     /\ d[Payload] \in DataValue /\ d[Metadata] \in DataValue
     /\ d[Listing] \in ListingValue /\ d[Marker] \in ListingValue}

\* The shape of the directory and of every local variable.
TypeOK ==
  /\ disk \in Directory
  /\ cpc \in [Captures -> CaptureLabels]
  /\ at \in [Captures -> 1..4]
  /\ listing \in [Captures -> [Data -> DataValue]]
  /\ root \in [Captures -> ListingValue]
  /\ writers \subseteq Captures
  /\ rpc \in [Readers -> ReaderLabels]
  /\ lock \in [Readers -> {None} \cup [Data -> DataValue]]
  /\ seen \in [Readers -> Directory]
  /\ route \in [Readers -> {None, "v1", "legacy"}]
  /\ overAtStart \in [Readers -> SUBSET Captures]

\* No more than one capture has written here.  Two do only when both found the
\* directory empty: cmd_capture looks before the simulator boots and writes after.
OneWriter == \A c, d \in writers : c = d

\* What the strict reader accepts is one capture that finished: metadata, arrays and
\* root are the same capture's, and that capture has written its marker, however the
\* reads fell between the writes and whatever captures were refused or died before
\* they wrote (bundle.py 22-26, 395-495).
AcceptedIsFinished ==
  OneWriter =>
    \A r \in Readers : rpc[r] = "accepted" /\ route[r] = "v1" =>
      \E c \in Captures :
        /\ cpc[c] = "done"
        /\ \A n \in Data : seen[r][n] = c
        /\ seen[r][Listing] = RootOf(c)

\* The strict reader returns a bundle only under the root its manifest locks, and that
\* root is of the data it read (signals.py 466-486).
LockIsHonoured ==
  OneWriter =>
    \A r \in Readers : rpc[r] = "accepted" /\ route[r] = "v1" /\ lock[r] # None =>
      lock[r] = [n \in Data |-> seen[r][n]]

\* A capture that had finished before a reader started is never refused by it, unless
\* the manifest locks another root.
FinishedIsReadable ==
  OneWriter =>
    \A r \in Readers : rpc[r] \in Refused =>
      \A c \in overAtStart[r] : cpc[c] = "done" => lock[r] \notin {None, RootOf(c)}

-----------------------------------------------------------------------------
(* What the repository says of the boundary and the code does not keep.      *)

\* "An interruption at any point leaves a bundle that IVF refuses with
\* IVF-BUNDLE-INCOMPLETE" (capture.py 418-419): whoever reads a directory in which a
\* capture was interrupted is told so.
InterruptedIsIncomplete ==
  \A r \in Readers :
    /\ rpc[r] \in Refused
    /\ overAtStart[r] = Captures /\ \A c \in Captures : cpc[c] = "failed"
    /\ disk[Payload] # Absent /\ disk[Marker] = Absent
    => rpc[r] = "incomplete"
=============================================================================
