----------------------- MODULE TrajectoryBundleProofs -----------------------
(***************************************************************************)
(* Proofs about TrajectoryBundle, for any number of captures and readers.  *)
(* With one writer, the files of the directory are written in their order, *)
(* so that whoever sees a marker sees a directory that no longer changes.  *)
(***************************************************************************)
EXTENDS TrajectoryBundle, TLAPS

-----------------------------------------------------------------------------
(* Type correctness.                                                         *)

\* The files, one by one.
LEMMA FilesAre ==
  /\ File = {Payload, Metadata, Listing, Marker} /\ Data = {Payload, Metadata}
  /\ WriteSeq[1] = Payload /\ WriteSeq[2] = Metadata
  /\ WriteSeq[3] = Listing /\ WriteSeq[4] = Marker
  /\ Payload # Metadata /\ Payload # Listing /\ Payload # Marker
  /\ Metadata # Listing /\ Metadata # Marker /\ Listing # Marker
<1>1. /\ WriteSeq[1] = Payload /\ WriteSeq[2] = Metadata
      /\ WriteSeq[3] = Listing /\ WriteSeq[4] = Marker
  BY DEF WriteSeq
<1>2. 1..4 = {1, 2, 3, 4}
  OBVIOUS
<1>3. File = {Payload, Metadata, Listing, Marker}
  BY <1>1, <1>2 DEF File
<1>4. QED
  BY <1>1, <1>3 DEF Data, Payload, Metadata, Listing, Marker

\* What may be put into a file of a directory.
Allowed(f) == IF f \in Data THEN DataValue ELSE ListingValue

LEMMA DirectoryOf ==
  ASSUME NEW d
  PROVE  d \in Directory <=> d \in [File -> DataValue \cup ListingValue]
                             /\ \A f \in File : d[f] \in Allowed(f)
<1>1. \A f \in File : Allowed(f) = IF f \in {Payload, Metadata} THEN DataValue ELSE ListingValue
  BY FilesAre DEF Allowed
<1>2. QED
  BY <1>1, FilesAre DEF Directory

\* A directory with one file replaced is one.
LEMMA Replaced ==
  ASSUME NEW d \in Directory, NEW f \in File, NEW v \in Allowed(f)
  PROVE  [d EXCEPT ![f] = v] \in Directory
<1>1. v \in DataValue \cup ListingValue
  BY DEF Allowed
<1>2. QED
  BY <1>1, DirectoryOf

LEMMA RootType == \A c \in Captures : RootOf(c) \in [Data -> DataValue]
BY DEF RootOf, DataValue

\* One step of a capture, or of a reader, changes its own program counter.
LEMMA AdvanceType ==
  ASSUME TypeOK, NEW c \in Captures, NEW label \in CaptureLabels, Advance(c, label)
  PROVE  /\ cpc' \in [Captures -> CaptureLabels]
         /\ cpc'[c] = label /\ \A d \in Captures \ {c} : cpc'[d] = cpc[d]
BY DEF TypeOK, Advance

LEMMA TurnType ==
  ASSUME TypeOK, NEW r \in Readers, NEW label \in ReaderLabels, Turn(r, label)
  PROVE  /\ rpc' \in [Readers -> ReaderLabels]
         /\ rpc'[r] = label /\ \A q \in Readers \ {r} : rpc'[q] = rpc[q]
BY DEF TypeOK, Turn

LEMMA LookType ==
  ASSUME TypeOK, NEW r \in Readers, NEW f \in File, Look(r, f)
  PROVE  /\ seen' \in [Readers -> Directory]
         /\ seen'[r] = [seen[r] EXCEPT ![f] = disk[f]]
         /\ \A q \in Readers \ {r} : seen'[q] = seen[q]
<1>1. disk[f] \in Allowed(f)
  BY DirectoryOf DEF TypeOK
<1>2. [seen[r] EXCEPT ![f] = disk[f]] \in Directory
  BY <1>1, Replaced DEF TypeOK
<1>3. QED
  BY <1>2 DEF TypeOK, Look

LEMMA CaptureType ==
  ASSUME TypeOK, NEW c \in Captures, CaptureStep(c)
  PROVE  TypeOK'
<1>1. at[c] \in 1..4 /\ WriteSeq[at[c]] \in File
  BY DEF TypeOK, File
<1>2. CASE Begin(c) \/ RollOut(c) \/ CaptureFails(c)
  BY <1>2, AdvanceType DEF Begin, RollOut, CaptureFails, readerVars, TypeOK, CaptureLabels, CaptureEnded
<1>3. CASE OpenFile(c)
  <2>1. Torn \in Allowed(WriteSeq[at[c]])
    BY DEF Allowed, DataValue, ListingValue
  <2>2. disk' \in Directory
    BY <1>1, <1>3, <2>1, Replaced DEF OpenFile, TypeOK
  <2>3. QED
    BY <1>3, <2>2, AdvanceType DEF OpenFile, readerVars, TypeOK, CaptureLabels
<1>4. CASE CloseFile(c)
  <2>1. PICK v \in {Content(c, WriteSeq[at[c]]), Torn} : disk' = [disk EXCEPT ![WriteSeq[at[c]]] = v]
    BY <1>4 DEF CloseFile
  <2>2. v \in Allowed(WriteSeq[at[c]])
    BY <1>1, <2>1 DEF Allowed, Content, TypeOK, DataValue, ListingValue
  <2>3. disk' \in Directory
    BY <1>1, <2>1, <2>2, Replaced DEF TypeOK
  <2>4. AfterFile(at[c]) \in CaptureLabels
    BY <1>1, FilesAre DEF AfterFile, CaptureLabels, CaptureEnded
  <2>5. QED
    BY <1>4, <2>3, <2>4, AdvanceType DEF CloseFile, readerVars, TypeOK
<1>5. CASE DigestMetadata(c) \/ DigestPayload(c)
  <2>1. disk[Metadata] \in DataValue /\ disk[Payload] \in DataValue
    BY DEF TypeOK, Directory
  <2>2. listing' \in [Captures -> [Data -> DataValue]]
    <3>1. PICK f \in {Metadata, Payload} : listing' = [listing EXCEPT ![c][f] = disk[f]]
      BY <1>5 DEF DigestMetadata, DigestPayload
    <3>2. f \in Data /\ disk[f] \in DataValue
      BY <2>1, <3>1 DEF Data
    <3>3. [listing[c] EXCEPT ![f] = disk[f]] \in [Data -> DataValue]
      BY <3>2 DEF TypeOK
    <3>4. QED
      BY <3>1, <3>3 DEF TypeOK
  <2>3. QED
    BY <1>5, <2>2, AdvanceType DEF DigestMetadata, DigestPayload, readerVars, TypeOK, CaptureLabels
<1>6. CASE DigestListing(c)
  <2>1. disk[Listing] \in ListingValue
    BY DEF TypeOK, Directory
  <2>2. QED
    BY <1>6, <2>1, AdvanceType DEF DigestListing, readerVars, TypeOK, CaptureLabels
<1>7. QED
  BY <1>2, <1>3, <1>4, <1>5, <1>6 DEF CaptureStep

LEMMA ReaderType ==
  ASSUME TypeOK, NEW r \in Readers, ReaderStep(r)
  PROVE  TypeOK' /\ UNCHANGED <<disk, captureVars, lock>>
<1>1. Payload \in File /\ Metadata \in File /\ Listing \in File /\ Marker \in File
  BY FilesAre
<1>2. CASE StartReading(r)
  BY <1>2, TurnType DEF StartReading, captureVars, TypeOK, ReaderLabels
<1>3. CASE Route(r)
  BY <1>3, TurnType DEF Route, captureVars, TypeOK, ReaderLabels, Refused
<1>4. CASE ReadLegacyMetadata(r) \/ ReadLegacyPayload(r)
  BY <1>4, <1>1, TurnType, LookType
     DEF ReadLegacyMetadata, ReadLegacyPayload, captureVars, TypeOK, ReaderLabels, Refused, Accepted
<1>5. CASE ReadMarker(r) \/ ReadListing(r) \/ ReadPayload(r) \/ ReadRoot(r)
  BY <1>5, <1>1, TurnType, LookType
     DEF ReadMarker, ReadListing, ReadPayload, ReadRoot, captureVars, TypeOK, ReaderLabels, Refused,
         Accepted
<1>6. CASE ReadMetadata(r)
  <2>1. disk[Metadata] \in DataValue
    BY DEF TypeOK, Directory
  <2>2. \E label \in {"error", "contract", "readPayload"} : Turn(r, label)
    BY <1>6, <2>1 DEF ReadMetadata, DataValue
  <2>3. QED
    BY <1>1, <1>6, <2>2, TurnType, LookType DEF ReadMetadata, captureVars, TypeOK, ReaderLabels, Refused
<1>7. CASE HashMetadata(r) \/ HashPayload(r) \/ CheckSealedListing(r)
  BY <1>7, TurnType
     DEF HashMetadata, HashPayload, CheckSealedListing, captureVars, TypeOK, ReaderLabels, Refused
<1>8. QED
  BY <1>2, <1>3, <1>4, <1>5, <1>6, <1>7 DEF ReaderStep

LEMMA TypeInit == Init => TypeOK
<1> SUFFICES ASSUME Init PROVE TypeOK
  OBVIOUS
<1>1. disk \in Directory /\ [f \in File |-> Absent] \in Directory
  BY FilesAre DEF Init, Directory, DataValue, ListingValue
<1>2. OtherRoot \in [Data -> DataValue]
  BY DEF OtherRoot, DataValue
<1>3. QED
  BY <1>1, <1>2, RootType
     DEF Init, TypeOK, CaptureLabels, ReaderLabels, DataValue, ListingValue

\* The directory and every local variable keep their shape.
THEOREM BoundaryTypeCorrect == Spec => []TypeOK
<1>1. TypeOK /\ [Next]_vars => TypeOK'
  BY CaptureType, ReaderType DEF Next, vars, captureVars, readerVars, TypeOK
<1>2. QED
  BY <1>1, TypeInit, PTL DEF Spec

-----------------------------------------------------------------------------
(* The writer.                                                               *)

\* What a capture that nothing disturbs leaves in a file.
Final(c, f) == IF f \in Data THEN c ELSE RootOf(c)

Complete(c) == cpc[c] = "done" /\ \A f \in File : disk[f] = Final(c, f)

\* Where a capture is and which file it is at, before and after its first write.
Local(c) ==
  /\ c \notin writers => \/ cpc[c] \in {"idle", "rollout", "usage", "failed"}
                         \/ cpc[c] = "open" /\ at[c] = 1
  /\ cpc[c] \in {"idle", "rollout"} => at[c] = 1 /\ c \notin writers
  /\ cpc[c] \in {"digest", "digestPayload"} => at[c] = 3
  /\ cpc[c] = "digestListing" => at[c] = 4

\* What it has left behind it, if it is the only one: the files before the present one,
\* and the digests of what it has written.
Behind(c) ==
  /\ \A i \in 1..4 : i < at[c] \/ cpc[c] = "done" => disk[WriteSeq[i]] = Final(c, WriteSeq[i])
  /\ cpc[c] = "digestPayload" => listing[c][Metadata] = c
  /\ cpc[c] \in {"open", "close"} /\ at[c] = 3 => listing[c] = RootOf(c)
  /\ cpc[c] \in {"open", "close"} /\ at[c] = 4 => root[c] = RootOf(c)
  /\ cpc[c] # "done" => disk[Marker] \in {Absent, Torn}

WriterInv ==
  /\ TypeOK
  /\ \A c \in Captures : Local(c)
  /\ writers = {} => disk[Marker] = Absent
  /\ OneWriter => \A c \in writers : Behind(c)

LEMMA WriterInit == Init => WriterInv
<1> SUFFICES ASSUME Init PROVE WriterInv
  OBVIOUS
<1>1. disk[Marker] = Absent
  BY FilesAre DEF Init
<1>2. QED
  BY <1>1, TypeInit DEF Init, WriterInv, Local

\* A capture that is done has left a complete directory, and nobody else has.
LEMMA DoneIsComplete ==
  ASSUME WriterInv, OneWriter, NEW c \in Captures, cpc[c] = "done"
  PROVE  Complete(c) /\ c \in writers
<1>1. c \in writers
  BY DEF WriterInv, Local
<1>2. \A i \in 1..4 : disk[WriteSeq[i]] = Final(c, WriteSeq[i])
  BY <1>1 DEF WriterInv, Behind
<1>3. QED
  BY <1>1, <1>2 DEF Complete, File

\* A marker means that a capture is done.
LEMMA MarkerMeansDone ==
  ASSUME WriterInv, OneWriter, disk[Marker] \notin {Absent, Torn}
  PROVE  \E c \in Captures : Complete(c)
<1>1. PICK c \in writers : TRUE
  BY DEF WriterInv
<1>2. c \in Captures /\ cpc[c] = "done"
  BY <1>1 DEF WriterInv, Behind, TypeOK
<1>3. QED
  BY <1>2, DoneIsComplete

\* The root of a capture is a listing whose bytes are there.
LEMMA RootIsThere == \A c \in Captures : RootOf(c) \notin {Absent, Torn}
BY DigestAssumption DEF RootOf

\* Every capture stays where its place allows.
LEMMA LocalStep ==
  ASSUME WriterInv, NEW c \in Captures, CaptureStep(c), NEW d \in Captures
  PROVE  Local(d)'
<1>1. at[c] \in 1..4 /\ cpc[c] \in CaptureLabels
  BY DEF WriterInv, TypeOK
<1>2. CASE d # c
  <2>1. cpc'[d] = cpc[d] /\ at'[d] = at[d] /\ (d \in writers' <=> d \in writers)
    BY <1>2 DEF CaptureStep, Begin, RollOut, OpenFile, CloseFile, DigestMetadata, DigestPayload,
         DigestListing, CaptureFails, Advance, WriterInv, TypeOK
  <2>2. QED
    BY <2>1 DEF WriterInv, Local
<1>3. CASE d = c
  <2>1. Local(c) /\ cpc \in [Captures -> CaptureLabels] /\ at \in [Captures -> 1..4]
    BY DEF WriterInv, TypeOK
  <2>2. CASE Begin(c) \/ RollOut(c) \/ CaptureFails(c)
    BY <1>3, <2>1, <2>2 DEF Begin, RollOut, CaptureFails, Advance, Local, CaptureEnded
  <2>3. CASE OpenFile(c)
    BY <1>3, <2>1, <2>3 DEF OpenFile, Advance, Local
  <2>4. CASE CloseFile(c)
    <3>1. c \in writers
      BY <2>1, <2>4 DEF CloseFile, Local
    <3>2. /\ writers' = writers /\ cpc'[c] = AfterFile(at[c])
          /\ at'[c] = IF at[c] < 4 THEN at[c] + 1 ELSE at[c]
      BY <2>1, <2>4 DEF CloseFile, Advance
    <3>3. /\ AfterFile(at[c]) \in {"open", "digest", "digestListing", "done"}
          /\ AfterFile(at[c]) = "digest" => at[c] = 2
          /\ AfterFile(at[c]) = "digestListing" => at[c] = 3
      BY <1>1, FilesAre DEF AfterFile
    <3>4. QED
      BY <1>1, <1>3, <3>1, <3>2, <3>3 DEF Local
  <2>5. CASE DigestMetadata(c) \/ DigestPayload(c) \/ DigestListing(c)
    <3>1. c \in writers
      BY <2>1, <2>5 DEF DigestMetadata, DigestPayload, DigestListing, Local
    <3>2. QED
      BY <1>3, <2>1, <2>5, <3>1
         DEF DigestMetadata, DigestPayload, DigestListing, Advance, Local
  <2>6. QED
    BY <2>2, <2>3, <2>4, <2>5 DEF CaptureStep
<1>4. QED
  BY <1>2, <1>3

\* A capture that is not the writer leaves the directory and the writer alone.
LEMMA OthersBehind ==
  ASSUME WriterInv, NEW c \in Captures, CaptureStep(c), OneWriter', NEW d \in writers', d # c
  PROVE  d \in writers /\ UNCHANGED <<disk, writers>> /\ Behind(d)'
<1>1. Local(c) /\ TypeOK /\ writers \subseteq Captures
  BY DEF WriterInv, TypeOK
<1>2. c \notin writers'
  BY DEF OneWriter
<1>3. Begin(c) \/ RollOut(c) \/ CaptureFails(c)
  BY <1>1, <1>2
     DEF CaptureStep, OpenFile, CloseFile, DigestMetadata, DigestPayload, DigestListing, Local
<1>4. /\ UNCHANGED <<disk, at, listing, root, writers>> /\ cpc'[d] = cpc[d]
  BY <1>1, <1>3 DEF Begin, RollOut, CaptureFails, Advance, TypeOK
<1>5. OneWriter /\ d \in writers
  BY <1>4 DEF OneWriter
<1>6. Behind(d)
  BY <1>5 DEF WriterInv
<1>7. QED
  BY <1>4, <1>5, <1>6 DEF Behind, Final

\* Each file has one place in the order of the writes.
LEMMA Ordered == \A i, j \in 1..4 : WriteSeq[i] = WriteSeq[j] => i = j
<1>1. \A i \in 1..4 : i = 1 \/ i = 2 \/ i = 3 \/ i = 4
  OBVIOUS
<1>2. QED
  BY <1>1, FilesAre

LEMMA OpenBehind ==
  ASSUME WriterInv, NEW c \in Captures, OpenFile(c), OneWriter'
  PROVE  Behind(c)'
<1>1. /\ Local(c) /\ TypeOK /\ at[c] \in 1..4 /\ WriteSeq[at[c]] \in File
      /\ cpc[c] = "open" /\ cpc'[c] = "close" /\ writers' = writers \cup {c}
      /\ disk' = [disk EXCEPT ![WriteSeq[at[c]]] = Torn]
      /\ UNCHANGED <<at, listing, root>>
  BY DEF WriterInv, TypeOK, OpenFile, Advance, File
<1>2. OneWriter
  BY <1>1 DEF OneWriter
<1>3. \A f \in File : f # WriteSeq[at[c]] => disk'[f] = disk[f]
  BY <1>1 DEF TypeOK, Directory
<1>4. disk'[Marker] \in {disk[Marker], Torn}
  BY <1>1, FilesAre DEF TypeOK, Directory
<1>5. CASE c \in writers
  <2>1. Behind(c)
    BY <1>2, <1>5 DEF WriterInv
  <2>2. \A i \in 1..4 : i < at[c] => disk'[WriteSeq[i]] = Final(c, WriteSeq[i])
    <3>1. \A i \in 1..4 : i < at[c] => WriteSeq[i] # WriteSeq[at[c]] /\ WriteSeq[i] \in File
      BY <1>1, Ordered DEF File
    <3>2. QED
      BY <2>1, <1>3, <3>1 DEF Behind
  <2>3. QED
    BY <2>1, <2>2, <1>1, <1>4 DEF Behind, Final
<1>6. CASE c \notin writers
  <2>1. writers = {}
    BY <1>1, <1>6 DEF OneWriter
  <2>2. at[c] = 1 /\ disk[Marker] = Absent
    BY <1>1, <1>6, <2>1 DEF Local, WriterInv
  <2>3. QED
    BY <2>2, <1>1, <1>4 DEF Behind, Final
<1>7. QED
  BY <1>5, <1>6

LEMMA CloseBehind ==
  ASSUME WriterInv, NEW c \in Captures, CloseFile(c), OneWriter'
  PROVE  Behind(c)'
<1>1. /\ Local(c) /\ TypeOK /\ at[c] \in 1..4 /\ WriteSeq[at[c]] \in File
      /\ cpc[c] = "close" /\ cpc'[c] = AfterFile(at[c])
      /\ at'[c] = IF at[c] < 4 THEN at[c] + 1 ELSE at[c]
      /\ UNCHANGED <<writers, listing, root>>
  BY DEF WriterInv, TypeOK, CloseFile, Advance, File
<1>2. OneWriter /\ c \in writers
  BY <1>1 DEF OneWriter, Local
<1>3. Behind(c)
  BY <1>2 DEF WriterInv
<1>4. ~Contended(c)
  BY <1>2 DEF Contended, WriterInv, Local, OneWriter
<1>5. Content(c, WriteSeq[at[c]]) = Final(c, WriteSeq[at[c]])
  <2>1. CASE at[c] = 1 \/ at[c] = 2
    BY <2>1, FilesAre DEF Content, Final
  <2>2. CASE at[c] = 3
    BY <2>2, <1>1, <1>3, FilesAre DEF Content, Final, Behind
  <2>3. CASE at[c] = 4
    BY <2>3, <1>1, <1>3, FilesAre DEF Content, Final, Behind
  <2>4. QED
    BY <1>1, <2>1, <2>2, <2>3
<1>6. /\ \A f \in File : f # WriteSeq[at[c]] => disk'[f] = disk[f]
      /\ disk'[WriteSeq[at[c]]] = Final(c, WriteSeq[at[c]])
  <2>1. disk' = [disk EXCEPT ![WriteSeq[at[c]]] = Final(c, WriteSeq[at[c]])]
    BY <1>4, <1>5 DEF CloseFile
  <2>2. QED
    BY <1>1, <2>1 DEF TypeOK, Directory
<1>7. \A i \in 1..4 : i <= at[c] => disk'[WriteSeq[i]] = Final(c, WriteSeq[i])
  <2> SUFFICES ASSUME NEW i \in 1..4, i <= at[c] PROVE disk'[WriteSeq[i]] = Final(c, WriteSeq[i])
    OBVIOUS
  <2>1. CASE i = at[c]
    BY <2>1, <1>6
  <2>2. CASE i # at[c]
    <3>1. WriteSeq[i] # WriteSeq[at[c]] /\ WriteSeq[i] \in File /\ i < at[c]
      BY <2>2, <1>1, Ordered DEF File
    <3>2. QED
      BY <3>1, <1>3, <1>6 DEF Behind
  <2>3. QED
    BY <2>1, <2>2
<1>8. /\ at[c] = 1 => AfterFile(at[c]) = "open"
      /\ at[c] = 2 => AfterFile(at[c]) = "digest"
      /\ at[c] = 3 => AfterFile(at[c]) = "digestListing"
      /\ at[c] = 4 => AfterFile(at[c]) = "done"
  BY FilesAre DEF AfterFile
<1>9. at[c] # 4 => disk'[Marker] \in {Absent, Torn}
  <2>1. at[c] # 4 => WriteSeq[at[c]] # Marker
    BY <1>1, FilesAre, Ordered
  <2>2. QED
    BY <2>1, <1>1, <1>3, <1>6, FilesAre DEF Behind
<1>10. \A i \in 1..4 : i < at'[c] \/ cpc'[c] = "done" => disk'[WriteSeq[i]] = Final(c, WriteSeq[i])
  <2>1. \A i \in 1..4 : i < at'[c] \/ cpc'[c] = "done" => i <= at[c]
    BY <1>1, <1>8
  <2>2. QED
    BY <2>1, <1>7
<1>11. cpc'[c] = "open" => at'[c] = 2
  BY <1>1, <1>8
<1>12. cpc'[c] \notin {"close", "digestPayload"} /\ (cpc'[c] # "done" => at[c] # 4)
  BY <1>1, <1>8
<1>13. QED
  BY <1>9, <1>10, <1>11, <1>12 DEF Behind, Final

LEMMA DigestBehind ==
  ASSUME WriterInv, NEW c \in Captures, OneWriter',
         DigestMetadata(c) \/ DigestPayload(c) \/ DigestListing(c)
  PROVE  Behind(c)'
<1>1. /\ Local(c) /\ TypeOK /\ at[c] \in 1..4
      /\ UNCHANGED <<disk, at, writers>>
      /\ cpc[c] \in {"digest", "digestPayload", "digestListing"}
  BY DEF WriterInv, TypeOK, DigestMetadata, DigestPayload, DigestListing
<1>2. OneWriter /\ c \in writers
  BY <1>1 DEF OneWriter, Local
<1>3. Behind(c)
  BY <1>2 DEF WriterInv
<1>4. /\ at[c] > 2 /\ disk[Payload] = c /\ disk[Metadata] = c
      /\ cpc[c] = "digestListing" => disk[Listing] = RootOf(c)
  <2>1. at[c] = 3 \/ (at[c] = 4 /\ cpc[c] = "digestListing")
    BY <1>1 DEF Local
  <2>2. Final(c, Payload) = c /\ Final(c, Metadata) = c /\ Final(c, Listing) = RootOf(c)
    BY FilesAre DEF Final
  <2>3. 1 \in 1..4 /\ 2 \in 1..4 /\ 3 \in 1..4
    OBVIOUS
  <2>4. disk[WriteSeq[1]] = c /\ disk[WriteSeq[2]] = c
    BY <2>1, <2>2, <2>3, <1>3, FilesAre DEF Behind
  <2>5. at[c] = 4 => disk[WriteSeq[3]] = RootOf(c)
    BY <2>2, <2>3, <1>3, FilesAre DEF Behind
  <2>6. QED
    BY <2>1, <2>4, <2>5, <1>1, FilesAre DEF Local
<1>5. CASE DigestMetadata(c)
  <2>1. cpc'[c] = "digestPayload" /\ listing'[c][Metadata] = disk[Metadata] /\ cpc[c] = "digest"
    BY <1>5, <1>1, FilesAre DEF DigestMetadata, Advance, TypeOK
  <2>2. QED
    BY <2>1, <1>1, <1>3, <1>4 DEF Behind, Final
<1>6. CASE DigestPayload(c)
  <2>1. /\ cpc'[c] = "open" /\ cpc[c] = "digestPayload" /\ at[c] = 3
        /\ listing'[c] = [listing[c] EXCEPT ![Payload] = disk[Payload]]
    BY <1>6, <1>1 DEF DigestPayload, Advance, TypeOK, Local
  <2>2. listing[c] \in [Data -> DataValue] /\ listing[c][Metadata] = c
    BY <2>1, <1>1, <1>3 DEF TypeOK, Behind
  <2>3. listing'[c] = RootOf(c)
    BY <2>1, <2>2, <1>4, FilesAre DEF RootOf
  <2>4. QED
    BY <2>1, <2>3, <1>1, <1>3 DEF Behind, Final
<1>7. CASE DigestListing(c)
  <2>1. cpc'[c] = "open" /\ cpc[c] = "digestListing" /\ root'[c] = disk[Listing] /\ at[c] = 4
    BY <1>7, <1>1 DEF DigestListing, Advance, TypeOK, Local
  <2>2. QED
    BY <2>1, <1>1, <1>3, <1>4 DEF Behind, Final
<1>8. QED
  BY <1>5, <1>6, <1>7

LEMMA WriterStep ==
  ASSUME WriterInv, NEW c \in Captures, CaptureStep(c)
  PROVE  WriterInv'
<1>1. TypeOK' /\ \A d \in Captures : Local(d)'
  BY CaptureType, LocalStep DEF WriterInv
<1>2. writers' = {} => disk'[Marker] = Absent
  <2>1. CASE OpenFile(c)
    BY <2>1 DEF OpenFile
  <2>2. CASE CloseFile(c)
    BY <2>2 DEF CloseFile, WriterInv, Local
  <2>3. CASE ~OpenFile(c) /\ ~CloseFile(c)
    BY <2>3 DEF CaptureStep, Begin, RollOut, DigestMetadata, DigestPayload, DigestListing,
                CaptureFails, WriterInv
  <2>4. QED
    BY <2>1, <2>2, <2>3
<1>3. ASSUME OneWriter', NEW d \in writers' PROVE Behind(d)'
  <2>1. CASE d # c
    BY <1>3, <2>1, OthersBehind
  <2>2. CASE d = c /\ (Begin(c) \/ RollOut(c))
    BY <1>3, <2>2 DEF Begin, RollOut, WriterInv, Local
  <2>3. CASE d = c /\ CaptureFails(c)
    <3>1. UNCHANGED <<disk, at, listing, root, writers>> /\ cpc'[c] = "failed" /\ cpc[c] # "done"
      BY <2>3 DEF CaptureFails, Advance, CaptureEnded, WriterInv, TypeOK
    <3>2. Behind(c)
      BY <1>3, <2>3, <3>1 DEF WriterInv, OneWriter
    <3>3. QED
      BY <2>3, <3>1, <3>2 DEF Behind, Final
  <2>4. CASE d = c /\ (OpenFile(c) \/ CloseFile(c))
    BY <1>3, <2>4, OpenBehind, CloseBehind
  <2>5. CASE d = c /\ (DigestMetadata(c) \/ DigestPayload(c) \/ DigestListing(c))
    BY <1>3, <2>5, DigestBehind
  <2>6. QED
    BY <2>1, <2>2, <2>3, <2>4, <2>5 DEF CaptureStep
<1>4. QED
  BY <1>1, <1>2, <1>3 DEF WriterInv

-----------------------------------------------------------------------------
(* The reader.                                                               *)

\* Where the strict reader is once it has seen a marker.
Strict == {"listing", "hashMetadata", "hashPayload", "sealed", "readMetadata", "readPayload", "root"}

\* What reader r has read is capture c's.
Has(r, c) ==
  /\ seen[r][Marker] = RootOf(c)
  /\ rpc[r] # "listing" => seen[r][Listing] = RootOf(c)
  /\ rpc[r] \in {"readPayload", "root", "accepted"} => seen[r][Metadata] = c
  /\ rpc[r] \in {"root", "accepted"} => seen[r][Payload] = c
  /\ rpc[r] = "accepted" => lock[r] \in {None, RootOf(c)}

\* Reader r has not turned capture c away, unless for its lock.
Welcomes(r, c) ==
  \/ rpc[r] \in {"route", "marker", "accepted"} \cup Strict
  \/ rpc[r] = "contract" /\ lock[r] \notin {None, RootOf(c)}

Reads(r) ==
  /\ rpc[r] \in {"legacy", "legacyPayload"} => route[r] # "v1"
  /\ rpc[r] = "idle" => overAtStart[r] = {}
  /\ \A c \in overAtStart[r] : cpc[c] \in CaptureEnded
  /\ OneWriter =>
       /\ rpc[r] \in Strict \/ (rpc[r] = "accepted" /\ route[r] = "v1") =>
            \E c \in Captures : Complete(c) /\ Has(r, c)
       /\ \A c \in overAtStart[r] : cpc[c] = "done" => Welcomes(r, c)

BoundaryInv == WriterInv /\ \A r \in Readers : Reads(r)

LEMMA BoundaryInit == Init => BoundaryInv
BY WriterInit DEF Init, BoundaryInv, Reads, Strict

\* Nothing is written after the one writer is done.
LEMMA CompleteStays ==
  ASSUME WriterInv, OneWriter', NEW c \in Captures, Complete(c), NEW d \in Captures, CaptureStep(d)
  PROVE  OneWriter /\ Complete(c)'
<1>1. TypeOK /\ cpc[c] = "done" /\ writers \subseteq writers'
  BY DEF WriterInv, Complete, CaptureStep, Begin, RollOut, OpenFile, CloseFile, DigestMetadata,
         DigestPayload, DigestListing, CaptureFails
<1>2. OneWriter
  BY <1>1 DEF OneWriter
<1>3. c \in writers /\ c \in writers'
  BY <1>1, <1>2, DoneIsComplete
<1>4. d # c
  BY <1>1 DEF CaptureStep, Begin, RollOut, OpenFile, CloseFile, DigestMetadata, DigestPayload,
              DigestListing, CaptureFails, CaptureEnded
<1>5. UNCHANGED disk
  BY <1>3, <1>4, OthersBehind
<1>6. cpc'[c] = cpc[c]
  BY <1>1, <1>4 DEF CaptureStep, Begin, RollOut, OpenFile, CloseFile, DigestMetadata, DigestPayload,
                    DigestListing, CaptureFails, Advance, TypeOK
<1>7. QED
  BY <1>2, <1>5, <1>6 DEF Complete, Final

\* A capture that has ended takes no step.
LEMMA EndedStays ==
  ASSUME TypeOK, NEW c \in Captures, cpc[c] \in CaptureEnded, NEW d \in Captures, CaptureStep(d)
  PROVE  cpc'[c] = cpc[c]
<1>1. d # c
  BY DEF CaptureStep, Begin, RollOut, OpenFile, CloseFile, DigestMetadata, DigestPayload,
         DigestListing, CaptureFails, CaptureEnded
<1>2. QED
  BY <1>1 DEF CaptureStep, Begin, RollOut, OpenFile, CloseFile, DigestMetadata, DigestPayload,
              DigestListing, CaptureFails, Advance, TypeOK

LEMMA CaptureKeepsReads ==
  ASSUME BoundaryInv, NEW c \in Captures, CaptureStep(c), NEW r \in Readers
  PROVE  Reads(r)'
<1>1. WriterInv /\ TypeOK /\ Reads(r) /\ UNCHANGED readerVars
  BY DEF BoundaryInv, WriterInv, CaptureStep, Begin, RollOut, OpenFile, CloseFile, DigestMetadata,
         DigestPayload, DigestListing, CaptureFails
<1>2. UNCHANGED <<rpc, lock, seen, route, overAtStart>>
  BY <1>1 DEF readerVars
<1>3. overAtStart[r] \subseteq Captures
  BY <1>1 DEF TypeOK
<1>4. \A d \in overAtStart[r] : cpc'[d] = cpc[d]
  BY <1>1, <1>3, EndedStays DEF Reads
<1>5. OneWriter' => OneWriter
  BY DEF OneWriter, CaptureStep, Begin, RollOut, OpenFile, CloseFile, DigestMetadata, DigestPayload,
         DigestListing, CaptureFails
<1>6. ASSUME OneWriter', rpc[r] \in Strict \/ (rpc[r] = "accepted" /\ route[r] = "v1")
      PROVE  \E d \in Captures : Complete(d)' /\ Has(r, d)'
  <2>1. PICK d \in Captures : Complete(d) /\ Has(r, d)
    BY <1>1, <1>5, <1>6 DEF Reads
  <2>2. Complete(d)'
    BY <1>1, <1>6, <2>1, CompleteStays
  <2>3. Has(r, d)'
    BY <1>2, <2>1 DEF Has, RootOf
  <2>4. QED
    BY <2>2, <2>3
<1>7. ASSUME OneWriter', NEW d \in overAtStart[r], cpc[d] = "done" PROVE Welcomes(r, d)'
  BY <1>1, <1>2, <1>5, <1>7 DEF Reads, Welcomes, RootOf
<1>8. QED
  BY <1>1, <1>2, <1>4, <1>6, <1>7 DEF Reads

\* The strict reader, in a complete directory, goes on to the end, or stops at its lock.
LEMMA StrictStep ==
  ASSUME TypeOK, NEW r \in Readers, NEW c \in Captures, Complete(c), Has(r, c), rpc[r] \in Strict,
         ReaderStep(r)
  PROVE  /\ UNCHANGED <<route, overAtStart>>
         /\ \/ rpc'[r] \in Strict \cup {"accepted"} /\ Has(r, c)'
            \/ rpc'[r] = "contract" /\ lock[r] \notin {None, RootOf(c)}
<1>1. /\ disk[Payload] = c /\ disk[Metadata] = c
      /\ disk[Listing] = RootOf(c) /\ disk[Marker] = RootOf(c)
      /\ RootOf(c)[Payload] = c /\ RootOf(c)[Metadata] = c
  BY FilesAre DEF Complete, Final, RootOf
<1>2. /\ c \notin {Absent, Torn, Legacy} /\ RootOf(c) \notin {Absent, Torn}
  BY NameAssumption, RootIsThere
<1>3. seen[r] \in Directory /\ DOMAIN seen[r] = File
  BY DEF TypeOK, Directory
<1>4. UNCHANGED lock
  BY ReaderType
<1> Payload \in File /\ Metadata \in File /\ Listing \in File
  BY FilesAre
<1>5. CASE ReadListing(r)
  <2>1. rpc'[r] = "hashMetadata" /\ Look(r, Listing)
    BY <1>1, <1>2, <1>5, TurnType DEF ReadListing, ReaderLabels
  <2>2. seen'[r] = [seen[r] EXCEPT ![Listing] = disk[Listing]]
    BY <2>1, LookType
  <2>3. QED
    BY <1>1, <2>1, <2>2, <1>3, <1>4, <1>5, FilesAre DEF ReadListing, Has, Strict, RootOf
<1>6. CASE HashMetadata(r) \/ HashPayload(r) \/ CheckSealedListing(r)
  <2>1. seen[r][Listing] = RootOf(c) /\ seen[r][Marker] = RootOf(c)
    BY <1>6 DEF HashMetadata, HashPayload, CheckSealedListing, Has
  <2>2. rpc'[r] \in {"hashPayload", "sealed", "readMetadata"}
    BY <1>1, <1>2, <1>6, <2>1, TurnType
       DEF HashMetadata, HashPayload, CheckSealedListing, HashMatches, Sealed, ReaderLabels
  <2>3. QED
    BY <2>1, <2>2, <1>4, <1>6
       DEF HashMetadata, HashPayload, CheckSealedListing, Has, Strict, RootOf
<1>7. CASE ReadMetadata(r)
  <2>1. Turn(r, "readPayload")
    BY <1>1, <1>2, <1>7 DEF ReadMetadata
  <2>2. rpc'[r] = "readPayload" /\ Look(r, Metadata)
    BY <2>1, <1>7, TurnType DEF ReadMetadata, ReaderLabels
  <2>3. seen'[r] = [seen[r] EXCEPT ![Metadata] = disk[Metadata]]
    BY <2>2, LookType
  <2>4. QED
    BY <1>1, <2>2, <2>3, <1>3, <1>4, <1>7, FilesAre DEF ReadMetadata, Has, Strict, RootOf
<1>8. CASE ReadPayload(r)
  <2>1. rpc'[r] = "root" /\ Look(r, Payload)
    BY <1>1, <1>8, TurnType DEF ReadPayload, Has, ReaderLabels
  <2>2. seen'[r] = [seen[r] EXCEPT ![Payload] = disk[Payload]]
    BY <2>1, LookType
  <2>3. QED
    BY <1>1, <2>1, <2>2, <1>3, <1>4, <1>8, FilesAre DEF ReadPayload, Has, Strict, RootOf
<1>9. CASE ReadRoot(r)
  <2>1. seen'[r] = [seen[r] EXCEPT ![Listing] = disk[Listing]]
    BY <1>9, LookType DEF ReadRoot
  <2>2. CASE LockHolds(r, RootOf(c))
    <3>1. rpc'[r] = "accepted"
      BY <1>1, <1>9, <2>2, TurnType DEF ReadRoot, ReaderLabels, Accepted
    <3>2. lock'[r] \in {None, RootOf(c)}
      BY <1>4, <2>2 DEF LockHolds
    <3>3. QED
      BY <1>1, <3>1, <3>2, <2>1, <1>3, <1>4, <1>9, FilesAre DEF ReadRoot, Has, Strict, RootOf
  <2>3. CASE ~LockHolds(r, RootOf(c))
    <3>1. rpc'[r] = "contract"
      BY <1>1, <1>9, <2>3, TurnType DEF ReadRoot, ReaderLabels, Refused
    <3>2. QED
      BY <3>1, <2>3, <1>9 DEF ReadRoot, LockHolds
  <2>4. QED
    BY <2>2, <2>3
<1>10. QED
  BY <1>5, <1>6, <1>7, <1>8, <1>9
     DEF ReaderStep, Strict, StartReading, Route, ReadLegacyMetadata, ReadLegacyPayload, ReadMarker

\* What a reader does changes nothing for the others.
LEMMA OthersRead ==
  ASSUME BoundaryInv, NEW r \in Readers, ReaderStep(r), NEW q \in Readers \ {r}
  PROVE  Reads(q)'
<1>1. TypeOK /\ Reads(q) /\ UNCHANGED <<disk, captureVars, lock>>
  BY ReaderType DEF BoundaryInv, WriterInv
<1>2. /\ rpc'[q] = rpc[q] /\ seen'[q] = seen[q] /\ route'[q] = route[q]
      /\ overAtStart'[q] = overAtStart[q]
  BY <1>1 DEF ReaderStep, StartReading, Route, ReadLegacyMetadata, ReadLegacyPayload, ReadMarker,
              ReadListing, HashMetadata, HashPayload, CheckSealedListing, ReadMetadata, ReadPayload,
              ReadRoot, Turn, Look, TypeOK
<1>3. (\A c : Complete(c)' <=> Complete(c)) /\ (OneWriter' <=> OneWriter)
  BY <1>1 DEF Complete, Final, RootOf, OneWriter, captureVars
<1>4. \A c : (Has(q, c)' <=> Has(q, c)) /\ (Welcomes(q, c)' <=> Welcomes(q, c))
  BY <1>1, <1>2 DEF Has, Welcomes, RootOf
<1>5. QED
  BY <1>1, <1>2, <1>3, <1>4 DEF Reads, captureVars

LEMMA BeginReading ==
  ASSUME BoundaryInv, NEW r \in Readers, StartReading(r) \/ Route(r)
  PROVE  Reads(r)'
<1>1. TypeOK /\ WriterInv /\ Reads(r) /\ UNCHANGED <<disk, captureVars, lock>>
  BY DEF BoundaryInv, WriterInv, StartReading, Route
<1>2. CASE StartReading(r)
  <2>1. rpc'[r] = "route" /\ overAtStart'[r] = {c \in Captures : cpc[c] \in CaptureEnded}
    BY <1>1, <1>2, TurnType DEF StartReading, ReaderLabels, TypeOK
  <2>2. QED
    BY <1>1, <2>1 DEF Reads, Welcomes, Strict, captureVars
<1>3. CASE Route(r)
  <2>1. /\ UNCHANGED overAtStart /\ rpc'[r] \in {"error", "marker", "legacy"}
        /\ rpc'[r] = "legacy" => route'[r] = "legacy"
        /\ rpc'[r] # "marker" => disk[Marker] = Absent
    BY <1>1, <1>3, TurnType DEF Route, ReaderLabels, Refused, TypeOK
  <2>2. ASSUME OneWriter, NEW c \in overAtStart[r], cpc[c] = "done" PROVE rpc'[r] = "marker"
    <3>1. c \in Captures
      BY <1>1 DEF TypeOK
    <3>2. disk[Marker] = RootOf(c)
      BY <1>1, <2>2, <3>1, DoneIsComplete, FilesAre DEF Complete, Final
    <3>3. QED
      BY <2>1, <3>1, <3>2, RootIsThere
  <2>3. QED
    BY <1>1, <2>1, <2>2 DEF Reads, Welcomes, Strict, OneWriter, captureVars
<1>4. QED
  BY <1>2, <1>3

LEMMA ReadingLegacy ==
  ASSUME BoundaryInv, NEW r \in Readers, ReadLegacyMetadata(r) \/ ReadLegacyPayload(r)
  PROVE  Reads(r)'
<1>1. /\ TypeOK /\ Reads(r) /\ UNCHANGED <<disk, captureVars, lock, route, overAtStart>>
      /\ rpc[r] \in {"legacy", "legacyPayload"}
      /\ rpc'[r] \in {"legacyPayload", "error", "accepted"}
  BY TurnType
     DEF BoundaryInv, WriterInv, ReadLegacyMetadata, ReadLegacyPayload, ReaderLabels, Refused, Accepted
<1>2. OneWriter => \A c \in overAtStart[r] : cpc[c] # "done"
  BY <1>1 DEF Reads, Welcomes, Strict
<1>3. QED
  BY <1>1, <1>2 DEF Reads, Strict, OneWriter, captureVars

LEMMA ReadingMarker ==
  ASSUME BoundaryInv, NEW r \in Readers, ReadMarker(r)
  PROVE  Reads(r)'
<1>1. /\ TypeOK /\ WriterInv /\ Reads(r)
      /\ UNCHANGED <<disk, captureVars, lock, route, overAtStart>>
      /\ rpc'[r] = IF MarkerAccepted(disk[Marker]) THEN "listing" ELSE "incomplete"
      /\ seen'[r][Marker] = disk[Marker]
  <2>1. TypeOK /\ WriterInv /\ Reads(r)
    BY DEF BoundaryInv, WriterInv
  <2>2. seen'[r] = [seen[r] EXCEPT ![Marker] = disk[Marker]]
    BY <2>1, LookType, FilesAre DEF ReadMarker
  <2>3. seen'[r][Marker] = disk[Marker]
    BY <2>1, <2>2, FilesAre DEF TypeOK, Directory
  <2>4. rpc'[r] = IF MarkerAccepted(disk[Marker]) THEN "listing" ELSE "incomplete"
    BY <2>1, TurnType DEF ReadMarker, ReaderLabels, Refused
  <2>5. QED
    BY <2>1, <2>3, <2>4 DEF ReadMarker
<1>2. ASSUME OneWriter, rpc'[r] = "listing"
      PROVE  \E c \in Captures : Complete(c)' /\ Has(r, c)'
  <2>1. disk[Marker] \notin {Absent, Torn}
    BY <1>1, <1>2 DEF MarkerAccepted
  <2>2. PICK c \in Captures : Complete(c)
    BY <1>1, <1>2, <2>1, MarkerMeansDone
  <2>3. disk[Marker] = RootOf(c)
    BY <2>2, FilesAre DEF Complete, Final
  <2>4. Complete(c)'
    BY <1>1, <2>2 DEF Complete, Final, RootOf, captureVars
  <2>5. Has(r, c)'
    BY <1>1, <1>2, <2>3 DEF Has, RootOf
  <2>6. QED
    BY <2>4, <2>5
<1>3. ASSUME OneWriter, NEW c \in overAtStart[r], cpc[c] = "done" PROVE rpc'[r] = "listing"
  <2>1. c \in Captures
    BY <1>1 DEF TypeOK
  <2>2. disk[Marker] = RootOf(c)
    BY <1>1, <1>3, <2>1, DoneIsComplete, FilesAre DEF Complete, Final
  <2>3. QED
    BY <1>1, <2>1, <2>2, RootIsThere DEF MarkerAccepted
<1>4. QED
  BY <1>1, <1>2, <1>3 DEF Reads, Welcomes, Strict, OneWriter, captureVars

LEMMA ReadingStrictly ==
  ASSUME BoundaryInv, NEW r \in Readers, ReaderStep(r), rpc[r] \in Strict
  PROVE  Reads(r)'
<1>1. TypeOK /\ WriterInv /\ Reads(r) /\ UNCHANGED <<disk, captureVars, lock>>
  BY ReaderType DEF BoundaryInv, WriterInv
<1>2. /\ UNCHANGED overAtStart
      /\ rpc'[r] \in Strict \cup {"accepted", "contract", "error"}
  <2>1. disk[Metadata] \in DataValue
    BY <1>1 DEF TypeOK, Directory
  <2>2. /\ UNCHANGED overAtStart
        /\ \E label \in Strict \cup {"accepted", "contract", "error"} : Turn(r, label)
    BY <2>1
       DEF ReaderStep, StartReading, Route, ReadLegacyMetadata, ReadLegacyPayload, ReadMarker,
           ReadListing, HashMetadata, HashPayload, CheckSealedListing, ReadMetadata, ReadPayload,
           ReadRoot, Strict, DataValue
  <2>3. QED
    BY <1>1, <2>2, TurnType DEF ReaderLabels, Strict, Accepted, Refused
<1>3. CASE ~OneWriter
  BY <1>1, <1>2, <1>3 DEF Reads, Strict, OneWriter, captureVars
<1>4. CASE OneWriter
  <2>1. PICK c \in Captures : Complete(c) /\ Has(r, c)
    BY <1>1, <1>4 DEF Reads
  <2>2. \/ rpc'[r] \in Strict \cup {"accepted"} /\ Has(r, c)'
        \/ rpc'[r] = "contract" /\ lock[r] \notin {None, RootOf(c)}
    BY <1>1, <2>1, StrictStep
  <2>3. Complete(c)'
    BY <1>1, <2>1 DEF Complete, Final, RootOf, captureVars
  <2>4. ASSUME NEW d \in overAtStart[r], cpc[d] = "done" PROVE d = c
    BY <1>1, <1>4, <2>1, <2>4, DoneIsComplete DEF TypeOK, Complete, OneWriter
  <2>5. \A d \in overAtStart[r] : cpc[d] = "done" => Welcomes(r, d)'
    BY <1>1, <2>2, <2>4 DEF Welcomes, RootOf
  <2>6. QED
    BY <1>1, <1>2, <2>2, <2>3, <2>5 DEF Reads, Strict, captureVars
<1>5. QED
  BY <1>3, <1>4

LEMMA BoundaryStep == BoundaryInv /\ [Next]_vars => BoundaryInv'
<1> SUFFICES ASSUME BoundaryInv, [Next]_vars PROVE BoundaryInv'
  OBVIOUS
<1>1. ASSUME NEW c \in Captures, CaptureStep(c) PROVE BoundaryInv'
  BY <1>1, WriterStep, CaptureKeepsReads DEF BoundaryInv
<1>2. ASSUME NEW r \in Readers, ReaderStep(r) PROVE BoundaryInv'
  <2>1. WriterInv'
    BY <1>2, ReaderType
       DEF BoundaryInv, WriterInv, Local, Behind, Final, RootOf, OneWriter, captureVars
  <2>2. Reads(r)'
    <3>1. CASE rpc[r] \in Strict
      BY <1>2, <3>1, ReadingStrictly
    <3>2. CASE rpc[r] \notin Strict
      BY <1>2, <3>2, BeginReading, ReadingLegacy, ReadingMarker
         DEF ReaderStep, ReadListing, HashMetadata, HashPayload, CheckSealedListing, ReadMetadata,
             ReadPayload, ReadRoot, Strict
    <3>3. QED
      BY <3>1, <3>2
  <2>3. QED
    BY <1>2, <2>1, <2>2, OthersRead DEF BoundaryInv
<1>3. CASE UNCHANGED vars
  <2>1. WriterInv'
    BY <1>3 DEF vars, captureVars, readerVars, BoundaryInv, WriterInv, TypeOK, Local, Behind, Final,
                RootOf, OneWriter
  <2>2. \A r \in Readers : Reads(r)'
    BY <1>3 DEF vars, captureVars, readerVars, BoundaryInv, Reads, Complete, Final, Has, Welcomes,
                RootOf, OneWriter
  <2>3. QED
    BY <2>1, <2>2 DEF BoundaryInv
<1>4. QED
  BY <1>1, <1>2, <1>3 DEF Next

\* The invariant of the directory, its writer and its readers.
THEOREM Boundary == Spec => []BoundaryInv
BY BoundaryInit, BoundaryStep, PTL DEF Spec

-----------------------------------------------------------------------------
(* What the boundary promises.                                               *)

\* For any number of captures, of which one writes, and of readers: what the strict
\* reader accepts is the work of one capture that is done (finalize_v1, load_v1).
THEOREM AcceptedFinished == Spec => []AcceptedIsFinished
<1>1. BoundaryInv => AcceptedIsFinished
  BY FilesAre DEF BoundaryInv, Reads, Has, Complete, AcceptedIsFinished
<1>2. QED
  BY <1>1, Boundary, PTL

\* For any of them: what is accepted under a lock is what the lock is of
\* (_load_parity_bundle_subject).
THEOREM LockHonoured == Spec => []LockIsHonoured
<1>1. BoundaryInv => LockIsHonoured
  <2> SUFFICES ASSUME BoundaryInv, OneWriter, NEW r \in Readers,
                      rpc[r] = "accepted", route[r] = "v1", lock[r] # None
               PROVE  lock[r] = [n \in Data |-> seen[r][n]]
    BY DEF LockIsHonoured
  <2>1. PICK c \in Captures : Has(r, c)
    BY DEF BoundaryInv, Reads
  <2>2. lock[r] = RootOf(c) /\ \A n \in Data : seen[r][n] = c
    BY <2>1, FilesAre DEF Has
  <2>3. QED
    BY <2>2 DEF RootOf
<1>2. QED
  BY <1>1, Boundary, PTL

\* For any of them: a capture that was done before a reader began is refused by it for
\* its lock only (is_v1, load_v1).
THEOREM FinishedReadable == Spec => []FinishedIsReadable
<1>1. BoundaryInv => FinishedIsReadable
  BY DEF BoundaryInv, Reads, Welcomes, Strict, Refused, FinishedIsReadable
<1>2. QED
  BY <1>1, Boundary, PTL
=============================================================================
