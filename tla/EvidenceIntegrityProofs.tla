---------------------- MODULE EvidenceIntegrityProofs ----------------------
(***************************************************************************)
(* verify() detects every uncoordinated change of a finalized bundle, for  *)
(* any files, contents and original record.                                *)
(***************************************************************************)
EXTENDS EvidenceIntegrity, TLAPS

\* Digests are injective and are not Absent, so equal listings mean equal files.
LEMMA ListingDeterminesFiles ==
  ASSUME NEW f \in [Name -> Contents \cup {Absent}], NEW g \in [Name -> Contents \cup {Absent}],
         Checksums([file |-> f]) = Checksums([file |-> g])
  PROVE  f = g
<1>1. ASSUME NEW n \in Name PROVE f[n] = g[n]
  <2>1. (IF f[n] = Absent THEN Absent ELSE Digest(f[n]))
           = (IF g[n] = Absent THEN Absent ELSE Digest(g[n]))
    BY DEF Checksums
  <2>2. \A c \in Contents : Digest(c) # Absent
    BY ValueAssumption DEF Digest, Digests
  <2>3. QED
    BY <2>1, <2>2 DEF Digest
<1>2. QED
  BY <1>1

\* The listing and the seal finalize() writes are a Listing and a Seal.
LEMMA FinalizedParts ==
  ASSUME NEW f \in [Name -> Contents \cup {Absent}]
  PROVE  /\ Finalized(f).file = f
         /\ Finalized(f).sums = Checksums([file |-> f]) /\ Finalized(f).sums \in Listings
         /\ Finalized(f).seal = [schema |-> Supported, checksums |-> Digest(Finalized(f).sums)]
         /\ Finalized(f).seal \in Seals
<1>1. Checksums([file |-> f]) \in Listings
  <2>1. \A n \in Name : (IF f[n] = Absent THEN Absent ELSE Digest(f[n])) \in Digests \cup {Absent}
    BY DEF Digest, Digests
  <2>2. QED
    BY <2>1 DEF Checksums, Listings
<1>2. QED
  BY <1>1 DEF Finalized, SealOf, Supported, Schemas, Seals, Digest

LEMMA TypeInit == Init => TypeOK
BY OriginalAssumption, FinalizedParts DEF Init, TypeOK, Finalized, SealOf

LEMMA TypeNext == TypeOK /\ [Next]_b => TypeOK'
<1> SUFFICES ASSUME TypeOK, [Next]_b PROVE TypeOK'
  OBVIOUS
<1>1. CASE EditFile
  <2>1. PICK n \in Name, c \in Contents \cup {Absent} : b' = [b EXCEPT !.file[n] = c]
    BY <1>1 DEF EditFile
  <2>2. [b.file EXCEPT ![n] = c] \in [Name -> Contents \cup {Absent}]
    BY DEF TypeOK
  <2>3. QED
    BY <2>1, <2>2 DEF TypeOK
<1>2. CASE EditListing
  <2>1. ASSUME NEW n \in Name, NEW d \in Digests \cup {Absent},
               b.sums \notin {Absent, Torn}, b' = [b EXCEPT !.sums[n] = d]
        PROVE  TypeOK'
    <3>1. [b.sums EXCEPT ![n] = d] \in Listings
      BY <2>1 DEF TypeOK, Listings
    <3>2. QED
      BY <2>1, <3>1 DEF TypeOK
  <2>2. ASSUME NEW s \in {Absent, Torn}, b' = [b EXCEPT !.sums = s] PROVE TypeOK'
    BY <2>2 DEF TypeOK
  <2>3. QED
    BY <1>2, <2>1, <2>2 DEF EditListing
<1>3. CASE EditSeal
  <2>1. ASSUME NEW s \in Schemas, b.sums # Absent,
               b' = [b EXCEPT !.seal = [schema |-> s, checksums |-> Digest(b.sums)]]
        PROVE  TypeOK'
    <3>1. [schema |-> s, checksums |-> Digest(b.sums)] \in Seals
      BY <2>1 DEF TypeOK, Seals, Digest
    <3>2. QED
      BY <2>1, <3>1 DEF TypeOK
  <2>2. ASSUME NEW s \in {Absent, Torn}, b' = [b EXCEPT !.seal = s] PROVE TypeOK'
    BY <2>2 DEF TypeOK
  <2>3. QED
    BY <1>3, <2>1, <2>2 DEF EditSeal
<1>4. CASE FinalizeAgain
  <2>1. b.file \in [Name -> Contents \cup {Absent}]
    BY DEF TypeOK
  <2>2. b' = Finalized(b.file)
    BY <1>4 DEF FinalizeAgain
  <2>3. /\ Finalized(b.file).file = b.file
        /\ Finalized(b.file).sums \in Listings
        /\ Finalized(b.file).seal \in Seals
    BY <2>1, FinalizedParts
  <2>4. PICK s \in Listings, t \in Seals :
          b' = [root |-> TRUE, signals |-> TRUE, file |-> b.file, sums |-> s, seal |-> t,
                readonly |-> TRUE]
    BY <2>2, <2>3 DEF Finalized
  <2>5. QED
    BY <2>1, <2>4 DEF TypeOK
<1>5. CASE UNCHANGED b
  BY <1>5 DEF TypeOK
<1>6. QED
  BY <1>1, <1>2, <1>3, <1>4, <1>5 DEF Next

\* The bundle stays a bundle.
THEOREM TypeCorrect == Spec => []TypeOK
BY TypeInit, TypeNext, PTL DEF Spec

\* A change that verify() does not report replaced the listing and the seal.
THEOREM Detection == Spec => []UndetectedMeansResealed
<1>1. ASSUME TypeOK PROVE UndetectedMeansResealed
  <2> SUFFICES ASSUME Verified(b), b.file # Original
               PROVE  b.sums # Sealed.sums /\ b.seal # Sealed.seal
    BY OriginalAssumption, FinalizedParts DEF UndetectedMeansResealed, Sealed
  <2>1. b.file \in [Name -> Contents \cup {Absent}] /\ Original \in [Name -> Contents \cup {Absent}]
    BY <1>1, OriginalAssumption DEF TypeOK
  <2>2. b.sums # Sealed.sums
    <3>1. SUFFICES ASSUME b.sums = Sealed.sums PROVE FALSE
      OBVIOUS
    <3>2. b.sums = Checksums([file |-> Original]) /\ b.sums \in Listings
      BY <2>1, <3>1, FinalizedParts DEF Sealed
    <3>3. \A n \in Name : b.sums[n] = Checksums(b)[n]
      BY <3>2, ValueAssumption DEF Verified, FileProblems, RecordedDigest
    <3>4. Checksums([file |-> b.file]) = Checksums([file |-> Original])
      BY <3>2, <3>3 DEF Checksums
    <3>5. QED
      BY <2>1, <3>4, ListingDeterminesFiles
  <2>3. b.seal # Sealed.seal
    <3>1. b.seal.checksums = Digest(b.sums)
      BY DEF Verified, SealProblems
    <3>2. Sealed.seal.checksums = Digest(Sealed.sums)
      <4>1. Sealed.seal = [schema |-> Supported, checksums |-> Digest(Sealed.sums)]
        BY <2>1, FinalizedParts DEF Sealed
      <4>2. QED
        BY <4>1
    <3>3. QED
      BY <2>2, <3>1, <3>2 DEF Digest
  <2>4. QED
    BY <2>2, <2>3
<1>2. QED
  BY <1>1, TypeCorrect, PTL

\* verify() accepts the bundle as it was sealed.
THEOREM NoFalseAlarm == Spec => []IntactVerifies
<1>1. IntactVerifies
  <2> SUFFICES ASSUME b.file = Sealed.file, b.sums = Sealed.sums, b.seal = Sealed.seal
               PROVE  Verified(b)
    BY DEF IntactVerifies
  <2>1. /\ b.file = Original /\ b.sums = Checksums([file |-> Original]) /\ b.sums \in Listings
        /\ b.seal = [schema |-> Supported, checksums |-> Digest(b.sums)] /\ b.seal \in Seals
    BY OriginalAssumption, FinalizedParts DEF Sealed
  <2>2. b.seal \notin {Absent, Torn} /\ b.sums \notin {Absent, Torn}
    BY <2>1, ValueAssumption
  <2>3. \A n \in Name : RecordedDigest(b.sums, n) = Checksums(b)[n]
    BY <2>1, <2>2 DEF RecordedDigest, Checksums
  <2>4. QED
    BY <2>1, <2>2, <2>3 DEF Verified, SealProblems, FileProblems
<1>2. QED
  BY <1>1, PTL
=============================================================================
