------------------------ MODULE CaptureHandoffProofs ------------------------
(***************************************************************************)
(* Proofs about CaptureHandoff, for any set of captures and any roles.  As *)
(* long as captures take turns, one of them at most is at work, and what   *)
(* it has in memory holds everything the others have put on record.        *)
(***************************************************************************)
EXTENDS CaptureHandoff, TLAPS

-----------------------------------------------------------------------------
(* Type correctness.                                                         *)

LEMMA TemplateType == Template \in Manifest
BY DEF Template, Manifest, Entry

LEMMA CutType ==
  ASSUME NEW m \in Manifest, NEW n \in 0..3
  PROVE  Cut(m, n) \in Manifest
BY DEF Cut, Manifest, Entry

LEMMA AmendedType ==
  ASSUME TypeOK, NEW c \in Captures
  PROVE  Amended(c) \in Manifest
<1>1. RoleOf[c] \in Roles /\ raw[c] \in Manifest /\ c \in Entry
  BY RoleAssumption DEF TypeOK, Entry
<1>2. QED
  BY <1>1 DEF Amended, Manifest

\* What one step of a capture does to its own program counter.
LEMMA GotoType ==
  ASSUME TypeOK, NEW c \in Captures, NEW label, Goto(c, label),
         label \in {"idle", "look", "amend", "open", "close", "print"} \cup Ended
  PROVE  /\ pc' \in [Captures -> {"idle", "look", "amend", "open", "close", "print"} \cup Ended]
         /\ pc'[c] = label /\ \A d \in Captures \ {c} : pc'[d] = pc[d]
BY DEF TypeOK, Goto

LEMMA TypeStep == TypeOK /\ [Next]_vars => TypeOK'
<1> SUFFICES ASSUME TypeOK, [Next]_vars PROVE TypeOK'
  OBVIOUS
<1>1. ASSUME NEW c \in Captures, Step(c) PROVE TypeOK'
  <2>1. CASE BundleDone(c) \/ TemplateFails(c) \/ RefuseManifest(c) \/ AmendFails(c) \/ Killed(c)
    BY <2>1, GotoType DEF BundleDone, TemplateFails, RefuseManifest, AmendFails, Killed, TypeOK, Ended
  <2>2. CASE ReadTemplate(c) \/ ReadManifest(c)
    BY <2>2, GotoType, TemplateType DEF ReadTemplate, ReadManifest, TypeOK, Ended
  <2>3. CASE Amend(c)
    BY <2>3, GotoType, AmendedType DEF Amend, TypeOK, Ended
  <2>4. CASE OpenManifest(c)
    BY <2>4, GotoType, CutType DEF OpenManifest, TypeOK, Ended
  <2>5. CASE CloseManifest(c)
    BY <2>5, GotoType DEF CloseManifest, TypeOK, Ended
  <2>6. CASE PrintStatus(c)
    BY <2>6, GotoType DEF PrintStatus, TypeOK, Ended
  <2>7. CASE WriteInterrupted(c)
    <3>1. PICK n \in 0..(raw[c].sections - 1) : manifest' = Cut(raw[c], n)
      BY <2>7 DEF WriteInterrupted
    <3>2. raw[c] \in Manifest /\ n \in 0..3
      BY <3>1 DEF TypeOK, Manifest
    <3>3. QED
      BY <2>7, <3>1, <3>2, GotoType, CutType DEF WriteInterrupted, TypeOK, Ended
  <2>8. QED
    BY <1>1, <2>1, <2>2, <2>3, <2>4, <2>5, <2>6, <2>7 DEF Step
<1>2. CASE UNCHANGED vars
  BY <1>2 DEF vars, TypeOK
<1>3. QED
  BY <1>1, <1>2 DEF Next

\* The manifest and what every capture has of it keep their shape.
THEOREM HandoffTypeCorrect == Spec => []TypeOK
<1>1. Init => TypeOK
  <2> SUFFICES ASSUME Init PROVE TypeOK
    OBVIOUS
  <2>1. manifest \in Manifest
    <3>1. Cut(Template, 0) \in Manifest
      BY TemplateType, CutType
    <3>2. QED
      BY <3>1, TemplateType DEF Init, Manifest
  <2>2. QED
    BY <2>1, TemplateType DEF Init, TypeOK
<1>2. QED
  BY <1>1, TypeStep, PTL DEF Spec

-----------------------------------------------------------------------------
(* The invariant of captures that take turns.                                *)

AtWork(c) == pc[c] \notin {"idle"} \cup Ended

\* The captures that have this role or all of them on record in a text.
Told(text) ==
  \A d \in Captures :
    /\ pc[d] = "exit0" => text.lock[RoleOf[d]] # None
    /\ printed[d] = "ready" => text.sections = 3 /\ \A r \in Roles : text.lock[r] # None

Whole(text) == text.kind = "generated" => text.sections = 3

\* One capture is at work.  What it has read, and what it has amended, holds what was on
\* record, its own role as well once it is amended; while the file is not open, the file
\* holds it too.
TakingTurns ==
  /\ \A c, d \in Captures : AtWork(c) /\ AtWork(d) => c = d
  /\ Quiet => Told(manifest) /\ Whole(manifest)
  /\ \A c \in Captures :
       /\ pc[c] \in {"amend", "open", "close", "print"} =>
            Told(raw[c]) /\ raw[c].kind = "generated" /\ raw[c].sections = 3
       /\ pc[c] \in {"open", "close", "print"} => raw[c].lock[RoleOf[c]] # None
       /\ pc[c] = "print" => manifest = raw[c]
  /\ manifest.kind = "absent" =>
       \A c \in Captures : pc[c] \notin {"close", "print", "exit0"} /\ printed[c] # "ready"

HandoffInv == TypeOK /\ (calm => TakingTurns)

LEMMA HandoffInit == Init => HandoffInv
<1> SUFFICES ASSUME Init PROVE HandoffInv
  OBVIOUS
<1>1. TypeOK
  <2>1. Cut(Template, 0) \in Manifest
    BY TemplateType, CutType
  <2>2. QED
    BY <2>1, TemplateType DEF Init, TypeOK, Manifest
<1>2. \A c \in Captures : pc[c] = "idle" /\ printed[c] = None
  BY DEF Init
<1>3. \A c \in Captures : ~AtWork(c)
  BY <1>2 DEF AtWork
<1>4. Told(manifest)
  BY <1>2, NoneAssumption DEF Told
<1>5. Whole(manifest)
  <2>1. manifest.kind # "generated"
    BY DEF Init, Template, Cut
  <2>2. QED
    BY <2>1 DEF Whole
<1>6. QED
  BY <1>1, <1>2, <1>3, <1>4, <1>5, NoneAssumption DEF HandoffInv, TakingTurns

\* A step of the one capture at work leaves it the only one.
LEMMA OneAtWork ==
  ASSUME TypeOK, NEW c \in Captures, \A d \in Captures \ {c} : ~AtWork(d),
         NEW label, Goto(c, label)
  PROVE  /\ pc'[c] = label
         /\ \A d \in Captures \ {c} : pc'[d] = pc[d] /\ pc'[d] \in {"idle"} \cup Ended
         /\ (\A x, y \in Captures : AtWork(x) /\ AtWork(y) => x = y)'
<1>1. pc'[c] = label /\ \A d \in Captures \ {c} : pc'[d] = pc[d]
  BY DEF Goto, TypeOK
<1>2. QED
  BY <1>1 DEF AtWork

LEMMA BeginStep ==
  ASSUME HandoffInv, calm', NEW c \in Captures, BundleDone(c)
  PROVE  TakingTurns'
<1>1. TypeOK /\ TakingTurns /\ \A d \in Captures : ~AtWork(d)
  BY DEF BundleDone, HandoffInv, AtWork
<1>2. /\ pc'[c] = "look" /\ pc[c] = "idle"
      /\ \A d \in Captures \ {c} : pc'[d] = pc[d] /\ pc'[d] \in {"idle"} \cup Ended
      /\ (\A x, y \in Captures : AtWork(x) /\ AtWork(y) => x = y)'
  BY <1>1, OneAtWork DEF BundleDone
<1>3. UNCHANGED <<manifest, raw, printed>>
  BY DEF BundleDone
<1>4. Quiet
  BY <1>1 DEF Quiet, AtWork, Ended
<1>5. Told(manifest)' /\ Whole(manifest)'
  BY <1>1, <1>2, <1>3, <1>4 DEF Told, TakingTurns, Whole
<1>6. QED
  BY <1>1, <1>2, <1>3, <1>5 DEF TakingTurns, Ended

LEMMA ReadStep ==
  ASSUME HandoffInv, calm', NEW c \in Captures, ReadTemplate(c) \/ ReadManifest(c)
  PROVE  TakingTurns'
<1>1. TypeOK /\ TakingTurns /\ pc[c] = "look" /\ AtWork(c)
  BY DEF ReadTemplate, ReadManifest, Exists, HandoffInv, AtWork, Ended
<1>2. \A d \in Captures \ {c} : ~AtWork(d)
  BY <1>1 DEF TakingTurns
<1>3. /\ pc'[c] = "amend"
      /\ \A d \in Captures \ {c} : pc'[d] = pc[d] /\ pc'[d] \in {"idle"} \cup Ended
      /\ (\A x, y \in Captures : AtWork(x) /\ AtWork(y) => x = y)'
  BY <1>1, <1>2, OneAtWork DEF ReadTemplate, ReadManifest
<1>4. UNCHANGED <<manifest, printed>>
  BY DEF ReadTemplate, ReadManifest
<1>5. Told(manifest) /\ Whole(manifest)
  BY <1>1, <1>2 DEF TakingTurns, Quiet, AtWork, Ended
<1>6. Told(manifest)' /\ Whole(manifest)'
  BY <1>1, <1>3, <1>4, <1>5 DEF Told, Whole
<1>7. raw'[c].kind = "generated" /\ raw'[c].sections = 3 /\ Told(raw[c])'
  <2>1. CASE ReadTemplate(c)
    <3>1. raw'[c] = Template
      BY <2>1, <1>1 DEF ReadTemplate, TypeOK
    <3>2. \A d \in Captures : pc'[d] # "exit0" /\ printed'[d] # "ready"
      BY <2>1, <1>1, <1>3, <1>4 DEF ReadTemplate, TakingTurns
    <3>3. QED
      BY <3>1, <3>2 DEF Template, Told
  <2>2. CASE ReadManifest(c)
    <3>1. raw'[c] = manifest /\ manifest.kind = "generated"
      BY <2>2, <1>1 DEF ReadManifest, Generated, TypeOK
    <3>2. QED
      BY <3>1, <1>4, <1>5, <1>6 DEF Whole, Told
  <2>3. QED
    BY <2>1, <2>2
<1>8. QED
  BY <1>1, <1>3, <1>4, <1>6, <1>7 DEF TakingTurns, Ended

LEMMA AmendStep ==
  ASSUME HandoffInv, calm', NEW c \in Captures, Amend(c)
  PROVE  TakingTurns'
<1>1. TypeOK /\ TakingTurns /\ pc[c] = "amend" /\ AtWork(c)
  BY DEF Amend, HandoffInv, AtWork, Ended
<1>2. \A d \in Captures \ {c} : ~AtWork(d)
  BY <1>1 DEF TakingTurns
<1>3. /\ pc'[c] = "open"
      /\ \A d \in Captures \ {c} : pc'[d] = pc[d] /\ pc'[d] \in {"idle"} \cup Ended
      /\ (\A x, y \in Captures : AtWork(x) /\ AtWork(y) => x = y)'
  BY <1>1, <1>2, OneAtWork DEF Amend
<1>4. UNCHANGED <<manifest, printed>>
  BY DEF Amend
<1>5. Told(manifest)' /\ Whole(manifest)'
  <2>1. Told(manifest) /\ Whole(manifest)
    BY <1>1, <1>2 DEF TakingTurns, Quiet, AtWork, Ended
  <2>2. QED
    BY <2>1, <1>1, <1>3, <1>4 DEF Told, Whole
<1>6. /\ raw'[c].kind = raw[c].kind /\ raw'[c].sections = raw[c].sections
      /\ raw'[c].lock = [raw[c].lock EXCEPT ![RoleOf[c]] = c]
  <2>1. raw'[c] = Amended(c)
    BY <1>1 DEF Amend, TypeOK
  <2>2. raw[c] \in Manifest
    BY <1>1 DEF TypeOK
  <2>3. QED
    BY <2>1, <2>2 DEF Amended, Manifest
<1>7. /\ raw'[c].lock[RoleOf[c]] # None
      /\ \A r \in Roles : raw[c].lock[r] # None => raw'[c].lock[r] # None
  <2>1. DOMAIN raw[c].lock = Roles /\ RoleOf[c] \in Roles /\ c # None
    BY <1>1, RoleAssumption, NoneAssumption DEF TypeOK, Manifest
  <2>2. QED
    BY <1>6, <2>1
<1>8. Told(raw[c])'
  <2>1. Told(raw[c])
    BY <1>1 DEF TakingTurns
  <2>2. \A d \in Captures : RoleOf[d] \in Roles
    BY RoleAssumption
  <2>3. QED
    BY <1>1, <1>3, <1>4, <1>6, <1>7, <2>1, <2>2 DEF Told
<1>9. QED
  BY <1>1, <1>3, <1>4, <1>5, <1>6, <1>7, <1>8 DEF TakingTurns, Ended

LEMMA WriteStep ==
  ASSUME HandoffInv, calm', NEW c \in Captures, OpenManifest(c) \/ CloseManifest(c)
  PROVE  TakingTurns'
<1>1. /\ TypeOK /\ TakingTurns /\ pc[c] \in {"open", "close"} /\ AtWork(c)
      /\ raw[c].kind = "generated" /\ raw[c].sections = 3
      /\ Told(raw[c]) /\ raw[c].lock[RoleOf[c]] # None
  BY DEF OpenManifest, CloseManifest, HandoffInv, AtWork, Ended, TakingTurns
<1>2. \A d \in Captures \ {c} : ~AtWork(d)
  BY <1>1 DEF TakingTurns
<1>3. UNCHANGED <<raw, printed>> /\ \E label \in {"close", "print"} : Goto(c, label)
  <2>1. HasSubject(raw[c].sections, "candidate")
    BY <1>1 DEF HasSubject
  <2>2. CASE OpenManifest(c)
    BY <2>2 DEF OpenManifest
  <2>3. CASE CloseManifest(c)
    BY <2>1, <2>3 DEF CloseManifest
  <2>4. QED
    BY <2>2, <2>3
<1>4. /\ pc'[c] \in {"close", "print"}
      /\ \A d \in Captures \ {c} : pc'[d] = pc[d] /\ pc'[d] \in {"idle"} \cup Ended
      /\ (\A x, y \in Captures : AtWork(x) /\ AtWork(y) => x = y)'
  BY <1>1, <1>2, <1>3, OneAtWork
<1>5. Told(raw[c])'
  BY <1>1, <1>3, <1>4 DEF Told
<1>6. CASE OpenManifest(c)
  <2>1. pc'[c] = "close"
    BY <1>6, <1>1 DEF OpenManifest, Goto, TypeOK
  <2>2. manifest'.kind = "generated"
    BY <1>6, <1>1 DEF OpenManifest, Cut, TypeOK, Manifest
  <2>3. QED
    BY <2>1, <2>2, <1>1, <1>3, <1>4, <1>5 DEF TakingTurns, Quiet, Ended
<1>7. CASE CloseManifest(c)
  <2>1. manifest' = raw[c] /\ manifest'.kind # "absent"
    BY <1>7, <1>1 DEF CloseManifest
  <2>2. Told(manifest)' /\ Whole(manifest)'
    BY <2>1, <1>1, <1>3, <1>5 DEF Told, Whole
  <2>3. QED
    BY <2>1, <2>2, <1>1, <1>3, <1>4, <1>5 DEF TakingTurns, Ended
<1>8. QED
  BY <1>6, <1>7

LEMMA PrintStep ==
  ASSUME HandoffInv, calm', NEW c \in Captures, PrintStatus(c)
  PROVE  TakingTurns'
<1>1. /\ TypeOK /\ TakingTurns /\ pc[c] = "print" /\ AtWork(c)
      /\ manifest = raw[c] /\ manifest.kind = "generated" /\ manifest.sections = 3
      /\ Told(manifest) /\ manifest.lock[RoleOf[c]] # None
  BY DEF PrintStatus, HandoffInv, AtWork, Ended, TakingTurns
<1>2. \A d \in Captures \ {c} : ~AtWork(d)
  BY <1>1 DEF TakingTurns
<1>3. /\ pc'[c] = "exit0"
      /\ \A d \in Captures \ {c} : pc'[d] = pc[d] /\ pc'[d] \in {"idle"} \cup Ended
      /\ (\A x, y \in Captures : AtWork(x) /\ AtWork(y) => x = y)'
  BY <1>1, <1>2, OneAtWork DEF PrintStatus
<1>4. /\ UNCHANGED <<manifest, raw>>
      /\ \A d \in Captures \ {c} : printed'[d] = printed[d]
      /\ printed'[c] = "ready" => \A r \in Roles : manifest.lock[r] # None
  BY <1>1 DEF PrintStatus, Pending, TypeOK
<1>5. Told(manifest)' /\ Whole(manifest)'
  BY <1>1, <1>3, <1>4 DEF Told, Whole
<1>6. QED
  BY <1>1, <1>3, <1>4, <1>5 DEF TakingTurns, Ended

LEMMA StopStep ==
  ASSUME HandoffInv, calm', NEW c \in Captures,
         TemplateFails(c) \/ RefuseManifest(c) \/ AmendFails(c) \/ Killed(c)
  PROVE  TakingTurns'
<1>1. /\ TypeOK /\ TakingTurns /\ pc[c] \in {"look", "amend", "open", "print"} /\ AtWork(c)
      /\ UNCHANGED <<manifest, raw, printed>>
      /\ \E label \in {"exit5", "killed"} : Goto(c, label)
  BY DEF TemplateFails, RefuseManifest, Exists, AmendFails, Killed, HandoffInv, AtWork, Ended, TypeOK
<1>2. \A d \in Captures \ {c} : ~AtWork(d)
  BY <1>1 DEF TakingTurns
<1>3. /\ pc'[c] \in {"exit5", "killed"}
      /\ \A d \in Captures \ {c} : pc'[d] = pc[d] /\ pc'[d] \in {"idle"} \cup Ended
      /\ (\A x, y \in Captures : AtWork(x) /\ AtWork(y) => x = y)'
  BY <1>1, <1>2, OneAtWork
<1>4. Told(manifest) /\ Whole(manifest)
  BY <1>1, <1>2 DEF TakingTurns, Quiet, AtWork, Ended
<1>5. Told(manifest)' /\ Whole(manifest)'
  BY <1>1, <1>3, <1>4 DEF Told, Whole
<1>6. QED
  BY <1>1, <1>3, <1>5 DEF TakingTurns, Ended

LEMMA HandoffStep == HandoffInv /\ [Next]_vars => HandoffInv'
<1> SUFFICES ASSUME HandoffInv, [Next]_vars PROVE HandoffInv'
  OBVIOUS
<1>1. TypeOK'
  BY TypeStep DEF HandoffInv
<1>2. ASSUME calm', NEW c \in Captures, Step(c) PROVE TakingTurns'
  <2>1. ~WriteInterrupted(c)
    BY <1>2 DEF WriteInterrupted
  <2>2. QED
    BY <1>2, <2>1, BeginStep, ReadStep, AmendStep, WriteStep, PrintStep, StopStep DEF Step
<1>3. ASSUME calm', UNCHANGED vars PROVE TakingTurns'
  <2>1. TakingTurns /\ UNCHANGED <<manifest, pc, raw, printed>>
    BY <1>3 DEF vars, HandoffInv
  <2>2. QED
    BY <2>1 DEF TakingTurns, AtWork, Quiet, Told, Whole
<1>4. QED
  BY <1>1, <1>2, <1>3 DEF HandoffInv, Next

\* For any number of captures of either role, as long as they take turns: a capture
\* that exits 0 is on record, and one that prints "ready" has told the truth
\* (write_manifest, cmd_capture).
THEOREM TurnsRecorded == Spec => []TurnsAreRecorded
<1>1. HandoffInv => TurnsAreRecorded
  BY DEF HandoffInv, TakingTurns, Told, TurnsAreRecorded
<1>2. QED
  BY <1>1, HandoffInit, HandoffStep, PTL DEF Spec
=============================================================================
