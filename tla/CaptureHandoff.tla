--------------------------- MODULE CaptureHandoff ---------------------------
(***************************************************************************)
(* The handoff from parity-capture to ivf: every capture that has finished *)
(* its bundle records the bundle's path and root in one generated IVF      *)
(* manifest beside it, by reading the file, changing its own role and      *)
(* writing the whole file back (parity_capture/cli.py 71-118, 171-224).    *)
(* The baseline and the candidate are captured by two processes that share *)
(* that file and nothing else.                                             *)
(***************************************************************************)
EXTENDS Naturals

CONSTANTS
  Captures,   \* parity-capture processes whose bundles lie side by side
  RoleOf,     \* ivf_manifest.role of each capture's spec
  None

Roles == {"baseline", "candidate"}

ASSUME RoleAssumption == RoleOf \in [Captures -> Roles]
ASSUME NoneAssumption == None \notin Captures /\ None \notin {"pending", "ready"}

\* subjects.<role>.path and bundle_sha256: whose bundle they name; None before any
\* capture of the role.
Entry == Captures \cup {None}

\* A manifest is absent, foreign (one a person wrote, which parity-capture did not
\* generate), or generated: then it is a prefix of the text a capture dumps, 0 sections
\* an empty file, 1 with the description and the baseline subject, 2 with the candidate
\* subject as well, 3 with the oracles and all that follows.
Manifest ==
  [kind : {"absent", "foreign", "generated"}, sections : 0..3, lock : [Roles -> Entry]]

\* Does a manifest with this many sections have the subject of a role?
HasSubject(sections, role) == sections >= (IF role = "baseline" THEN 1 ELSE 2)

\* The first n sections of a manifest.
Cut(m, n) ==
  [m EXCEPT !.sections = n,
            !.lock = [r \in Roles |-> IF HasSubject(n, r) THEN m.lock[r] ELSE None]]

\* The template, with the paths and roots of both subjects removed.
Template == [kind |-> "generated", sections |-> 3, lock |-> [r \in Roles |-> None]]

VARIABLES
  manifest,   \* the file the captures share
  pc,         \* where each capture is
  raw,        \* the manifest a capture has in memory
  printed,    \* the status it has printed: None, "pending" or "ready"
  calm        \* no capture has overlapped another, or been stopped in its write

vars == <<manifest, pc, raw, printed, calm>>

Init ==
  /\ manifest \in {[Cut(Template, 0) EXCEPT !.kind = "absent"],
                   [Template EXCEPT !.kind = "foreign"]}
  /\ pc      = [c \in Captures |-> "idle"]
  /\ raw     = [c \in Captures |-> Template]
  /\ printed = [c \in Captures |-> None]
  /\ calm    = TRUE

Goto(c, label) == pc' = [pc EXCEPT ![c] = label]

Ended == {"exit0", "exit5", "killed"}

\* run_capture returns: the bundle is finished.
BundleDone(c) ==
  /\ pc[c] = "idle"
  /\ calm' = (calm /\ \A d \in Captures : pc[d] \in {"idle"} \cup Ended)
  /\ Goto(c, "look")
  /\ UNCHANGED <<manifest, raw, printed>>

\* There is no manifest yet: the template is read, when it can be found.
ReadTemplate(c) ==
  /\ pc[c] = "look"
  /\ manifest.kind = "absent"
  /\ raw' = [raw EXCEPT ![c] = Template]
  /\ Goto(c, "amend")
  /\ UNCHANGED <<manifest, printed, calm>>

\* The template is missing or malformed, whether or not there is a manifest.
TemplateFails(c) ==
  /\ pc[c] = "look"
  /\ Goto(c, "exit5")
  /\ UNCHANGED <<manifest, raw, printed, calm>>

Exists(c) == pc[c] = "look" /\ manifest.kind # "absent"

\* The description begins with the prefix parity-capture gives it.
Generated(m) == m.kind = "generated" /\ m.sections > 0

ReadManifest(c) ==
  /\ Exists(c)
  /\ Generated(manifest)
  /\ raw' = [raw EXCEPT ![c] = manifest]
  /\ Goto(c, "amend")
  /\ UNCHANGED <<manifest, printed, calm>>

\* "refusing to overwrite": a RuntimeError, after the bundle was completed.
RefuseManifest(c) ==
  /\ Exists(c)
  /\ ~Generated(manifest)
  /\ Goto(c, "exit5")
  /\ UNCHANGED <<manifest, raw, printed, calm>>

\* A capture that starts from the template every time.
Amended_Fresh(c) ==
  [Template EXCEPT !.lock[RoleOf[c]] = c]

\* A capture that records its path without the root of its bundle.
Amended_Half(c) ==
  [raw[c] EXCEPT !.lock[RoleOf[c]] = "no root"]

\* What a capture makes of the manifest it has read.
Amended(c) ==
  [raw[c] EXCEPT !.lock[RoleOf[c]] = c]

\* raw["subjects"][role] is given this bundle's path and root, in memory.
Amend(c) ==
  /\ pc[c] = "amend"
  /\ HasSubject(raw[c].sections, RoleOf[c])
  /\ raw' = [raw EXCEPT ![c] = Amended(c)]
  /\ Goto(c, "open")
  /\ UNCHANGED <<manifest, printed, calm>>

\* KeyError: the manifest that was read lacks the subject.
AmendFails(c) ==
  /\ pc[c] = "amend"
  /\ ~HasSubject(raw[c].sections, RoleOf[c])
  /\ Goto(c, "exit5")
  /\ UNCHANGED <<manifest, raw, printed, calm>>

\* write_text truncates the file, then writes it.
OpenManifest(c) ==
  /\ pc[c] = "open"
  /\ manifest' = Cut(raw[c], 0)
  /\ Goto(c, "close")
  /\ UNCHANGED <<raw, printed, calm>>

CloseManifest(c) ==
  /\ pc[c] = "close"
  /\ manifest' = raw[c]
  /\ Goto(c, IF HasSubject(raw[c].sections, "candidate") THEN "print" ELSE "exit5")
  /\ UNCHANGED <<raw, printed, calm>>

\* The roles still without a bundle, in the text the capture has written.
Pending(c) == {r \in Roles : raw[c].lock[r] = None}

\* the command to run, and whether the manifest is ready for it.
PrintStatus(c) ==
  /\ pc[c] = "print"
  /\ printed' = [printed EXCEPT ![c] = IF Pending(c) = {} THEN "ready" ELSE "pending"]
  /\ Goto(c, "exit0")
  /\ UNCHANGED <<manifest, raw, calm>>

\* The disk is full, or the process is killed: what has been written stays.
WriteInterrupted(c) ==
  /\ calm' = FALSE
  /\ pc[c] = "close"
  /\ \E n \in 0..(raw[c].sections - 1) : manifest' = Cut(raw[c], n)
  /\ Goto(c, "exit5")
  /\ UNCHANGED <<raw, printed>>

Killed(c) ==
  /\ pc[c] \notin {"idle", "close"} \cup Ended
  /\ Goto(c, "killed")
  /\ UNCHANGED <<manifest, raw, printed, calm>>

Step(c) ==
  \/ BundleDone(c) \/ ReadTemplate(c) \/ TemplateFails(c) \/ ReadManifest(c)
  \/ RefuseManifest(c) \/ Amend(c) \/ AmendFails(c) \/ OpenManifest(c) \/ CloseManifest(c)
  \/ PrintStatus(c) \/ WriteInterrupted(c) \/ Killed(c)

Next ==
  \/ \E c \in Captures : Step(c)
  \/ (\A c \in Captures : pc[c] \in Ended) /\ UNCHANGED vars

Spec == Init /\ [][Next]_vars

-----------------------------------------------------------------------------
(* Properties                                                                *)

TypeOK ==
  /\ manifest \in Manifest
  /\ pc \in [Captures -> {"idle", "look", "amend", "open", "close", "print"} \cup Ended]
  /\ raw \in [Captures -> Manifest]
  /\ printed \in [Captures -> {None, "pending", "ready"}]

\* No capture is in the middle of writing the file.
Quiet == \A c \in Captures : pc[c] # "close"

\* As long as captures take turns, and whatever stops one of them outside its write,
\* each capture that exits 0 has its role in the manifest, and one that has printed
\* "ready" has told the truth: the file is whole and names both roles (cli.py 112-118).
TurnsAreRecorded ==
  calm =>
    \A c \in Captures :
      /\ pc[c] = "exit0" /\ Quiet => manifest.lock[RoleOf[c]] # None
      /\ printed[c] = "ready" /\ Quiet =>
           manifest.sections = 3 /\ \A r \in Roles : manifest.lock[r] # None

-----------------------------------------------------------------------------
(* What the repository says of the handoff and the code does not keep.       *)

\* "Each successful command updates one generated IVF manifest with the captured path
\* and finalized root hash" (docs/capture-boundary.md 185-186): whatever the captures
\* do to one another, a manifest that is whole names every role captured with exit 0.
SuccessIsRecorded ==
  \A c \in Captures :
    pc[c] = "exit0" /\ manifest.sections = 3 => manifest.lock[RoleOf[c]] # None
=============================================================================
