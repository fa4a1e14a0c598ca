-------------------------- MODULE MCCaptureHandoff --------------------------
(***************************************************************************)
(* Small instances of CaptureHandoff: a baseline and a candidate, each     *)
(* captured once or, after a failed handoff, again.                        *)
(***************************************************************************)
EXTENDS CaptureHandoff

CONSTANTS b1, b2, c1, c2

Role == [c \in Captures |-> IF c \in {b1, b2} THEN "baseline" ELSE "candidate"]
=============================================================================
