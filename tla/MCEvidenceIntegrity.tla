------------------------ MODULE MCEvidenceIntegrity ------------------------
(***************************************************************************)
(* Two files the run left, one name it did not use, two contents.          *)
(***************************************************************************)
EXTENDS EvidenceIntegrity, TLC

CONSTANTS c1, c2, verdictJson, oraclesJson, notes

MCOriginal ==
  [n \in Name |-> CASE n = verdictJson -> c1 [] n = oraclesJson -> c2 [] OTHER -> Absent]
=============================================================================
