------------------------------ MODULE MCRunner ------------------------------
(***************************************************************************)
(* Small instances of Runner.                                              *)
(***************************************************************************)
EXTENDS Runner

CONSTANTS r1, r2

DefaultOnly == {DefaultPolicy}

OneArm == {{"pass", "fail"}}
=============================================================================
