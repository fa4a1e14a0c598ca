------------------------- MODULE MCTrajectoryBundle -------------------------
(***************************************************************************)
(* Small instances of TrajectoryBundle.                                    *)
(***************************************************************************)
EXTENDS TrajectoryBundle

CONSTANTS c1, c2, r1

\* Captures of the same specification have the same shapes: the reader can tell them
\* apart by their digests only.
SameShape == [c \in Captures |-> "steps x envs x dim"]
=============================================================================
