--------------------------- MODULE MCCommandLine ---------------------------
(***************************************************************************)
(* A run that is made while a second command reads its bundle, renders it, *)
(* or makes the run again.  Two runs competing for one id are Runner_race. *)
(***************************************************************************)
EXTENDS CommandLine

CONSTANTS r1, r2

Strict == [DefaultPolicy EXCEPT !.unsupportedIsFailure = TRUE]

TwoPolicies == {DefaultPolicy, Strict}

SomeArms == {{"pass"}, {"unsupported"}}

\* The bundle that r1 makes.
First == <<"nightly", 1>>

Of(verb) ==
  [verb |-> verb, of |-> IF verb = "validate" THEN None ELSE First, policy |-> DefaultPolicy,
   pipe |-> TRUE]

Seconds ==
  {Of(verb) : verb \in Readers} \cup {[Of(verb) EXCEPT !.pipe = FALSE] : verb \in Readers}
    \cup {[Of("reproduce") EXCEPT !.policy = Strict]}

MCInvocations ==
  {[p \in Runs |-> IF p = r1 THEN Of("validate") ELSE c] : c \in Seconds}
    \cup {[p \in Runs |-> IF p = r1 THEN [Of("validate") EXCEPT !.pipe = FALSE] ELSE Of("verify")]}
=============================================================================
