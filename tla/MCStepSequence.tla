--------------------------- MODULE MCStepSequence ---------------------------
(***************************************************************************)
(* StepSequence on two steps.                                              *)
(***************************************************************************)
EXTENDS StepSequence, TLC

CONSTANTS p1, p2

\* The first step is mailed to two recipients, the second to one.
TwoThenOne == {<<1, p1>>, <<1, p2>>, <<2, p1>>}
OneThenOne == {<<1, p1>>, <<2, p1>>}

\* The members of each set behave alike.
Symmetry == Permutations(Hooks) \cup Permutations(Jobs)
=============================================================================
