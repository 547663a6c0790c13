---------------------------- MODULE MCProposals ----------------------------
(***************************************************************************)
(* Proposals with sets of model values.                                    *)
(***************************************************************************)
EXTENDS Proposals, TLC

\* The members of each set behave alike.
Symmetry == Permutations(Sessions) \cup Permutations(Initiatives)
              \cup Permutations(Requests) \cup Permutations(Handlers)
=============================================================================
