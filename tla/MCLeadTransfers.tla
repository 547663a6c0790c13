-------------------------- MODULE MCLeadTransfers --------------------------
(***************************************************************************)
(* LeadTransfers with sets of model values.                                *)
(***************************************************************************)
EXTENDS LeadTransfers, TLC

\* The members of each set behave alike; used by the runs without liveness.
Symmetry == Permutations(Replies) \cup Permutations(Transfers) \cup Permutations(Dispatchers)
=============================================================================
