------------------------- MODULE MCCustomerWebhooks -------------------------
(***************************************************************************)
(* CustomerWebhooks with sets of model values.                             *)
(***************************************************************************)
EXTENDS CustomerWebhooks, TLC

\* The members of each set behave alike; used by the runs without liveness.
Symmetry == Permutations(Subs) \cup Permutations(Deliveries) \cup Permutations(Workers)
=============================================================================
