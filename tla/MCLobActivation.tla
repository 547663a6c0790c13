-------------------------- MODULE MCLobActivation --------------------------
(***************************************************************************)
(* LobActivation with sets of model values, alike within each set.         *)
(***************************************************************************)
EXTENDS LobActivationRefinement, TLC

Symmetry ==
  Permutations(Recipients) \cup Permutations(Activations) \cup Permutations(Campaigns)
    \cup Permutations(Uploads)
=============================================================================
