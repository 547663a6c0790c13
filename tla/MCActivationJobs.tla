-------------------------- MODULE MCActivationJobs --------------------------
(***************************************************************************)
(* ActivationJobs on one key, with and without it sent.  The actors are    *)
(* sets of model values; the cfg files choose their sizes.                 *)
(***************************************************************************)
EXTENDS ActivationJobs, TLC

\* The members of each set behave alike; used by the runs without liveness.
Symmetry ==
  Permutations(Requests) \cup Permutations(Workers) \cup Permutations(RunIds)
    \cup Permutations(Cancels)
=============================================================================
