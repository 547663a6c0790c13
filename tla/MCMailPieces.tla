---------------------------- MODULE MCMailPieces ----------------------------
(***************************************************************************)
(* MailPieces with sets of model values.                                   *)
(***************************************************************************)
EXTENDS MailPieces, TLC

CONSTANTS Written, Standard   \* the caller's spelling of the one address, and Lob's

Spellings == {Written, Standard}
AsWritten == [p \in Pieces |-> Written]

\* The members of each set behave alike.
Symmetry == Permutations(Pieces) \cup Permutations(Creators) \cup Permutations(Receivers)
=============================================================================
