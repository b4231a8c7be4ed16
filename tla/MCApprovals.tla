---------------------------- MODULE MCApprovals -----------------------------
(***************************************************************************)
(* Instances of Approvals for TLC.                                         *)
(***************************************************************************)
EXTENDS Approvals, TLC

\* Mutations are interchangeable: NoOne and the requests are not.
Symmetry == Permutations(Mutations)
=============================================================================
