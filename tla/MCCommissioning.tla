--------------------------- MODULE MCCommissioning ---------------------------
(***************************************************************************)
(* Instances of Commissioning for TLC.                                     *)
(***************************************************************************)
EXTENDS Commissioning, TLC

\* The operator lets a Map go on from a decision.
Continue == {<<"decision", "delivery">>}

\* Reports are interchangeable: the ready report is not one of them.
Symmetry == Permutations(Reports) \cup Permutations(Plain)
=============================================================================
