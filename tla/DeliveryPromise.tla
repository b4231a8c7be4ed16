--------------------------- MODULE DeliveryPromise ---------------------------
(***************************************************************************)
(* What the ordered delivery of a Map promises: its lanes are delivered    *)
(* one by one in their declared order, never undone, and only a delivered  *)
(* lane is reported, once.                                                 *)
(***************************************************************************)
EXTENDS Naturals

CONSTANT N  \* lanes of the Map

VARIABLES
  delivered,  \* lanes recorded as integrated
  reported    \* lanes whose checkpoint or acceptance was reported

\* The first lanes may have been delivered and reported before.
Init ==
  /\ \E k \in 0..(N - 1) : delivered = 1..k
  /\ reported = delivered

Deliver(l) ==
  /\ l \notin delivered
  /\ 1..(l - 1) \subseteq delivered
  /\ delivered' = delivered \cup {l}
  /\ UNCHANGED reported

Report(l) ==
  /\ l \in delivered \ reported
  /\ reported' = reported \cup {l}
  /\ UNCHANGED delivered

Next == \E l \in 1..N : Deliver(l) \/ Report(l)

Spec == Init /\ [][Next]_<<delivered, reported>>
=============================================================================
