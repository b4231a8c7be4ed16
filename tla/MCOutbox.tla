------------------------------ MODULE MCOutbox ------------------------------
(***************************************************************************)
(* Instances of Outbox for TLC.  The cfg files choose the effects and the  *)
(* threads; the wiring of threads to owner ids and adapters is below.      *)
(***************************************************************************)
EXTENDS Outbox, TLC

CONSTANTS Publication, Record,                           \* effects
          Publisher1, Publisher2, Runtime, Request1, Request2, \* threads
          Process                                        \* an owner id

AllAdapters == [w \in Workers |-> Effects]

\* Two publisher commands compete for one publication, each its own process.
PublisherOwner == [w \in Workers |-> w]
PublisherSymmetry == Permutations({Publisher1, Publisher2})

\* The polling thread appends ":runtime" to the owner id that every request
\* thread of its process shares.
ProcessOwner == [w \in Workers |-> IF w = Runtime THEN Runtime ELSE Process]
=============================================================================
