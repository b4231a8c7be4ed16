--------------------------- MODULE MCDeliveryLanes ---------------------------
(***************************************************************************)
(* An instance of DeliveryLanes for TLC: lanes are ordered, so none are    *)
(* interchangeable.                                                        *)
(***************************************************************************)
EXTENDS DeliveryLanes
=============================================================================
