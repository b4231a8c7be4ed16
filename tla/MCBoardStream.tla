--------------------------- MODULE MCBoardStream ----------------------------
(***************************************************************************)
(* An instance of BoardStream for TLC: one Map's session resource, which   *)
(* may return to an earlier content, and its decisions.                    *)
(***************************************************************************)
EXTENDS BoardStream

CONSTANTS Session, Ready, RepairRequired
=============================================================================
