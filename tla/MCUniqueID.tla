----------------------------- MODULE MCUniqueID -----------------------------
(***************************************************************************)
(* UniqueID with fields of a few values, so that the counter reaches its   *)
(* limit and the clock leaves the range of the field for the second.       *)
(***************************************************************************)
EXTENDS UniqueID

MCTimes == -1 .. 5
=============================================================================
