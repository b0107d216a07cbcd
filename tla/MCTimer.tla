------------------------------ MODULE MCTimer ------------------------------
(* A timer without limit, one with a limit, and one that has a goroutine. *)
EXTENDS Timer, TLC

CONSTANTS load, twice, own

MCLimit == load :> 0 @@ twice :> 2 @@ own :> 2
=============================================================================
