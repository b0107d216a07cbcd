----------------------------- MODULE MCROCCall ------------------------------
(* An instance of ROCCall: b and d are the peers of a, which has a second   *)
(* connection to b.  One goroutine of a calls o, which b has, twice and     *)
(* waits for the answers; then it calls o2, which a has itself.             *)
EXTENDS ROCCall, TLC

CONSTANTS a, b, d, o, o2, c1, c2, c3

MCFrom == [c \in {c1, c2, c3} |-> a]
MCTarget == c1 :> o @@ c2 :> o @@ c3 :> o2
MCNeedReturn == c1 :> TRUE @@ c2 :> TRUE @@ c3 :> FALSE
MCBefore == c1 :> {} @@ c2 :> {c1} @@ c3 :> {c1, c2}
MCHost == o :> b @@ o2 :> a
MCSecond == {<<a, b>>, <<b, a>>}
=============================================================================
