----------------------------- MODULE MCChanConn -----------------------------
(* An instance of ChanConn for TLC.  The two directions have nothing in     *)
(* common but the state of the ends, so that one end sends: three messages, *)
(* over a channel of one place.                                             *)
EXTENDS ChanConn, TLC

CONSTANTS a, b, m1, m2, m3

MCEnd == {a, b}
MCMsg == {m1, m2, m3}
MCOrigin == [m \in MCMsg |-> a]
\* Two goroutines.
MCBefore == m1 :> {} @@ m2 :> {m1} @@ m3 :> {}
=============================================================================
