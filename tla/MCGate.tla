------------------------------- MODULE MCGate ------------------------------
(* Three connections, the first two of one user, and two workers.  Rekey is one *)
(* connection of two users, one after the other.                                *)
EXTENDS Gate, TLC

CONSTANTS u1, u2, u3, c1, c2, c3, gate, m1, m2

MCUserOf == c1 :> {u1} @@ c2 :> {u1} @@ c3 :> {u2}
MCMaxSends == [c \in Conn |-> IF c = c3 THEN 2 ELSE 1]
MCRoute == c1 :> {m2} @@ c2 :> {m1} @@ c3 :> {m1, m2}
TwoRoute == c1 :> {m2} @@ c2 :> {m1}
TwoUserOf == c1 :> {u1} @@ c2 :> {u1}
RekeyRoute == c3 :> {m1}
RekeyUserOf == c3 :> {u2, u3}
=============================================================================
