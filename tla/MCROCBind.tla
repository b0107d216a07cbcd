----------------------------- MODULE MCROCBind ------------------------------
(* Instances of ROCBind for TLC. *)
EXTENDS ROCBind, TLC

CONSTANTS a, b, c, o1, o2

\* One object that only a hosts, and one that a and b may both have.
OneAndTwoHosts == o1 :> {a} @@ o2 :> {a, b}
OneHost == o1 :> {a} @@ o2 :> {a}
TwoHosts == o1 :> {a, b}

\* Connections are made between c and the others only (the migrating
\* modules need not talk to each other).
Star == \A m, n \in Module : n \in servers[m] => c \in {m, n}
=============================================================================
