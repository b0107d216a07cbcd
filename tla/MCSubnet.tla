------------------------------ MODULE MCSubnet ------------------------------
(***************************************************************************)
(* Instances of Subnet: two modules, each of which has the other in its    *)
(* configuration.                                                          *)
(***************************************************************************)
EXTENDS Subnet, TLC

CONSTANTS a, b

MCNode == {a, b}
Mutually == {<<a, b>>, <<b, a>>}
OneWay == {<<a, b>>}
OneRestarts == {a}
=============================================================================
