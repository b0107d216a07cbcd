-------------------------- MODULE MCSessionManager -------------------------
(* Three commands of one user, who has two connections. *)
EXTENDS SessionManager, TLC

Symmetry == Permutations(Module) \cup Permutations(Conn)
=============================================================================
