----------------------------- MODULE MCTCPConn -----------------------------
(***************************************************************************)
(* Instances of TCPConn.  MCTCPConn.cfg and MCTCPConnLive.cfg are a link   *)
(* between two modules: sizes in units of half of MessageMaxSize.          *)
(* MCTCPConnMutual.cfg has both ends send.  MCTCPConnClient.cfg is a       *)
(* client's connection with its real sizes in units of 16 KiB; m2 is a     *)
(* message of 320 KiB.                                                     *)
(***************************************************************************)
EXTENDS TCPConn, TLC

CONSTANTS a, b, m1, m2, m3, m4

MCEnd == {a, b}

OneWayMsg == {m1, m2}
OneWayOrigin == [m \in OneWayMsg |-> a]
OneWaySize == [m \in OneWayMsg |-> 2]

BothWaysMsg == {m1, m2, m3, m4}
BothWaysOrigin == (m1 :> a) @@ (m2 :> a) @@ (m3 :> b) @@ (m4 :> b)
BothWaysSize == [m \in BothWaysMsg |-> 2]
BothWaysBefore == (m1 :> {}) @@ (m2 :> {m1}) @@ (m3 :> {}) @@ (m4 :> {m3})

(* One goroutine, and one per message. *)
Sequential == (m1 :> {}) @@ (m2 :> {m1})
Concurrent == [m \in OneWayMsg |-> {}]

(* Shutdown is called once everything was submitted; a run that looks for a *)
(* counterexample need not look at the other behaviours.                    *)
ShutdownLast ==
    (\E e \in End : caller[e]["app"] # "idle")
        => \A m \in Msg : sender[m] = "accepted"

ClientSize == (m1 :> 1) @@ (m2 :> 20)
=============================================================================
