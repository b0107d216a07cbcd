------------------------------ MODULE MsgLink ------------------------------
(***************************************************************************)
(* What one connection of micserver promises to the two modules it joins:  *)
(* the messages an end handles are, in order and without repetition, a     *)
(* prefix of the messages the other end accepted for sending.  Nothing is  *)
(* promised about the messages behind that prefix: a connection may close  *)
(* with messages still queued.                                             *)
(***************************************************************************)
EXTENDS Sequences, Naturals

CONSTANTS
    End,        \* the two ends of the connection
    Msg,        \* the messages that may be submitted, each one once
    Origin      \* Origin[m] : the end that submits m

VARIABLES
    accepted,   \* accepted[e] : what end e accepted for sending, in order
    handled     \* handled[e]  : what end e gave to its handler, in order

vars == <<accepted, handled>>

Other(e) == CHOOSE f \in End : f # e

Init == /\ accepted = [e \in End |-> <<>>]
        /\ handled = [e \in End |-> <<>>]

(* A call of SendMessageBinary that returns nil. *)
Accept(m) ==
    /\ \A i \in DOMAIN accepted[Origin[m]] : accepted[Origin[m]][i] # m
    /\ accepted' = [accepted EXCEPT ![Origin[m]] = Append(@, m)]
    /\ UNCHANGED handled

(* The handler of e gets the next message of the other end. *)
Handle(e) ==
    /\ Len(handled[e]) < Len(accepted[Other(e)])
    /\ handled' = [handled EXCEPT
            ![e] = Append(@, accepted[Other(e)][Len(@) + 1])]
    /\ UNCHANGED accepted

Next == \/ \E m \in Msg : Accept(m)
        \/ \E e \in End : Handle(e)

Spec == Init /\ [][Next]_vars
=============================================================================
