------------------------------ MODULE ChanConn -----------------------------
(***************************************************************************)
(* network/chanconn: the connection between two modules of one process,    *)
(* over two Go channels that the handshake of process/chanserver.go hands  *)
(* out.  It replaces TCPConn under the same interface, with other rules:   *)
(* a sender puts its message into the channel itself, recvThread waits for *)
(* a message and looks at the state only between two of them, and nothing  *)
(* closes a channel, so that an end does not hear of the other's Shutdown. *)
(***************************************************************************)
EXTENDS Naturals, Sequences, Functions

CONSTANTS
    End,      \* the two modules
    Msg,      \* the messages that may be submitted, each one once
    Origin,   \* Origin[m]: the end m is submitted at
    Before,   \* Before[m]: what m's goroutine submits before m
    ChanSize  \* capacity of the channels, 1000 in subnet_connecter.go

ASSUME EndAssumption == \E x, y \in End : x # y /\ End = {x, y}
ASSUME MsgAssumption == Origin \in [Msg -> End] /\ Before \in [Msg -> SUBSET Msg]
ASSUME SizeAssumption == ChanSize \in Nat \ {0}

Caller == {"app", "onClose"}

VARIABLES
    state,       \* state[e]: ChanConn.state
    shutdown,    \* shutdown[e]: shutdownChan is closed
    caller,      \* caller[e][c]: where c's call of Shutdown stands
    sender,      \* sender[m]: where the call SendMessageBinary(m) stands
    sendChan,    \* sendChan[e]: the recvChan of the other end
    taken,       \* taken[e]: what recvThread took and has not queued
    recvmsgchan, \* recvmsgchan[e]
    recvCap,     \* recvCap[e]: the capacity of recvmsgchan
    recvPC,      \* recvPC[e]: where recvThread stands; "done" closed recvmsgchan
    handlerPC,   \* handlerPC[e]: connect.Server's recvMsgThread
    accepted,    \* history: what e accepted for sending, in order
    handled,     \* history: what e's handler got, in order
    late         \* history: how many messages recvThread took after HOLD

shutVars == <<state, shutdown, caller>>
sendVars == <<sender, sendChan, accepted>>
recvVars == <<taken, recvmsgchan, recvCap, recvPC, late>>
handlerVars == <<handlerPC, handled>>
vars == <<shutVars, sendVars, recvVars, handlerVars>>

Other(e) == CHOOSE f \in End : f # e

Init ==
    /\ state = [e \in End |-> "NONE"]
    /\ shutdown = [e \in End |-> FALSE]
    /\ caller = [e \in End |-> [c \in Caller |-> "idle"]]
    /\ sender = [m \in Msg |-> "new"]
    /\ sendChan = [e \in End |-> <<>>]
    /\ taken = [e \in End |-> <<>>]
    /\ recvmsgchan = [e \in End |-> <<>>]
    /\ recvCap = [e \in End |-> 0]
    /\ recvPC = [e \in End |-> "off"]
    /\ handlerPC = [e \in End |-> "off"]
    /\ accepted = [e \in End |-> <<>>]
    /\ handled = [e \in End |-> <<>>]
    /\ late = [e \in End |-> 0]
-----------------------------------------------------------------------------
(* Server.InitChan, at the two ends in any order: an end may have sent      *)
(* before the other one is made, and recvmsgchan gets as many places as     *)
(* messages wait at that moment.                                            *)
Open(e) ==
    /\ state[e] = "NONE"
    /\ state' = [state EXCEPT ![e] = "LINKED"]
    /\ recvCap' = [recvCap EXCEPT ![e] = Len(sendChan[Other(e)])]
    /\ recvPC' = [recvPC EXCEPT ![e] = "loop"]
    /\ handlerPC' = [handlerPC EXCEPT ![e] = "recv"]
    /\ UNCHANGED <<shutdown, caller, sendVars, taken, recvmsgchan, late, handled>>
-----------------------------------------------------------------------------
(* Shutdown: a test, a compare-and-swap, and the close by who swapped.      *)

ShutdownTest(e, c) ==
    /\ state[e] # "NONE"
    /\ caller[e][c] = "idle"
    /\ c = "onClose" => handlerPC[e] = "return"
    /\ caller' = [caller EXCEPT
            ![e][c] = IF state[e] = "LINKED" THEN "swap" ELSE "done"]
    /\ UNCHANGED <<state, shutdown, sendVars, recvVars, handlerVars>>

ShutdownSwap(e, c) ==
    /\ caller[e][c] = "swap"
    /\ IF state[e] = "LINKED"
       THEN /\ state' = [state EXCEPT ![e] = "HOLD"]
            /\ caller' = [caller EXCEPT ![e][c] = "close"]
       ELSE /\ caller' = [caller EXCEPT ![e][c] = "done"]
            /\ UNCHANGED state
    /\ UNCHANGED <<shutdown, sendVars, recvVars, handlerVars>>

ShutdownClose(e, c) ==
    /\ caller[e][c] = "close"
    /\ shutdown' = [shutdown EXCEPT ![e] = TRUE]
    /\ caller' = [caller EXCEPT ![e][c] = "done"]
    /\ UNCHANGED <<state, sendVars, recvVars, handlerVars>>

ShutdownCall(e, c) ==
    ShutdownTest(e, c) \/ ShutdownSwap(e, c) \/ ShutdownClose(e, c)
-----------------------------------------------------------------------------
(* SendMessageBinary: two tests, and a select between the shutdown and the  *)
(* channel, which is free to choose when both can go on.                    *)

Returned(m) == sender[m] \in {"accepted", "refused"}

SendTest(m) ==
    /\ sender[m] = "new"
    /\ \A n \in Before[m] : Returned(n)
    /\ state[Origin[m]] # "NONE"
    /\ sender' = [sender EXCEPT
            ![m] = IF state[Origin[m]] = "LINKED" THEN "linked" ELSE "refused"]
    /\ UNCHANGED <<shutVars, sendChan, accepted, recvVars, handlerVars>>

SendTestShutdown(m) ==
    /\ sender[m] = "linked"
    /\ sender' = [sender EXCEPT
            ![m] = IF shutdown[Origin[m]] THEN "refused" ELSE "waiting"]
    /\ UNCHANGED <<shutVars, sendChan, accepted, recvVars, handlerVars>>

SendEnqueue(m) ==
    LET e == Origin[m] IN
    /\ sender[m] = "waiting"
    /\ Len(sendChan[e]) < ChanSize
    /\ sendChan' = [sendChan EXCEPT ![e] = Append(@, m)]
    /\ accepted' = [accepted EXCEPT ![e] = Append(@, m)]
    /\ sender' = [sender EXCEPT ![m] = "accepted"]
    /\ UNCHANGED <<shutVars, recvVars, handlerVars>>

(* Mutant: the select that waits for the channel has no other case. *)
NeverRefuse(m) == FALSE
SendRefuse(m) ==
    /\ sender[m] = "waiting"
    /\ shutdown[Origin[m]]
    /\ sender' = [sender EXCEPT ![m] = "refused"]
    /\ UNCHANGED <<shutVars, sendChan, accepted, recvVars, handlerVars>>

SendCall(m) ==
    SendTest(m) \/ SendTestShutdown(m) \/ SendEnqueue(m) \/ SendRefuse(m)
-----------------------------------------------------------------------------
(* recvThread.  Mutant: the loop does not look at the state. *)

LoopForever(e) ==
    /\ recvPC[e] = "loop"
    /\ recvPC' = [recvPC EXCEPT ![e] = "take"]
    /\ UNCHANGED <<shutVars, sendVars, taken, recvmsgchan, recvCap, late, handlerVars>>
RecvLoop(e) ==
    /\ recvPC[e] = "loop"
    /\ recvPC' = [recvPC EXCEPT ![e] = IF state[e] = "LINKED" THEN "take" ELSE "done"]
    /\ UNCHANGED <<shutVars, sendVars, taken, recvmsgchan, recvCap, late, handlerVars>>

RecvTake(e) ==
    LET c == sendChan[Other(e)] IN
    /\ recvPC[e] = "take"
    /\ c # <<>>
    /\ taken' = [taken EXCEPT ![e] = <<Head(c)>>]
    /\ sendChan' = [sendChan EXCEPT ![Other(e)] = Tail(c)]
    /\ recvPC' = [recvPC EXCEPT ![e] = "queue"]
    /\ late' = [late EXCEPT ![e] = IF state[e] = "LINKED" THEN @ ELSE @ + 1]
    /\ UNCHANGED <<shutVars, sender, accepted, recvmsgchan, recvCap, handlerVars>>

RecvQueue(e) ==
    /\ taken[e] # <<>>
    /\ Len(recvmsgchan[e]) < recvCap[e]
    /\ recvmsgchan' = [recvmsgchan EXCEPT ![e] = Append(@, Head(taken[e]))]
    /\ taken' = [taken EXCEPT ![e] = Tail(@)]
    /\ recvPC' = [recvPC EXCEPT ![e] = "loop"]
    /\ UNCHANGED <<shutVars, sendVars, recvCap, late, handlerVars>>

RecvThread(e) == RecvLoop(e) \/ RecvTake(e) \/ RecvQueue(e)
-----------------------------------------------------------------------------
(* recvMsgThread. *)
HandleQueued(e) ==
    /\ handlerPC[e] = "recv"
    /\ recvmsgchan[e] # <<>>
    /\ handled' = [handled EXCEPT ![e] = Append(@, Head(recvmsgchan[e]))]
    /\ recvmsgchan' = [recvmsgchan EXCEPT ![e] = Tail(@)]
    /\ UNCHANGED <<shutVars, sendVars, taken, recvCap, recvPC, late, handlerPC>>

(* Without a place in recvmsgchan, recvThread hands the message over.       *)
(* Mutants: it does so whatever is queued; it does not.                     *)
HandOverFirst(e) ==
    /\ handlerPC[e] = "recv"
    /\ taken[e] # <<>>
    /\ handled' = [handled EXCEPT ![e] = Append(@, Head(taken[e]))]
    /\ taken' = [taken EXCEPT ![e] = Tail(@)]
    /\ recvPC' = [recvPC EXCEPT ![e] = "loop"]
    /\ UNCHANGED <<shutVars, sendVars, recvmsgchan, recvCap, late, handlerPC>>
NoHandOver(e) == FALSE
HandOver(e) ==
    /\ handlerPC[e] = "recv"
    /\ recvmsgchan[e] = <<>>
    /\ taken[e] # <<>>
    /\ handled' = [handled EXCEPT ![e] = Append(@, Head(taken[e]))]
    /\ taken' = [taken EXCEPT ![e] = Tail(@)]
    /\ recvPC' = [recvPC EXCEPT ![e] = "loop"]
    /\ UNCHANGED <<shutVars, sendVars, recvmsgchan, recvCap, late, handlerPC>>

HandlerReturns(e) ==
    /\ handlerPC[e] = "recv"
    /\ recvmsgchan[e] = <<>>
    /\ recvPC[e] = "done"
    /\ handlerPC' = [handlerPC EXCEPT ![e] = "return"]
    /\ UNCHANGED <<shutVars, sendVars, recvVars, handled>>

Handler(e) == HandleQueued(e) \/ HandOver(e) \/ HandlerReturns(e)
-----------------------------------------------------------------------------
Next ==
    \/ \E e \in End : \/ Open(e)
                      \/ \E c \in Caller : ShutdownCall(e, c)
                      \/ RecvThread(e)
                      \/ Handler(e)
    \/ \E m \in Msg : SendCall(m)

(* The scheduler runs every goroutine that can run.  Nothing obliges an end *)
(* to be made (the handshake may find a connection there), nor the          *)
(* application to send or to call Shutdown.                                 *)
Fairness ==
    /\ \A e \in End :
         /\ WF_vars(RecvThread(e))
         /\ WF_vars(Handler(e))
         /\ WF_vars(ShutdownCall(e, "onClose"))
         /\ WF_vars(caller[e]["app"] # "idle" /\ ShutdownCall(e, "app"))
    /\ \A m \in Msg : WF_vars(sender[m] # "new" /\ SendCall(m))

Spec == Init /\ [][Next]_vars /\ Fairness
-----------------------------------------------------------------------------
TypeOK ==
    /\ state \in [End -> {"NONE", "LINKED", "HOLD"}]
    /\ shutdown \in [End -> BOOLEAN]
    /\ caller \in [End -> [Caller -> {"idle", "swap", "close", "done"}]]
    /\ sender \in [Msg -> {"new", "linked", "waiting", "accepted", "refused"}]
    /\ sendChan \in [End -> Seq(Msg)]
    /\ taken \in [End -> {<<>>} \cup {<<m>> : m \in Msg}]
    /\ recvmsgchan \in [End -> Seq(Msg)]
    /\ recvCap \in [End -> 0 .. ChanSize]
    /\ recvPC \in [End -> {"off", "loop", "take", "queue", "done"}]
    /\ handlerPC \in [End -> {"off", "recv", "return"}]
    /\ accepted \in [End -> Seq(Msg)]
    /\ handled \in [End -> Seq(Msg)]
    /\ late \in [End -> Nat]

(* The connection implements MsgLink, as TCPConn does, whatever capacity    *)
(* recvmsgchan got: the modules cannot tell by the order of the messages.   *)
Link == INSTANCE MsgLink WITH
            End <- End, Msg <- Msg, Origin <- Origin,
            accepted <- accepted, handled <- handled
LinkSpec == Link!Spec

(* An end that was shut down takes one more message at most, although       *)
(* recvThread does not watch shutdownChan (chan_conn.go:251).               *)
OneLate == \A e \in End : late[e] <= 1

(* What an end accepted is handled by the other end, once that is made,     *)
(* unless that is shut down: the sender's own Shutdown loses nothing, nor   *)
(* does it matter where the message was waiting.                            *)
Delivered ==
    \A m \in Msg : LET f == Other(Origin[m]) IN
        sender[m] = "accepted" /\ state[f] # "NONE"
            ~> m \in Range(handled[f]) \/ state[f] = "HOLD"

(* A send that waits for room returns: when its own end is shut down, and,  *)
(* otherwise, when the other end was made and is not shut down (if it is,   *)
(* the sender waits for good: it does not hear of it).                      *)
SendReturns ==
    \A m \in Msg : LET f == Other(Origin[m]) IN
        /\ sender[m] = "waiting" /\ shutdown[Origin[m]] ~> Returned(m)
        /\ sender[m] = "waiting" /\ state[f] # "NONE"
                ~> Returned(m) \/ state[f] = "HOLD"
=============================================================================
