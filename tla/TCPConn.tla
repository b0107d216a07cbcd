------------------------------ MODULE TCPConn ------------------------------
(***************************************************************************)
(* network/tcpconn: a TCP connection between two modules, or between a     *)
(* client and a gate, with the goroutines that work on each end:           *)
(*                                                                         *)
(*   - the goroutines that call TCPConn.SendMessageBinary (sender[m] says  *)
(*     where the call for message m stands);                               *)
(*   - sendThread, which joins queued messages, writes them to the socket  *)
(*     and runs their send callbacks (sendPC, draining);                   *)
(*   - recvThread, which reads the socket, decodes and queues (recvPC);    *)
(*   - recvMsgThread of connect.Server and connect.Client, which handles   *)
(*     what was queued and calls onClose, that is Shutdown, when the       *)
(*     receive channel is closed (handlerPC, and the caller "onClose");    *)
(*   - the application, which may call Shutdown at any time ("app").       *)
(*                                                                         *)
(* Bytes are abstracted to whole messages; a message keeps a size, because *)
(* the send buffer drops a message that does not fit.                      *)
(***************************************************************************)
EXTENDS Naturals, Sequences, FiniteSets, Functions

CONSTANTS
    End,             \* the two ends of the connection
    Msg,             \* the messages that may be submitted, each one once
    Origin,          \* Origin[m] : the end m is submitted at
    Size,            \* Size[m] : its encoded length
    Before,          \* Before[m] : what m's goroutine submits before m
    SendChanSize,    \* capacity of sendmsgchan
    RecvChanSize,    \* capacity of recvmsgchan
    WireSize,        \* messages the kernels' socket buffers hold per direction
    MaxMsgPackSum,   \* how many messages one write joins at most
    MessageMaxSize,  \* msg.MessageMaxSize
    SendBufferSize,  \* length sendBuffer is made with
    BanAutoResize,   \* SetBanAutoResize(true), which connect.Server calls
    NetMayFail,      \* whether the environment may break the connection
    CallbackMayPanic \* whether a send callback, which is user code, may panic

ASSUME EndAssumption == \E x, y \in End : x # y /\ End = {x, y}
ASSUME MsgAssumption ==
    /\ Origin \in [Msg -> End]
    /\ Size \in [Msg -> Nat \ {0}]
    /\ Before \in [Msg -> SUBSET Msg]
ASSUME SizeAssumption ==
    /\ {SendChanSize, RecvChanSize, WireSize} \subseteq Nat \ {0}
    /\ {MaxMsgPackSum, MessageMaxSize, SendBufferSize} \subseteq Nat \ {0}
ASSUME SwitchAssumption ==
    {BanAutoResize, NetMayFail, CallbackMayPanic} \subseteq BOOLEAN

Caller == {"app", "onClose"}

VARIABLES
    state,       \* state[e] : TCPConn.state
    shutdown,    \* shutdown[e] : shutdownChan is closed
    caller,      \* caller[e][c] : where c's call of Shutdown stands
    sender,      \* sender[m] : where the call SendMessageBinary(m) stands
    sendmsgchan, \* sendmsgchan[e] : messages accepted and not taken
    joined,      \* joined[e] : the batch, sendJoinedMessageBinaryBuffer
    sendBuffer,  \* sendBuffer[e] : messages of it the kernel has not taken
    bufferLen,   \* bufferLen[e] : sendBuffer.Len()
    nowpkglen,   \* nowpkglen[e] : bytes joined in this batch
    sendPC,      \* sendPC[e] : where sendThread stands
    draining,    \* draining[e] : sendThread left its first loop
    wire,        \* wire[e] : taken by e's kernel, not read by the other end
    broken,      \* the connection was lost
    decoded,     \* decoded[e] : messages recvThread read and did not queue
    recvmsgchan, \* recvmsgchan[e]
    recvPC,      \* recvPC[e] : where recvThread stands; "done" closed recvmsgchan
    handlerPC,   \* handlerPC[e] : recvMsgThread
    accepted,    \* history: accepted[e], what SendMessageBinary took, in order
    early,       \* history: the messages taken while their end was LINKED
    written,     \* history: the messages a kernel took
    called,      \* history: the messages whose send callback ran
    handled      \* history: handled[e], what e's handler got, in order

shutVars == <<state, shutdown, caller>>
senderVars == <<sender, accepted, early>>
batchVars == <<joined, sendBuffer, bufferLen, nowpkglen>>
sendVars == <<batchVars, sendPC, draining, written, called>>
netVars == <<wire, broken>>
recvVars == <<decoded, recvmsgchan, recvPC>>
handlerVars == <<handlerPC, handled>>
vars == <<shutVars, senderVars, sendmsgchan, sendVars, netVars, recvVars,
          handlerVars>>

Other(e) == CHOOSE f \in End : f # e

Init ==
    /\ state = [e \in End |-> "LINKED"]
    /\ shutdown = [e \in End |-> FALSE]
    /\ caller = [e \in End |-> [c \in Caller |-> "idle"]]
    /\ sender = [m \in Msg |-> "new"]
    /\ sendmsgchan = [e \in End |-> <<>>]
    /\ joined = [e \in End |-> <<>>]
    /\ sendBuffer = [e \in End |-> <<>>]
    /\ bufferLen = [e \in End |-> 0]
    /\ nowpkglen = [e \in End |-> 0]
    /\ sendPC = [e \in End |-> "take"]
    /\ draining = [e \in End |-> FALSE]
    /\ wire = [e \in End |-> <<>>]
    /\ broken = FALSE
    /\ decoded = [e \in End |-> <<>>]
    /\ recvmsgchan = [e \in End |-> <<>>]
    /\ recvPC = [e \in End |-> "loop"]
    /\ handlerPC = [e \in End |-> "recv"]
    /\ accepted = [e \in End |-> <<>>]
    /\ early = {}
    /\ written = {}
    /\ called = {}
    /\ handled = [e \in End |-> <<>>]
-----------------------------------------------------------------------------
(* Shutdown.  The state is tested, then swapped; the one call whose swap   *)
(* succeeds closes shutdownChan.  recvMsgThread calls it when it returns.  *)

Step(e, c, from, to) ==
    /\ caller[e][c] = from
    /\ caller' = [caller EXCEPT ![e][c] = to]

ShutdownTest(e, c) ==
    /\ c = "onClose" => handlerPC[e] = "return"
    /\ Step(e, c, "idle", IF state[e] = "LINKED" THEN "swap" ELSE "done")
    /\ UNCHANGED <<state, shutdown, senderVars, sendmsgchan, sendVars, netVars,
                   recvVars, handlerVars>>

(* Mutant of ShutdownSwap: the state is stored, not compared and swapped.   *)
ShutdownSwapBlind(e, c) ==
    /\ Step(e, c, "swap", "close")
    /\ state' = [state EXCEPT ![e] = "HOLD"]
    /\ UNCHANGED <<shutdown, senderVars, sendmsgchan, sendVars, netVars,
                   recvVars, handlerVars>>

ShutdownSwap(e, c) ==
    /\ Step(e, c, "swap", IF state[e] = "LINKED" THEN "close" ELSE "done")
    /\ state' = [state EXCEPT ![e] = IF @ = "LINKED" THEN "HOLD" ELSE @]
    /\ UNCHANGED <<shutdown, senderVars, sendmsgchan, sendVars, netVars,
                   recvVars, handlerVars>>

ShutdownClose(e, c) ==
    /\ Step(e, c, "close", "done")
    /\ shutdown' = [shutdown EXCEPT ![e] = TRUE]
    /\ UNCHANGED <<state, senderVars, sendmsgchan, sendVars, netVars, recvVars,
                   handlerVars>>
-----------------------------------------------------------------------------
(* SendMessageBinary: the state is tested, then shutdownChan, and then the *)
(* call waits for room in sendmsgchan or for the shutdown, whichever the   *)
(* select finds; when both are there it may take either.                   *)

SendTest(m) ==
    /\ sender[m] = "new"
    /\ \A p \in Before[m] : sender[p] \in {"accepted", "refused"}
    /\ sender' = [sender EXCEPT ![m] =
            IF state[Origin[m]] = "LINKED" THEN "linked" ELSE "refused"]
    /\ UNCHANGED <<shutVars, accepted, early, sendmsgchan, sendVars, netVars,
                   recvVars, handlerVars>>

SendTestShutdown(m) ==
    /\ sender[m] = "linked"
    /\ sender' = [sender EXCEPT ![m] =
            IF shutdown[Origin[m]] THEN "refused" ELSE "waiting"]
    /\ UNCHANGED <<shutVars, accepted, early, sendmsgchan, sendVars, netVars,
                   recvVars, handlerVars>>

SendEnqueue(m) ==
    LET e == Origin[m] IN
    /\ sender[m] = "waiting"
    /\ Len(sendmsgchan[e]) < SendChanSize
    /\ sender' = [sender EXCEPT ![m] = "accepted"]
    /\ sendmsgchan' = [sendmsgchan EXCEPT ![e] = Append(@, m)]
    /\ accepted' = [accepted EXCEPT ![e] = Append(@, m)]
    /\ early' = IF state[e] = "LINKED" THEN early \cup {m} ELSE early
    /\ UNCHANGED <<shutVars, sendVars, netVars, recvVars, handlerVars>>

SendRefuse(m) ==
    /\ sender[m] = "waiting"
    /\ shutdown[Origin[m]]
    /\ sender' = [sender EXCEPT ![m] = "refused"]
    /\ UNCHANGED <<shutVars, accepted, early, sendmsgchan, sendVars, netVars,
                   recvVars, handlerVars>>
-----------------------------------------------------------------------------
(* sendThread.                                                             *)

(* IOBuffer.Write: it grows to 16 times its length unless that is banned,  *)
(* and takes a message whole or not at all.                                *)
BufferLimit == IF BanAutoResize THEN SendBufferSize ELSE 16 * SendBufferSize
Fits(e, m) == bufferLen[e] + Size[m] <= BufferLimit

(* joinMsgByFunc puts m in the batch, also when the buffer did not take it. *)
Join(e, m) ==
    /\ joined' = [joined EXCEPT ![e] = Append(@, m)]
    /\ nowpkglen' = [nowpkglen EXCEPT ![e] = @ + Size[m]]
    /\ sendBuffer' = IF Fits(e, m)
                     THEN [sendBuffer EXCEPT ![e] = Append(@, m)]
                     ELSE sendBuffer
    /\ bufferLen' = IF Fits(e, m)
                    THEN [bufferLen EXCEPT ![e] = @ + Size[m]]
                    ELSE bufferLen
    /\ sendmsgchan' = [sendmsgchan EXCEPT ![e] = Tail(@)]

(* A select of one of the two loops takes the first message of a batch. *)
TakeFirst(e) ==
    /\ sendPC[e] = "take"
    /\ sendmsgchan[e] # <<>>
    /\ Join(e, Head(sendmsgchan[e]))
    /\ sendPC' = [sendPC EXCEPT ![e] = "join"]
    /\ UNCHANGED <<shutVars, senderVars, draining, written, called, netVars,
                   recvVars, handlerVars>>

(* The first loop ends when its select takes shutdownChan. *)
StartDrain(e) ==
    /\ sendPC[e] = "take"
    /\ ~draining[e]
    /\ shutdown[e]
    /\ draining' = [draining EXCEPT ![e] = TRUE]
    /\ UNCHANGED <<shutVars, senderVars, sendmsgchan, batchVars, sendPC, written,
                   called, netVars, recvVars, handlerVars>>

(* Mutant of EndDrain: the second loop is missing. *)
EndDrainAtOnce(e) ==
    /\ sendPC[e] = "take"
    /\ draining[e]
    /\ state' = [state EXCEPT ![e] = "CLOSED"]
    /\ sendPC' = [sendPC EXCEPT ![e] = "closed"]
    /\ UNCHANGED <<shutdown, caller, senderVars, sendmsgchan, batchVars,
                   draining, written, called, netVars, recvVars, handlerVars>>

(* The second loop ends when its select finds the channel empty, and        *)
(* sendThread closes the socket.                                            *)
EndDrain(e) ==
    /\ sendPC[e] = "take"
    /\ draining[e]
    /\ sendmsgchan[e] = <<>>
    /\ state' = [state EXCEPT ![e] = "CLOSED"]
    /\ sendPC' = [sendPC EXCEPT ![e] = "closed"]
    /\ UNCHANGED <<shutdown, caller, senderVars, sendmsgchan, batchVars,
                   draining, written, called, netVars, recvVars, handlerVars>>

(* sendBuffer.TotalSize() is below MessageMaxSize in a buffer that may grow *)
(* (a client's, of 16 KiB), so such a batch has one message.                *)
MayJoinMore(e) ==
    /\ Len(joined[e]) < MaxMsgPackSum
    /\ MessageMaxSize <= SendBufferSize
    /\ nowpkglen[e] + MessageMaxSize <= SendBufferSize
    /\ sendmsgchan[e] # <<>>

JoinMore(e) ==
    /\ sendPC[e] = "join"
    /\ MayJoinMore(e)
    /\ Join(e, Head(sendmsgchan[e]))
    /\ UNCHANGED <<shutVars, senderVars, sendPC, draining, written, called,
                   netVars, recvVars, handlerVars>>

EndJoin(e) ==
    /\ sendPC[e] = "join"
    /\ ~MayJoinMore(e)
    /\ sendPC' = [sendPC EXCEPT ![e] = "write"]
    /\ UNCHANGED <<shutVars, senderVars, sendmsgchan, batchVars, draining,
                   written, called, netVars, recvVars, handlerVars>>

(* Mutant of WriteOne: what was written stays in the buffer. *)
WriteOneKeeps(e) ==
    /\ sendPC[e] = "write"
    /\ ~broken
    /\ sendBuffer[e] # <<>>
    /\ Len(wire[e]) < WireSize
    /\ wire' = [wire EXCEPT ![e] = Append(@, Head(sendBuffer[e]))]
    /\ written' = written \cup {Head(sendBuffer[e])}
    /\ UNCHANGED <<shutVars, senderVars, sendmsgchan, batchVars, sendPC,
                   draining, called, broken, recvVars, handlerVars>>

(* The kernel takes the next bytes of the Write, when it has room. *)
WriteOne(e) ==
    /\ sendPC[e] = "write"
    /\ ~broken
    /\ sendBuffer[e] # <<>>
    /\ Len(wire[e]) < WireSize
    /\ wire' = [wire EXCEPT ![e] = Append(@, Head(sendBuffer[e]))]
    /\ written' = written \cup {Head(sendBuffer[e])}
    /\ sendBuffer' = [sendBuffer EXCEPT ![e] = Tail(@)]
    /\ UNCHANGED <<shutVars, senderVars, sendmsgchan, joined, bufferLen,
                   nowpkglen, sendPC, draining, called, broken, recvVars,
                   handlerVars>>

(* The callbacks of the batch run, ran of them, and its messages are freed. *)
(* A callback that panics ends asyncSendCmd; sendThread starts it again, in *)
(* its first loop.                                                          *)
Callbacks(e, ran, panic) ==
    /\ panic \/ ran = Len(joined[e])
    /\ called' = called \cup Range(SubSeq(joined[e], 1, ran))
    /\ joined' = [joined EXCEPT ![e] = <<>>]
    /\ nowpkglen' = [nowpkglen EXCEPT ![e] = 0]
    /\ sendPC' = [sendPC EXCEPT ![e] = "take"]
    /\ draining' = [draining EXCEPT ![e] = @ /\ ~panic]

(* Write returned without an error: MoveStart empties the buffer. *)
EndWrite(e, ran, panic) ==
    /\ sendPC[e] = "write"
    /\ sendBuffer[e] = <<>>
    /\ bufferLen' = [bufferLen EXCEPT ![e] = 0]
    /\ Callbacks(e, ran, panic)
    /\ UNCHANGED <<shutVars, senderVars, sendmsgchan, sendBuffer, written,
                   netVars, recvVars, handlerVars>>

(* Write failed, which is only logged.  A connection that the other end has *)
(* closed answers with a reset, so every later Write fails too.             *)
WriteFails(e, ran, panic) ==
    /\ sendPC[e] = "write"
    /\ sendBuffer[e] # <<>>
    /\ broken \/ state[Other(e)] = "CLOSED"
    /\ broken' = TRUE
    /\ Callbacks(e, ran, panic)
    /\ UNCHANGED <<shutVars, senderVars, sendmsgchan, sendBuffer, bufferLen,
                   written, wire, recvVars, handlerVars>>
-----------------------------------------------------------------------------
(* recvThread.                                                             *)

RecvLoop(e) ==
    /\ recvPC[e] = "loop"
    /\ recvPC' = [recvPC EXCEPT
            ![e] = IF state[e] = "LINKED" THEN "read" ELSE "done"]
    /\ UNCHANGED <<shutVars, senderVars, sendmsgchan, sendVars, netVars, decoded,
                   recvmsgchan, handlerVars>>

(* One read returns the first k messages the other end wrote. *)
Read(e, k) ==
    LET f == Other(e) IN
    /\ recvPC[e] = "read"
    /\ state[e] # "CLOSED"
    /\ k \in 1 .. Len(wire[f])
    /\ decoded' = [decoded EXCEPT ![e] = SubSeq(wire[f], 1, k)]
    /\ wire' = [wire EXCEPT ![f] = SubSeq(@, k + 1, Len(@))]
    /\ recvPC' = [recvPC EXCEPT ![e] = "queue"]
    /\ UNCHANGED <<shutVars, senderVars, sendmsgchan, sendVars, broken,
                   recvmsgchan, handlerVars>>

(* The 250 ms deadline passed, or the socket was closed under the read:    *)
(* any error but io.EOF continues the loop.                                *)
ReadError(e) ==
    /\ recvPC[e] = "read"
    /\ \/ state[e] = "CLOSED"
       \/ wire[Other(e)] = <<>> /\ ~broken /\ state[Other(e)] # "CLOSED"
    /\ recvPC' = [recvPC EXCEPT ![e] = "loop"]
    /\ UNCHANGED <<shutVars, senderVars, sendmsgchan, sendVars, netVars, decoded,
                   recvmsgchan, handlerVars>>

(* Mutant of ReadEOF: io.EOF continues the loop like every other error. *)
ReadEOFContinues(e) ==
    /\ recvPC[e] = "read"
    /\ state[e] # "CLOSED"
    /\ wire[Other(e)] = <<>>
    /\ broken \/ state[Other(e)] = "CLOSED"
    /\ recvPC' = [recvPC EXCEPT ![e] = "loop"]
    /\ UNCHANGED <<shutVars, senderVars, sendmsgchan, sendVars, netVars, decoded,
                   recvmsgchan, handlerVars>>

ReadEOF(e) ==
    /\ recvPC[e] = "read"
    /\ state[e] # "CLOSED"
    /\ wire[Other(e)] = <<>>
    /\ broken \/ state[Other(e)] = "CLOSED"
    /\ recvPC' = [recvPC EXCEPT ![e] = "done"]
    /\ UNCHANGED <<shutVars, senderVars, sendmsgchan, sendVars, netVars, decoded,
                   recvmsgchan, handlerVars>>

(* RangeMsgBinary's callback queues one message, waiting for room. *)
QueueOne(e) ==
    /\ recvPC[e] = "queue"
    /\ decoded[e] # <<>>
    /\ Len(recvmsgchan[e]) < RecvChanSize
    /\ recvmsgchan' = [recvmsgchan EXCEPT ![e] = Append(@, Head(decoded[e]))]
    /\ decoded' = [decoded EXCEPT ![e] = Tail(@)]
    /\ recvPC' = [recvPC EXCEPT
            ![e] = IF Len(decoded[e]) = 1 THEN "loop" ELSE "queue"]
    /\ UNCHANGED <<shutVars, senderVars, sendmsgchan, sendVars, netVars,
                   handlerVars>>
-----------------------------------------------------------------------------
(* recvMsgThread.                                                          *)

Handle(e) ==
    /\ handlerPC[e] = "recv"
    /\ recvmsgchan[e] # <<>>
    /\ handled' = [handled EXCEPT ![e] = Append(@, Head(recvmsgchan[e]))]
    /\ recvmsgchan' = [recvmsgchan EXCEPT ![e] = Tail(@)]
    /\ UNCHANGED <<shutVars, senderVars, sendmsgchan, sendVars, netVars, decoded,
                   recvPC, handlerPC>>

HandlerReturns(e) ==
    /\ handlerPC[e] = "recv"
    /\ recvmsgchan[e] = <<>>
    /\ recvPC[e] = "done"
    /\ handlerPC' = [handlerPC EXCEPT ![e] = "return"]
    /\ UNCHANGED <<shutVars, senderVars, sendmsgchan, sendVars, netVars,
                   recvVars, handled>>
-----------------------------------------------------------------------------
(* The environment: the connection is lost, with a suffix of what is on    *)
(* its way in each direction.                                              *)

NetFails(kept) ==
    /\ NetMayFail
    /\ ~broken
    /\ \A e \in End : kept[e] <= Len(wire[e])
    /\ broken' = TRUE
    /\ wire' = [e \in End |-> SubSeq(wire[e], 1, kept[e])]
    /\ UNCHANGED <<shutVars, senderVars, sendmsgchan, sendVars, recvVars,
                   handlerVars>>
-----------------------------------------------------------------------------
ShutdownCall(e, c) ==
    ShutdownTest(e, c) \/ ShutdownSwap(e, c) \/ ShutdownClose(e, c)

SendCall(m) ==
    SendTest(m) \/ SendTestShutdown(m) \/ SendEnqueue(m) \/ SendRefuse(m)

SendThread(e) ==
    \/ TakeFirst(e) \/ StartDrain(e) \/ EndDrain(e)
    \/ JoinMore(e) \/ EndJoin(e)
    \/ WriteOne(e)
    \/ \E ran \in 1 .. MaxMsgPackSum, panic \in {FALSE, CallbackMayPanic} :
         /\ ran <= Len(joined[e])
         /\ EndWrite(e, ran, panic) \/ WriteFails(e, ran, panic)

RecvThread(e) ==
    \/ RecvLoop(e)
    \/ \E k \in 1 .. WireSize : Read(e, k)
    \/ ReadError(e) \/ ReadEOF(e) \/ QueueOne(e)

Handler(e) == Handle(e) \/ HandlerReturns(e)

Next ==
    \/ \E e \in End :
         \/ \E c \in Caller : ShutdownCall(e, c)
         \/ SendThread(e) \/ RecvThread(e) \/ Handler(e)
    \/ \E m \in Msg : SendCall(m)
    \/ \E kept \in [End -> 0 .. WireSize] : NetFails(kept)

Spec == Init /\ [][Next]_vars

(* The scheduler runs every goroutine that can run, and a kernel with room  *)
(* takes what is written.  Nothing obliges the application to call Shutdown *)
(* or to send, or the network to fail.                                      *)
Fairness ==
    /\ \A e \in End :
         /\ WF_vars(SendThread(e))
         /\ WF_vars(RecvThread(e))
         /\ WF_vars(Handler(e))
         /\ WF_vars(ShutdownCall(e, "onClose"))
         /\ WF_vars(caller[e]["app"] # "idle" /\ ShutdownCall(e, "app"))
    /\ \A m \in Msg : WF_vars(sender[m] # "new" /\ SendCall(m))

FairSpec == Spec /\ Fairness
-----------------------------------------------------------------------------
TypeOK ==
    /\ state \in [End -> {"LINKED", "HOLD", "CLOSED"}]
    /\ shutdown \in [End -> BOOLEAN]
    /\ caller \in [End -> [Caller -> {"idle", "swap", "close", "done"}]]
    /\ sender \in [Msg -> {"new", "linked", "waiting", "accepted", "refused"}]
    /\ sendmsgchan \in [End -> Seq(Msg)]
    /\ joined \in [End -> Seq(Msg)]
    /\ sendBuffer \in [End -> Seq(Msg)]
    /\ bufferLen \in [End -> Nat]
    /\ nowpkglen \in [End -> Nat]
    /\ sendPC \in [End -> {"take", "join", "write", "closed"}]
    /\ draining \in [End -> BOOLEAN]
    /\ wire \in [End -> Seq(Msg)]
    /\ broken \in BOOLEAN
    /\ decoded \in [End -> Seq(Msg)]
    /\ recvmsgchan \in [End -> Seq(Msg)]
    /\ recvPC \in [End -> {"loop", "read", "queue", "done"}]
    /\ handlerPC \in [End -> {"recv", "return"}]
    /\ accepted \in [End -> Seq(Msg)]
    /\ early \subseteq Msg
    /\ written \subseteq Msg
    /\ called \subseteq Msg
    /\ handled \in [End -> Seq(Msg)]

(* shutdownChan is closed by one call of Shutdown, whoever calls it and how *)
(* often: closing it twice would panic (Shutdown's compare-and-swap).       *)
ShutdownOnce ==
    \A e \in End : \A c \in Caller :
        caller[e][c] = "close" =>
            /\ ~shutdown[e]
            /\ \A d \in Caller : caller[e][d] = "close" => d = c

(* What ShutdownOnce needs to be inductive. *)
ShutdownInv ==
    /\ ShutdownOnce
    /\ \A e \in End :
         state[e] = "LINKED" =>
             ~shutdown[e] /\ \A c \in Caller : caller[e][c] # "close"

(* The socket is closed only after every message accepted before the        *)
(* shutdown was written, unless the connection was lost: the second loop of *)
(* asyncSendCmd drains the channel.                                         *)
DrainComplete ==
    \A e \in End : state[e] = "CLOSED" /\ ~broken =>
        \A m \in early : Origin[m] = e => m \in written

(* What DrainComplete needs to be inductive: sendThread drains only after   *)
(* the shutdown, and until the connection is lost a message accepted early  *)
(* is in the channel, in the send buffer or written; the buffer is empty    *)
(* between two batches, so that the next message fits.                      *)
BufferInv ==
    \A e \in End :
        /\ sendPC[e] = "take" => /\ sendBuffer[e] = <<>>
                                 /\ bufferLen[e] = 0
                                 /\ nowpkglen[e] = 0
        /\ sendPC[e] = "join" => bufferLen[e] = nowpkglen[e]
        /\ sendPC[e] = "closed" => sendBuffer[e] = <<>>
PlaceInv ==
    \A m \in early :
        \/ m \in written
        \/ m \in Range(sendBuffer[Origin[m]])
        \/ m \in Range(sendmsgchan[Origin[m]]) /\ sendPC[Origin[m]] # "closed"
DrainInv ==
    /\ \A e \in End : /\ draining[e] => state[e] # "LINKED"
                      /\ sendPC[e] = "closed" <=> state[e] = "CLOSED"
    /\ ~broken => BufferInv /\ PlaceInv

(* A send callback runs once the message was handed to the network          *)
(* (connect/base.go: SendCmdWithCallback).                                  *)
CallbackMeansSent == called \subseteq written

(* The connection implements MsgLink: in order, no repetition, no gap. *)
Link == INSTANCE MsgLink WITH
            End <- End, Msg <- Msg, Origin <- Origin,
            accepted <- accepted, handled <- handled
LinkSpec == Link!Spec

(* A message accepted while its end is linked is handled at the other end,  *)
(* unless the connection is lost or the other end is shut down as well.     *)
GracefulDelivery ==
    \A m \in Msg : LET f == Other(Origin[m]) IN
        m \in early ~> \/ m \in Range(handled[f])
                       \/ broken
                       \/ caller[f]["app"] # "idle"

(* Shutting down one end closes both, and every goroutine of both returns. *)
Gone(e) == /\ state[e] = "CLOSED"
           /\ recvPC[e] = "done"
           /\ caller[e]["onClose"] = "done"
ShutdownCloses ==
    \A e \in End : state[e] = "HOLD" ~> \A f \in End : Gone(f)

=============================================================================
