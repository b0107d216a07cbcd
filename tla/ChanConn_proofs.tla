-------------------------- MODULE ChanConn_proofs --------------------------
(***************************************************************************)
(* Theorems about ChanConn, for any two ends, any messages and channels of *)
(* any capacity: type correctness, at most one message taken after the     *)
(* Shutdown, and that the connection implements MsgLink.                   *)
(***************************************************************************)
EXTENDS ChanConn, TLAPS, SequenceTheorems

-----------------------------------------------------------------------------
(* The inductive invariant.  What an end accepted is, in order, what the    *)
(* other end handled, what waits in its recvmsgchan, what its recvThread    *)
(* holds and what waits in the channel: no message is between two of them.  *)

CapInv == \A e \in End : Len(sendChan[e]) <= ChanSize

ThreadInv ==
    \A e \in End : /\ recvPC[e] = "queue" <=> taken[e] # <<>>
                   /\ recvPC[e] = "off" <=> state[e] = "NONE"

LateInv ==
    \A e \in End : /\ late[e] <= 1
                   /\ late[e] = 1 => state[e] = "HOLD" /\ recvPC[e] # "take"

AcceptInv ==
    \A e \in End : \A i \in DOMAIN accepted[e] : sender[accepted[e][i]] = "accepted"

Stream(e) == handled[e] \o (recvmsgchan[e] \o (taken[e] \o sendChan[Other(e)]))

StreamInv == \A e \in End : accepted[Other(e)] = Stream(e)

IInv == TypeOK /\ CapInv /\ ThreadInv /\ LateInv /\ AcceptInv /\ StreamInv
-----------------------------------------------------------------------------
(* Facts about the other end and about the sequences of the model.         *)

LEMMA OtherEnd ==
    \A e \in End : Other(e) \in End /\ Other(e) # e /\ Other(Other(e)) = e
BY EndAssumption DEF Other

LEMMA TwoEnds == \A e, f \in End : f = e \/ f = Other(e)
BY EndAssumption, OtherEnd

LEMMA TakenSeq ==
    ASSUME NEW t \in {<<>>} \cup {<<m>> : m \in Msg}
    PROVE  /\ t \in Seq(Msg)
           /\ t # <<>> => Head(t) \in Msg /\ Tail(t) = <<>> /\ t = <<Head(t)>>
<1>1. CASE t = <<>>
  BY <1>1
<1>2. ASSUME NEW m \in Msg, t = <<m>>
      PROVE  t \in Seq(Msg) /\ Head(t) = m /\ Tail(t) = <<>>
  <2>1. t \in Seq(Msg) /\ Len(t) = 1
    BY <1>2
  <2>2. Tail(t) \in Seq(Msg) /\ Len(Tail(t)) = 0
    BY <2>1, HeadTailProperties
  <2>3. QED
    BY <1>2, <2>1, <2>2, EmptySeq
<1>3. QED
  BY <1>1, <1>2

LEMMA HeadTailMsg ==
    ASSUME NEW s \in Seq(Msg), s # <<>>
    PROVE  Head(s) \in Msg /\ Tail(s) \in Seq(Msg) /\ Len(Tail(s)) < Len(s)
BY HeadTailProperties

(* The first message of a queue becomes the last one of what is before it. *)
LEMMA MoveHead ==
    ASSUME NEW h \in Seq(Msg), NEW r \in Seq(Msg), NEW x \in Seq(Msg), r # <<>>
    PROVE  Append(h, Head(r)) \o (Tail(r) \o x) = h \o (r \o x)
<1>1. /\ Head(r) \in Msg
      /\ Tail(r) \in Seq(Msg)
      /\ <<Head(r)>> \in Seq(Msg)
      /\ Tail(r) \o x \in Seq(Msg)
  BY HeadTailProperties
<1>2. r = <<Head(r)>> \o Tail(r)
  BY <1>1
<1>3. Append(h, Head(r)) = h \o <<Head(r)>>
  BY <1>1, AppendIsConcat
<1>4. (h \o <<Head(r)>>) \o (Tail(r) \o x) = h \o (<<Head(r)>> \o (Tail(r) \o x))
  BY <1>1, ConcatAssociative
<1>5. <<Head(r)>> \o (Tail(r) \o x) = (<<Head(r)>> \o Tail(r)) \o x
  BY <1>1, ConcatAssociative
<1>6. QED
  BY <1>2, <1>3, <1>4, <1>5

(* A message that joins the end of the last queue joins the end of all.    *)
LEMMA AppendBehind ==
    ASSUME NEW h \in Seq(Msg), NEW x \in Seq(Msg), NEW m \in Msg
    PROVE  h \o Append(x, m) = Append(h \o x, m)
<1>1. <<m>> \in Seq(Msg) /\ h \o x \in Seq(Msg)
  BY ConcatProperties
<1>2. Append(x, m) = x \o <<m>> /\ Append(h \o x, m) = (h \o x) \o <<m>>
  BY <1>1, AppendIsConcat
<1>3. (h \o x) \o <<m>> = h \o (x \o <<m>>)
  BY <1>1, ConcatAssociative
<1>4. QED
  BY <1>2, <1>3

(* What follows a prefix begins with the first message behind it.          *)
LEMMA HeadBehind ==
    ASSUME NEW h \in Seq(Msg), NEW r \in Seq(Msg), NEW x \in Seq(Msg), r # <<>>
    PROVE  /\ Len(h) < Len(h \o (r \o x))
           /\ (h \o (r \o x))[Len(h) + 1] = Head(r)
<1>1. r \o x \in Seq(Msg) /\ Len(r \o x) = Len(r) + Len(x) /\ Len(r) > 0
  BY ConcatProperties, EmptySeq
<1>2. (r \o x)[1] = Head(r)
  BY <1>1, ConcatProperties
<1>3. QED
  BY <1>1, <1>2, ConcatProperties
-----------------------------------------------------------------------------
(* Type correctness, together with the capacity of the channels: InitChan   *)
(* makes recvmsgchan as long as the channel is at that moment.              *)

LEMMA TypeInit == Init => TypeOK /\ CapInv
<1> SUFFICES ASSUME Init PROVE TypeOK /\ CapInv
  OBVIOUS
<1>1. <<>> \in Seq(Msg) /\ 0 \in 0 .. ChanSize
  BY SizeAssumption
<1>2. [c \in Caller |-> "idle"] \in [Caller -> {"idle", "swap", "close", "done"}]
  OBVIOUS
<1>3. caller \in [End -> [Caller -> {"idle", "swap", "close", "done"}]]
  BY <1>2, Zenon DEF Init
<1>4. QED
  BY <1>1, <1>3, SizeAssumption DEF Init, TypeOK, CapInv

LEMMA TypeOpen ==
    ASSUME TypeOK, CapInv, NEW e \in End, Open(e)
    PROVE  TypeOK' /\ CapInv'
<1>1. Len(sendChan[Other(e)]) \in 0 .. ChanSize
  BY OtherEnd, SizeAssumption DEF TypeOK, CapInv
<1>2. QED
  BY <1>1 DEF TypeOK, CapInv, Open, sendVars

LEMMA TypeShutdown ==
    ASSUME TypeOK, CapInv, NEW e \in End, NEW c \in Caller, ShutdownCall(e, c)
    PROVE  TypeOK' /\ CapInv'
<1>1. CASE ShutdownTest(e, c)
  BY <1>1 DEF TypeOK, CapInv, ShutdownTest, sendVars, recvVars, handlerVars
<1>2. CASE ShutdownSwap(e, c)
  <2>1. state' \in [End -> {"NONE", "LINKED", "HOLD"}]
    <3>1. state' = [state EXCEPT ![e] = "HOLD"] \/ state' = state
      BY <1>2 DEF ShutdownSwap
    <3>2. QED
      BY <3>1 DEF TypeOK
  <2>2. PICK s \in {"close", "done"} : caller' = [caller EXCEPT ![e][c] = s]
    BY <1>2 DEF ShutdownSwap
  <2>3. caller' \in [End -> [Caller -> {"idle", "swap", "close", "done"}]]
    BY <2>2 DEF TypeOK
  <2>4. QED
    BY <1>2, <2>1, <2>3
      DEF TypeOK, CapInv, ShutdownSwap, sendVars, recvVars, handlerVars
<1>3. CASE ShutdownClose(e, c)
  BY <1>3 DEF TypeOK, CapInv, ShutdownClose, sendVars, recvVars, handlerVars
<1>4. QED
  BY <1>1, <1>2, <1>3 DEF ShutdownCall

LEMMA TypeSend ==
    ASSUME TypeOK, CapInv, NEW m \in Msg, SendCall(m)
    PROVE  TypeOK' /\ CapInv'
<1>1. CASE SendTest(m)
  BY <1>1 DEF TypeOK, CapInv, SendTest, shutVars, recvVars, handlerVars
<1>2. CASE SendTestShutdown(m)
  BY <1>2 DEF TypeOK, CapInv, SendTestShutdown, shutVars, recvVars, handlerVars
<1>3. CASE SendEnqueue(m)
  <2>1. Origin[m] \in End
    BY MsgAssumption
  <2>2. /\ sendChan' \in [End -> Seq(Msg)] /\ accepted' \in [End -> Seq(Msg)]
        /\ sender' \in [Msg -> {"new", "linked", "waiting", "accepted", "refused"}]
    BY <1>3, <2>1 DEF TypeOK, SendEnqueue
  <2>3. CapInv'
    <3>1. /\ sendChan \in [End -> Seq(Msg)] /\ Len(sendChan[Origin[m]]) < ChanSize
          /\ sendChan' = [sendChan EXCEPT ![Origin[m]] = Append(@, m)]
      BY <1>3 DEF TypeOK, SendEnqueue
    <3>2. Len(Append(sendChan[Origin[m]], m)) <= ChanSize
      BY <2>1, <3>1, SizeAssumption
    <3>3. QED
      BY <3>1, <3>2 DEF CapInv
  <2>4. UNCHANGED <<shutVars, recvVars, handlerVars>>
    BY <1>3 DEF SendEnqueue
  <2>5. QED
    BY <2>2, <2>3, <2>4 DEF TypeOK, shutVars, recvVars, handlerVars
<1>4. CASE SendRefuse(m)
  BY <1>4 DEF TypeOK, CapInv, SendRefuse, shutVars, recvVars, handlerVars
<1>5. QED
  BY <1>1, <1>2, <1>3, <1>4 DEF SendCall

LEMMA TypeRecv ==
    ASSUME TypeOK, CapInv, NEW e \in End, RecvThread(e)
    PROVE  TypeOK' /\ CapInv'
<1>1. CASE RecvLoop(e)
  BY <1>1 DEF TypeOK, CapInv, RecvLoop, shutVars, sendVars, handlerVars
<1>2. CASE RecvTake(e)
  <2>1. /\ Other(e) \in End
        /\ Head(sendChan[Other(e)]) \in Msg
        /\ Tail(sendChan[Other(e)]) \in Seq(Msg)
        /\ Len(Tail(sendChan[Other(e)])) < Len(sendChan[Other(e)])
    BY <1>2, OtherEnd, HeadTailMsg DEF TypeOK, RecvTake
  <2>2. sendChan' \in [End -> Seq(Msg)]
    BY <1>2, <2>1 DEF TypeOK, RecvTake
  <2>3. ASSUME NEW f \in End
        PROVE  Len(sendChan'[f]) <= ChanSize
    <3>1. Len(sendChan[f]) <= ChanSize /\ Len(sendChan[Other(e)]) <= ChanSize
      BY <2>1 DEF CapInv
    <3>2. sendChan'[f] = IF f = Other(e) THEN Tail(sendChan[Other(e)])
                                         ELSE sendChan[f]
      <4>1. /\ sendChan \in [End -> Seq(Msg)]
            /\ sendChan' = [sendChan EXCEPT ![Other(e)] = Tail(sendChan[Other(e)])]
        BY <1>2 DEF TypeOK, RecvTake
      <4>2. QED
        BY <4>1
    <3>3. /\ Len(Tail(sendChan[Other(e)])) \in Nat
          /\ Len(sendChan[Other(e)]) \in Nat
      <4>1. sendChan[Other(e)] \in Seq(Msg)
        BY <2>1 DEF TypeOK
      <4>2. \A q \in Seq(Msg) : Len(q) \in Nat
        OBVIOUS
      <4>3. QED
        BY ONLY <2>1, <4>1, <4>2
    <3>4. QED
      BY <2>1, <3>1, <3>2, <3>3, SizeAssumption
  <2>4. taken' \in [End -> {<<>>} \cup {<<m>> : m \in Msg}]
    BY <1>2, <2>1 DEF TypeOK, RecvTake
  <2>5. recvPC' \in [End -> {"off", "loop", "take", "queue", "done"}]
    BY <1>2 DEF TypeOK, RecvTake
  <2>6. late' \in [End -> Nat]
    BY <1>2 DEF TypeOK, RecvTake
  <2>7. UNCHANGED <<state, shutdown, caller, sender, accepted, recvmsgchan,
                    recvCap, handlerPC, handled>>
    BY <1>2 DEF RecvTake, shutVars, handlerVars
  <2>8. QED
    BY <2>2, <2>3, <2>4, <2>5, <2>6, <2>7 DEF TypeOK, CapInv
<1>3. CASE RecvQueue(e)
  <2>1. Head(taken[e]) \in Msg /\ Tail(taken[e]) = <<>>
    BY <1>3, TakenSeq DEF TypeOK, RecvQueue
  <2>2. QED
    BY <1>3, <2>1 DEF TypeOK, CapInv, RecvQueue, shutVars, sendVars, handlerVars
<1>4. QED
  BY <1>1, <1>2, <1>3 DEF RecvThread

LEMMA TypeHandler ==
    ASSUME TypeOK, CapInv, NEW e \in End, Handler(e)
    PROVE  TypeOK' /\ CapInv'
<1>1. CASE HandleQueued(e)
  <2>1. Head(recvmsgchan[e]) \in Msg /\ Tail(recvmsgchan[e]) \in Seq(Msg)
    BY <1>1, HeadTailMsg DEF TypeOK, HandleQueued
  <2>2. QED
    BY <1>1, <2>1 DEF TypeOK, CapInv, HandleQueued, shutVars, sendVars
<1>2. CASE HandOver(e)
  <2>1. Head(taken[e]) \in Msg /\ Tail(taken[e]) = <<>>
    BY <1>2, TakenSeq DEF TypeOK, HandOver
  <2>2. QED
    BY <1>2, <2>1 DEF TypeOK, CapInv, HandOver, shutVars, sendVars
<1>3. CASE HandlerReturns(e)
  BY <1>3 DEF TypeOK, CapInv, HandlerReturns, shutVars, sendVars, recvVars
<1>4. QED
  BY <1>1, <1>2, <1>3 DEF Handler

LEMMA TypeNext == TypeOK /\ CapInv /\ [Next]_vars => TypeOK' /\ CapInv'
<1> SUFFICES ASSUME TypeOK, CapInv, [Next]_vars
             PROVE  TypeOK' /\ CapInv'
  OBVIOUS
<1>1. CASE UNCHANGED vars
  BY <1>1 DEF TypeOK, CapInv, vars, shutVars, sendVars, recvVars, handlerVars
<1>2. CASE Next
  BY <1>2, TypeOpen, TypeShutdown, TypeSend, TypeRecv, TypeHandler DEF Next
<1>3. QED
  BY <1>1, <1>2

(* Every variable of the connection keeps its type; in particular,          *)
(* recvmsgchan has between none and ChanSize places (Server.InitChan).      *)
THEOREM TypeCorrect == Spec => []TypeOK
<1>1. Init => TypeOK /\ CapInv
  BY TypeInit
<1>2. TypeOK /\ CapInv /\ [Next]_vars => (TypeOK /\ CapInv)'
  BY TypeNext
<1>3. QED
  BY <1>1, <1>2, PTL DEF Spec
-----------------------------------------------------------------------------
(* The threads, and the message that is taken after the Shutdown: recvThread *)
(* comes back to its loop with the message queued, and finds the state HOLD. *)

LEMMA LateInit == Init => ThreadInv /\ LateInv
BY DEF Init, ThreadInv, LateInv

LEMMA LateShutdown ==
    ASSUME TypeOK, ThreadInv, LateInv, NEW e \in End, NEW c \in Caller,
           ShutdownCall(e, c)
    PROVE  ThreadInv' /\ LateInv'
<1>1. CASE ShutdownTest(e, c)
  BY <1>1 DEF ThreadInv, LateInv, ShutdownTest, recvVars
<1>2. CASE ShutdownSwap(e, c)
  <2>1. CASE state[e] = "LINKED"
    BY <1>2, <2>1 DEF TypeOK, ThreadInv, LateInv, ShutdownSwap, recvVars
  <2>2. CASE state[e] # "LINKED"
    BY <1>2, <2>2 DEF ThreadInv, LateInv, ShutdownSwap, recvVars
  <2>3. QED
    BY <2>1, <2>2
<1>3. CASE ShutdownClose(e, c)
  BY <1>3 DEF ThreadInv, LateInv, ShutdownClose, recvVars
<1>4. QED
  BY <1>1, <1>2, <1>3 DEF ShutdownCall

LEMMA LateSend ==
    ASSUME ThreadInv, LateInv, NEW m \in Msg, SendCall(m)
    PROVE  ThreadInv' /\ LateInv'
<1>1. UNCHANGED <<state, taken, recvPC, late>>
  BY DEF SendCall, SendTest, SendTestShutdown, SendEnqueue, SendRefuse, shutVars,
         recvVars
<1>2. QED
  BY <1>1 DEF ThreadInv, LateInv

LEMMA LateRecv ==
    ASSUME TypeOK, ThreadInv, LateInv, NEW e \in End, RecvThread(e)
    PROVE  ThreadInv' /\ LateInv'
<1>1. CASE RecvLoop(e)
  BY <1>1 DEF TypeOK, ThreadInv, LateInv, RecvLoop, shutVars
<1>2. CASE RecvTake(e)
  <2>1. state[e] # "NONE" /\ late[e] = 0
    BY <1>2 DEF TypeOK, ThreadInv, LateInv, RecvTake
  <2>2. /\ UNCHANGED state
        /\ recvPC' = [recvPC EXCEPT ![e] = "queue"]
        /\ taken' = [taken EXCEPT ![e] = <<Head(sendChan[Other(e)])>>]
    BY <1>2 DEF RecvTake, shutVars
  <2>3. ThreadInv'
    BY <2>1, <2>2 DEF TypeOK, ThreadInv
  <2>4. late' = [late EXCEPT ![e] = IF state[e] = "LINKED" THEN 0 ELSE 1]
    BY <1>2, <2>1 DEF RecvTake
  <2>5. LateInv'
    BY <2>1, <2>2, <2>4 DEF TypeOK, LateInv
  <2>6. QED
    BY <2>3, <2>5
<1>3. CASE RecvQueue(e)
  <2>1. Tail(taken[e]) = <<>> /\ recvPC[e] = "queue"
    BY <1>3, TakenSeq DEF TypeOK, ThreadInv, RecvQueue
  <2>2. QED
    BY <1>3, <2>1 DEF TypeOK, ThreadInv, LateInv, RecvQueue, shutVars
<1>4. QED
  BY <1>1, <1>2, <1>3 DEF RecvThread

LEMMA LateHandler ==
    ASSUME TypeOK, ThreadInv, LateInv, NEW e \in End, Handler(e)
    PROVE  ThreadInv' /\ LateInv'
<1>1. CASE HandleQueued(e)
  BY <1>1 DEF ThreadInv, LateInv, HandleQueued, shutVars
<1>2. CASE HandOver(e)
  <2>1. Tail(taken[e]) = <<>> /\ recvPC[e] = "queue"
    BY <1>2, TakenSeq DEF TypeOK, ThreadInv, HandOver
  <2>2. QED
    BY <1>2, <2>1 DEF TypeOK, ThreadInv, LateInv, HandOver, shutVars
<1>3. CASE HandlerReturns(e)
  BY <1>3 DEF ThreadInv, LateInv, HandlerReturns, shutVars, recvVars
<1>4. QED
  BY <1>1, <1>2, <1>3 DEF Handler

LEMMA LateNext ==
    TypeOK /\ ThreadInv /\ LateInv /\ [Next]_vars => ThreadInv' /\ LateInv'
<1> SUFFICES ASSUME TypeOK, ThreadInv, LateInv, [Next]_vars
             PROVE  ThreadInv' /\ LateInv'
  OBVIOUS
<1>1. CASE UNCHANGED vars
  BY <1>1 DEF ThreadInv, LateInv, vars, shutVars, recvVars
<1>2. ASSUME NEW e \in End, Open(e)
      PROVE  ThreadInv' /\ LateInv'
  BY <1>2 DEF TypeOK, ThreadInv, LateInv, Open
<1>3. CASE Next
  BY <1>2, <1>3, LateShutdown, LateSend, LateRecv, LateHandler DEF Next
<1>4. QED
  BY <1>1, <1>3

(* An end that was shut down takes one more message at most, although its    *)
(* recvThread does not watch shutdownChan (recvThread, Shutdown).            *)
THEOREM TakesOneLate == Spec => []OneLate
<1>1. Init => TypeOK /\ CapInv /\ ThreadInv /\ LateInv
  BY TypeInit, LateInit
<1>2. TypeOK /\ CapInv /\ ThreadInv /\ LateInv /\ [Next]_vars
        => (TypeOK /\ CapInv /\ ThreadInv /\ LateInv)'
  BY TypeNext, LateNext
<1>3. LateInv => OneLate
  BY DEF LateInv, OneLate
<1>4. QED
  BY <1>1, <1>2, <1>3, PTL DEF Spec
-----------------------------------------------------------------------------
(* A message is accepted once: the call that put it into the channel has    *)
(* returned.                                                                *)

LEMMA AcceptInit == Init => AcceptInv
BY DEF Init, AcceptInv

LEMMA AcceptSend ==
    ASSUME TypeOK, AcceptInv, NEW m \in Msg, SendCall(m)
    PROVE  AcceptInv'
<1>1. ASSUME sender[m] # "accepted", UNCHANGED accepted,
             NEW r, sender' = [sender EXCEPT ![m] = r]
      PROVE  AcceptInv'
  <2>1. ASSUME NEW e \in End, NEW i \in DOMAIN accepted[e]
        PROVE  accepted[e][i] \in Msg \ {m} /\ sender[accepted[e][i]] = "accepted"
    BY <1>1 DEF TypeOK, AcceptInv
  <2>2. QED
    BY <1>1, <2>1 DEF TypeOK, AcceptInv
<1>2. CASE SendTest(m)
  BY <1>1, <1>2 DEF SendTest
<1>3. CASE SendTestShutdown(m)
  BY <1>1, <1>3 DEF SendTestShutdown
<1>4. CASE SendRefuse(m)
  BY <1>1, <1>4 DEF SendRefuse
<1>5. CASE SendEnqueue(m)
  <2>1. SUFFICES ASSUME NEW e \in End, NEW i \in DOMAIN accepted'[e]
                 PROVE  sender'[accepted'[e][i]] = "accepted"
    BY DEF AcceptInv
  <2>2. accepted'[e] = IF e = Origin[m] THEN Append(accepted[e], m) ELSE accepted[e]
    BY <1>5 DEF TypeOK, SendEnqueue
  <2>3. accepted[e] \in Seq(Msg)
    BY DEF TypeOK
  <2>4. \/ accepted'[e][i] = m
        \/ i \in DOMAIN accepted[e] /\ accepted'[e][i] = accepted[e][i]
    <3>1. CASE e # Origin[m]
      BY <2>2, <3>1
    <3>2. CASE e = Origin[m]
      <4>1. i \in 1 .. Len(accepted[e]) + 1
        BY <2>2, <2>3, <3>2
      <4>2. QED
        BY <2>2, <2>3, <3>2, <4>1
    <3>3. QED
      BY <3>1, <3>2
  <2>5. accepted'[e][i] \in Msg
    BY <2>2, <2>3
  <2>6. accepted'[e][i] = m \/ sender[accepted'[e][i]] = "accepted"
    BY <2>4 DEF AcceptInv
  <2>7. QED
    BY <1>5, <2>5, <2>6 DEF TypeOK, SendEnqueue
<1>6. QED
  BY <1>2, <1>3, <1>4, <1>5 DEF SendCall

LEMMA AcceptNext == TypeOK /\ AcceptInv /\ [Next]_vars => AcceptInv'
<1> SUFFICES ASSUME TypeOK, AcceptInv, [Next]_vars PROVE AcceptInv'
  OBVIOUS
<1>1. ASSUME UNCHANGED <<sender, accepted>>
      PROVE  AcceptInv'
  BY <1>1 DEF AcceptInv
<1>2. CASE UNCHANGED vars
  BY <1>1, <1>2 DEF vars, sendVars
<1>3. ASSUME NEW e \in End, NEW c \in Caller,
             Open(e) \/ ShutdownCall(e, c) \/ RecvThread(e) \/ Handler(e)
      PROVE  UNCHANGED <<sender, accepted>>
  BY <1>3 DEF Open, ShutdownCall, ShutdownTest, ShutdownSwap, ShutdownClose,
              RecvThread, RecvLoop, RecvTake, RecvQueue, Handler, HandleQueued,
              HandOver, HandlerReturns, sendVars
<1>4. CASE Next
  BY <1>1, <1>3, <1>4, AcceptSend DEF Next, Caller
<1>5. QED
  BY <1>2, <1>4
-----------------------------------------------------------------------------
(* The streams: every message that was accepted is in one of the four       *)
(* places, in order.  A step moves the head of one to the end of the one    *)
(* before it.                                                               *)

LEMMA StreamType ==
    ASSUME TypeOK, NEW e \in End
    PROVE  /\ handled[e] \in Seq(Msg)
           /\ recvmsgchan[e] \in Seq(Msg)
           /\ taken[e] \in Seq(Msg)
           /\ sendChan[Other(e)] \in Seq(Msg)
           /\ taken[e] \o sendChan[Other(e)] \in Seq(Msg)
           /\ recvmsgchan[e] \o (taken[e] \o sendChan[Other(e)]) \in Seq(Msg)
<1>1. taken[e] \in Seq(Msg)
  BY TakenSeq DEF TypeOK
<1>2. QED
  BY <1>1, OtherEnd, ConcatProperties DEF TypeOK

LEMMA StreamInit == Init => StreamInv
<1> SUFFICES ASSUME Init, NEW e \in End
             PROVE  accepted[Other(e)] = Stream(e)
  BY DEF StreamInv, Stream
<1>1. <<>> \o <<>> = <<>>
  OBVIOUS
<1>2. QED
  BY <1>1, OtherEnd DEF Init, Stream

(* The steps that move no message. *)
LEMMA StreamSame ==
    ASSUME StreamInv, UNCHANGED <<accepted, handled, recvmsgchan, taken, sendChan>>
    PROVE  StreamInv'
BY DEF StreamInv, Stream

LEMMA StreamEnqueue ==
    ASSUME TypeOK, StreamInv, NEW m \in Msg, SendEnqueue(m)
    PROVE  StreamInv'
<1> DEFINE e == Origin[m]
<1>1. /\ e \in End
      /\ sendChan' = [sendChan EXCEPT ![e] = Append(@, m)]
      /\ accepted' = [accepted EXCEPT ![e] = Append(@, m)]
      /\ UNCHANGED <<handled, recvmsgchan, taken>>
  BY MsgAssumption DEF SendEnqueue, recvVars, handlerVars
<1> HIDE DEF e
<1>2. SUFFICES ASSUME NEW f \in End
               PROVE  accepted'[Other(f)] = Stream(f)'
  BY DEF StreamInv, Stream
<1>3. accepted[Other(f)] = Stream(f) /\ Other(f) \in End
  BY OtherEnd DEF StreamInv, Stream
<1>4. CASE Other(f) # e
  BY <1>1, <1>3, <1>4 DEF TypeOK, Stream
<1>5. CASE Other(f) = e
  <2>1. /\ accepted'[Other(f)] = Append(Stream(f), m)
        /\ sendChan'[Other(f)] = Append(sendChan[Other(f)], m)
    BY <1>1, <1>3, <1>5 DEF TypeOK
  <2>2. taken[f] \o Append(sendChan[Other(f)], m)
            = Append(taken[f] \o sendChan[Other(f)], m)
    BY StreamType, AppendBehind
  <2>3. recvmsgchan[f] \o Append(taken[f] \o sendChan[Other(f)], m)
            = Append(recvmsgchan[f] \o (taken[f] \o sendChan[Other(f)]), m)
    BY StreamType, AppendBehind
  <2>4. handled[f] \o Append(recvmsgchan[f] \o (taken[f] \o sendChan[Other(f)]), m)
            = Append(Stream(f), m)
    BY StreamType, AppendBehind DEF Stream
  <2>5. QED
    BY <1>1, <2>1, <2>2, <2>3, <2>4 DEF Stream
<1>6. QED
  BY <1>4, <1>5

LEMMA StreamTake ==
    ASSUME TypeOK, ThreadInv, StreamInv, NEW e \in End, RecvTake(e)
    PROVE  StreamInv'
<1> DEFINE c == sendChan[Other(e)]
<1>1. /\ c # <<>>
      /\ taken[e] = <<>>
      /\ taken' = [taken EXCEPT ![e] = <<Head(c)>>]
      /\ sendChan' = [sendChan EXCEPT ![Other(e)] = Tail(c)]
      /\ UNCHANGED <<accepted, handled, recvmsgchan>>
  BY DEF RecvTake, ThreadInv, handlerVars
<1> HIDE DEF c
<1>2. SUFFICES ASSUME NEW f \in End
               PROVE  accepted'[Other(f)] = Stream(f)'
  BY DEF StreamInv, Stream
<1>3. /\ accepted[Other(f)] = Stream(f)
      /\ Other(f) \in End
      /\ Other(f) = Other(e) => f = e
  BY OtherEnd DEF StreamInv, Stream
<1>4. CASE f # e
  BY <1>1, <1>3, <1>4 DEF TypeOK, Stream
<1>5. CASE f = e
  <2>1. c \in Seq(Msg)
    BY StreamType DEF c
  <2>2. <<Head(c)>> \o Tail(c) = <<>> \o c
    BY <1>1, <2>1
  <2>3. taken'[e] \o sendChan'[Other(e)] = taken[e] \o c
    BY <1>1, <1>3, <1>5, <2>2 DEF TypeOK
  <2>4. QED
    BY <1>1, <1>3, <1>5, <2>3 DEF Stream, c
<1>6. QED
  BY <1>4, <1>5

LEMMA StreamQueue ==
    ASSUME TypeOK, StreamInv, NEW e \in End, RecvQueue(e)
    PROVE  StreamInv'
<1>1. /\ taken[e] # <<>>
      /\ recvmsgchan' = [recvmsgchan EXCEPT ![e] = Append(@, Head(taken[e]))]
      /\ taken' = [taken EXCEPT ![e] = Tail(@)]
      /\ UNCHANGED <<accepted, handled, sendChan>>
  BY DEF RecvQueue, sendVars, handlerVars
<1>2. SUFFICES ASSUME NEW f \in End
               PROVE  accepted'[Other(f)] = Stream(f)'
  BY DEF StreamInv, Stream
<1>3. accepted[Other(f)] = Stream(f)
  BY DEF StreamInv, Stream
<1>4. CASE f # e
  BY <1>1, <1>3, <1>4 DEF TypeOK, Stream
<1>5. CASE f = e
  <2>1. /\ recvmsgchan'[e] = Append(recvmsgchan[e], Head(taken[e]))
        /\ taken'[e] = Tail(taken[e])
    BY <1>1 DEF TypeOK
  <2>2. Append(recvmsgchan[e], Head(taken[e]))
            \o (Tail(taken[e]) \o sendChan[Other(e)])
          = recvmsgchan[e] \o (taken[e] \o sendChan[Other(e)])
    <3>1. /\ handled[e] \in Seq(Msg)
          /\ recvmsgchan[e] \in Seq(Msg)
          /\ taken[e] \in Seq(Msg)
          /\ sendChan[Other(e)] \in Seq(Msg)
          /\ taken[e] \o sendChan[Other(e)] \in Seq(Msg)
      BY StreamType
    <3>2. QED
      BY <1>1, <3>1, MoveHead
  <2>3. QED
    BY <1>1, <1>3, <1>5, <2>1, <2>2 DEF Stream
<1>6. QED
  BY <1>4, <1>5

LEMMA StreamHandle ==
    ASSUME TypeOK, StreamInv, NEW e \in End, HandleQueued(e)
    PROVE  StreamInv'
<1>1. /\ recvmsgchan[e] # <<>>
      /\ handled' = [handled EXCEPT ![e] = Append(@, Head(recvmsgchan[e]))]
      /\ recvmsgchan' = [recvmsgchan EXCEPT ![e] = Tail(@)]
      /\ UNCHANGED <<accepted, taken, sendChan>>
  BY DEF HandleQueued, sendVars
<1>2. SUFFICES ASSUME NEW f \in End
               PROVE  accepted'[Other(f)] = Stream(f)'
  BY DEF StreamInv, Stream
<1>3. accepted[Other(f)] = Stream(f)
  BY DEF StreamInv, Stream
<1>4. CASE f # e
  BY <1>1, <1>3, <1>4 DEF TypeOK, Stream
<1>5. CASE f = e
  <2>1. /\ handled'[e] = Append(handled[e], Head(recvmsgchan[e]))
        /\ recvmsgchan'[e] = Tail(recvmsgchan[e])
    BY <1>1 DEF TypeOK
  <2>2. Append(handled[e], Head(recvmsgchan[e]))
            \o (Tail(recvmsgchan[e]) \o (taken[e] \o sendChan[Other(e)]))
          = Stream(e)
    <3>1. /\ handled[e] \in Seq(Msg)
          /\ recvmsgchan[e] \in Seq(Msg)
          /\ taken[e] \in Seq(Msg)
          /\ sendChan[Other(e)] \in Seq(Msg)
          /\ taken[e] \o sendChan[Other(e)] \in Seq(Msg)
      BY StreamType
    <3>2. QED
      BY <1>1, <3>1, MoveHead DEF Stream
  <2>3. QED
    BY <1>1, <1>3, <1>5, <2>1, <2>2 DEF Stream
<1>6. QED
  BY <1>4, <1>5

LEMMA StreamHandOver ==
    ASSUME TypeOK, StreamInv, NEW e \in End, HandOver(e)
    PROVE  StreamInv'
<1>1. /\ recvmsgchan[e] = <<>>
      /\ taken[e] # <<>>
      /\ handled' = [handled EXCEPT ![e] = Append(@, Head(taken[e]))]
      /\ taken' = [taken EXCEPT ![e] = Tail(@)]
      /\ UNCHANGED <<accepted, recvmsgchan, sendChan>>
  BY DEF HandOver, sendVars
<1>2. SUFFICES ASSUME NEW f \in End
               PROVE  accepted'[Other(f)] = Stream(f)'
  BY DEF StreamInv, Stream
<1>3. accepted[Other(f)] = Stream(f)
  BY DEF StreamInv, Stream
<1>4. CASE f # e
  BY <1>1, <1>3, <1>4 DEF TypeOK, Stream
<1>5. CASE f = e
  <2>1. /\ handled'[e] = Append(handled[e], Head(taken[e]))
        /\ taken'[e] = Tail(taken[e])
    BY <1>1 DEF TypeOK
  <2>2. Append(handled[e], Head(taken[e])) \o (Tail(taken[e]) \o sendChan[Other(e)])
          = handled[e] \o (taken[e] \o sendChan[Other(e)])
    <3>1. /\ handled[e] \in Seq(Msg)
          /\ recvmsgchan[e] \in Seq(Msg)
          /\ taken[e] \in Seq(Msg)
          /\ sendChan[Other(e)] \in Seq(Msg)
          /\ taken[e] \o sendChan[Other(e)] \in Seq(Msg)
      BY StreamType
    <3>2. QED
      BY <1>1, <3>1, MoveHead
  <2>3. ASSUME NEW s \in Seq(Msg)
        PROVE  <<>> \o s = s
    BY ConcatEmptySeq
  <2>4. /\ Tail(taken[e]) \o sendChan[Other(e)] \in Seq(Msg)
        /\ taken[e] \o sendChan[Other(e)] \in Seq(Msg)
    BY <1>1, StreamType, HeadTailMsg, ConcatProperties
  <2>5. QED
    BY <1>1, <1>3, <1>5, <2>1, <2>2, <2>3, <2>4 DEF Stream
<1>6. QED
  BY <1>4, <1>5

LEMMA StreamNext == TypeOK /\ ThreadInv /\ StreamInv /\ [Next]_vars => StreamInv'
<1> SUFFICES ASSUME TypeOK, ThreadInv, StreamInv, [Next]_vars PROVE StreamInv'
  OBVIOUS
<1>1. CASE UNCHANGED vars
  BY <1>1, StreamSame DEF vars, sendVars, recvVars, handlerVars
<1>2. ASSUME NEW e \in End, NEW c \in Caller,
             Open(e) \/ ShutdownCall(e, c) \/ RecvLoop(e) \/ HandlerReturns(e)
      PROVE  StreamInv'
  BY <1>2, StreamSame
    DEF Open, ShutdownCall, ShutdownTest, ShutdownSwap, ShutdownClose, RecvLoop,
        HandlerReturns, sendVars, recvVars, handlerVars
<1>3. ASSUME NEW m \in Msg, SendTest(m) \/ SendTestShutdown(m) \/ SendRefuse(m)
      PROVE  StreamInv'
  BY <1>3, StreamSame
    DEF SendTest, SendTestShutdown, SendRefuse, recvVars, handlerVars
<1>4. ASSUME NEW m \in Msg, SendCall(m) PROVE StreamInv'
  BY <1>3, <1>4, StreamEnqueue DEF SendCall
<1>5. ASSUME NEW e \in End, RecvThread(e) \/ Handler(e) PROVE StreamInv'
  BY <1>2, <1>5, StreamTake, StreamQueue, StreamHandle, StreamHandOver
    DEF RecvThread, Handler, Caller
<1>6. CASE Next
  BY <1>2, <1>4, <1>5, <1>6 DEF Next, Caller
<1>7. QED
  BY <1>1, <1>6
-----------------------------------------------------------------------------
(* The refinement.  A send that puts its message into the channel is an     *)
(* Accept; the handler that gets a message, from recvmsgchan or from        *)
(* recvThread's hands, is a Handle; every other step is a stutter.          *)

LEMMA LinkOther == \A e \in End : Link!Other(e) = Other(e)
BY DEF Other, Link!Other

LEMMA LinkAccept ==
    ASSUME TypeOK, AcceptInv, NEW m \in Msg, SendEnqueue(m)
    PROVE  Link!Accept(m)
<1>1. Origin[m] \in End
  BY MsgAssumption
<1>2. \A i \in DOMAIN accepted[Origin[m]] : accepted[Origin[m]][i] # m
  BY <1>1 DEF AcceptInv, SendEnqueue
<1>3. QED
  BY <1>2 DEF SendEnqueue, handlerVars, Link!Accept

LEMMA LinkHandle ==
    ASSUME TypeOK, StreamInv, NEW e \in End, HandleQueued(e) \/ HandOver(e)
    PROVE  Link!Handle(e)
<1>1. accepted[Other(e)]
        = handled[e] \o (recvmsgchan[e] \o (taken[e] \o sendChan[Other(e)]))
  BY DEF StreamInv, Stream
<1>2. ASSUME Len(handled[e]) < Len(accepted[Other(e)]),
             handled' = [handled EXCEPT
                ![e] = Append(@, accepted[Other(e)][Len(handled[e]) + 1])],
             UNCHANGED accepted
      PROVE  Link!Handle(e)
  BY <1>2, LinkOther DEF TypeOK, Link!Handle
<1>3. CASE HandleQueued(e)
  <2>1. /\ recvmsgchan[e] # <<>>
        /\ handled' = [handled EXCEPT ![e] = Append(@, Head(recvmsgchan[e]))]
        /\ UNCHANGED accepted
    BY <1>3 DEF HandleQueued, sendVars
  <2>2. /\ Len(handled[e]) < Len(accepted[Other(e)])
        /\ accepted[Other(e)][Len(handled[e]) + 1] = Head(recvmsgchan[e])
    <3>1. /\ handled[e] \in Seq(Msg)
          /\ recvmsgchan[e] \in Seq(Msg)
          /\ taken[e] \in Seq(Msg)
          /\ sendChan[Other(e)] \in Seq(Msg)
          /\ taken[e] \o sendChan[Other(e)] \in Seq(Msg)
      BY StreamType
    <3>2. /\ Len(handled[e]) < Len(Stream(e))
          /\ Stream(e)[Len(handled[e]) + 1] = Head(recvmsgchan[e])
      BY <2>1, <3>1, HeadBehind DEF Stream
    <3>3. QED
      BY <1>1, <3>2 DEF Stream
  <2>3. QED
    BY <1>2, <2>1, <2>2
<1>4. CASE HandOver(e)
  <2>1. /\ recvmsgchan[e] = <<>>
        /\ taken[e] # <<>>
        /\ handled' = [handled EXCEPT ![e] = Append(@, Head(taken[e]))]
        /\ UNCHANGED accepted
    BY <1>4 DEF HandOver, sendVars
  <2>2. accepted[Other(e)] = handled[e] \o (taken[e] \o sendChan[Other(e)])
    BY <1>1, <2>1, StreamType, ConcatEmptySeq
  <2>3. /\ Len(handled[e]) < Len(accepted[Other(e)])
        /\ accepted[Other(e)][Len(handled[e]) + 1] = Head(taken[e])
    <3>1. /\ handled[e] \in Seq(Msg)
          /\ recvmsgchan[e] \in Seq(Msg)
          /\ taken[e] \in Seq(Msg)
          /\ sendChan[Other(e)] \in Seq(Msg)
          /\ taken[e] \o sendChan[Other(e)] \in Seq(Msg)
      BY StreamType
    <3>2. LET s == handled[e] \o (taken[e] \o sendChan[Other(e)]) IN
          Len(handled[e]) < Len(s) /\ s[Len(handled[e]) + 1] = Head(taken[e])
      BY <2>1, <3>1, HeadBehind
    <3>3. QED
      BY <2>2, <3>2
  <2>4. QED
    BY <1>2, <2>1, <2>3
<1>5. QED
  BY <1>3, <1>4

LEMMA LinkNext ==
    ASSUME TypeOK, AcceptInv, StreamInv, [Next]_vars
    PROVE  [Link!Next]_(Link!vars)
<1>1. ASSUME UNCHANGED <<accepted, handled>>
      PROVE  UNCHANGED Link!vars
  BY <1>1 DEF Link!vars
<1>2. CASE UNCHANGED vars
  BY <1>1, <1>2 DEF vars, sendVars, handlerVars
<1>3. ASSUME NEW e \in End, NEW c \in Caller,
             \/ Open(e) \/ ShutdownCall(e, c) \/ RecvThread(e) \/ HandlerReturns(e)
      PROVE  UNCHANGED <<accepted, handled>>
  BY <1>3
    DEF Open, ShutdownCall, ShutdownTest, ShutdownSwap, ShutdownClose, RecvThread,
        RecvLoop, RecvTake, RecvQueue, HandlerReturns, sendVars, handlerVars
<1>4. ASSUME NEW e \in End, Handler(e)
      PROVE  Link!Next \/ UNCHANGED <<accepted, handled>>
  BY <1>3, <1>4, LinkHandle DEF Handler, Caller, Link!Next
<1>5. ASSUME NEW m \in Msg, SendTest(m) \/ SendTestShutdown(m) \/ SendRefuse(m)
      PROVE  UNCHANGED <<accepted, handled>>
  BY <1>5 DEF SendTest, SendTestShutdown, SendRefuse, handlerVars
<1>6. ASSUME NEW m \in Msg, SendCall(m)
      PROVE  Link!Next \/ UNCHANGED <<accepted, handled>>
  BY <1>5, <1>6, LinkAccept DEF SendCall, Link!Next
<1>7. CASE Next
  <2>1. Link!Next \/ UNCHANGED <<accepted, handled>>
    BY <1>3, <1>4, <1>6, <1>7 DEF Next, Caller
  <2>2. QED
    BY <1>1, <2>1
<1>8. QED
  BY <1>2, <1>7

(* What the connection takes and what it gives are those of MsgLink: the     *)
(* other end's handler gets what SendMessageBinary accepted, in order, none  *)
(* twice and none from nowhere, for any capacity that InitChan gives         *)
(* recvmsgchan and whatever the two ends shut down.                          *)
THEOREM ImplementsLink == Spec => LinkSpec
<1>1. Init => IInv
  BY TypeInit, LateInit, AcceptInit, StreamInit DEF IInv
<1>2. IInv /\ [Next]_vars => IInv'
  BY TypeNext, LateNext, AcceptNext, StreamNext DEF IInv
<1>3. Init => Link!Init
  BY DEF Init, Link!Init
<1>4. IInv /\ [Next]_vars => [Link!Next]_(Link!vars)
  BY LinkNext DEF IInv
<1>5. QED
  BY <1>1, <1>2, <1>3, <1>4, PTL DEF Spec, LinkSpec, Link!Spec
=============================================================================
