--------------------------- MODULE TCPConn_proofs ---------------------------
(***************************************************************************)
(* Theorems about TCPConn, for any two ends, any messages and any          *)
(* capacities: type correctness, the single close of shutdownChan, that    *)
(* the socket is closed only after the channel was drained, and that the   *)
(* connection implements MsgLink.                                          *)
(***************************************************************************)
EXTENDS TCPConn, TLAPS, SequenceTheorems

-----------------------------------------------------------------------------
(* Facts about the other end and about the sequences of the model.         *)

LEMMA OtherEnd == \A e \in End : Other(e) \in End /\ Other(e) # e
BY EndAssumption DEF Other

LEMMA RangeSeq ==
    ASSUME NEW s \in Seq(Msg)
    PROVE  Range(s) \subseteq Msg
BY DEF Range

LEMMA RangeAppend ==
    ASSUME NEW s \in Seq(Msg), NEW m \in Msg
    PROVE  /\ Append(s, m) \in Seq(Msg)
           /\ Range(Append(s, m)) = Range(s) \cup {m}
<1>1. Append(s, m) \in Seq(Msg)
  OBVIOUS
<1>2. Range(Append(s, m)) \subseteq Range(s) \cup {m}
  BY DEF Range
<1>3. ASSUME NEW x \in Range(s) \cup {m}
      PROVE  x \in Range(Append(s, m))
  <2>1. CASE x = m
    <3>1. Len(s) + 1 \in DOMAIN Append(s, m) /\ Append(s, m)[Len(s) + 1] = m
      OBVIOUS
    <3>2. QED
      BY <2>1, <3>1 DEF Range
  <2>2. CASE x \in Range(s)
    <3>1. PICK i \in DOMAIN s : s[i] = x
      BY <2>2 DEF Range
    <3>2. i \in DOMAIN Append(s, m) /\ Append(s, m)[i] = x
      BY <3>1
    <3>3. QED
      BY <3>2 DEF Range
  <2>3. QED
    BY <1>3, <2>1, <2>2
<1>4. QED
  BY <1>1, <1>2, <1>3

LEMMA RangeTail ==
    ASSUME NEW s \in Seq(Msg), s # <<>>
    PROVE  /\ Head(s) \in Msg
           /\ Tail(s) \in Seq(Msg)
           /\ Range(s) = Range(Tail(s)) \cup {Head(s)}
<1>1. Head(s) \in Msg /\ Tail(s) \in Seq(Msg)
  OBVIOUS
<1>2. Range(Tail(s)) \cup {Head(s)} \subseteq Range(s)
  <2>1. Head(s) \in Range(s)
    BY DEF Range
  <2>2. ASSUME NEW x \in Range(Tail(s))
        PROVE  x \in Range(s)
    <3>1. PICK i \in DOMAIN Tail(s) : Tail(s)[i] = x
      BY DEF Range
    <3>2. i + 1 \in DOMAIN s /\ s[i + 1] = x
      BY <3>1
    <3>3. QED
      BY <3>2 DEF Range
  <2>3. QED
    BY <2>1, <2>2
<1>3. ASSUME NEW x \in Range(s), x # Head(s)
      PROVE  x \in Range(Tail(s))
  <2>1. PICK i \in DOMAIN s : s[i] = x
    BY DEF Range
  <2>2. i # 1
    BY <1>3, <2>1
  <2>3. i - 1 \in DOMAIN Tail(s) /\ Tail(s)[i - 1] = x
    BY <2>1, <2>2
  <2>4. QED
    BY <2>3 DEF Range
<1>4. QED
  BY <1>1, <1>2, <1>3

LEMMA SubSeqMsg ==
    ASSUME NEW s \in Seq(Msg), NEW i \in Nat \ {0}, NEW j \in Nat, j <= Len(s)
    PROVE  SubSeq(s, i, j) \in Seq(Msg)
BY SubSeqProperties
-----------------------------------------------------------------------------
(* Type correctness.                                                       *)

LEMMA TypeInit == Init => TypeOK
<1>1. <<>> \in Seq(Msg)
  OBVIOUS
<1>2. [c \in Caller |-> "idle"] \in [Caller -> {"idle", "swap", "close", "done"}]
  OBVIOUS
<1>3. SUFFICES ASSUME Init PROVE TypeOK
  OBVIOUS
<1>4. /\ sendmsgchan \in [End -> Seq(Msg)]
      /\ joined \in [End -> Seq(Msg)]
      /\ sendBuffer \in [End -> Seq(Msg)]
      /\ wire \in [End -> Seq(Msg)]
      /\ decoded \in [End -> Seq(Msg)]
      /\ recvmsgchan \in [End -> Seq(Msg)]
      /\ accepted \in [End -> Seq(Msg)]
      /\ handled \in [End -> Seq(Msg)]
  BY <1>1, <1>3 DEF Init
<1>5. caller \in [End -> [Caller -> {"idle", "swap", "close", "done"}]]
  BY <1>2, <1>3, Zenon DEF Init
<1>6. /\ broken \in BOOLEAN
      /\ early \subseteq Msg
      /\ written \subseteq Msg
      /\ called \subseteq Msg
  BY <1>3 DEF Init
<1>7. /\ state \in [End -> {"LINKED", "HOLD", "CLOSED"}]
      /\ shutdown \in [End -> BOOLEAN]
      /\ sender \in [Msg -> {"new", "linked", "waiting", "accepted", "refused"}]
      /\ bufferLen \in [End -> Nat]
      /\ nowpkglen \in [End -> Nat]
      /\ sendPC \in [End -> {"take", "join", "write", "closed"}]
      /\ draining \in [End -> BOOLEAN]
      /\ recvPC \in [End -> {"loop", "read", "queue", "done"}]
      /\ handlerPC \in [End -> {"recv", "return"}]
  BY <1>3 DEF Init
<1>8. QED
  BY <1>4, <1>5, <1>6, <1>7 DEF TypeOK

LEMMA TypeShutdown ==
    ASSUME TypeOK, NEW e \in End, NEW c \in Caller, ShutdownCall(e, c)
    PROVE  TypeOK'
<1>1. CASE ShutdownTest(e, c)
  BY <1>1 DEF TypeOK, ShutdownTest, Step, senderVars, sendVars, batchVars,
              netVars, recvVars, handlerVars
<1>2. CASE ShutdownSwap(e, c)
  BY <1>2 DEF TypeOK, ShutdownSwap, Step, senderVars, sendVars, batchVars,
              netVars, recvVars, handlerVars
<1>3. CASE ShutdownClose(e, c)
  BY <1>3 DEF TypeOK, ShutdownClose, Step, senderVars, sendVars, batchVars,
              netVars, recvVars, handlerVars
<1>4. QED
  BY <1>1, <1>2, <1>3 DEF ShutdownCall

LEMMA TypeSend ==
    ASSUME TypeOK, NEW m \in Msg, SendCall(m)
    PROVE  TypeOK'
<1>1. CASE SendTest(m)
  BY <1>1 DEF TypeOK, SendTest, shutVars, sendVars, batchVars, netVars,
              recvVars, handlerVars
<1>2. CASE SendTestShutdown(m)
  BY <1>2 DEF TypeOK, SendTestShutdown, shutVars, sendVars, batchVars, netVars,
              recvVars, handlerVars
<1>3. CASE SendEnqueue(m)
  BY <1>3, MsgAssumption, RangeAppend
     DEF TypeOK, SendEnqueue, shutVars, sendVars, batchVars, netVars, recvVars,
         handlerVars
<1>4. CASE SendRefuse(m)
  BY <1>4 DEF TypeOK, SendRefuse, shutVars, sendVars, batchVars, netVars,
              recvVars, handlerVars
<1>5. QED
  BY <1>1, <1>2, <1>3, <1>4 DEF SendCall

LEMMA TypeJoin ==
    ASSUME TypeOK, NEW e \in End, sendmsgchan[e] # <<>>,
           Join(e, Head(sendmsgchan[e]))
    PROVE  /\ joined' \in [End -> Seq(Msg)]
           /\ nowpkglen' \in [End -> Nat]
           /\ sendBuffer' \in [End -> Seq(Msg)]
           /\ bufferLen' \in [End -> Nat]
           /\ sendmsgchan' \in [End -> Seq(Msg)]
<1> DEFINE m == Head(sendmsgchan[e])
<1>1. m \in Msg /\ Tail(sendmsgchan[e]) \in Seq(Msg)
  BY RangeTail DEF TypeOK
<1>2. Size[m] \in Nat
  BY <1>1, MsgAssumption
<1>3. Append(joined[e], m) \in Seq(Msg) /\ Append(sendBuffer[e], m) \in Seq(Msg)
  BY <1>1, RangeAppend DEF TypeOK
<1>4. joined' \in [End -> Seq(Msg)] /\ sendmsgchan' \in [End -> Seq(Msg)]
  BY <1>1, <1>3 DEF TypeOK, Join
<1>5. /\ nowpkglen \in [End -> Nat] /\ bufferLen \in [End -> Nat]
      /\ sendBuffer \in [End -> Seq(Msg)]
  BY DEF TypeOK
<1>6. /\ nowpkglen' = [nowpkglen EXCEPT ![e] = @ + Size[m]]
      /\ sendBuffer' = IF Fits(e, m)
                       THEN [sendBuffer EXCEPT ![e] = Append(@, m)]
                       ELSE sendBuffer
      /\ bufferLen' = IF Fits(e, m)
                      THEN [bufferLen EXCEPT ![e] = @ + Size[m]]
                      ELSE bufferLen
  BY DEF Join
<1> HIDE DEF m
<1>7. nowpkglen' \in [End -> Nat] /\ bufferLen' \in [End -> Nat]
  BY <1>2, <1>5, <1>6
<1>8. sendBuffer' \in [End -> Seq(Msg)]
  BY <1>3, <1>5, <1>6
<1>9. QED
  BY <1>4, <1>7, <1>8

LEMMA TypeSendThread ==
    ASSUME TypeOK, NEW e \in End, SendThread(e)
    PROVE  TypeOK'
<1>1. CASE TakeFirst(e)
  <2>1. sendPC' \in [End -> {"take", "join", "write", "closed"}]
    BY <1>1 DEF TypeOK, TakeFirst
  <2>2. QED
    BY <1>1, <2>1, TypeJoin
       DEF TypeOK, TakeFirst, shutVars, senderVars, netVars, recvVars, handlerVars
<1>2. CASE StartDrain(e)
  BY <1>2 DEF TypeOK, StartDrain, shutVars, senderVars, batchVars, netVars,
              recvVars, handlerVars
<1>3. CASE EndDrain(e)
  BY <1>3 DEF TypeOK, EndDrain, senderVars, batchVars, netVars, recvVars,
              handlerVars
<1>4. CASE JoinMore(e)
  BY <1>4, TypeJoin
     DEF TypeOK, JoinMore, MayJoinMore, shutVars, senderVars, netVars, recvVars,
         handlerVars
<1>5. CASE EndJoin(e)
  BY <1>5 DEF TypeOK, EndJoin, shutVars, senderVars, batchVars, netVars,
              recvVars, handlerVars
<1>6. CASE WriteOne(e)
  <2>1. Head(sendBuffer[e]) \in Msg /\ Tail(sendBuffer[e]) \in Seq(Msg)
    BY <1>6, RangeTail DEF TypeOK, WriteOne
  <2>2. QED
    BY <1>6, <2>1, RangeAppend
       DEF TypeOK, WriteOne, shutVars, senderVars, recvVars, handlerVars
<1>7. ASSUME NEW ran \in 1 .. MaxMsgPackSum, NEW panic \in {FALSE, CallbackMayPanic},
             ran <= Len(joined[e]), EndWrite(e, ran, panic) \/ WriteFails(e, ran, panic)
      PROVE  TypeOK'
  <2>1. Range(SubSeq(joined[e], 1, ran)) \subseteq Msg
    <3>1. MaxMsgPackSum \in Nat
      BY SizeAssumption
    <3>2. ran \in Nat /\ ran <= Len(joined[e]) /\ joined[e] \in Seq(Msg)
      BY <1>7, <3>1 DEF TypeOK
    <3>3. SubSeq(joined[e], 1, ran) \in Seq(Msg)
      BY <3>2, SubSeqMsg
    <3>4. QED
      BY <3>3, RangeSeq
  <2>2. panic \in BOOLEAN
    BY SwitchAssumption
  <2>3. /\ joined' = [joined EXCEPT ![e] = <<>>]
        /\ nowpkglen' = [nowpkglen EXCEPT ![e] = 0]
        /\ sendPC' = [sendPC EXCEPT ![e] = "take"]
        /\ called' = called \cup Range(SubSeq(joined[e], 1, ran))
    BY <1>7 DEF EndWrite, WriteFails, Callbacks
  <2>4. draining' \in [End -> BOOLEAN]
    BY <1>7, <2>2 DEF TypeOK, EndWrite, WriteFails, Callbacks
  <2>5. CASE EndWrite(e, ran, panic)
    BY <2>1, <2>3, <2>4, <2>5
       DEF TypeOK, EndWrite, shutVars, senderVars, netVars, recvVars, handlerVars
  <2>6. CASE WriteFails(e, ran, panic)
    <3>1. broken' \in BOOLEAN
      BY <2>6 DEF WriteFails
    <3>2. UNCHANGED <<shutVars, senderVars, sendmsgchan, sendBuffer, bufferLen,
                      written, wire, recvVars, handlerVars>>
      BY <2>6 DEF WriteFails
    <3>3. /\ joined' \in [End -> Seq(Msg)]
          /\ nowpkglen' \in [End -> Nat]
          /\ sendPC' \in [End -> {"take", "join", "write", "closed"}]
          /\ called' \subseteq Msg
      BY <2>1, <2>3 DEF TypeOK
    <3>4. QED
      BY <2>4, <3>1, <3>2, <3>3, Zenon
         DEF TypeOK, shutVars, senderVars, recvVars, handlerVars
  <2>7. QED
    BY <1>7, <2>5, <2>6
<1>8. QED
  BY <1>1, <1>2, <1>3, <1>4, <1>5, <1>6, <1>7 DEF SendThread

LEMMA TypeRecvThread ==
    ASSUME TypeOK, NEW e \in End, RecvThread(e)
    PROVE  TypeOK'
<1>1. CASE RecvLoop(e)
  BY <1>1 DEF TypeOK, RecvLoop, shutVars, senderVars, sendVars, batchVars,
              netVars, handlerVars
<1>2. ASSUME NEW k \in 1 .. WireSize, Read(e, k)
      PROVE  TypeOK'
  <2>1. Other(e) \in End /\ wire[Other(e)] \in Seq(Msg)
    BY OtherEnd DEF TypeOK
  <2>2. k \in Nat \ {0} /\ k <= Len(wire[Other(e)])
    BY <1>2, <2>1 DEF Read
  <2>3. SubSeq(wire[Other(e)], 1, k) \in Seq(Msg)
    BY <2>1, <2>2, SubSeqMsg
  <2>4. SubSeq(wire[Other(e)], k + 1, Len(wire[Other(e)])) \in Seq(Msg)
    BY <2>1, <2>2, SubSeqMsg
  <2>5. QED
    BY <1>2, <2>1, <2>3, <2>4
       DEF TypeOK, Read, shutVars, senderVars, sendVars, batchVars, handlerVars
<1>3. CASE ReadError(e)
  BY <1>3 DEF TypeOK, ReadError, shutVars, senderVars, sendVars, batchVars,
              netVars, handlerVars
<1>4. CASE ReadEOF(e)
  BY <1>4 DEF TypeOK, ReadEOF, shutVars, senderVars, sendVars, batchVars,
              netVars, handlerVars
<1>5. CASE QueueOne(e)
  <2>1. decoded[e] # <<>>
    BY <1>5 DEF QueueOne
  <2>2. Head(decoded[e]) \in Msg /\ Tail(decoded[e]) \in Seq(Msg)
    BY <2>1, RangeTail DEF TypeOK
  <2>3. Append(recvmsgchan[e], Head(decoded[e])) \in Seq(Msg)
    BY <2>2, RangeAppend DEF TypeOK
  <2>4. QED
    BY <1>5, <2>2, <2>3
       DEF TypeOK, QueueOne, shutVars, senderVars, sendVars, batchVars, netVars,
           handlerVars
<1>6. QED
  BY <1>1, <1>2, <1>3, <1>4, <1>5 DEF RecvThread

LEMMA TypeHandler ==
    ASSUME TypeOK, NEW e \in End, Handler(e)
    PROVE  TypeOK'
<1>1. CASE Handle(e)
  <2>1. Head(recvmsgchan[e]) \in Msg /\ Tail(recvmsgchan[e]) \in Seq(Msg)
    BY <1>1, RangeTail DEF TypeOK, Handle
  <2>2. Append(handled[e], Head(recvmsgchan[e])) \in Seq(Msg)
    BY <2>1, RangeAppend DEF TypeOK
  <2>3. QED
    BY <1>1, <2>1, <2>2
       DEF TypeOK, Handle, shutVars, senderVars, sendVars, batchVars, netVars
<1>2. CASE HandlerReturns(e)
  BY <1>2 DEF TypeOK, HandlerReturns, shutVars, senderVars, sendVars, batchVars,
              netVars, recvVars
<1>3. QED
  BY <1>1, <1>2 DEF Handler

LEMMA TypeNet ==
    ASSUME TypeOK, NEW kept \in [End -> 0 .. WireSize], NetFails(kept)
    PROVE  TypeOK'
<1>1. ASSUME NEW e \in End
      PROVE  SubSeq(wire[e], 1, kept[e]) \in Seq(Msg)
  <2>1. WireSize \in Nat
    BY SizeAssumption
  <2>2. kept[e] \in Nat /\ kept[e] <= Len(wire[e])
    BY <2>1 DEF NetFails
  <2>3. QED
    BY <2>2, SubSeqMsg DEF TypeOK
<1>2. QED
  BY <1>1 DEF TypeOK, NetFails, shutVars, senderVars, sendVars, batchVars,
              recvVars, handlerVars

LEMMA TypeStep == TypeOK /\ [Next]_vars => TypeOK'
<1>1. ASSUME TypeOK, UNCHANGED vars
      PROVE  TypeOK'
  BY <1>1 DEF TypeOK, vars, shutVars, senderVars, sendVars, batchVars, netVars,
              recvVars, handlerVars
<1>2. QED
  BY <1>1, TypeShutdown, TypeSend, TypeSendThread, TypeRecvThread, TypeHandler,
     TypeNet DEF Next

(* Every reachable state of a connection is well typed. *)
THEOREM TypeCorrect == Spec => []TypeOK
BY TypeInit, TypeStep, PTL DEF Spec
-----------------------------------------------------------------------------
(* One close of shutdownChan.                                              *)

LEMMA ShutdownInvInit == Init => ShutdownInv
<1>1. ASSUME Init, NEW e \in End
      PROVE  ~shutdown[e] /\ \A c \in Caller : caller[e][c] # "close"
  BY <1>1 DEF Init
<1>2. QED
  BY <1>1 DEF ShutdownInv, ShutdownOnce

(* Whatever leaves state from LINKED, shutdown and caller alone. *)
LEMMA ShutdownInvFrame ==
    ASSUME ShutdownInv, UNCHANGED <<shutdown, caller>>,
           \A e \in End : state'[e] = "LINKED" => state[e] = "LINKED"
    PROVE  ShutdownInv'
BY DEF ShutdownInv, ShutdownOnce

LEMMA ShutdownInvCall ==
    ASSUME TypeOK, ShutdownInv, NEW e \in End, NEW c \in Caller,
           ShutdownCall(e, c)
    PROVE  ShutdownInv'
<1>1. CASE ShutdownTest(e, c)
  <2>1. \A f \in End, d \in Caller :
            caller'[f][d] = "close" <=> caller[f][d] = "close"
    BY <1>1 DEF TypeOK, ShutdownTest, Step
  <2>2. UNCHANGED <<state, shutdown>>
    BY <1>1 DEF ShutdownTest
  <2>3. QED
    BY <2>1, <2>2 DEF ShutdownInv, ShutdownOnce
<1>2. CASE ShutdownSwap(e, c)
  <2>1. CASE state[e] = "LINKED"
    <3>1. \A d \in Caller : caller[e][d] # "close"
      BY <2>1 DEF ShutdownInv
    <3>2. \A d \in Caller : caller'[e][d] = "close" => d = c
      BY <1>2, <3>1 DEF TypeOK, ShutdownSwap, Step
    <3>3. \A f \in End \ {e} : caller'[f] = caller[f] /\ state'[f] = state[f]
      BY <1>2 DEF TypeOK, ShutdownSwap, Step
    <3>4. UNCHANGED shutdown /\ ~shutdown[e] /\ state'[e] = "HOLD"
      BY <1>2, <2>1 DEF TypeOK, ShutdownInv, ShutdownSwap
    <3>5. QED
      BY <3>2, <3>3, <3>4 DEF ShutdownInv, ShutdownOnce
  <2>2. CASE state[e] # "LINKED"
    <3>1. \A f \in End, d \in Caller :
              caller'[f][d] = "close" => caller[f][d] = "close"
      BY <1>2, <2>2 DEF TypeOK, ShutdownSwap, Step
    <3>2. \A f \in End : state'[f] = state[f]
      BY <1>2, <2>2 DEF TypeOK, ShutdownSwap
    <3>3. UNCHANGED shutdown
      BY <1>2 DEF ShutdownSwap
    <3>4. QED
      BY <3>1, <3>2, <3>3 DEF ShutdownInv, ShutdownOnce
  <2>3. QED
    BY <2>1, <2>2
<1>3. CASE ShutdownClose(e, c)
  <2>1. state[e] # "LINKED" /\ \A d \in Caller : caller[e][d] = "close" => d = c
    BY <1>3 DEF ShutdownClose, Step, ShutdownInv, ShutdownOnce
  <2>2. \A d \in Caller : caller'[e][d] # "close"
    BY <1>3, <2>1 DEF TypeOK, ShutdownClose, Step
  <2>3. \A f \in End \ {e} : caller'[f] = caller[f] /\ shutdown'[f] = shutdown[f]
    BY <1>3 DEF TypeOK, ShutdownClose, Step
  <2>4. UNCHANGED state
    BY <1>3 DEF ShutdownClose
  <2>5. QED
    BY <2>1, <2>2, <2>3, <2>4 DEF ShutdownInv, ShutdownOnce
<1>4. QED
  BY <1>1, <1>2, <1>3 DEF ShutdownCall

LEMMA ShutdownInvStep == TypeOK /\ ShutdownInv /\ [Next]_vars => ShutdownInv'
<1> SUFFICES ASSUME TypeOK, ShutdownInv, [Next]_vars
             PROVE  ShutdownInv'
  OBVIOUS
<1>1. CASE UNCHANGED vars
  BY <1>1, ShutdownInvFrame DEF vars, shutVars
<1>2. ASSUME NEW e \in End, SendThread(e)
      PROVE  ShutdownInv'
  <2>1. UNCHANGED <<shutdown, caller>>
    BY <1>2 DEF SendThread, TakeFirst, StartDrain, EndDrain, JoinMore, EndJoin,
                WriteOne, EndWrite, WriteFails, shutVars
  <2>2. \A f \in End : state'[f] = "LINKED" => state[f] = "LINKED"
    <3>1. CASE EndDrain(e)
      BY <3>1 DEF EndDrain, TypeOK
    <3>2. CASE ~EndDrain(e)
      BY <1>2, <3>2 DEF SendThread, TakeFirst, StartDrain, JoinMore, EndJoin,
                        WriteOne, EndWrite, WriteFails, shutVars
    <3>3. QED
      BY <3>1, <3>2
  <2>3. QED
    BY <2>1, <2>2, ShutdownInvFrame
<1>3. ASSUME NEW e \in End, RecvThread(e) \/ Handler(e)
      PROVE  UNCHANGED shutVars
  BY <1>3 DEF RecvThread, RecvLoop, Read, ReadError, ReadEOF, QueueOne, Handler,
              Handle, HandlerReturns
<1>4. ASSUME NEW m \in Msg, SendCall(m)
      PROVE  UNCHANGED shutVars
  BY <1>4 DEF SendCall, SendTest, SendTestShutdown, SendEnqueue, SendRefuse
<1>5. ASSUME NEW kept \in [End -> 0 .. WireSize], NetFails(kept)
      PROVE  UNCHANGED shutVars
  BY <1>5 DEF NetFails
<1>6. UNCHANGED shutVars => ShutdownInv'
  BY ShutdownInvFrame DEF shutVars
<1>7. QED
  BY <1>1, <1>2, <1>3, <1>4, <1>5, <1>6, ShutdownInvCall DEF Next

(* However often Shutdown is called, and by whom, one call closes the      *)
(* channel (TCPConn.Shutdown).                                             *)
THEOREM ShutdownOnceCorrect == Spec => []ShutdownOnce
<1>1. Init => TypeOK /\ ShutdownInv
  BY TypeInit, ShutdownInvInit
<1>2. TypeOK /\ ShutdownInv /\ [Next]_vars => (TypeOK /\ ShutdownInv)'
  BY TypeStep, ShutdownInvStep
<1>3. ShutdownInv => ShutdownOnce
  BY DEF ShutdownInv
<1>4. QED
  BY <1>1, <1>2, <1>3, PTL DEF Spec
-----------------------------------------------------------------------------
(* The channel is drained before the socket is closed.  A message fits an  *)
(* empty send buffer when no message is longer than the buffer, which is   *)
(* so between modules: the buffer is ten times MessageMaxSize.             *)

AllFit == /\ \A m \in Msg : Size[m] <= MessageMaxSize
          /\ MessageMaxSize <= SendBufferSize

LEMMA DrainInvInit == Init => DrainInv
<1> SUFFICES ASSUME Init PROVE DrainInv
  OBVIOUS
<1>1. \A e \in End : ~draining[e] /\ sendPC[e] = "take" /\ state[e] = "LINKED"
  BY DEF Init
<1>2. BufferInv
  BY <1>1 DEF Init, BufferInv
<1>3. PlaceInv
  BY DEF Init, PlaceInv
<1>4. QED
  BY <1>1, <1>2, <1>3 DEF DrainInv

(* Whatever changes none of what DrainInv speaks of, except that the state *)
(* of an end may go from LINKED to HOLD.                                   *)
LEMMA DrainInvFrame ==
    ASSUME DrainInv,
           UNCHANGED <<draining, sendPC, sendBuffer, bufferLen, nowpkglen, early,
                       written, sendmsgchan>>,
           broken' \/ ~broken,
           \A e \in End : /\ state'[e] = "LINKED" => state[e] = "LINKED"
                          /\ state'[e] = "CLOSED" <=> state[e] = "CLOSED"
    PROVE  DrainInv'
<1>1. BufferInv => BufferInv'
  BY DEF BufferInv
<1>2. PlaceInv => PlaceInv'
  BY DEF PlaceInv
<1>3. \A e \in End : /\ draining'[e] => state'[e] # "LINKED"
                     /\ sendPC'[e] = "closed" <=> state'[e] = "CLOSED"
  BY DEF DrainInv
<1>4. QED
  BY <1>1, <1>2, <1>3 DEF DrainInv

LEMMA DrainInvSend ==
    ASSUME TypeOK, DrainInv, NEW m \in Msg, SendEnqueue(m)
    PROVE  DrainInv'
<1> DEFINE e == Origin[m]
<1>1. e \in End
  BY MsgAssumption
<1>2. UNCHANGED <<state, draining, sendPC, sendBuffer, bufferLen, nowpkglen,
                  written, broken>>
  BY DEF SendEnqueue, shutVars, sendVars, batchVars, netVars
<1>3. Range(sendmsgchan'[e]) = Range(sendmsgchan[e]) \cup {m}
  BY <1>1, RangeAppend DEF TypeOK, SendEnqueue
<1>4. \A f \in End \ {e} : sendmsgchan'[f] = sendmsgchan[f]
  BY DEF TypeOK, SendEnqueue
<1>5. BufferInv => BufferInv'
  BY <1>2 DEF BufferInv
<1>6. ASSUME PlaceInv PROVE PlaceInv'
  <2>1. SUFFICES ASSUME NEW n \in early'
                 PROVE  \/ n \in written
                        \/ n \in Range(sendBuffer[Origin[n]])
                        \/ /\ n \in Range(sendmsgchan'[Origin[n]])
                           /\ sendPC[Origin[n]] # "closed"
    BY <1>2 DEF PlaceInv
  <2>2. n \in Msg /\ Origin[n] \in End
    <3>1. early \subseteq Msg /\ early' \subseteq early \cup {m}
      BY DEF TypeOK, SendEnqueue
    <3>2. QED
      BY <2>1, <3>1, MsgAssumption
  <2>3. CASE n \in early
    <3>1. \/ n \in written
          \/ n \in Range(sendBuffer[Origin[n]])
          \/ /\ n \in Range(sendmsgchan[Origin[n]])
             /\ sendPC[Origin[n]] # "closed"
      BY <1>6, <2>3 DEF PlaceInv
    <3>2. Range(sendmsgchan[Origin[n]]) \subseteq Range(sendmsgchan'[Origin[n]])
      BY <1>3, <1>4, <2>2
    <3>3. QED
      BY <3>1, <3>2
  <2>4. CASE n \notin early
    <3>1. n = m /\ state[e] = "LINKED"
      BY <2>1, <2>4 DEF SendEnqueue
    <3>2. sendPC[e] # "closed"
      BY <1>1, <3>1 DEF DrainInv
    <3>3. QED
      BY <1>3, <3>1, <3>2
  <2>5. QED
    BY <2>3, <2>4
<1>7. QED
  BY <1>2, <1>5, <1>6 DEF DrainInv

(* As long as the connection holds, the next message of a batch fits.      *)
LEMMA FitsWhole ==
    ASSUME TypeOK, BufferInv, AllFit, NEW e \in End, TakeFirst(e) \/ JoinMore(e)
    PROVE  Fits(e, Head(sendmsgchan[e])) /\ bufferLen[e] = nowpkglen[e]
<1> DEFINE m == Head(sendmsgchan[e])
<1>1. sendmsgchan[e] # <<>> /\ sendPC[e] \in {"take", "join"}
  BY DEF TakeFirst, JoinMore, MayJoinMore
<1>2. m \in Msg
  BY <1>1, RangeTail DEF TypeOK
<1>3. bufferLen[e] = nowpkglen[e]
  BY <1>1 DEF BufferInv
<1>4. Size[m] <= MessageMaxSize /\ Size[m] \in Nat
  BY <1>2, MsgAssumption DEF AllFit
<1>5. /\ MessageMaxSize \in Nat
      /\ SendBufferSize \in Nat
      /\ nowpkglen[e] \in Nat
      /\ BufferLimit \in Nat
      /\ SendBufferSize <= BufferLimit
  <2>1. nowpkglen[e] \in Nat
    BY DEF TypeOK
  <2>2. BufferLimit \in Nat /\ SendBufferSize <= BufferLimit
    BY SizeAssumption DEF BufferLimit
  <2>3. QED
    BY <2>1, <2>2, SizeAssumption
<1>6. nowpkglen[e] + MessageMaxSize <= SendBufferSize
  <2>1. CASE TakeFirst(e)
    BY <1>5, <2>1 DEF TakeFirst, BufferInv, AllFit
  <2>2. CASE JoinMore(e)
    BY <2>2 DEF JoinMore, MayJoinMore
  <2>3. QED
    BY <2>1, <2>2
<1>7. QED
  BY <1>3, <1>4, <1>5, <1>6 DEF Fits

(* A message joined while the connection holds is in the send buffer. *)
LEMMA DrainInvJoin ==
    ASSUME TypeOK, DrainInv, AllFit, NEW e \in End,
           TakeFirst(e) \/ JoinMore(e)
    PROVE  DrainInv'
<1> DEFINE m == Head(sendmsgchan[e])
<1>1. /\ Join(e, m)
      /\ sendmsgchan[e] # <<>>
      /\ sendPC[e] \in {"take", "join"}
      /\ sendPC' = [sendPC EXCEPT ![e] = "join"]
      /\ UNCHANGED <<state, draining, early, written, broken>>
  BY DEF TakeFirst, JoinMore, MayJoinMore, shutVars, senderVars, netVars, TypeOK
<1>2. m \in Msg /\ Range(sendmsgchan[e]) = Range(Tail(sendmsgchan[e])) \cup {m}
  BY <1>1, RangeTail DEF TypeOK
<1>3. /\ sendmsgchan'[e] = Tail(sendmsgchan[e])
      /\ \A f \in End \ {e} : /\ sendmsgchan'[f] = sendmsgchan[f]
                              /\ sendBuffer'[f] = sendBuffer[f]
                              /\ bufferLen'[f] = bufferLen[f]
                              /\ nowpkglen'[f] = nowpkglen[f]
                              /\ sendPC'[f] = sendPC[f]
  BY <1>1 DEF TypeOK, Join
<1>4. ~broken => Fits(e, m) /\ bufferLen[e] = nowpkglen[e]
  BY FitsWhole DEF DrainInv
<1>5. ASSUME ~broken, BufferInv, PlaceInv
      PROVE  BufferInv' /\ PlaceInv'
  <2>1. /\ sendBuffer'[e] = Append(sendBuffer[e], m)
        /\ bufferLen'[e] = bufferLen[e] + Size[m]
        /\ nowpkglen'[e] = nowpkglen[e] + Size[m]
        /\ bufferLen[e] = nowpkglen[e]
        /\ sendPC'[e] = "join"
    BY <1>1, <1>4, <1>5 DEF TypeOK, Join
  <2>2. BufferInv'
    BY <1>3, <1>5, <2>1 DEF BufferInv
  <2>3. Range(sendBuffer'[e]) = Range(sendBuffer[e]) \cup {m}
    BY <1>2, <2>1, RangeAppend DEF TypeOK
  <2>4. ASSUME NEW n \in early'
        PROVE  \/ n \in written'
               \/ n \in Range(sendBuffer'[Origin[n]])
               \/ /\ n \in Range(sendmsgchan'[Origin[n]])
                  /\ sendPC'[Origin[n]] # "closed"
    <3>1. n \in early /\ written' = written /\ Origin[n] \in End
      BY <1>1, MsgAssumption DEF TypeOK
    <3>2. CASE Origin[n] = e
      BY <1>2, <1>3, <1>5, <2>1, <2>3, <3>1, <3>2 DEF PlaceInv
    <3>3. CASE Origin[n] # e
      BY <1>3, <1>5, <3>1, <3>3 DEF PlaceInv
    <3>4. QED
      BY <3>2, <3>3
  <2>5. QED
    BY <2>2, <2>4 DEF PlaceInv
<1>6. \A f \in End : /\ draining'[f] => state'[f] # "LINKED"
                     /\ sendPC'[f] = "closed" <=> state'[f] = "CLOSED"
  <2>1. sendPC \in [End -> {"take", "join", "write", "closed"}]
    BY DEF TypeOK
  <2>2. sendPC'[e] = "join" /\ sendPC[e] # "closed"
    BY <1>1, <2>1
  <2>3. \A f \in End : /\ draining[f] => state[f] # "LINKED"
                       /\ sendPC[f] = "closed" <=> state[f] = "CLOSED"
    BY DEF DrainInv
  <2>4. QED
    BY <1>1, <1>3, <2>2, <2>3
<1>7. QED
  BY <1>1, <1>5, <1>6 DEF DrainInv

LEMMA DrainInvSendThread ==
    ASSUME TypeOK, ShutdownInv, DrainInv, AllFit, NEW e \in End, SendThread(e)
    PROVE  DrainInv'
<1>1. CASE TakeFirst(e) \/ JoinMore(e)
  BY <1>1, DrainInvJoin
<1>2. CASE StartDrain(e)
  <2>1. UNCHANGED <<state, sendPC, sendBuffer, bufferLen, nowpkglen, early,
                    written, sendmsgchan, broken>>
    BY <1>2 DEF StartDrain, shutVars, senderVars, batchVars, netVars
  <2>2. state[e] # "LINKED"
    BY <1>2 DEF StartDrain, ShutdownInv
  <2>3. \A f \in End : draining'[f] => state[f] # "LINKED"
    BY <1>2, <2>2 DEF StartDrain, TypeOK, DrainInv
  <2>4. BufferInv => BufferInv'
    BY <2>1 DEF BufferInv
  <2>5. PlaceInv => PlaceInv'
    BY <2>1 DEF PlaceInv
  <2>6. QED
    BY <2>1, <2>3, <2>4, <2>5 DEF DrainInv
<1>3. CASE EndDrain(e)
  <2>1. UNCHANGED <<draining, sendBuffer, bufferLen, nowpkglen, early, written,
                    sendmsgchan, broken>>
    BY <1>3 DEF EndDrain, senderVars, batchVars, netVars
  <2>2. /\ sendmsgchan[e] = <<>> /\ sendPC[e] = "take"
        /\ sendPC'[e] = "closed" /\ state'[e] = "CLOSED"
        /\ \A f \in End \ {e} : sendPC'[f] = sendPC[f] /\ state'[f] = state[f]
    BY <1>3 DEF EndDrain, TypeOK
  <2>3. BufferInv => BufferInv'
    BY <2>1, <2>2 DEF BufferInv
  <2>4. ASSUME PlaceInv PROVE PlaceInv'
    <3>1. Range(sendmsgchan[e]) = {}
      BY <2>2 DEF Range
    <3>2. QED
      BY <2>1, <2>2, <2>4, <3>1, MsgAssumption DEF TypeOK, PlaceInv
  <2>5. \A f \in End : /\ draining'[f] => state'[f] # "LINKED"
                       /\ sendPC'[f] = "closed" <=> state'[f] = "CLOSED"
    BY <2>1, <2>2 DEF DrainInv
  <2>6. QED
    BY <2>1, <2>3, <2>4, <2>5 DEF DrainInv
<1>4. CASE EndJoin(e)
  <2>1. UNCHANGED <<state, draining, sendBuffer, bufferLen, nowpkglen, early,
                    written, sendmsgchan, broken>>
    BY <1>4 DEF EndJoin, shutVars, senderVars, batchVars, netVars
  <2>2. /\ sendPC[e] = "join" /\ sendPC'[e] = "write"
        /\ \A f \in End \ {e} : sendPC'[f] = sendPC[f]
    BY <1>4 DEF EndJoin, TypeOK
  <2>3. BufferInv => BufferInv'
    BY <2>1, <2>2 DEF BufferInv
  <2>4. PlaceInv => PlaceInv'
    BY <2>1, <2>2, MsgAssumption DEF TypeOK, PlaceInv
  <2>5. \A f \in End : sendPC'[f] = "closed" <=> state'[f] = "CLOSED"
    BY <2>1, <2>2 DEF DrainInv
  <2>6. QED
    BY <2>1, <2>3, <2>4, <2>5 DEF DrainInv
<1>5. CASE WriteOne(e)
  <2>1. UNCHANGED <<state, draining, bufferLen, nowpkglen, sendPC, early,
                    sendmsgchan, broken>>
    BY <1>5 DEF WriteOne, shutVars, senderVars
  <2>2. /\ sendPC[e] = "write" /\ sendBuffer[e] # <<>>
        /\ sendBuffer'[e] = Tail(sendBuffer[e])
        /\ written' = written \cup {Head(sendBuffer[e])}
        /\ \A f \in End \ {e} : sendBuffer'[f] = sendBuffer[f]
    BY <1>5 DEF WriteOne, TypeOK
  <2>3. Range(sendBuffer[e]) = Range(sendBuffer'[e]) \cup {Head(sendBuffer[e])}
    BY <2>2, RangeTail DEF TypeOK
  <2>4. BufferInv => BufferInv'
    BY <2>1, <2>2 DEF BufferInv
  <2>5. PlaceInv => PlaceInv'
    BY <2>1, <2>2, <2>3, MsgAssumption DEF TypeOK, PlaceInv
  <2>6. QED
    BY <2>1, <2>4, <2>5 DEF DrainInv
<1>6. ASSUME NEW ran \in 1 .. MaxMsgPackSum, NEW panic \in {FALSE, CallbackMayPanic},
             EndWrite(e, ran, panic) \/ WriteFails(e, ran, panic)
      PROVE  DrainInv'
  <2>1. /\ UNCHANGED <<state, sendBuffer, early, written, sendmsgchan>>
        /\ sendPC[e] = "write" /\ sendPC'[e] = "take"
        /\ \A f \in End \ {e} : sendPC'[f] = sendPC[f]
        /\ \A f \in End : draining'[f] => draining[f]
    <3>1. UNCHANGED <<state, sendBuffer, early, written, sendmsgchan>>
      BY <1>6 DEF EndWrite, WriteFails, shutVars, senderVars
    <3>2. sendPC[e] = "write" /\ sendPC' = [sendPC EXCEPT ![e] = "take"]
      BY <1>6 DEF EndWrite, WriteFails, Callbacks
    <3>3. draining' = [draining EXCEPT ![e] = @ /\ ~panic]
      BY <1>6 DEF EndWrite, WriteFails, Callbacks
    <3>4. \A f \in End : draining'[f] => draining[f]
      BY <3>3 DEF TypeOK
    <3>5. QED
      BY <3>1, <3>2, <3>4 DEF TypeOK
  <2>2. \A f \in End : /\ draining'[f] => state'[f] # "LINKED"
                       /\ sendPC'[f] = "closed" <=> state'[f] = "CLOSED"
    BY <2>1 DEF DrainInv
  <2>3. CASE EndWrite(e, ran, panic)
    <3>1. /\ UNCHANGED broken
          /\ sendBuffer[e] = <<>> /\ bufferLen'[e] = 0 /\ nowpkglen'[e] = 0
          /\ \A f \in End \ {e} : /\ bufferLen'[f] = bufferLen[f]
                                  /\ nowpkglen'[f] = nowpkglen[f]
      BY <2>3 DEF EndWrite, Callbacks, netVars, TypeOK
    <3>2. BufferInv => BufferInv'
      BY <2>1, <3>1 DEF BufferInv
    <3>3. PlaceInv => PlaceInv'
      BY <2>1, MsgAssumption DEF TypeOK, PlaceInv
    <3>4. QED
      BY <2>2, <3>1, <3>2, <3>3 DEF DrainInv
  <2>4. CASE WriteFails(e, ran, panic)
    BY <2>2, <2>4 DEF WriteFails, DrainInv
  <2>5. QED
    BY <1>6, <2>3, <2>4
<1>7. QED
  BY <1>1, <1>2, <1>3, <1>4, <1>5, <1>6 DEF SendThread

LEMMA DrainInvStep ==
    ASSUME AllFit
    PROVE  TypeOK /\ ShutdownInv /\ DrainInv /\ [Next]_vars => DrainInv'
<1> SUFFICES ASSUME TypeOK, ShutdownInv, DrainInv, [Next]_vars
             PROVE  DrainInv'
  OBVIOUS
<1> DEFINE Framed ==
        /\ UNCHANGED <<draining, sendPC, sendBuffer, bufferLen, nowpkglen, early,
                       written, sendmsgchan>>
        /\ broken' \/ ~broken
        /\ \A e \in End : /\ state'[e] = "LINKED" => state[e] = "LINKED"
                          /\ state'[e] = "CLOSED" <=> state[e] = "CLOSED"
<1>1. CASE UNCHANGED vars
  BY <1>1, DrainInvFrame DEF vars, shutVars, senderVars, sendVars, batchVars,
                             netVars
<1>2. ASSUME NEW e \in End, NEW c \in Caller, ShutdownCall(e, c)
      PROVE  DrainInv'
  <2>1. Framed
    BY <1>2 DEF ShutdownCall, ShutdownTest, ShutdownSwap, ShutdownClose, TypeOK,
                senderVars, sendVars, batchVars, netVars
  <2>2. QED
    BY <2>1, DrainInvFrame
<1>3. ASSUME NEW e \in End, RecvThread(e) \/ Handler(e)
      PROVE  DrainInv'
  <2>1. Framed
    BY <1>3 DEF RecvThread, RecvLoop, Read, ReadError, ReadEOF, QueueOne, Handler,
                Handle, HandlerReturns, shutVars, senderVars, sendVars, batchVars,
                netVars
  <2>2. QED
    BY <2>1, DrainInvFrame
<1>4. ASSUME NEW m \in Msg, SendCall(m)
      PROVE  DrainInv'
  <2>1. CASE SendEnqueue(m)
    BY <2>1, DrainInvSend
  <2>2. CASE ~SendEnqueue(m)
    <3>1. Framed
      BY <1>4, <2>2 DEF SendCall, SendTest, SendTestShutdown, SendRefuse, shutVars,
                        sendVars, batchVars, netVars
    <3>2. QED
      BY <3>1, DrainInvFrame
  <2>3. QED
    BY <2>1, <2>2
<1>5. ASSUME NEW kept \in [End -> 0 .. WireSize], NetFails(kept)
      PROVE  DrainInv'
  <2>1. Framed
    BY <1>5 DEF NetFails, shutVars, senderVars, sendVars, batchVars
  <2>2. QED
    BY <2>1, DrainInvFrame
<1>6. QED
  BY <1>1, <1>2, <1>3, <1>4, <1>5, DrainInvSendThread DEF Next

(* When no message is longer than the send buffer and the connection is    *)
(* not lost, the socket is closed only after everything accepted before    *)
(* the shutdown was written (the second loop of asyncSendCmd).             *)
THEOREM DrainCorrect ==
    ASSUME AllFit
    PROVE  Spec => []DrainComplete
<1> DEFINE Inv == TypeOK /\ ShutdownInv /\ DrainInv
<1>1. Init => Inv
  BY TypeInit, ShutdownInvInit, DrainInvInit
<1>2. Inv /\ [Next]_vars => Inv'
  BY TypeStep, ShutdownInvStep, DrainInvStep
<1>3. Inv => DrainComplete
  <2>1. SUFFICES ASSUME Inv, NEW e \in End, state[e] = "CLOSED", ~broken,
                        NEW m \in early, Origin[m] = e
                 PROVE  m \in written
    BY DEF DrainComplete
  <2>2. sendPC[e] = "closed" /\ sendBuffer[e] = <<>>
    BY <2>1 DEF DrainInv, BufferInv
  <2>3. Range(sendBuffer[e]) = {}
    BY <2>2 DEF Range
  <2>4. QED
    BY <2>1, <2>2, <2>3 DEF DrainInv, PlaceInv
<1>4. QED
  BY <1>1, <1>2, <1>3, PTL DEF Spec
-----------------------------------------------------------------------------
(* The refinement of MsgLink: what the inductive invariant adds.  A message *)
(* is accepted once; recvThread has queued all it decoded when it reads; and *)
(* what was accepted begins with what the other end received, followed, as   *)
(* long as the connection holds, by what waits to be written.  Of a          *)
(* connection that was lost, the rest may be anything.                       *)

Received(e) == handled[e] \o (recvmsgchan[e] \o (decoded[e] \o wire[Other(e)]))
Waiting(e) == sendBuffer[Other(e)] \o sendmsgchan[Other(e)]

AcceptInv ==
    \A e \in End : \A i \in DOMAIN accepted[e] : sender[accepted[e][i]] = "accepted"

DecodedInv == \A e \in End : recvPC[e] # "queue" => decoded[e] = <<>>

StreamInv ==
    \A e \in End : \E rest \in Seq(Msg) :
        /\ accepted[Other(e)] = Received(e) \o rest
        /\ ~broken => rest = Waiting(e)

LinkInv == TypeOK /\ ShutdownInv /\ DrainInv /\ AcceptInv /\ DecodedInv /\ StreamInv

LEMMA SameEnd == \A e, f \in End : Other(e) = Other(f) => e = f
BY EndAssumption, OtherEnd DEF Other

(* The first message of a queue becomes the last one of what is before it. *)
LEMMA MoveHead ==
    ASSUME NEW h \in Seq(Msg), NEW r \in Seq(Msg), NEW x \in Seq(Msg), r # <<>>
    PROVE  Append(h, Head(r)) \o (Tail(r) \o x) = h \o (r \o x)
<1>1. /\ Head(r) \in Msg
      /\ Tail(r) \in Seq(Msg)
      /\ <<Head(r)>> \in Seq(Msg)
      /\ Tail(r) \o x \in Seq(Msg)
  BY HeadTailProperties
<1>2. r = <<Head(r)>> \o Tail(r)
  BY <1>1
<1>3. Append(h, Head(r)) = h \o <<Head(r)>>
  BY <1>1, AppendIsConcat
<1>4. (h \o <<Head(r)>>) \o (Tail(r) \o x) = h \o (<<Head(r)>> \o (Tail(r) \o x))
  BY <1>1, ConcatAssociative
<1>5. <<Head(r)>> \o (Tail(r) \o x) = (<<Head(r)>> \o Tail(r)) \o x
  BY <1>1, ConcatAssociative
<1>6. QED
  BY <1>2, <1>3, <1>4, <1>5

(* A message that joins the end of the last queue joins the end of all.    *)
LEMMA AppendBehind ==
    ASSUME NEW h \in Seq(Msg), NEW x \in Seq(Msg), NEW m \in Msg
    PROVE  h \o Append(x, m) = Append(h \o x, m)
<1>1. <<m>> \in Seq(Msg) /\ h \o x \in Seq(Msg)
  BY ConcatProperties
<1>2. Append(x, m) = x \o <<m>> /\ Append(h \o x, m) = (h \o x) \o <<m>>
  BY <1>1, AppendIsConcat
<1>3. (h \o x) \o <<m>> = h \o (x \o <<m>>)
  BY <1>1, ConcatAssociative
<1>4. QED
  BY <1>2, <1>3

(* What follows a prefix begins with the first message behind it.          *)
LEMMA HeadBehind ==
    ASSUME NEW h \in Seq(Msg), NEW r \in Seq(Msg), NEW x \in Seq(Msg), r # <<>>
    PROVE  /\ Len(h) < Len(h \o (r \o x))
           /\ (h \o (r \o x))[Len(h) + 1] = Head(r)
<1>1. r \o x \in Seq(Msg) /\ Len(r \o x) = Len(r) + Len(x) /\ Len(r) > 0
  BY ConcatProperties, EmptySeq
<1>2. (r \o x)[1] = Head(r)
  BY <1>1, ConcatProperties
<1>3. QED
  BY <1>1, <1>2, ConcatProperties
LEMMA JoinSeq ==
    ASSUME NEW s \in Seq(Msg), NEW u \in Seq(Msg), NEW v \in Seq(Msg),
           NEW k \in Nat, NEW l \in Nat, Len(u) = k, Len(v) = l, Len(s) = k + l,
           \A i \in 1 .. k : u[i] = s[i],
           \A i \in 1 .. l : v[i] = s[k + i]
    PROVE  u \o v = s
<1>1. u \o v \in Seq(Msg) /\ Len(u \o v) = Len(s)
  BY ConcatProperties
<1>2. ASSUME NEW i \in 1 .. Len(s)
      PROVE  (u \o v)[i] = s[i]
  <2>1. CASE i <= k
    BY <2>1, ConcatProperties
  <2>2. CASE i > k
    <3>1. i - k \in 1 .. l /\ k + (i - k) = i
      BY <2>2
    <3>2. (u \o v)[i] = v[i - k]
      BY <2>2, ConcatProperties
    <3>3. QED
      BY <3>1, <3>2
  <2>3. QED
    BY <2>1, <2>2
<1>3. QED
  BY <1>1, <1>2, SeqEqual

(* A sequence is cut in two and put together again.                        *)
LEMMA CutSeq ==
    ASSUME NEW s \in Seq(Msg), NEW k \in Nat, k <= Len(s)
    PROVE  /\ SubSeq(s, 1, k) \in Seq(Msg)
           /\ SubSeq(s, k + 1, Len(s)) \in Seq(Msg)
           /\ SubSeq(s, 1, k) \o SubSeq(s, k + 1, Len(s)) = s
<1>1. /\ SubSeq(s, 1, k) \in Seq(Msg)
      /\ Len(SubSeq(s, 1, k)) = k
      /\ \A i \in 1 .. k : SubSeq(s, 1, k)[i] = s[i]
  BY SubSeqProperties
<1>2. PICK l \in Nat : Len(s) = k + l
  <2>1. Len(s) - k \in Nat /\ Len(s) = k + (Len(s) - k)
    OBVIOUS
  <2>2. QED
    BY <2>1
<1>3. /\ SubSeq(s, k + 1, k + l) \in Seq(Msg)
      /\ Len(SubSeq(s, k + 1, k + l)) = l
  BY <1>2, SubSeqProperties
<1>4. ASSUME NEW i \in 1 .. l
      PROVE  SubSeq(s, k + 1, k + l)[i] = s[k + i]
  <2>1. i \in 1 .. (k + l) - (k + 1) + 1 /\ (k + 1) + i - 1 = k + i
    OBVIOUS
  <2>2. QED
    BY <1>2, <2>1, SubSeqProperties
<1>5. SubSeq(s, 1, k) \o SubSeq(s, k + 1, k + l) = s
  BY <1>1, <1>2, <1>3, <1>4, JoinSeq
<1>6. QED
  BY <1>1, <1>2, <1>3, <1>5
-----------------------------------------------------------------------------
(* The invariants of the refinement hold initially.                        *)

LEMMA Assoc ==
    ASSUME NEW x \in Seq(Msg), NEW y \in Seq(Msg), NEW z \in Seq(Msg)
    PROVE  x \o (y \o z) = (x \o y) \o z
BY ConcatAssociative

LEMMA IndexInFront ==
    ASSUME NEW x \in Seq(Msg), NEW y \in Seq(Msg), NEW i \in Nat, i < Len(x)
    PROVE  i < Len(x \o y) /\ (x \o y)[i + 1] = x[i + 1]
BY ConcatProperties

LEMMA TailOne ==
    ASSUME NEW s \in Seq(Msg), Len(s) = 1
    PROVE  Tail(s) = <<>>
<1>1. Tail(s) \in Seq(Msg) /\ Len(Tail(s)) = 0
  BY HeadTailProperties
<1>2. QED
  BY <1>1, EmptySeq

LEMMA LinkInvInit == Init => AcceptInv /\ DecodedInv /\ StreamInv
<1> SUFFICES ASSUME Init PROVE AcceptInv /\ DecodedInv /\ StreamInv
  OBVIOUS
<1>1. AcceptInv /\ DecodedInv
  BY DEF Init, AcceptInv, DecodedInv
<1>2. <<>> \o <<>> = <<>> /\ <<>> \in Seq(Msg)
  OBVIOUS
<1>3. ASSUME NEW e \in End
      PROVE  /\ accepted[Other(e)] = Received(e) \o <<>>
             /\ Waiting(e) = <<>>
  BY <1>2, OtherEnd DEF Init, Received, Waiting
<1>4. QED
  BY <1>1, <1>2, <1>3 DEF StreamInv

LEMMA AcceptStep == TypeOK /\ AcceptInv /\ [Next]_vars => AcceptInv'
<1> SUFFICES ASSUME TypeOK, AcceptInv, [Next]_vars PROVE AcceptInv'
  OBVIOUS
<1>1. CASE UNCHANGED <<sender, accepted>>
  BY <1>1 DEF AcceptInv
<1>2. ASSUME NEW e \in End,
             \/ \E c \in Caller : ShutdownCall(e, c)
             \/ SendThread(e) \/ RecvThread(e) \/ Handler(e)
      PROVE  UNCHANGED senderVars
  <2>1. CASE SendThread(e)
    BY <2>1 DEF SendThread, TakeFirst, StartDrain, EndDrain, JoinMore, EndJoin,
                WriteOne, EndWrite, WriteFails
  <2>2. CASE RecvThread(e) \/ Handler(e)
    BY <2>2 DEF RecvThread, RecvLoop, Read, ReadError, ReadEOF, QueueOne, Handler,
                Handle, HandlerReturns
  <2>3. QED
    BY <1>2, <2>1, <2>2 DEF ShutdownCall, ShutdownTest, ShutdownSwap, ShutdownClose
<1>3. ASSUME NEW kept \in [End -> 0 .. WireSize], NetFails(kept)
      PROVE  UNCHANGED senderVars
  BY <1>3 DEF NetFails
<1>4. ASSUME NEW m \in Msg, SendTest(m) \/ SendTestShutdown(m) \/ SendRefuse(m)
      PROVE  AcceptInv'
  <2>1. /\ sender[m] # "accepted"
        /\ \A n \in Msg \ {m} : sender'[n] = sender[n]
        /\ UNCHANGED accepted
    BY <1>4 DEF TypeOK, SendTest, SendTestShutdown, SendRefuse
  <2>2. ASSUME NEW e \in End, NEW i \in DOMAIN accepted[e]
        PROVE  accepted[e][i] \in Msg \ {m} /\ sender[accepted[e][i]] = "accepted"
    BY <2>1 DEF TypeOK, AcceptInv
  <2>3. QED
    BY <2>1, <2>2 DEF AcceptInv
<1>5. ASSUME NEW m \in Msg, SendEnqueue(m)
      PROVE  AcceptInv'
  <2>1. SUFFICES ASSUME NEW e \in End, NEW i \in DOMAIN accepted'[e]
                 PROVE  sender'[accepted'[e][i]] = "accepted"
    BY DEF AcceptInv
  <2>2. accepted'[e] = IF e = Origin[m] THEN Append(accepted[e], m) ELSE accepted[e]
    BY <1>5 DEF TypeOK, SendEnqueue
  <2>3. accepted[e] \in Seq(Msg)
    BY DEF TypeOK
  <2>4. \/ accepted'[e][i] = m
        \/ i \in DOMAIN accepted[e] /\ accepted'[e][i] = accepted[e][i]
    <3>1. CASE e # Origin[m]
      BY <2>2, <3>1
    <3>2. CASE e = Origin[m]
      <4>1. i \in 1 .. Len(accepted[e]) + 1
        BY <2>2, <2>3, <3>2
      <4>2. QED
        BY <2>2, <2>3, <3>2, <4>1
    <3>3. QED
      BY <3>1, <3>2
  <2>5. accepted'[e][i] \in Msg
    BY <2>2, <2>3
  <2>6. accepted'[e][i] = m \/ sender[accepted'[e][i]] = "accepted"
    BY <2>4 DEF AcceptInv
  <2>7. QED
    BY <1>5, <2>5, <2>6 DEF TypeOK, SendEnqueue
<1>6. ASSUME NEW m \in Msg, SendCall(m) PROVE AcceptInv'
  BY <1>4, <1>5, <1>6 DEF SendCall
<1>7. CASE UNCHANGED vars
  BY <1>1, <1>7 DEF vars, senderVars
<1>8. QED
  BY <1>1, <1>2, <1>3, <1>6, <1>7 DEF Next, senderVars

LEMMA DecodedStep == TypeOK /\ DecodedInv /\ [Next]_vars => DecodedInv'
<1> SUFFICES ASSUME TypeOK, DecodedInv, [Next]_vars PROVE DecodedInv'
  OBVIOUS
<1>1. CASE UNCHANGED recvVars
  BY <1>1 DEF DecodedInv, recvVars
<1>2. ASSUME NEW e \in End, RecvThread(e)
      PROVE  DecodedInv'
  <2>1. CASE RecvLoop(e) \/ ReadError(e) \/ ReadEOF(e)
    <3>1. UNCHANGED decoded /\ recvPC[e] # "queue"
      BY <2>1 DEF RecvLoop, ReadError, ReadEOF
    <3>2. \A f \in End \ {e} : recvPC'[f] = recvPC[f]
      BY <2>1 DEF TypeOK, RecvLoop, ReadError, ReadEOF
    <3>3. QED
      BY <3>1, <3>2 DEF DecodedInv
  <2>2. ASSUME NEW k \in 1 .. WireSize, Read(e, k) PROVE DecodedInv'
    BY <2>2 DEF TypeOK, Read, DecodedInv
  <2>3. CASE QueueOne(e)
    <3>1. /\ recvPC'[e] = IF Len(decoded[e]) = 1 THEN "loop" ELSE "queue"
          /\ decoded'[e] = Tail(decoded[e])
          /\ \A f \in End \ {e} : recvPC'[f] = recvPC[f] /\ decoded'[f] = decoded[f]
      BY <2>3 DEF TypeOK, QueueOne
    <3>2. Len(decoded[e]) = 1 => Tail(decoded[e]) = <<>>
      BY TailOne DEF TypeOK
    <3>3. QED
      BY <3>1, <3>2 DEF DecodedInv
  <2>4. QED
    BY <1>2, <2>1, <2>2, <2>3 DEF RecvThread
<1>3. ASSUME NEW e \in End,
             \/ \E c \in Caller : ShutdownCall(e, c)
             \/ SendThread(e) \/ Handler(e)
      PROVE  UNCHANGED <<decoded, recvPC>>
  <2>1. CASE SendThread(e)
    BY <2>1 DEF SendThread, TakeFirst, StartDrain, EndDrain, JoinMore, EndJoin,
                WriteOne, EndWrite, WriteFails, recvVars
  <2>2. QED
    BY <1>3, <2>1 DEF Handler, Handle, HandlerReturns, ShutdownCall, ShutdownTest,
                      ShutdownSwap, ShutdownClose, recvVars
<1>4. UNCHANGED <<decoded, recvPC>> => DecodedInv'
  BY DEF DecodedInv
<1>5. ASSUME NEW kept \in [End -> 0 .. WireSize], NetFails(kept)
      PROVE  UNCHANGED <<decoded, recvPC>>
  BY <1>5 DEF NetFails, recvVars
<1>6. ASSUME NEW m \in Msg, SendCall(m)
      PROVE  UNCHANGED <<decoded, recvPC>>
  BY <1>6 DEF SendCall, SendTest, SendTestShutdown, SendRefuse, SendEnqueue, recvVars
<1>7. CASE UNCHANGED vars
  BY <1>1, <1>7 DEF vars
<1>8. QED
  BY <1>2, <1>3, <1>4, <1>5, <1>6, <1>7 DEF Next
-----------------------------------------------------------------------------
(* The streams.                                                            *)

LEMMA StreamType ==
    ASSUME TypeOK, NEW e \in End
    PROVE  /\ Other(e) \in End
           /\ accepted[Other(e)] \in Seq(Msg)
           /\ handled[e] \in Seq(Msg)
           /\ recvmsgchan[e] \in Seq(Msg)
           /\ decoded[e] \in Seq(Msg)
           /\ wire[Other(e)] \in Seq(Msg)
           /\ sendBuffer[Other(e)] \in Seq(Msg)
           /\ sendmsgchan[Other(e)] \in Seq(Msg)
           /\ decoded[e] \o wire[Other(e)] \in Seq(Msg)
           /\ recvmsgchan[e] \o (decoded[e] \o wire[Other(e)]) \in Seq(Msg)
           /\ Received(e) \in Seq(Msg)
           /\ Waiting(e) \in Seq(Msg)
BY OtherEnd, ConcatProperties DEF TypeOK, Received, Waiting

(* The steps that leave the streams as they are, or lose the connection. *)
LEMMA StreamFrame ==
    ASSUME StreamInv, UNCHANGED accepted,
           \A e \in End : Received(e)' = Received(e),
           broken' \/ (~broken /\ \A e \in End : Waiting(e)' = Waiting(e))
    PROVE  StreamInv'
<1>1. SUFFICES ASSUME NEW e \in End
               PROVE  \E rest \in Seq(Msg) :
                        /\ accepted'[Other(e)] = Received(e)' \o rest
                        /\ ~broken' => rest = Waiting(e)'
  BY DEF StreamInv
<1>2. PICK rest \in Seq(Msg) : /\ accepted[Other(e)] = Received(e) \o rest
                               /\ ~broken => rest = Waiting(e)
  BY DEF StreamInv
<1>3. QED
  BY <1>2

LEMMA StreamSame ==
    ASSUME StreamInv,
           UNCHANGED <<accepted, handled, recvmsgchan, decoded, wire, sendBuffer,
                       sendmsgchan>>,
           broken' \/ ~broken
    PROVE  StreamInv'
<1>1. \A e \in End : Received(e)' = Received(e) /\ Waiting(e)' = Waiting(e)
  BY DEF Received, Waiting
<1>2. QED
  BY <1>1, StreamFrame

LEMMA StreamEnqueue ==
    ASSUME TypeOK, StreamInv, NEW m \in Msg, SendEnqueue(m)
    PROVE  StreamInv'
<1>1. /\ Origin[m] \in End
      /\ sendmsgchan' = [sendmsgchan EXCEPT ![Origin[m]] = Append(@, m)]
      /\ accepted' = [accepted EXCEPT ![Origin[m]] = Append(@, m)]
      /\ UNCHANGED <<handled, recvmsgchan, decoded, wire, sendBuffer, broken>>
  BY MsgAssumption
    DEF SendEnqueue, sendVars, batchVars, netVars, recvVars, handlerVars
<1>2. SUFFICES ASSUME NEW e \in End
               PROVE  \E rest \in Seq(Msg) :
                        /\ accepted'[Other(e)] = Received(e)' \o rest
                        /\ ~broken' => rest = Waiting(e)'
  BY DEF StreamInv
<1>3. Received(e)' = Received(e)
  BY <1>1 DEF Received
<1>4. PICK rest \in Seq(Msg) : /\ accepted[Other(e)] = Received(e) \o rest
                               /\ ~broken => rest = Waiting(e)
  BY DEF StreamInv
<1>5. CASE Other(e) # Origin[m]
  <2>1. accepted'[Other(e)] = accepted[Other(e)] /\ Waiting(e)' = Waiting(e)
    BY <1>1, <1>5, StreamType DEF TypeOK, Waiting
  <2>2. QED
    BY <1>1, <1>3, <1>4, <2>1
<1>6. CASE Other(e) = Origin[m]
  <2>1. /\ accepted'[Other(e)] = Append(accepted[Other(e)], m)
        /\ sendmsgchan'[Other(e)] = Append(sendmsgchan[Other(e)], m)
    BY <1>1, <1>6 DEF TypeOK
  <2>2. /\ Received(e) \in Seq(Msg)
        /\ sendBuffer[Other(e)] \in Seq(Msg)
        /\ sendmsgchan[Other(e)] \in Seq(Msg)
    BY StreamType
  <2>3. /\ Append(rest, m) \in Seq(Msg)
        /\ Received(e) \o Append(rest, m) = Append(Received(e) \o rest, m)
    BY <2>2, AppendBehind
  <2>4. sendBuffer[Other(e)] \o Append(sendmsgchan[Other(e)], m)
            = Append(sendBuffer[Other(e)] \o sendmsgchan[Other(e)], m)
    BY <2>2, AppendBehind
  <2>5. Waiting(e)' = Append(Waiting(e), m)
    BY <1>1, <2>1, <2>4 DEF Waiting
  <2>6. QED
    BY <1>1, <1>3, <1>4, <2>1, <2>3, <2>5
<1>7. QED
  BY <1>5, <1>6

(* Joining moves the head of the channel to the end of the buffer. *)
LEMMA StreamJoin ==
    ASSUME TypeOK, DrainInv, StreamInv, AllFit, NEW e \in End,
           TakeFirst(e) \/ JoinMore(e)
    PROVE  StreamInv'
<1> DEFINE m == Head(sendmsgchan[e])
<1>1. /\ Join(e, m)
      /\ sendmsgchan[e] # <<>>
      /\ UNCHANGED <<accepted, handled, recvmsgchan, decoded, wire, broken>>
  BY DEF TakeFirst, JoinMore, MayJoinMore, senderVars, netVars, recvVars, handlerVars
<1>2. \A f \in End : Received(f)' = Received(f)
  BY <1>1 DEF Received
<1>3. ASSUME ~broken, NEW f \in End
      PROVE  Waiting(f)' = Waiting(f)
  <2>1. Fits(e, m)
    BY <1>3, FitsWhole DEF DrainInv
  <2>2. /\ sendBuffer' = [sendBuffer EXCEPT ![e] = Append(@, m)]
        /\ sendmsgchan' = [sendmsgchan EXCEPT ![e] = Tail(@)]
    BY <1>1, <2>1 DEF Join
  <2>3. CASE Other(f) # e
    BY <2>2, <2>3, StreamType DEF TypeOK, Waiting
  <2>4. CASE Other(f) = e
    <3>1. /\ sendBuffer'[e] = Append(sendBuffer[e], m)
          /\ sendmsgchan'[e] = Tail(sendmsgchan[e])
          /\ sendBuffer[e] \in Seq(Msg)
          /\ sendmsgchan[e] \in Seq(Msg)
          /\ Tail(sendmsgchan[e]) \in Seq(Msg)
          /\ <<>> \in Seq(Msg)
      BY <1>1, <2>2 DEF TypeOK
    <3>2. Append(sendBuffer[e], m) \o (Tail(sendmsgchan[e]) \o <<>>)
              = sendBuffer[e] \o (sendmsgchan[e] \o <<>>)
      BY <1>1, <3>1, MoveHead
    <3>3. /\ Tail(sendmsgchan[e]) \o <<>> = Tail(sendmsgchan[e])
          /\ sendmsgchan[e] \o <<>> = sendmsgchan[e]
      BY <3>1, ConcatEmptySeq
    <3>4. QED
      BY <2>4, <3>1, <3>2, <3>3 DEF Waiting
  <2>5. QED
    BY <2>3, <2>4
<1>4. broken' \/ (~broken /\ \A f \in End : Waiting(f)' = Waiting(f))
  BY <1>1, <1>3, Zenon
<1>5. QED
  BY <1>1, <1>2, <1>4, StreamFrame, Zenon

(* The kernel takes a message: what the other end received gets longer.    *)
LEMMA StreamWrite ==
    ASSUME TypeOK, StreamInv, NEW f \in End, WriteOne(f)
    PROVE  StreamInv'
<1> DEFINE m == Head(sendBuffer[f])
<1>1. /\ ~broken
      /\ sendBuffer[f] # <<>>
      /\ wire' = [wire EXCEPT ![f] = Append(@, m)]
      /\ sendBuffer' = [sendBuffer EXCEPT ![f] = Tail(@)]
      /\ UNCHANGED <<accepted, handled, recvmsgchan, decoded, sendmsgchan, broken>>
  BY DEF WriteOne, senderVars, recvVars, handlerVars
<1>2. m \in Msg /\ Tail(sendBuffer[f]) \in Seq(Msg)
  BY <1>1, RangeTail DEF TypeOK
<1> HIDE DEF m
<1>3. SUFFICES ASSUME NEW e \in End
               PROVE  accepted'[Other(e)] = Received(e)' \o Waiting(e)'
                      /\ Waiting(e)' \in Seq(Msg)
  BY DEF StreamInv
<1>4. accepted[Other(e)] = Received(e) \o Waiting(e)
  BY <1>1 DEF StreamInv
<1>5. CASE Other(e) # f
  <2>1. Received(e)' = Received(e) /\ Waiting(e)' = Waiting(e)
    BY <1>1, <1>5, StreamType DEF TypeOK, Received, Waiting
  <2>2. QED
    BY <1>1, <1>4, <2>1, StreamType
<1>6. CASE Other(e) = f
  <2>1. wire'[f] = Append(wire[f], m) /\ sendBuffer'[f] = Tail(sendBuffer[f])
    BY <1>1 DEF TypeOK
  <2>2. Received(e)' = Append(Received(e), m)
    <3>0. /\ handled[e] \in Seq(Msg)
          /\ recvmsgchan[e] \in Seq(Msg)
          /\ decoded[e] \in Seq(Msg)
          /\ wire[f] \in Seq(Msg)
          /\ decoded[e] \o wire[f] \in Seq(Msg)
          /\ recvmsgchan[e] \o (decoded[e] \o wire[f]) \in Seq(Msg)
      BY <1>6, StreamType
    <3>1. decoded[e] \o Append(wire[f], m) = Append(decoded[e] \o wire[f], m)
      BY <1>2, <3>0, AppendBehind
    <3>2. recvmsgchan[e] \o Append(decoded[e] \o wire[f], m)
              = Append(recvmsgchan[e] \o (decoded[e] \o wire[f]), m)
      BY <1>2, <3>0, AppendBehind
    <3>3. handled[e] \o Append(recvmsgchan[e] \o (decoded[e] \o wire[f]), m)
              = Append(Received(e), m)
      BY <1>2, <1>6, <3>0, AppendBehind DEF Received
    <3>4. QED
      BY <1>1, <1>6, <2>1, <3>1, <3>2, <3>3 DEF Received
  <2>3. Waiting(e)' = Tail(sendBuffer[f]) \o sendmsgchan[f]
    BY <1>1, <1>6, <2>1 DEF Waiting
  <2>4. Append(Received(e), m) \o (Tail(sendBuffer[f]) \o sendmsgchan[f])
            = Received(e) \o (sendBuffer[f] \o sendmsgchan[f])
    <3>1. /\ Received(e) \in Seq(Msg)
          /\ sendBuffer[f] \in Seq(Msg)
          /\ sendmsgchan[f] \in Seq(Msg)
      BY <1>6, StreamType
    <3>2. QED
      BY <1>1, <3>1, MoveHead DEF m
  <2>5. Waiting(e)' \in Seq(Msg)
    BY <1>2, <1>6, <2>3, StreamType, ConcatProperties
  <2>6. QED
    BY <1>1, <1>4, <1>6, <2>2, <2>3, <2>4, <2>5 DEF Waiting
<1>7. QED
  BY <1>5, <1>6

(* The reader cuts off what it read, and has all of it. *)
LEMMA StreamRead ==
    ASSUME TypeOK, DecodedInv, StreamInv, NEW e \in End, NEW k \in 1 .. WireSize,
           Read(e, k)
    PROVE  StreamInv'
<1> DEFINE w == wire[Other(e)]
<1>1. /\ k \in 1 .. Len(w)
      /\ decoded[e] = <<>>
      /\ decoded' = [decoded EXCEPT ![e] = SubSeq(w, 1, k)]
      /\ wire' = [wire EXCEPT ![Other(e)] = SubSeq(@, k + 1, Len(@))]
      /\ UNCHANGED <<accepted, handled, recvmsgchan, sendBuffer, sendmsgchan, broken>>
  BY DEF Read, DecodedInv, senderVars, sendVars, batchVars, handlerVars
<1>2. w \in Seq(Msg) /\ Other(e) \in End
  BY StreamType
<1>3. SubSeq(w, 1, k) \o SubSeq(w, k + 1, Len(w)) = w
  BY <1>1, <1>2, CutSeq
<1>4. <<>> \o w = w
  BY <1>2, ConcatEmptySeq
<1>5. ASSUME NEW f \in End
      PROVE  Received(f)' = Received(f)
  <2>1. CASE f = e
    <3>1. decoded'[e] \o wire'[Other(e)] = decoded[e] \o w
      BY <1>1, <1>2, <1>3, <1>4 DEF TypeOK
    <3>2. QED
      BY <1>1, <2>1, <3>1 DEF Received
  <2>2. CASE f # e
    BY <1>1, <2>2, SameEnd, StreamType DEF TypeOK, Received
  <2>3. QED
    BY <2>1, <2>2
<1>6. \A f \in End : Waiting(f)' = Waiting(f)
  BY <1>1 DEF Waiting
<1>7. QED
  BY <1>1, <1>5, <1>6, StreamFrame

LEMMA StreamQueue ==
    ASSUME TypeOK, StreamInv, NEW e \in End, QueueOne(e)
    PROVE  StreamInv'
<1>1. /\ decoded[e] # <<>>
      /\ recvmsgchan' = [recvmsgchan EXCEPT ![e] = Append(@, Head(decoded[e]))]
      /\ decoded' = [decoded EXCEPT ![e] = Tail(@)]
      /\ UNCHANGED <<accepted, handled, wire, sendBuffer, sendmsgchan, broken>>
  BY DEF QueueOne, senderVars, sendVars, batchVars, netVars, handlerVars
<1>2. ASSUME NEW f \in End
      PROVE  Received(f)' = Received(f)
  <2>1. CASE f # e
    BY <1>1, <2>1 DEF TypeOK, Received
  <2>2. CASE f = e
    <3>1. /\ recvmsgchan[e] \in Seq(Msg)
          /\ decoded[e] \in Seq(Msg)
          /\ wire[Other(e)] \in Seq(Msg)
      BY StreamType
    <3>2. /\ recvmsgchan'[e] = Append(recvmsgchan[e], Head(decoded[e]))
          /\ decoded'[e] = Tail(decoded[e])
      BY <1>1 DEF TypeOK
    <3>3. Append(recvmsgchan[e], Head(decoded[e]))
              \o (Tail(decoded[e]) \o wire[Other(e)])
            = recvmsgchan[e] \o (decoded[e] \o wire[Other(e)])
      BY <1>1, <3>1, MoveHead
    <3>4. QED
      BY <1>1, <2>2, <3>2, <3>3 DEF Received
  <2>3. QED
    BY <2>1, <2>2
<1>3. \A f \in End : Waiting(f)' = Waiting(f)
  BY <1>1 DEF Waiting
<1>4. QED
  BY <1>1, <1>2, <1>3, StreamFrame

LEMMA StreamHandle ==
    ASSUME TypeOK, StreamInv, NEW e \in End, Handle(e)
    PROVE  StreamInv'
<1>1. /\ recvmsgchan[e] # <<>>
      /\ handled' = [handled EXCEPT ![e] = Append(@, Head(recvmsgchan[e]))]
      /\ recvmsgchan' = [recvmsgchan EXCEPT ![e] = Tail(@)]
      /\ UNCHANGED <<accepted, decoded, wire, sendBuffer, sendmsgchan, broken>>
  BY DEF Handle, senderVars, sendVars, batchVars, netVars
<1>2. ASSUME NEW f \in End
      PROVE  Received(f)' = Received(f)
  <2>1. CASE f # e
    BY <1>1, <2>1 DEF TypeOK, Received
  <2>2. CASE f = e
    <3>1. /\ handled[e] \in Seq(Msg)
          /\ recvmsgchan[e] \in Seq(Msg)
          /\ decoded[e] \o wire[Other(e)] \in Seq(Msg)
      BY StreamType
    <3>2. /\ handled'[e] = Append(handled[e], Head(recvmsgchan[e]))
          /\ recvmsgchan'[e] = Tail(recvmsgchan[e])
      BY <1>1 DEF TypeOK
    <3>3. Append(handled[e], Head(recvmsgchan[e]))
              \o (Tail(recvmsgchan[e]) \o (decoded[e] \o wire[Other(e)]))
            = handled[e] \o (recvmsgchan[e] \o (decoded[e] \o wire[Other(e)]))
      BY <1>1, <3>1, MoveHead
    <3>4. QED
      BY <1>1, <2>2, <3>2, <3>3 DEF Received
  <2>3. QED
    BY <2>1, <2>2
<1>3. \A f \in End : Waiting(f)' = Waiting(f)
  BY <1>1 DEF Waiting
<1>4. QED
  BY <1>1, <1>2, <1>3, StreamFrame

(* What the network loses is behind what the other end received. *)
LEMMA StreamNet ==
    ASSUME TypeOK, StreamInv, NEW kept \in [End -> 0 .. WireSize], NetFails(kept)
    PROVE  StreamInv'
<1>1. /\ \A e \in End : kept[e] <= Len(wire[e])
      /\ broken'
      /\ wire' = [e \in End |-> SubSeq(wire[e], 1, kept[e])]
      /\ UNCHANGED <<accepted, handled, recvmsgchan, decoded>>
  BY DEF NetFails, senderVars, recvVars, handlerVars
<1>2. SUFFICES ASSUME NEW e \in End
               PROVE  \E rest \in Seq(Msg) : accepted'[Other(e)] = Received(e)' \o rest
  BY <1>1 DEF StreamInv
<1> DEFINE f == Other(e)
           k == kept[f]
<1>3. /\ f \in End
      /\ k \in Nat
      /\ k <= Len(wire[f])
      /\ wire[f] \in Seq(Msg)
      /\ handled[e] \in Seq(Msg)
      /\ recvmsgchan[e] \in Seq(Msg)
      /\ decoded[e] \in Seq(Msg)
  BY <1>1, StreamType
<1>4. PICK u \in Seq(Msg), v \in Seq(Msg) :
          SubSeq(wire[f], 1, k) = u /\ wire[f] = u \o v
  BY <1>3, CutSeq
<1>5. wire'[f] = u
  BY <1>1, <1>3, <1>4
<1>6. PICK rest \in Seq(Msg) : accepted[f] = Received(e) \o rest
  BY DEF StreamInv
<1>7. Received(e) = Received(e)' \o v /\ Received(e)' \in Seq(Msg)
  <2>1. Received(e) = handled[e] \o (recvmsgchan[e] \o (decoded[e] \o (u \o v)))
    BY <1>4 DEF Received
  <2>2. Received(e)' = handled[e] \o (recvmsgchan[e] \o (decoded[e] \o u))
    BY <1>1, <1>5 DEF Received
  <2>3. /\ u \in Seq(Msg) /\ v \in Seq(Msg)
        /\ decoded[e] \o u \in Seq(Msg)
        /\ recvmsgchan[e] \o (decoded[e] \o u) \in Seq(Msg)
        /\ Received(e)' \in Seq(Msg)
    BY <1>3, <1>4, <2>2, ConcatProperties
  <2>4. ASSUME NEW s, s \in {handled[e], recvmsgchan[e], decoded[e]},
               NEW t \in Seq(Msg)
        PROVE  s \o (t \o v) = (s \o t) \o v
    <3>1. s \in Seq(Msg)
      BY <1>3, <2>4
    <3>2. QED
      BY <2>3, <3>1, Assoc
  <2>5. decoded[e] \o (u \o v) = (decoded[e] \o u) \o v
    BY <2>3, <2>4
  <2>6. recvmsgchan[e] \o ((decoded[e] \o u) \o v)
            = (recvmsgchan[e] \o (decoded[e] \o u)) \o v
    BY <2>3, <2>4
  <2>7. handled[e] \o ((recvmsgchan[e] \o (decoded[e] \o u)) \o v)
            = (handled[e] \o (recvmsgchan[e] \o (decoded[e] \o u))) \o v
    BY <2>3, <2>4
  <2>8. QED
    BY <2>1, <2>2, <2>3, <2>5, <2>6, <2>7
<1>8. /\ v \o rest \in Seq(Msg)
      /\ (Received(e)' \o v) \o rest = Received(e)' \o (v \o rest)
  BY <1>7, ConcatProperties, Assoc
<1>9. QED
  BY <1>1, <1>6, <1>7, <1>8

LEMMA StreamStep ==
    ASSUME AllFit
    PROVE  TypeOK /\ DrainInv /\ DecodedInv /\ StreamInv /\ [Next]_vars => StreamInv'
<1> SUFFICES ASSUME TypeOK, DrainInv, DecodedInv, StreamInv, [Next]_vars
             PROVE  StreamInv'
  OBVIOUS
<1> DEFINE Same ==
        /\ UNCHANGED <<accepted, handled, recvmsgchan, decoded, wire, sendBuffer,
                       sendmsgchan>>
        /\ broken' \/ ~broken
<1>1. CASE UNCHANGED vars
  BY <1>1, StreamSame
    DEF vars, senderVars, sendVars, batchVars, netVars, recvVars, handlerVars
<1>2. ASSUME NEW e \in End, NEW c \in Caller, ShutdownCall(e, c)
      PROVE  StreamInv'
  <2>1. Same
    BY <1>2 DEF ShutdownCall, ShutdownTest, ShutdownSwap, ShutdownClose, senderVars,
                sendVars, batchVars, netVars, recvVars, handlerVars
  <2>2. QED
    BY <2>1, StreamSame
<1>3. ASSUME NEW e \in End, SendThread(e)
      PROVE  StreamInv'
  <2>1. CASE StartDrain(e) \/ EndDrain(e) \/ EndJoin(e)
    <3>1. Same
      BY <2>1 DEF StartDrain, EndDrain, EndJoin, senderVars, batchVars, netVars,
                  recvVars, handlerVars
    <3>2. QED
      BY <3>1, StreamSame
  <2>2. ASSUME NEW ran \in 1 .. MaxMsgPackSum, NEW panic \in {FALSE, CallbackMayPanic},
               EndWrite(e, ran, panic) \/ WriteFails(e, ran, panic)
        PROVE  StreamInv'
    <3>1. Same
      BY <2>2 DEF EndWrite, WriteFails, senderVars, netVars, recvVars, handlerVars
    <3>2. QED
      BY <3>1, StreamSame
  <2>3. QED
    BY <1>3, <2>1, <2>2, StreamJoin, StreamWrite DEF SendThread
<1>4. ASSUME NEW e \in End, RecvThread(e) \/ Handler(e)
      PROVE  StreamInv'
  <2>1. CASE RecvLoop(e) \/ ReadError(e) \/ ReadEOF(e) \/ HandlerReturns(e)
    <3>1. Same
      BY <2>1 DEF RecvLoop, ReadError, ReadEOF, HandlerReturns, senderVars, sendVars,
                  batchVars, netVars, recvVars, handlerVars
    <3>2. QED
      BY <3>1, StreamSame
  <2>2. QED
    BY <1>4, <2>1, StreamRead, StreamQueue, StreamHandle DEF RecvThread, Handler
<1>5. ASSUME NEW m \in Msg, SendCall(m)
      PROVE  StreamInv'
  <2>1. CASE SendTest(m) \/ SendTestShutdown(m) \/ SendRefuse(m)
    <3>1. Same
      BY <2>1 DEF SendTest, SendTestShutdown, SendRefuse, sendVars, batchVars,
                  netVars, recvVars, handlerVars
    <3>2. QED
      BY <3>1, StreamSame
  <2>2. QED
    BY <1>5, <2>1, StreamEnqueue DEF SendCall
<1>6. QED
  BY <1>1, <1>2, <1>3, <1>4, <1>5, StreamNet DEF Next
-----------------------------------------------------------------------------
(* The refinement: a send that enters the channel is an Accept, the handler *)
(* that gets a message is a Handle, every other step is a stutter.          *)

LEMMA LinkAccept ==
    ASSUME TypeOK, AcceptInv, NEW m \in Msg, SendEnqueue(m)
    PROVE  Link!Accept(m)
<1>1. Origin[m] \in End
  BY MsgAssumption
<1>2. \A i \in DOMAIN accepted[Origin[m]] : accepted[Origin[m]][i] # m
  BY <1>1 DEF AcceptInv, SendEnqueue
<1>3. QED
  BY <1>2 DEF SendEnqueue, handlerVars, Link!Accept

LEMMA LinkHandle ==
    ASSUME TypeOK, StreamInv, NEW e \in End, Handle(e)
    PROVE  Link!Handle(e)
<1>1. /\ recvmsgchan[e] # <<>>
      /\ handled' = [handled EXCEPT ![e] = Append(@, Head(recvmsgchan[e]))]
      /\ UNCHANGED accepted
  BY DEF Handle, senderVars
<1>2. PICK rest \in Seq(Msg) : accepted[Other(e)] = Received(e) \o rest
  BY DEF StreamInv
<1> DEFINE behind == decoded[e] \o wire[Other(e)]
<1>3. /\ handled[e] \in Seq(Msg)
      /\ recvmsgchan[e] \in Seq(Msg)
      /\ behind \in Seq(Msg)
      /\ Received(e) = handled[e] \o (recvmsgchan[e] \o behind)
  BY StreamType DEF Received
<1> HIDE DEF behind
<1>4. /\ recvmsgchan[e] \o behind \in Seq(Msg)
      /\ Received(e) \in Seq(Msg)
  BY <1>3, ConcatProperties
<1>5. /\ Len(handled[e]) < Len(Received(e))
      /\ Received(e)[Len(handled[e]) + 1] = Head(recvmsgchan[e])
  <2>1. LET s == handled[e] \o (recvmsgchan[e] \o behind) IN
        Len(handled[e]) < Len(s) /\ s[Len(handled[e]) + 1] = Head(recvmsgchan[e])
    BY <1>1, <1>3, HeadBehind
  <2>2. QED
    BY <1>3, <2>1
<1>6. /\ Len(handled[e]) < Len(accepted[Other(e)])
      /\ accepted[Other(e)][Len(handled[e]) + 1] = Received(e)[Len(handled[e]) + 1]
  <2>1. PICK i \in Nat : i = Len(handled[e])
    BY <1>3
  <2>2. i < Len(Received(e))
    BY <1>5, <2>1
  <2>3. i < Len(Received(e) \o rest) /\ (Received(e) \o rest)[i + 1] = Received(e)[i + 1]
    BY <1>2, <1>4, <2>2, IndexInFront
  <2>4. QED
    BY <1>2, <2>1, <2>3
<1>7. Link!Other(e) = Other(e)
  BY DEF Other, Link!Other
<1>8. QED
  BY <1>1, <1>5, <1>6, <1>7 DEF TypeOK, Link!Handle

LEMMA LinkStep ==
    ASSUME TypeOK, AcceptInv, StreamInv, [Next]_vars
    PROVE  [Link!Next]_(Link!vars)
<1> DEFINE Stutter == UNCHANGED <<accepted, handled>>
<1>1. CASE UNCHANGED vars
  BY <1>1 DEF vars, senderVars, handlerVars, Link!vars
<1>2. ASSUME NEW e \in End, NEW c \in Caller, ShutdownCall(e, c)
      PROVE  Stutter
  BY <1>2 DEF ShutdownCall, ShutdownTest, ShutdownSwap, ShutdownClose, senderVars,
              handlerVars
<1>3. ASSUME NEW e \in End, SendThread(e)
      PROVE  Stutter
  BY <1>3 DEF SendThread, TakeFirst, StartDrain, EndDrain, JoinMore, EndJoin,
              WriteOne, EndWrite, WriteFails, senderVars, handlerVars
<1>4. ASSUME NEW e \in End, RecvThread(e) \/ HandlerReturns(e)
      PROVE  Stutter
  BY <1>4 DEF RecvThread, RecvLoop, Read, ReadError, ReadEOF, QueueOne,
              HandlerReturns, senderVars, handlerVars
<1>5. ASSUME NEW e \in End, Handler(e)
      PROVE  Link!Next \/ Stutter
  BY <1>4, <1>5, LinkHandle DEF Handler, Link!Next
<1>6. ASSUME NEW m \in Msg, SendTest(m) \/ SendTestShutdown(m) \/ SendRefuse(m)
      PROVE  Stutter
  BY <1>6 DEF SendTest, SendTestShutdown, SendRefuse, handlerVars
<1>7. ASSUME NEW m \in Msg, SendCall(m)
      PROVE  Link!Next \/ Stutter
  BY <1>6, <1>7, LinkAccept DEF SendCall, Link!Next
<1>8. ASSUME NEW kept \in [End -> 0 .. WireSize], NetFails(kept)
      PROVE  Stutter
  BY <1>8 DEF NetFails, senderVars, handlerVars
<1>9. CASE Next
  <2>1. Link!Next \/ Stutter
    BY <1>2, <1>3, <1>4, <1>5, <1>7, <1>8, <1>9 DEF Next
  <2>2. QED
    BY <2>1 DEF Link!vars
<1>10. QED
  BY <1>1, <1>9

(* When no message is longer than the send buffer, what the handler of an    *)
(* end gets is what SendMessageBinary accepted at the other end, in order,   *)
(* none twice and none left out, whatever the batches, the reads, the        *)
(* shutdowns and the loss of the connection; behind the last message that    *)
(* was handled, messages may be missing.                                     *)
THEOREM ImplementsLink ==
    ASSUME AllFit
    PROVE  Spec => LinkSpec
<1>1. Init => LinkInv
  BY TypeInit, ShutdownInvInit, DrainInvInit, LinkInvInit DEF LinkInv
<1>2. LinkInv /\ [Next]_vars => LinkInv'
  BY TypeStep, ShutdownInvStep, DrainInvStep, AcceptStep, DecodedStep, StreamStep
    DEF LinkInv
<1>3. Init => Link!Init
  BY DEF Init, Link!Init
<1>4. LinkInv /\ [Next]_vars => [Link!Next]_(Link!vars)
  BY LinkStep DEF LinkInv
<1>5. QED
  BY <1>1, <1>2, <1>3, <1>4, PTL DEF Spec, LinkSpec, Link!Spec
=============================================================================
