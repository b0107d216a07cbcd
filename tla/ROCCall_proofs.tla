--------------------------- MODULE ROCCall_proofs ---------------------------
(***************************************************************************)
(* Theorems about ROCCall, for any modules, objects and calls: types; that *)
(* a call returns with its own answer, and that this is true; that the     *)
(* requests of a goroutine that go by one connection are executed in the   *)
(* order in which it made the calls, and each of them once.                *)
(***************************************************************************)
EXTENDS ROCCall, TLAPS, FiniteSetTheorems

-----------------------------------------------------------------------------
(* Facts about sequences, numbers and messages.                            *)

LEMMA AppendFacts ==
    ASSUME NEW S, NEW s \in Seq(S), NEW x \in S
    PROVE  /\ Append(s, x) \in Seq(S)
           /\ \A i \in DOMAIN Append(s, x) :
                \/ i \in DOMAIN s /\ Append(s, x)[i] = s[i]
                \/ Append(s, x)[i] = x
OBVIOUS

LEMMA TailFacts ==
    ASSUME NEW S, NEW s \in Seq(S), s # <<>>
    PROVE  /\ Head(s) \in S
           /\ Tail(s) \in Seq(S)
           /\ 1 \in DOMAIN s /\ Head(s) = s[1]
           /\ \A i \in DOMAIN Tail(s) : i + 1 \in DOMAIN s /\ Tail(s)[i] = s[i + 1]
OBVIOUS

LEMMA SeqsFacts ==
    /\ Cardinality(Call) \in Nat
    /\ Seqs \subseteq Nat
    /\ 0 \in Seqs
BY FS_CardinalityType, ROCCallAssumption DEF Seqs

LEMMA ChannelFacts ==
    /\ <<>> \in Channel
    /\ \A x \in Answer : <<x>> \in Channel
BY DEF Channel

LEMMA MessageFacts ==
    /\ \A c \in Call, k \in Conn : seq \in [Call -> Seqs] => Request(c, k) \in Message
    /\ \A c \in Call, m \in Module, s \in Seqs, err \in {"ErrUnknowObj", "error"} :
            Response(c, m, s, err) \in Answer
    /\ \A x \in Message \cup Answer : x.call \in Call /\ x.seq \in Seqs
    /\ \A x \in Message : /\ x.type = "SROCRequest" /\ x.conn \in Conn
                          /\ CopyOf(x) \in Copy
    /\ \A x \in Answer : x.type = "SROCResponse"
    /\ "named" \in Conn
BY DEF Request, Response, Message, Answer, CopyOf, Copy, Conn

(* The last number given out is that of a call, and the next one is too when *)
(* a call asks for it that has none yet.                                     *)
LEMMA NextSeq ==
    ASSUME CountInv, NEW c \in Call, ~Numbered(c)
    PROVE  lastSeq[From[c]] + 1 \in Seqs
<1> DEFINE N == {d \in Call : From[d] = From[c] /\ Numbered(d)}
<1>1. From[c] \in Module
  BY ROCCallAssumption
<1>2. lastSeq[From[c]] = Cardinality(N)
  BY <1>1 DEF CountInv
<1>3. IsFiniteSet(N) /\ Cardinality(N) \in Nat
  <2>1. N \in SUBSET Call
    OBVIOUS
  <2>2. QED
    BY <2>1, FS_Subset, FS_CardinalityType, ROCCallAssumption
<1>4. c \notin N /\ N \cup {c} \in SUBSET Call
  OBVIOUS
<1>5. Cardinality(N \cup {c}) = Cardinality(N) + 1
  BY <1>3, <1>4, FS_AddElement
<1>6. Cardinality(N \cup {c}) <= Cardinality(Call)
  BY <1>4, FS_Subset, ROCCallAssumption
<1>7. QED
  BY <1>2, <1>3, <1>5, <1>6, SeqsFacts DEF Seqs
-----------------------------------------------------------------------------
(* Types.                                                                  *)

IInv == TypeOK /\ CountInv /\ NumberInv /\ WaitInv /\ CarryInv

LEMMA InitInv == Init => IInv /\ OwnAnswer
<1> SUFFICES ASSUME Init
             PROVE  IInv /\ OwnAnswer
  OBVIOUS
<1> USE ROCCallAssumption
<1>1. TypeOK
  BY SeqsFacts DEF Init, TypeOK, Ended
<1>2. \A c \in Call : ~Numbered(c)
  BY DEF Init, Numbered
<1>3. CountInv
  <2>1. ASSUME NEW m \in Module
        PROVE  {c \in Call : From[c] = m /\ Numbered(c)} = {}
    BY <1>2
  <2>2. QED
    BY <2>1, FS_EmptySet DEF Init, CountInv
<1>4. NumberInv /\ WaitInv
  BY <1>2 DEF Init, NumberInv, WaitInv
<1>5. CarryInv
  BY NoneAssumption, ChannelFacts DEF Init, CarryInv, LinkInv, RequestInv, ResponseInv,
                                      AgentInv, ChanInv
<1>6. OwnAnswer
  BY DEF Init, OwnAnswer
<1>7. QED
  BY <1>1, <1>3, <1>4, <1>5, <1>6 DEF IInv

(* What waits at a module has the types that it is used with. *)
LEMMA TakenFacts ==
    ASSUME TypeOK, NEW m \in Module, NEW req \in ToSet(requests[m]), Takes(m, req)
    PROVE  /\ req \in Message
           /\ req = requests[m][1] /\ 1 \in DOMAIN requests[m]
           /\ requests[m] \in Seq(Message) /\ requests[m] # <<>>
           /\ requests' = [requests EXCEPT ![m] = Tail(@)]
           /\ requests' \in [Module -> Seq(Message)]
<1>1. requests[m] \in Seq(Message) /\ requests[m] # <<>>
  BY DEF TypeOK, Takes
<1>2. QED
  BY <1>1, TailFacts DEF TypeOK, Takes

LEMMA LinkType ==
    TypeOK => \A k \in Conn, m, n \in Module : link[k][m][n] \in Seq(Message \cup Answer)
BY DEF TypeOK

(* What is on one connection changes. *)
Cell(k, m, n, v) == link' = [link EXCEPT ![k][m][n] = v]
LEMMA LinkCell ==
    ASSUME TypeOK, NEW k \in Conn, NEW m \in Module, NEW n \in Module, NEW v,
           Cell(k, m, n, v)
    PROVE  /\ link'[k][m][n] = v
           /\ \A l \in Conn, g, h \in Module :
                ~(l = k /\ g = m /\ h = n) => link'[l][g][h] = link[l][g][h]
<1>1. /\ link \in [Conn -> [Module -> [Module -> Seq(Message \cup Answer)]]]
      /\ link' = [link EXCEPT ![k][m][n] = v]
  BY DEF TypeOK, Cell
<1>2. link'[k][m][n] = v
  BY <1>1
<1>3. ASSUME NEW l \in Conn, NEW g \in Module, NEW h \in Module,
             ~(l = k /\ g = m /\ h = n)
      PROVE  link'[l][g][h] = link[l][g][h]
  <2>1. CASE l # k
    BY <1>1, <2>1
  <2>2. CASE l = k /\ g # m
    BY <1>1, <2>2
  <2>3. CASE l = k /\ g = m /\ h # n
    BY <1>1, <2>3
  <2>4. QED
    BY <1>3, <2>1, <2>2, <2>3
<1>4. QED
  BY <1>2, <1>3

LEMMA AnswersFacts ==
    ASSUME TypeOK, NEW m \in Module, NEW req \in Message,
           NEW err \in {"ErrUnknowObj", "error"}, Answers(m, req, err)
    PROVE  link' \in [Conn -> [Module -> [Module -> Seq(Message \cup Answer)]]]
<1>1. req.call \in Call /\ From[req.call] \in Module
  BY MessageFacts, ROCCallAssumption
<1>2. Response(req.call, m, req.seq, err) \in Message \cup Answer
  BY MessageFacts
<1>3. QED
  <2>1. link["named"][m][From[req.call]] \in Seq(Message \cup Answer)
    BY <1>1, MessageFacts DEF TypeOK
  <2>2. Append(link["named"][m][From[req.call]], Response(req.call, m, req.seq, err))
            \in Seq(Message \cup Answer)
    BY <1>2, <2>1, AppendFacts
  <2>3. QED
    BY <1>1, <2>2, MessageFacts DEF TypeOK, Answers

(* Who returns finds one answer in its channel.                             *)
LEMMA ReturnChannel ==
    ASSUME WaitInv, NEW c \in Call, Return(c)
    PROVE  /\ call[c] = "waiting" /\ Numbered(c)
           /\ \E x \in Answer : /\ blockChan[From[c]][seq[c]] = <<x>>
                                /\ Head(<<x>>) = x /\ Tail(<<x>>) = <<>>
<1>1. call[c] = "waiting" /\ blockChan[From[c]][seq[c]] # <<>> /\ Numbered(c)
  BY DEF Return, Numbered
<1>2. blockChan[From[c]][seq[c]] \in Channel
  BY <1>1 DEF WaitInv
<1>3. \E x \in Answer : blockChan[From[c]][seq[c]] = <<x>>
  BY <1>1, <1>2 DEF Channel
<1>4. \A x \in Answer : Head(<<x>>) = x /\ Tail(<<x>>) = <<>>
  OBVIOUS
<1>5. QED
  BY <1>1, <1>3, <1>4

(* A broadcast adds a request to the connections that are in the pool.      *)
LEMMA BroadcastLinks ==
    ASSUME TypeOK, NEW c \in Call, CallBroadcast(c)
    PROVE  /\ link' \in [Conn -> [Module -> [Module -> Seq(Message \cup Answer)]]]
           /\ \A k \in Conn, m, n \in Module :
                \/ link'[k][m][n] = link[k][m][n]
                \/ /\ m = From[c] /\ <<k, n>> \in Pool(m)
                   /\ link'[k][m][n] = Append(link[k][m][n], Request(c, k))
<1> USE ROCCallAssumption
<1> DEFINE Longer(k, n) == Append(link[k][From[c]][n], Request(c, k))
<1>1. ASSUME NEW k \in Conn, NEW n \in Module
      PROVE  Longer(k, n) \in Seq(Message \cup Answer)
  <2>1. Request(c, k) \in Message \cup Answer
    BY MessageFacts DEF TypeOK
  <2>2. link[k][From[c]][n] \in Seq(Message \cup Answer)
    BY DEF TypeOK
  <2>3. QED
    BY <2>1, <2>2, AppendFacts
<1>2. /\ link \in [Conn -> [Module -> [Module -> Seq(Message \cup Answer)]]]
      /\ From[c] \in Module
  BY DEF TypeOK
<1>3. link' = [k \in Conn |-> [link[k] EXCEPT ![From[c]] =
            [n \in Module |-> IF <<k, n>> \in Pool(From[c]) THEN Longer(k, n)
                                                          ELSE link[k][From[c]][n]]]]
  BY <1>2 DEF CallBroadcast
<1> DEFINE Row(k) == [n \in Module |-> IF <<k, n>> \in Pool(From[c])
                                       THEN Longer(k, n) ELSE link[k][From[c]][n]]
<1>4. \A k \in Conn : Row(k) \in [Module -> Seq(Message \cup Answer)]
  <2>1. \A k \in Conn, n \in Module : link[k][From[c]][n] \in Seq(Message \cup Answer)
    BY <1>2
  <2> HIDE DEF Longer
  <2>2. QED
    BY <1>1, <2>1
<1>5. link' = [k \in Conn |-> [link[k] EXCEPT ![From[c]] = Row(k)]]
  BY <1>3
<1> HIDE DEF Row
<1>6. link' \in [Conn -> [Module -> [Module -> Seq(Message \cup Answer)]]]
  BY <1>2, <1>4, <1>5
<1>7. ASSUME NEW k \in Conn, NEW m \in Module, NEW n \in Module
      PROVE  \/ link'[k][m][n] = link[k][m][n]
             \/ /\ m = From[c] /\ <<k, n>> \in Pool(m)
                /\ link'[k][m][n] = Append(link[k][m][n], Request(c, k))
  <2>1. CASE m # From[c]
    BY <1>2, <1>5, <2>1
  <2>2. CASE m = From[c]
    <3>1. link'[k][m][n] = Row(k)[n]
      BY <1>2, <1>5, <2>2
    <3> HIDE DEF Longer
    <3>2. Row(k)[n] = IF <<k, n>> \in Pool(From[c])
                      THEN Longer(k, n) ELSE link[k][From[c]][n]
      BY DEF Row
    <3>3. QED
      BY <2>2, <3>1, <3>2 DEF Longer
  <2>3. QED
    BY <2>1, <2>2
<1>8. QED
  BY <1>6, <1>7

LEMMA RemoteLinks ==
    ASSUME TypeOK, NEW c \in Call, CallRemote(c)
    PROVE  \A k \in Conn, m, n \in Module :
             \/ link'[k][m][n] = link[k][m][n]
             \/ /\ k = "named" /\ m = From[c] /\ n # m /\ n = location[c]
                /\ link'[k][m][n] = Append(link[k][m][n], Request(c, k))
<1> DEFINE x == Request(c, "named")
<1>1. /\ link' = [link EXCEPT !["named"][From[c]][location[c]] = Append(@, x)]
      /\ location[c] # From[c]
  BY DEF CallRemote
<1> HIDE DEF x
<1>2. ASSUME NEW k \in Conn, NEW m \in Module, NEW n \in Module
      PROVE  \/ link'[k][m][n] = link[k][m][n]
             \/ /\ k = "named" /\ m = From[c] /\ n # m /\ n = location[c]
                /\ link'[k][m][n] = Append(link[k][m][n], x)
  BY <1>1 DEF TypeOK
<1>3. QED
  BY <1>2 DEF x

LEMMA TypeCall ==
    ASSUME TypeOK, CountInv, WaitInv, NEW c \in Call, ROCCall(c)
    PROVE  TypeOK'
<1> USE ROCCallAssumption
<1>1. From[c] \in Module /\ Target[c] \in Obj /\ <<From[c], Target[c]>> \in Used
  BY DEF Used
<1>2. CASE Locate(c)
  <2>1. catchType[<<From[c], Target[c]>>] \in Module \cup {None}
    BY <1>1 DEF TypeOK
  <2>2. QED
    BY <1>2, <2>1 DEF Locate, TypeOK, objects, threads
<1>3. CASE TakeSeq(c)
  <2>1. lastSeq[From[c]] + 1 \in Seqs
    BY <1>3, NextSeq DEF TakeSeq, Numbered
  <2>2. QED
    BY <1>1, <1>3, <2>1, ChannelFacts DEF TakeSeq, TypeOK, objects, threads
<1>4. CASE CallLocal(c)
  <2>1. Request(c, "named") \in Message
    BY MessageFacts DEF TypeOK
  <2>2. requests[From[c]] \in Seq(Message)
    BY <1>1 DEF TypeOK
  <2>3. Append(requests[From[c]], Request(c, "named")) \in Seq(Message)
    BY <2>1, <2>2, AppendFacts
  <2>4. requests' \in [Module -> Seq(Message)]
    BY <1>4, <2>3 DEF CallLocal, TypeOK
  <2>5. QED
    BY <1>4, <2>4 DEF CallLocal, AfterSend, TypeOK, objects, Ended
<1>5. CASE CallRemote(c)
  <2>1. Request(c, "named") \in Message \cup Answer /\ location[c] \in Module
    BY <1>5, MessageFacts DEF TypeOK, CallRemote
  <2>2. link' \in [Conn -> [Module -> [Module -> Seq(Message \cup Answer)]]]
    <3>1. link["named"][From[c]][location[c]] \in Seq(Message \cup Answer)
      BY <1>1, <2>1, MessageFacts DEF TypeOK
    <3>2. Append(link["named"][From[c]][location[c]], Request(c, "named"))
            \in Seq(Message \cup Answer)
      BY <2>1, <3>1, AppendFacts
    <3>3. QED
      BY <1>1, <1>5, <2>1, <3>2, MessageFacts DEF CallRemote, TypeOK
  <2>3. QED
    BY <1>5, <2>2 DEF CallRemote, AfterSend, TypeOK, objects, threads, Ended
<1>6. CASE CallBroadcast(c)
  <2>1. link' \in [Conn -> [Module -> [Module -> Seq(Message \cup Answer)]]]
    BY <1>6, BroadcastLinks
  <2>2. QED
    BY <1>6, <2>1 DEF CallBroadcast, AfterSend, TypeOK, objects, threads, Ended
<1>7. CASE CallFails(c)
  BY <1>7 DEF CallFails, TypeOK, objects, threads, Ended
<1>8. CASE Return(c)
  <2>1. PICK x \in Answer : blockChan[From[c]][seq[c]] = <<x>>
    BY <1>8, ReturnChannel
  <2>2. Head(<<x>>) = x /\ Tail(<<x>>) = <<>>
    OBVIOUS
  <2>3. blockChan' \in [Module -> [Seqs -> Channel \cup {None}]]
    BY <1>1, <1>8, <2>1, <2>2, ChannelFacts DEF Return, TypeOK
  <2>4. QED
    <3>1. result' \in [Call -> Answer \cup {None}]
      BY <1>8, <2>1, <2>2, ChannelFacts DEF Return, TypeOK
    <3>2. QED
      BY <1>8, <2>3, <3>1 DEF Return, TypeOK, objects, threads, Ended
<1>9. QED
  BY <1>2, <1>3, <1>4, <1>5, <1>6, <1>7, <1>8 DEF ROCCall

LEMMA TypeRest ==
    ASSUME TypeOK, [Next]_vars, \A c \in Call : ~ROCCall(c)
    PROVE  TypeOK'
<1> USE ROCCallAssumption
<1>1. ASSUME NEW k \in Conn, NEW m \in Module, NEW n \in Module, OnRecvSubnetMsg(k, m, n)
      PROVE  TypeOK'
  <2>1. /\ link[k][m][n] \in Seq(Message \cup Answer)
        /\ link[k][m][n] # <<>>
    BY <1>1 DEF TypeOK, OnRecvSubnetMsg
  <2>2. /\ Tail(link[k][m][n]) \in Seq(Message \cup Answer)
        /\ Head(link[k][m][n]) \in Message \cup Answer
    BY <2>1, TailFacts
  <2>3. /\ Head(link[k][m][n]).type = "SROCRequest" => Head(link[k][m][n]) \in Message
        /\ Head(link[k][m][n]).type = "SROCResponse" => Head(link[k][m][n]) \in Answer
    BY <2>2, MessageFacts
  <2>4. link' \in [Conn -> [Module -> [Module -> Seq(Message \cup Answer)]]]
    BY <1>1, <2>2 DEF OnRecvSubnetMsg, TypeOK
  <2>5. requests' \in [Module -> Seq(Message)] /\ responses' \in [Module -> Seq(Answer)]
    <3>1. requests[n] \in Seq(Message) /\ responses[n] \in Seq(Answer)
      BY DEF TypeOK
    <3>2. CASE Head(link[k][m][n]).type = "SROCRequest"
      <4>1. Append(requests[n], Head(link[k][m][n])) \in Seq(Message)
        BY <2>3, <3>1, <3>2, AppendFacts
      <4>2. /\ requests' = [requests EXCEPT ![n] = Append(@, Head(link[k][m][n]))]
            /\ responses' = responses
        BY <1>1, <3>2 DEF OnRecvSubnetMsg
      <4>3. QED
        BY <4>1, <4>2 DEF TypeOK
    <3>3. CASE Head(link[k][m][n]).type = "SROCResponse"
      <4>1. Append(responses[n], Head(link[k][m][n])) \in Seq(Answer)
        BY <2>3, <3>1, <3>3, AppendFacts
      <4>2. /\ responses' = [responses EXCEPT ![n] = Append(@, Head(link[k][m][n]))]
            /\ requests' = requests
        BY <1>1, <3>3 DEF OnRecvSubnetMsg
      <4>3. QED
        BY <4>1, <4>2 DEF TypeOK
    <3>4. QED
      BY <1>1, <3>2, <3>3 DEF OnRecvSubnetMsg
  <2>6. QED
    BY <1>1, <2>4, <2>5 DEF OnRecvSubnetMsg, TypeOK, objects, caller
<1>2. ASSUME NEW m \in Module, RequestProcess(m)
      PROVE  TypeOK'
  <2>1. ASSUME ExecuteUnknown(m)
        PROVE  TypeOK'
    <3>1. PICK req \in ToSet(requests[m]) :
            /\ Takes(m, req) /\ Answers(m, req, "ErrUnknowObj")
            /\ UNCHANGED <<objects, caller, blockChan, responses, agent, down, executed>>
      BY <2>1 DEF ExecuteUnknown
    <3>2. QED
      BY <3>1, TakenFacts, AnswersFacts DEF TypeOK, objects, caller
  <2>2. ASSUME ExecuteError(m)
        PROVE  TypeOK'
    <3>1. PICK req \in ToSet(requests[m]) :
            /\ Takes(m, req) /\ Answers(m, req, "error")
            /\ executed' = [executed EXCEPT ![m] = Append(@, CopyOf(req))]
            /\ UNCHANGED <<objects, caller, blockChan, responses, agent, down>>
      BY <2>2 DEF ExecuteError
    <3>2. CopyOf(req) \in Copy
      BY <3>1, TakenFacts, MessageFacts
    <3>3. executed' \in [Module -> Seq(Copy)]
      BY <3>1, <3>2 DEF TypeOK
    <3>4. QED
      BY <3>1, <3>2, <3>3, TakenFacts, AnswersFacts DEF TypeOK, objects, caller
  <2>3. ASSUME ExecuteSuccess(m)
        PROVE  TypeOK'
    <3>1. PICK req \in ToSet(requests[m]) :
            /\ Takes(m, req)
            /\ executed' = [executed EXCEPT ![m] = Append(@, CopyOf(req))]
            /\ down' = [down EXCEPT ![m] = NeedReturn[req.call] /\ From[req.call] # m]
            /\ UNCHANGED <<objects, caller, blockChan, link, responses, agent>>
      BY <2>3 DEF ExecuteSuccess
    <3>2. CopyOf(req) \in Copy
      BY <3>1, TakenFacts, MessageFacts
    <3>3. executed' \in [Module -> Seq(Copy)]
      BY <3>1, <3>2 DEF TypeOK
    <3>4. down' \in [Module -> BOOLEAN]
      <4>1. (NeedReturn[req.call] /\ From[req.call] # m) \in BOOLEAN
        BY Zenon
      <4>2. QED
        BY <3>1, <4>1 DEF TypeOK
    <3>5. QED
      BY <3>1, <3>3, <3>4, TakenFacts DEF TypeOK, objects, caller
  <2>4. QED
    BY <1>2, <2>1, <2>2, <2>3 DEF RequestProcess
<1>3. ASSUME NEW m \in Module, TakeResponse(m)
      PROVE  TypeOK'
  <2>1. responses[m] \in Seq(Answer) /\ responses[m] # <<>>
    BY <1>3 DEF TypeOK, TakeResponse
  <2>2. Head(responses[m]) \in Answer /\ Tail(responses[m]) \in Seq(Answer)
    BY <2>1, TailFacts
  <2>3. QED
    BY <1>3, <2>2 DEF TakeResponse, TypeOK, objects, caller
<1>4. ASSUME NEW m \in Module, WriteResponse(m)
      PROVE  TypeOK'
  <2>1. agent[m] \in Answer /\ agent[m].seq \in Seqs
    BY <1>4, MessageFacts DEF WriteResponse, TypeOK
  <2>2. blockChan' \in [Module -> [Seqs -> Channel \cup {None}]]
    BY <1>4, <2>1, ChannelFacts DEF WriteResponse, TypeOK
  <2>3. QED
    BY <1>4, <2>2 DEF WriteResponse, TypeOK, objects, caller
<1>5. ASSUME NEW m \in Module, NEW o \in Obj, Rebind(m, o) \/ DelObj(m, o)
      PROVE  TypeOK'
  <2>1. rebinds' \in 0 .. MaxRebinds
    BY <1>5 DEF Rebind, DelObj, TypeOK
  <2>2. catchType' \in [Used -> Module \cup {None}]
    BY <1>5 DEF Rebind, DelObj, TypeOK
  <2>3. objPool' \in [Module -> SUBSET Obj]
    <3>1. objPool[m] \ {o} \in SUBSET Obj
      BY DEF TypeOK
    <3>2. QED
      BY <1>5, <3>1 DEF Rebind, DelObj, TypeOK
  <2>4. QED
    BY <1>5, <2>1, <2>2, <2>3 DEF Rebind, DelObj, TypeOK, caller, threads
<1>6. CASE UNCHANGED vars
  BY <1>6 DEF vars, objects, caller, threads, TypeOK
<1>7. QED
  BY <1>1, <1>2, <1>3, <1>4, <1>5, <1>6 DEF Next, ResponseProcess
-----------------------------------------------------------------------------
(* Numbers: they are taken in TakeSeq and kept.                            *)

Kept == \A d \in Call : Numbered(d) => Numbered(d)' /\ seq'[d] = seq[d]

LEMMA SameNumbers ==
    ASSUME CountInv, NumberInv, seq' = seq, lastSeq' = lastSeq,
           \A d \in Call : Numbered(d)' <=> Numbered(d)
    PROVE  CountInv' /\ NumberInv' /\ Kept
<1>1. \A m \in Module : {d \in Call : From[d] = m /\ Numbered(d)}'
                      = {d \in Call : From[d] = m /\ Numbered(d)}
  OBVIOUS
<1>2. CountInv'
  BY <1>1 DEF CountInv
<1>3. NumberInv' /\ Kept
  BY DEF NumberInv, Kept
<1>4. QED
  BY <1>2, <1>3

LEMMA CallNumbers ==
    ASSUME CountInv, NumberInv, TypeOK, NEW c \in Call, ROCCall(c), ~TakeSeq(c)
    PROVE  CountInv' /\ NumberInv' /\ Kept
<1>1. seq' = seq /\ lastSeq' = lastSeq
  BY DEF ROCCall, Locate, CallLocal, CallRemote, CallBroadcast, CallFails, Return
<1>2. \/ call[c] = "new" /\ call' = [call EXCEPT ![c] = "located"]
      \/ /\ call[c] \in {"numbered", "waiting"}
         /\ \E v \in {"waiting", "returned", "failed"} : call' = [call EXCEPT ![c] = v]
  BY DEF ROCCall, Locate, CallLocal, CallRemote, CallBroadcast, CallFails, Return,
         Sends, AfterSend
<1>3. \A d \in Call : Numbered(d)' <=> Numbered(d)
  BY <1>2 DEF Numbered, TypeOK
<1>4. QED
  BY <1>1, <1>3, SameNumbers

LEMMA TakeNumbers ==
    ASSUME CountInv, NumberInv, TypeOK, NEW c \in Call, TakeSeq(c)
    PROVE  /\ CountInv' /\ NumberInv' /\ Kept
           /\ lastSeq[From[c]] + 1 \in Seqs
           /\ \A d \in Call : Numbered(d) /\ From[d] = From[c]
                => seq[d] # lastSeq[From[c]] + 1
<1> DEFINE s == lastSeq[From[c]] + 1
           N(m) == {d \in Call : From[d] = m /\ Numbered(d)}
<1> USE ROCCallAssumption
<1>1. From[c] \in Module
  OBVIOUS
<1>2. ~Numbered(c) /\ Numbered(c)'
  BY DEF TakeSeq, Numbered, TypeOK
<1>3. s \in Seqs /\ s \in Nat /\ \A m \in Module : lastSeq[m] \in Nat
  BY <1>2, NextSeq, SeqsFacts DEF TypeOK
<1>4. /\ \A d \in Call \ {c} : (Numbered(d)' <=> Numbered(d)) /\ seq'[d] = seq[d]
      /\ seq'[c] = s
      /\ lastSeq' = [lastSeq EXCEPT ![From[c]] = s]
  BY DEF TakeSeq, Numbered, TypeOK
<1>5. ASSUME NEW m \in Module
      PROVE  lastSeq'[m] = Cardinality(N(m)')
  <2>1. CASE m = From[c]
    <3>1. N(m)' = N(m) \cup {c}
      BY <1>2, <1>4, <2>1
    <3>2. IsFiniteSet(N(m)) /\ c \notin N(m)
      <4>1. N(m) \in SUBSET Call
        OBVIOUS
      <4>2. QED
        BY <1>2, <4>1, FS_Subset
    <3>3. Cardinality(N(m) \cup {c}) = Cardinality(N(m)) + 1
      BY <3>2, FS_AddElement
    <3>4. QED
      BY <1>4, <2>1, <3>1, <3>3 DEF CountInv, TypeOK
  <2>2. CASE m # From[c]
    <3>1. N(m)' = N(m)
      BY <1>2, <1>4, <2>2
    <3>2. QED
      BY <1>4, <2>2, <3>1 DEF CountInv, TypeOK
  <2>3. QED
    BY <2>1, <2>2
<1>6. CountInv'
  BY <1>5 DEF CountInv
<1>7. \A d \in Call : Numbered(d) /\ From[d] = From[c] => seq[d] # s
  BY <1>3 DEF NumberInv
<1>8. NumberInv'
  <2>1. ASSUME NEW d \in Call, Numbered(d)'
        PROVE  seq'[d] \in 1 .. lastSeq'[From[d]]
    <3>1. From[d] \in Module
      OBVIOUS
    <3>2. CASE d = c
      BY <1>3, <1>4, <3>1, <3>2 DEF TypeOK
    <3>3. CASE d # c
      <4>1. seq[d] \in 1 .. lastSeq[From[d]] /\ seq'[d] = seq[d]
        BY <1>4, <2>1, <3>3 DEF NumberInv
      <4>2. lastSeq[From[d]] \in Nat
            /\ lastSeq'[From[d]] \in {lastSeq[From[d]], lastSeq[From[d]] + 1}
        BY <1>3, <1>4, <3>1 DEF TypeOK
      <4>3. QED
        BY <4>1, <4>2
    <3>4. QED
      BY <3>2, <3>3
  <2>2. ASSUME NEW d \in Call, NEW e \in Call, Numbered(d)', Numbered(e)',
               From[d] = From[e], seq'[d] = seq'[e]
        PROVE  d = e
    <3>1. CASE d = c /\ e # c
      BY <1>4, <1>7, <2>2, <3>1
    <3>2. CASE d # c /\ e = c
      BY <1>4, <1>7, <2>2, <3>2
    <3>3. CASE d # c /\ e # c
      BY <1>4, <2>2, <3>3 DEF NumberInv
    <3>4. QED
      BY <3>1, <3>2, <3>3
  <2>3. QED
    BY <2>1, <2>2 DEF NumberInv
<1>9. Kept
  BY <1>2, <1>4 DEF Kept
<1>10. QED
  BY <1>3, <1>6, <1>7, <1>8, <1>9

LEMMA Numbers ==
    ASSUME CountInv, NumberInv, TypeOK, [Next]_vars
    PROVE  CountInv' /\ NumberInv' /\ Kept
<1>1. CASE \E c \in Call : ROCCall(c)
  BY <1>1, CallNumbers, TakeNumbers
<1>2. CASE UNCHANGED caller
  <2>1. \A d \in Call : Numbered(d)' <=> Numbered(d)
    BY <1>2 DEF caller, Numbered
  <2>2. QED
    BY <1>2, <2>1, SameNumbers DEF caller
<1>3. (\E c \in Call : ROCCall(c)) \/ UNCHANGED caller
  BY DEF Next, vars, OnRecvSubnetMsg, RequestProcess, ResponseProcess, ExecuteUnknown,
         ExecuteError, ExecuteSuccess, TakeResponse, WriteResponse, Rebind, DelObj
<1>4. QED
  BY <1>1, <1>2, <1>3
-----------------------------------------------------------------------------
(* Who waits has a channel.                                                *)

LEMMA WaitStep ==
    ASSUME TypeOK, WaitInv,
           \A d \in Call : /\ Numbered(d)' => Numbered(d)
                           /\ call'[d] = "waiting" => call[d] = "waiting" \/ NeedReturn[d],
           seq' = seq,
           \A m \in Module, s \in Seqs :
             blockChan[m][s] \in Channel => blockChan'[m][s] \in Channel
    PROVE  WaitInv'
<1>1. \A d \in Call : From[d] \in Module /\ seq[d] \in Seqs
  BY ROCCallAssumption DEF TypeOK
<1>2. QED
  BY <1>1 DEF WaitInv

LEMMA Waits ==
    ASSUME CountInv, NumberInv, WaitInv, TypeOK, [Next]_vars
    PROVE  WaitInv'
<1> USE ROCCallAssumption
<1>1. ASSUME NEW c \in Call, TakeSeq(c)
      PROVE  WaitInv'
  <2> DEFINE s == lastSeq[From[c]] + 1
  <2>1. /\ s \in Seqs
        /\ \A d \in Call : Numbered(d) /\ From[d] = From[c] => seq[d] # s
    BY <1>1, TakeNumbers
  <2>2. /\ call' = [call EXCEPT ![c] = "numbered"]
        /\ seq' = [seq EXCEPT ![c] = s]
        /\ blockChan' = IF NeedReturn[c] THEN [blockChan EXCEPT ![From[c]][s] = <<>>]
                                         ELSE blockChan
    BY <1>1 DEF TakeSeq
  <2>3. ASSUME NEW d \in Call, Numbered(d)', NeedReturn[d]
        PROVE  blockChan'[From[d]][seq'[d]] \in Channel
    <3>1. From[d] \in Module /\ seq[d] \in Seqs
      BY DEF TypeOK
    <3>2. CASE d = c
      BY <2>1, <2>2, <2>3, <3>1, <3>2, ChannelFacts DEF TypeOK
    <3>3. CASE d # c
      <4>1. Numbered(d) /\ seq'[d] = seq[d]
        BY <2>2, <2>3, <3>3 DEF TypeOK, Numbered
      <4>2. blockChan[From[d]][seq[d]] \in Channel
        BY <2>3, <4>1 DEF WaitInv
      <4>3. blockChan'[From[d]][seq[d]] = blockChan[From[d]][seq[d]]
        BY <2>1, <2>2, <3>1, <4>1 DEF TypeOK
      <4>4. QED
        BY <4>1, <4>2, <4>3
    <3>4. QED
      BY <3>2, <3>3
  <2>4. \A d \in Call : call'[d] = "waiting" => NeedReturn[d]
    BY <2>2 DEF WaitInv, TypeOK
  <2>5. QED
    BY <2>3, <2>4 DEF WaitInv
<1>2. ASSUME NEW c \in Call, Return(c)
      PROVE  WaitInv'
  <2>1. PICK x \in Answer : blockChan[From[c]][seq[c]] = <<x>> /\ Tail(<<x>>) = <<>>
    BY <1>2, ReturnChannel
  <2>2. \A m \in Module, s \in Seqs :
            blockChan[m][s] \in Channel => blockChan'[m][s] \in Channel
    BY <1>2, <2>1, ChannelFacts DEF Return, TypeOK
  <2>3. seq' = seq /\ call' = [call EXCEPT ![c] = "returned"] /\ Numbered(c)
    BY <1>2, ReturnChannel DEF Return
  <2>4. \A d \in Call : /\ Numbered(d)' => Numbered(d)
                        /\ call'[d] = "waiting" => call[d] = "waiting"
    BY <2>3 DEF TypeOK, Numbered
  <2>5. QED
    BY <2>2, <2>3, <2>4, WaitStep
<1>3. ASSUME NEW c \in Call, ROCCall(c), ~TakeSeq(c), ~Return(c)
      PROVE  WaitInv'
  <2>1. /\ seq' = seq /\ blockChan' = blockChan
        /\ \/ call' = [call EXCEPT ![c] = "located"]
           \/ call[c] = "numbered" /\ call' = [call EXCEPT ![c] = "failed"]
           \/ /\ call[c] = "numbered"
              /\ call' = [call EXCEPT ![c] =
                    IF NeedReturn[c] THEN "waiting" ELSE "returned"]
    BY <1>3 DEF ROCCall, Locate, CallLocal, CallRemote, CallBroadcast, CallFails,
                Sends, AfterSend
  <2>2. \A d \in Call : /\ Numbered(d)' => Numbered(d)
                        /\ call'[d] = "waiting" => call[d] = "waiting" \/ NeedReturn[d]
    BY <2>1 DEF TypeOK, Numbered
  <2>3. QED
    BY <2>1, <2>2, WaitStep
<1>4. ASSUME NEW m \in Module, WriteResponse(m)
      PROVE  WaitInv'
  <2>1. agent[m] \in Answer /\ agent[m].seq \in Seqs
    BY <1>4, MessageFacts DEF WriteResponse, TypeOK
  <2>2. /\ blockChan' = [blockChan EXCEPT ![m][agent[m].seq] = <<agent[m]>>]
        /\ call' = call /\ seq' = seq
    BY <1>4 DEF WriteResponse, caller
  <2>3. \A n \in Module, s \in Seqs :
            blockChan[n][s] \in Channel => blockChan'[n][s] \in Channel
    BY <2>1, <2>2, ChannelFacts DEF TypeOK
  <2>4. QED
    BY <2>2, <2>3, WaitStep DEF Numbered
<1>5. CASE UNCHANGED <<call, seq, blockChan>>
  BY <1>5, WaitStep DEF Numbered
<1>6. \/ \E c \in Call : ROCCall(c)
      \/ \E m \in Module : WriteResponse(m)
      \/ UNCHANGED <<call, seq, blockChan>>
  BY DEF Next, vars, caller, OnRecvSubnetMsg, RequestProcess, ResponseProcess,
         ExecuteUnknown, ExecuteError, ExecuteSuccess, TakeResponse, Rebind, DelObj
<1>7. QED
  BY <1>1, <1>2, <1>3, <1>4, <1>5, <1>6
-----------------------------------------------------------------------------
(* What is on its way carries the number of its call.                      *)

LEMMA KeptSent ==
    ASSUME Kept, NEW x \in Message \cup Answer, NEW n \in Module
    PROVE  /\ Carries(x) => Carries(x)'
           /\ Own(x, n) => Own(x, n)'
           /\ \A k, m : Sent(x, k, m, n) => Sent(x, k, m, n)'
BY MessageFacts DEF Kept, Carries, Sent, Own

LEMMA LinkStep ==
    ASSUME TypeOK, LinkInv, Kept,
           \A k \in Conn, m, n \in Module : \A i \in DOMAIN link'[k][m][n] :
             \/ \E j \in DOMAIN link[k][m][n] : link'[k][m][n][i] = link[k][m][n][j]
             \/ \E x \in Message \cup Answer : link'[k][m][n][i] = x /\ Sent(x, k, m, n)'
    PROVE  LinkInv'
<1>1. ASSUME NEW k \in Conn, NEW m \in Module, NEW n \in Module,
             NEW i \in DOMAIN link'[k][m][n]
      PROVE  \E x \in Message \cup Answer : link'[k][m][n][i] = x /\ Sent(x, k, m, n)'
  <2>1. CASE \E j \in DOMAIN link[k][m][n] : link'[k][m][n][i] = link[k][m][n][j]
    <3>1. PICK j \in DOMAIN link[k][m][n] : link'[k][m][n][i] = link[k][m][n][j]
      BY <2>1
    <3>2. link[k][m][n] \in Seq(Message \cup Answer)
      BY DEF TypeOK
    <3>3. PICK x \in Message \cup Answer : x = link[k][m][n][j]
      BY <3>1, <3>2
    <3>4. Sent(x, k, m, n)
      BY <3>1, <3>3 DEF LinkInv
    <3>5. Sent(x, k, m, n)'
      BY <3>4, KeptSent
    <3>6. QED
      BY <3>1, <3>3, <3>5
  <2>2. QED
    BY <1>1, <2>1
<1>2. QED
  BY <1>1 DEF LinkInv, Sent, Own, Carries, Numbered

LEMMA RequestStep ==
    ASSUME TypeOK, RequestInv, Kept,
           \A m \in Module : \A i \in DOMAIN requests'[m] :
             \/ \E j \in DOMAIN requests[m] : requests'[m][i] = requests[m][j]
             \/ \E x \in Message : requests'[m][i] = x /\ Carries(x)'
    PROVE  RequestInv'
<1>1. ASSUME NEW m \in Module, NEW i \in DOMAIN requests'[m]
      PROVE  \E x \in Message : requests'[m][i] = x /\ Carries(x)'
  <2>1. CASE \E j \in DOMAIN requests[m] : requests'[m][i] = requests[m][j]
    <3>1. PICK j \in DOMAIN requests[m] : requests'[m][i] = requests[m][j]
      BY <2>1
    <3>2. requests[m] \in Seq(Message)
      BY DEF TypeOK
    <3>3. PICK x \in Message : x = requests[m][j]
      BY <3>1, <3>2
    <3>4. Carries(x)
      BY <3>1, <3>3 DEF RequestInv
    <3>5. QED
      BY <3>1, <3>3, <3>4, KeptSent
  <2>2. QED
    BY <1>1, <2>1
<1>2. QED
  BY <1>1 DEF RequestInv, Carries, Numbered

LEMMA ResponseStep ==
    ASSUME TypeOK, ResponseInv, Kept,
           \A m \in Module : \A i \in DOMAIN responses'[m] :
             \/ \E j \in DOMAIN responses[m] : responses'[m][i] = responses[m][j]
             \/ \E x \in Answer : responses'[m][i] = x /\ Own(x, m)'
    PROVE  ResponseInv'
<1>1. ASSUME NEW m \in Module, NEW i \in DOMAIN responses'[m]
      PROVE  \E x \in Answer : responses'[m][i] = x /\ Own(x, m)'
  <2>1. CASE \E j \in DOMAIN responses[m] : responses'[m][i] = responses[m][j]
    <3>1. PICK j \in DOMAIN responses[m] : responses'[m][i] = responses[m][j]
      BY <2>1
    <3>2. responses[m] \in Seq(Answer)
      BY DEF TypeOK
    <3>3. PICK x \in Answer : x = responses[m][j]
      BY <3>1, <3>2
    <3>4. Own(x, m)
      BY <3>1, <3>3 DEF ResponseInv
    <3>5. QED
      BY <3>1, <3>3, <3>4, KeptSent
  <2>2. QED
    BY <1>1, <2>1
<1>2. QED
  BY <1>1 DEF ResponseInv, Own, Carries, Numbered

LEMMA AgentStep ==
    ASSUME TypeOK, AgentInv, Kept,
           \A m \in Module :
             \/ agent'[m] \in {agent[m], None}
             \/ \E x \in Answer : agent'[m] = x /\ Own(x, m)'
    PROVE  AgentInv'
<1>1. ASSUME NEW m \in Module, agent'[m] # None
      PROVE  \E x \in Answer : agent'[m] = x /\ Own(x, m)'
  <2>1. CASE agent'[m] = agent[m]
    <3>1. PICK x \in Answer : x = agent[m]
      BY <1>1, <2>1 DEF TypeOK
    <3>2. Own(x, m)
      BY <1>1, <2>1, <3>1 DEF AgentInv
    <3>3. QED
      BY <2>1, <3>1, <3>2, KeptSent
  <2>2. QED
    BY <1>1, <2>1
<1>2. QED
  BY <1>1 DEF AgentInv, Own, Carries, Numbered

LEMMA ChanStep ==
    ASSUME TypeOK, ChanInv, Kept,
           \A m \in Module, s \in Seqs :
             \/ blockChan'[m][s] \in {blockChan[m][s], <<>>}
             \/ \E x \in Answer : /\ blockChan'[m][s] = <<x>>
                                  /\ Own(x, m)' /\ x.seq = s
    PROVE  ChanInv'
<1>1. ASSUME NEW m \in Module, NEW s \in Seqs, NEW x \in Answer, blockChan'[m][s] = <<x>>
      PROVE  Own(x, m)' /\ x.seq = s
  <2>1. <<x>> # <<>> /\ \A y \in Answer : <<y>> = <<x>> => y = x
    OBVIOUS
  <2>2. CASE blockChan'[m][s] = blockChan[m][s]
    <3>1. Own(x, m) /\ x.seq = s
      BY <1>1, <2>2 DEF ChanInv
    <3>2. QED
      BY <3>1, KeptSent
  <2>3. QED
    BY <1>1, <2>1, <2>2
<1>2. QED
  BY <1>1 DEF ChanInv, Own, Carries, Numbered

(* A caller makes a channel and empties it. *)
LEMMA CallChannels ==
    ASSUME TypeOK, WaitInv, NEW c \in Call, ROCCall(c)
    PROVE  \A m \in Module, s \in Seqs : blockChan'[m][s] \in {blockChan[m][s], <<>>}
<1> USE ROCCallAssumption
<1> SUFFICES ASSUME NEW m \in Module, NEW s \in Seqs
             PROVE  blockChan'[m][s] \in {blockChan[m][s], <<>>}
  OBVIOUS
<1>1. CASE TakeSeq(c)
  BY <1>1 DEF TakeSeq, TypeOK
<1>2. CASE Return(c)
  <2>1. PICK x \in Answer : blockChan[From[c]][seq[c]] = <<x>> /\ Tail(<<x>>) = <<>>
    BY <1>2, ReturnChannel
  <2>2. QED
    BY <1>2, <2>1 DEF Return, TypeOK
<1>3. CASE ~TakeSeq(c) /\ ~Return(c)
  <2>1. blockChan' = blockChan
    BY <1>3 DEF ROCCall, Locate, CallLocal, CallRemote, CallBroadcast, CallFails
  <2>2. QED
    BY <2>1
<1>4. QED
  BY <1>1, <1>2, <1>3

LEMMA CarryCall ==
    ASSUME IInv, [Next]_vars, NEW c \in Call, ROCCall(c)
    PROVE  CarryInv'
<1> USE ROCCallAssumption
<1>1. Kept
  BY Numbers DEF IInv
<1>2. TypeOK /\ WaitInv /\ CarryInv /\ From[c] \in Module
  BY DEF IInv
<1>3. responses' = responses /\ agent' = agent
  BY DEF ROCCall, Locate, TakeSeq, CallLocal, CallRemote, CallBroadcast, CallFails,
         Return, threads
<1>4. ResponseInv' /\ AgentInv'
  BY <1>1, <1>2, <1>3, ResponseStep, AgentStep DEF CarryInv
<1>5. ChanInv'
  BY <1>1, <1>2, CallChannels, ChanStep DEF CarryInv
<1>6. ASSUME call[c] = "numbered", NEW k \in Conn
      PROVE  \E x \in Message : /\ x = Request(c, k)
                                /\ Carries(x)'
                                /\ \A l, m, n : Sent(x, l, m, n)'
  <2>1. PICK x \in Message : x = Request(c, k)
    BY <1>2, MessageFacts DEF TypeOK
  <2>2. Numbered(c)
    BY <1>6 DEF Numbered
  <2>3. Numbered(c)' /\ seq'[c] = seq[c]
    BY <1>1, <2>2 DEF Kept
  <2>4. x.call = c /\ x.seq = seq[c] /\ x.type = "SROCRequest"
    BY <2>1 DEF Request
  <2>5. Carries(x)' /\ \A l, m, n : Sent(x, l, m, n)'
    BY <2>3, <2>4 DEF Carries, Sent
  <2>6. QED
    BY <2>1, <2>5
<1>7. RequestInv'
  <2>1. CASE CallLocal(c)
    <3>1. /\ call[c] = "numbered" /\ "named" \in Conn
          /\ requests' = [requests EXCEPT ![From[c]] = Append(@, Request(c, "named"))]
      BY <2>1, MessageFacts DEF CallLocal, Sends
    <3>2. PICK x \in Message : x = Request(c, "named") /\ Carries(x)'
      BY <1>6, <3>1
    <3>3. ASSUME NEW m \in Module, NEW i \in DOMAIN requests'[m]
          PROVE  \/ \E j \in DOMAIN requests[m] : requests'[m][i] = requests[m][j]
                 \/ requests'[m][i] = x
      <4>1. requests[m] \in Seq(Message)
        BY <1>2 DEF TypeOK
      <4>2. requests'[m] \in {requests[m], Append(requests[m], x)}
        BY <1>2, <3>1, <3>2 DEF TypeOK
      <4>3. CASE requests'[m] = requests[m]
        BY <3>3, <4>3
      <4>4. CASE requests'[m] = Append(requests[m], x)
        <5>1. \/ i \in DOMAIN requests[m] /\ Append(requests[m], x)[i] = requests[m][i]
              \/ Append(requests[m], x)[i] = x
          BY <3>3, <4>1, <4>4, AppendFacts
        <5>2. QED
          BY <4>4, <5>1
      <4>5. QED
        BY <4>2, <4>3, <4>4
    <3>4. QED
      BY <1>1, <1>2, <3>2, <3>3, RequestStep DEF CarryInv
  <2>2. CASE ~CallLocal(c)
    <3>1. requests' = requests
      BY <2>2 DEF ROCCall, Locate, TakeSeq, CallRemote, CallBroadcast, CallFails,
                  Return, threads
    <3>2. QED
      BY <1>1, <1>2, <3>1, RequestStep DEF CarryInv
  <2>3. QED
    BY <2>1, <2>2
<1>8. LinkInv'
  <2>1. CASE CallRemote(c) \/ CallBroadcast(c)
    <3>1. call[c] = "numbered"
      BY <2>1 DEF CallRemote, CallBroadcast, Sends
    <3>2. ASSUME NEW k \in Conn, NEW m \in Module, NEW n \in Module
          PROVE  \A i \in DOMAIN link'[k][m][n] :
                    \/ \E j \in DOMAIN link[k][m][n] : link'[k][m][n][i] = link[k][m][n][j]
                    \/ \E x \in Message \cup Answer :
                            link'[k][m][n][i] = x /\ Sent(x, k, m, n)'
      <4>1. PICK x \in Message : x = Request(c, k) /\ Sent(x, k, m, n)'
        BY <1>6, <3>1
      <4>2. link'[k][m][n] = link[k][m][n] \/ link'[k][m][n] = Append(link[k][m][n], x)
        <5>1. CASE CallRemote(c)
          BY <1>2, <4>1, <5>1, RemoteLinks
        <5>2. CASE CallBroadcast(c)
          <6>1. \A l \in Conn, g, h \in Module :
                  \/ link'[l][g][h] = link[l][g][h]
                  \/ /\ g = From[c] /\ <<l, h>> \in Pool(g)
                     /\ link'[l][g][h] = Append(link[l][g][h], Request(c, l))
            BY <1>2, <5>2, BroadcastLinks
          <6>2. QED
            BY <4>1, <6>1
        <5>3. QED
          BY <2>1, <5>1, <5>2
      <4>3. link[k][m][n] \in Seq(Message \cup Answer)
        BY <1>2, LinkType
      <4>4. \A i \in DOMAIN link'[k][m][n] :
                \/ \E j \in DOMAIN link[k][m][n] : link'[k][m][n][i] = link[k][m][n][j]
                \/ link'[k][m][n][i] = x
        <5>1. \A i \in DOMAIN Append(link[k][m][n], x) :
                 \/ /\ i \in DOMAIN link[k][m][n]
                    /\ Append(link[k][m][n], x)[i] = link[k][m][n][i]
                 \/ Append(link[k][m][n], x)[i] = x
          BY <4>3, AppendFacts
        <5>2. QED
          BY <4>2, <5>1
      <4>5. QED
        BY <4>1, <4>4
    <3>3. QED
      BY <1>1, <1>2, <3>2, LinkStep DEF CarryInv
  <2>2. CASE ~CallRemote(c) /\ ~CallBroadcast(c)
    <3>1. link' = link
      BY <2>2 DEF ROCCall, Locate, TakeSeq, CallLocal, CallFails, Return
    <3>2. QED
      BY <1>1, <1>2, <3>1, LinkStep DEF CarryInv
  <2>3. QED
    BY <2>1, <2>2
<1>9. QED
  BY <1>4, <1>5, <1>7, <1>8 DEF CarryInv

LEMMA CarryReceive ==
    ASSUME IInv, [Next]_vars, NEW k \in Conn, NEW m \in Module, NEW n \in Module,
           OnRecvSubnetMsg(k, m, n)
    PROVE  CarryInv'
<1> DEFINE msg == Head(link[k][m][n])
<1>1. Kept
  BY Numbers DEF IInv
<1>2. TypeOK /\ CarryInv
  BY DEF IInv
<1>3. link[k][m][n] \in Seq(Message \cup Answer) /\ link[k][m][n] # <<>>
  BY <1>2 DEF TypeOK, OnRecvSubnetMsg
<1>4. PICK x \in Message \cup Answer : x = msg
  BY <1>3, TailFacts
<1>5. Sent(x, k, m, n)
  <2>1. x = link[k][m][n][1] /\ 1 \in DOMAIN link[k][m][n]
    BY <1>3, <1>4, TailFacts
  <2>2. QED
    BY <1>2, <2>1 DEF CarryInv, LinkInv
<1>6. Sent(x, k, m, n)'
  BY <1>1, <1>5, KeptSent
<1>7. /\ x.type = "SROCRequest" => x \in Message
      /\ x.type = "SROCResponse" => x \in Answer
  BY MessageFacts
<1>8. LinkInv'
  <2>1. PICK t : t = Tail(link[k][m][n]) /\ Cell(k, m, n, t)
    BY DEF OnRecvSubnetMsg, Cell
  <2>2. /\ link'[k][m][n] = t
        /\ \A l \in Conn, g, h \in Module :
             ~(l = k /\ g = m /\ h = n) => link'[l][g][h] = link[l][g][h]
    BY <1>2, <2>1, LinkCell
  <2>3. ASSUME NEW c \in Conn, NEW h \in Module, NEW l \in Module,
               NEW i \in DOMAIN link'[c][h][l]
        PROVE  \E j \in DOMAIN link[c][h][l] : link'[c][h][l][i] = link[c][h][l][j]
    <3>1. CASE c = k /\ h = m /\ l = n
      <4>1. link'[c][h][l] = t
        BY <2>2, <3>1
      <4>2. QED
        BY <1>3, <2>1, <2>3, <3>1, <4>1, TailFacts
    <3>2. CASE ~(c = k /\ h = m /\ l = n)
      <4>1. link'[c][h][l] = link[c][h][l]
        BY <2>2, <3>2
      <4>2. QED
        BY <2>3, <4>1
    <3>3. QED
      BY <3>1, <3>2
  <2>4. QED
    BY <1>1, <1>2, <2>3, LinkStep DEF CarryInv
<1>9. RequestInv'
  <2>1. \/ requests' = requests
        \/ /\ x \in Message
           /\ requests' = [requests EXCEPT ![n] = Append(@, x)]
    BY <1>4, <1>7 DEF OnRecvSubnetMsg
  <2>2. ASSUME NEW h \in Module, NEW i \in DOMAIN requests'[h]
        PROVE  \/ \E j \in DOMAIN requests[h] : requests'[h][i] = requests[h][j]
               \/ x \in Message /\ requests'[h][i] = x
    <3>1. requests[h] \in Seq(Message)
      BY <1>2 DEF TypeOK
    <3>2. \/ requests'[h] = requests[h]
          \/ x \in Message /\ requests'[h] = Append(requests[h], x)
      BY <1>2, <2>1 DEF TypeOK
    <3>3. QED
      BY <2>2, <3>1, <3>2, AppendFacts
  <2>3. Carries(x)'
    BY <1>6 DEF Sent
  <2>4. QED
    BY <1>1, <1>2, <2>2, <2>3, RequestStep DEF CarryInv
<1>10. ResponseInv'
  <2>1. \/ responses' = responses
        \/ /\ x \in Answer /\ x.type = "SROCResponse"
           /\ responses' = [responses EXCEPT ![n] = Append(@, x)]
    BY <1>4, <1>7 DEF OnRecvSubnetMsg
  <2>2. ASSUME NEW h \in Module, NEW i \in DOMAIN responses'[h]
        PROVE  \/ \E j \in DOMAIN responses[h] : responses'[h][i] = responses[h][j]
               \/ x \in Answer /\ x.type = "SROCResponse" /\ h = n /\ responses'[h][i] = x
    <3>1. responses[h] \in Seq(Answer)
      BY <1>2 DEF TypeOK
    <3>2. \/ responses'[h] = responses[h]
          \/ /\ x \in Answer /\ x.type = "SROCResponse" /\ h = n
             /\ responses'[h] = Append(responses[h], x)
      BY <1>2, <2>1 DEF TypeOK
    <3>3. QED
      BY <2>2, <3>1, <3>2, AppendFacts
  <2>3. x.type = "SROCResponse" => Own(x, n)'
    BY <1>6 DEF Sent, Own
  <2>4. QED
    BY <1>1, <1>2, <2>2, <2>3, ResponseStep DEF CarryInv
<1>11. AgentInv' /\ ChanInv'
  BY <1>1, <1>2, AgentStep, ChanStep DEF CarryInv, OnRecvSubnetMsg
<1>12. QED
  BY <1>8, <1>9, <1>10, <1>11 DEF CarryInv

LEMMA CarryRequest ==
    ASSUME IInv, [Next]_vars, NEW m \in Module, RequestProcess(m)
    PROVE  CarryInv'
<1> USE ROCCallAssumption
<1>1. Kept
  BY Numbers DEF IInv
<1>2. TypeOK /\ CarryInv
  BY DEF IInv
<1>3. PICK req \in ToSet(requests[m]) :
        /\ Takes(m, req)
        /\ \/ link' = link
           \/ \E err \in {"ErrUnknowObj", "error"} : Answers(m, req, err)
  BY DEF RequestProcess, ExecuteUnknown, ExecuteError, ExecuteSuccess
<1>4. responses' = responses /\ agent' = agent /\ blockChan' = blockChan
  BY DEF RequestProcess, ExecuteUnknown, ExecuteError, ExecuteSuccess
<1>5. /\ req \in Message /\ req.call \in Call /\ req.seq \in Seqs
      /\ req = requests[m][1] /\ 1 \in DOMAIN requests[m]
      /\ requests[m] \in Seq(Message) /\ requests[m] # <<>>
      /\ requests' = [requests EXCEPT ![m] = Tail(@)]
  BY <1>2, <1>3, TakenFacts, MessageFacts
<1>6. Carries(req)
  BY <1>2, <1>5 DEF CarryInv, RequestInv
<1>7. RequestInv'
  <2>1. ASSUME NEW k \in Module, NEW i \in DOMAIN requests'[k]
        PROVE  \E j \in DOMAIN requests[k] : requests'[k][i] = requests[k][j]
    <3>1. CASE k = m
      <4>1. requests'[k] = Tail(requests[m])
        BY <1>2, <1>5, <3>1 DEF TypeOK
      <4>2. QED
        BY <1>5, <2>1, <3>1, <4>1, TailFacts
    <3>2. CASE k # m
      BY <1>2, <1>5, <2>1, <3>2 DEF TypeOK
    <3>3. QED
      BY <3>1, <3>2
  <2>2. QED
    BY <1>1, <1>2, <2>1, RequestStep DEF CarryInv
<1>8. LinkInv'
  <2>1. CASE link' = link
    BY <1>1, <1>2, <2>1, LinkStep DEF CarryInv
  <2>2. ASSUME NEW err \in {"ErrUnknowObj", "error"}, Answers(m, req, err), link' # link
        PROVE  LinkInv'
    <3> DEFINE h == From[req.call]
    <3>1. h \in Module /\ NeedReturn[req.call] /\ "named" \in Conn
      BY <1>5, <2>2, MessageFacts DEF Answers
    <3>2. PICK x \in Answer : x = Response(req.call, m, req.seq, err)
      BY <1>5, MessageFacts
    <3>3. x.call = req.call /\ x.seq = req.seq /\ x.from = m
      BY <3>2 DEF Response
    <3>4. Sent(x, "named", m, h)
      BY <1>6, <3>1, <3>3 DEF Carries, Sent, Own
    <3>5. Sent(x, "named", m, h)'
      BY <1>1, <3>1, <3>4, KeptSent
    <3>6. link' = [link EXCEPT !["named"][m][h] = Append(@, x)]
      BY <2>2, <3>2 DEF Answers
    <3> HIDE DEF h
    <3>7. ASSUME NEW k \in Conn, NEW l \in Module, NEW n \in Module
          PROVE  \/ link'[k][l][n] = link[k][l][n]
                 \/ /\ k = "named" /\ l = m /\ n = h
                    /\ link'[k][l][n] = Append(link[k][l][n], x)
      <4>1. PICK c \in Conn, o \in Module : c = "named" /\ o = h
        BY <3>1
      <4>2. PICK t : t = Append(link[c][m][o], x) /\ Cell(c, m, o, t)
        BY <3>6, <4>1 DEF Cell
      <4>3. /\ link'[c][m][o] = t
            /\ \A f \in Conn, g, i \in Module :
                 ~(f = c /\ g = m /\ i = o) => link'[f][g][i] = link[f][g][i]
        <5>1. TypeOK /\ Cell(c, m, o, t)
          BY <1>2, <4>2
        <5>2. QED
          BY ONLY <5>1, LinkCell, m \in Module, c \in Conn, o \in Module
      <4>4. QED
        BY <4>1, <4>2, <4>3
    <3>8. ASSUME NEW k \in Conn, NEW l \in Module, NEW n \in Module,
                 NEW i \in DOMAIN link'[k][l][n]
          PROVE  \/ \E j \in DOMAIN link[k][l][n] : link'[k][l][n][i] = link[k][l][n][j]
                 \/ k = "named" /\ l = m /\ n = h /\ link'[k][l][n][i] = x
      <4>1. link[k][l][n] \in Seq(Message \cup Answer)
        BY <1>2 DEF TypeOK
      <4>2. x \in Message \cup Answer
        BY <3>2
      <4>3. \A j \in DOMAIN Append(link[k][l][n], x) :
               \/ j \in DOMAIN link[k][l][n]
                  /\ Append(link[k][l][n], x)[j] = link[k][l][n][j]
               \/ Append(link[k][l][n], x)[j] = x
        BY <4>1, <4>2, AppendFacts
      <4>4. QED
        BY <3>7, <3>8, <4>3
    <3>9. QED
      BY <1>1, <1>2, <3>2, <3>5, <3>8, LinkStep DEF CarryInv
  <2>3. QED
    BY <1>3, <2>1, <2>2
<1>9. ResponseInv' /\ AgentInv' /\ ChanInv'
  BY <1>1, <1>2, <1>4, ResponseStep, AgentStep, ChanStep DEF CarryInv
<1>10. QED
  BY <1>7, <1>8, <1>9 DEF CarryInv

LEMMA CarryResponse ==
    ASSUME IInv, [Next]_vars, NEW m \in Module, ResponseProcess(m)
    PROVE  CarryInv'
<1>1. Kept
  BY Numbers DEF IInv
<1>2. TypeOK /\ CarryInv
  BY DEF IInv
<1>3. link' = link /\ requests' = requests
  BY DEF ResponseProcess, TakeResponse, WriteResponse
<1>4. LinkInv' /\ RequestInv'
  BY <1>1, <1>2, <1>3, LinkStep, RequestStep DEF CarryInv
<1>5. CASE TakeResponse(m)
  <2>1. responses[m] \in Seq(Answer) /\ responses[m] # <<>>
    BY <1>2, <1>5 DEF TypeOK, TakeResponse
  <2>2. PICK x \in Answer : x = Head(responses[m])
    BY <2>1, TailFacts
  <2>3. Own(x, m)'
    <3>1. x = responses[m][1] /\ 1 \in DOMAIN responses[m]
      BY <2>1, <2>2, TailFacts
    <3>2. Own(x, m)
      BY <1>2, <3>1 DEF CarryInv, ResponseInv
    <3>3. QED
      BY <1>1, <3>2, KeptSent
  <2>4. /\ responses' = [responses EXCEPT ![m] = Tail(@)]
        /\ \E v \in {None, x} : agent' = [agent EXCEPT ![m] = v]
        /\ blockChan' = blockChan
    BY <1>5, <2>2 DEF TakeResponse
  <2>5. ResponseInv'
    <3>1. ASSUME NEW k \in Module, NEW i \in DOMAIN responses'[k]
          PROVE  \E j \in DOMAIN responses[k] : responses'[k][i] = responses[k][j]
      <4>1. CASE k = m
        <5>1. responses'[k] = Tail(responses[m])
          BY <1>2, <2>4, <4>1 DEF TypeOK
        <5>2. QED
          BY <2>1, <3>1, <4>1, <5>1, TailFacts
      <4>2. CASE k # m
        BY <1>2, <2>4, <3>1, <4>2 DEF TypeOK
      <4>3. QED
        BY <4>1, <4>2
    <3>2. QED
      BY <1>1, <1>2, <3>1, ResponseStep DEF CarryInv
  <2>6. \A k \in Module :
            \/ agent'[k] \in {agent[k], None}
            \/ k = m /\ agent'[k] = x
    BY <1>2, <2>4 DEF TypeOK
  <2>7. AgentInv'
    BY <1>1, <1>2, <2>3, <2>6, AgentStep DEF CarryInv
  <2>8. ChanInv'
    BY <1>1, <1>2, <2>4, ChanStep DEF CarryInv
  <2>9. QED
    BY <1>4, <2>5, <2>7, <2>8 DEF CarryInv
<1>6. CASE WriteResponse(m)
  <2>1. PICK x \in Answer : x = agent[m] /\ agent[m] # None
    BY <1>2, <1>6 DEF TypeOK, WriteResponse
  <2>2. x.seq \in Seqs /\ Own(x, m)
    BY <1>2, <2>1, MessageFacts DEF CarryInv, AgentInv
  <2>3. Own(x, m)'
    BY <1>1, <2>2, KeptSent
  <2>4. /\ blockChan' = [blockChan EXCEPT ![m][x.seq] = <<x>>]
        /\ agent' = [agent EXCEPT ![m] = None]
        /\ responses' = responses
    BY <1>6, <2>1 DEF WriteResponse
  <2>5. ASSUME NEW k \in Module, NEW s \in Seqs
        PROVE  \/ blockChan'[k][s] = blockChan[k][s]
               \/ k = m /\ s = x.seq /\ blockChan'[k][s] = <<x>>
    BY <1>2, <2>2, <2>4 DEF TypeOK
  <2>6. ChanInv'
    BY <1>1, <1>2, <2>3, <2>5, ChanStep DEF CarryInv
  <2>7. \A k \in Module : agent'[k] \in {agent[k], None}
    BY <1>2, <2>4 DEF TypeOK
  <2>8. ResponseInv' /\ AgentInv'
    BY <1>1, <1>2, <2>4, <2>7, ResponseStep, AgentStep DEF CarryInv
  <2>9. QED
    BY <1>4, <2>6, <2>8 DEF CarryInv
<1>7. QED
  BY <1>5, <1>6 DEF ResponseProcess
-----------------------------------------------------------------------------
(* The theorems.                                                           *)

LEMMA StepInv == IInv /\ [Next]_vars => IInv'
<1> SUFFICES ASSUME IInv, [Next]_vars
             PROVE  IInv'
  OBVIOUS
<1>1. TypeOK'
  BY TypeCall, TypeRest DEF IInv
<1>2. CountInv' /\ NumberInv' /\ WaitInv' /\ Kept
  BY Numbers, Waits DEF IInv
<1>3. CarryInv'
  <2>1. CASE UNCHANGED <<link, threads, blockChan>>
    BY <1>2, <2>1, LinkStep, RequestStep, ResponseStep, AgentStep, ChanStep
       DEF IInv, CarryInv, threads
  <2>2. \/ \E c \in Call : ROCCall(c)
        \/ \E k \in Conn, m, n \in Module : OnRecvSubnetMsg(k, m, n)
        \/ \E m \in Module : RequestProcess(m) \/ ResponseProcess(m)
        \/ UNCHANGED <<link, threads, blockChan>>
    BY DEF Next, vars, Rebind, DelObj
  <2>3. QED
    BY <2>1, <2>2, CarryCall, CarryReceive, CarryRequest, CarryResponse
<1>4. QED
  BY <1>1, <1>2, <1>3 DEF IInv

(* Who returns took the answer from the channel of its own number. *)
LEMMA StepOwn == IInv /\ OwnAnswer /\ [Next]_vars => OwnAnswer'
<1> SUFFICES ASSUME IInv, OwnAnswer, [Next]_vars
             PROVE  OwnAnswer'
  OBVIOUS
<1> USE ROCCallAssumption
<1>1. ASSUME NEW c \in Call, Return(c)
      PROVE  OwnAnswer'
  <2>1. PICK x \in Answer : blockChan[From[c]][seq[c]] = <<x>> /\ Head(<<x>>) = x
    BY <1>1, ReturnChannel DEF IInv
  <2>2. Numbered(c) /\ result' = [result EXCEPT ![c] = x]
    BY <1>1, <2>1, ReturnChannel DEF IInv, Return
  <2>3. From[c] \in Module /\ seq[c] \in Seqs /\ x.call \in Call
    BY MessageFacts DEF IInv, TypeOK
  <2>4. Carries(x) /\ From[x.call] = From[c] /\ x.seq = seq[c]
    BY <2>1, <2>3 DEF IInv, CarryInv, ChanInv, Own
  <2>5. Numbered(x.call) /\ seq[x.call] = seq[c]
    BY <2>4 DEF Carries
  <2>6. x.call = c
    BY <2>2, <2>3, <2>4, <2>5 DEF IInv, NumberInv
  <2>7. QED
    BY <2>2, <2>6 DEF OwnAnswer, IInv, TypeOK
<1>2. CASE result' = result
  BY <1>2 DEF OwnAnswer
<1>3. (\E c \in Call : Return(c)) \/ result' = result
  BY DEF Next, vars, caller, ROCCall, Locate, TakeSeq, CallLocal, CallRemote,
         CallBroadcast, CallFails, OnRecvSubnetMsg, RequestProcess, ResponseProcess,
         ExecuteUnknown, ExecuteError, ExecuteSuccess, TakeResponse, WriteResponse,
         Rebind, DelObj
<1>4. QED
  BY <1>1, <1>2, <1>3

(* ROCCall keeps its types; the channel of a call never holds two answers.  *)
THEOREM ROCCallTypes == Spec => []TypeOK
<1>1. IInv => TypeOK
  BY DEF IInv
<1>2. QED
  BY InitInv, StepInv, <1>1, PTL DEF Spec

(* ROCCallBlock returns the answer to its own call, in every module, for    *)
(* any calls of any goroutines, whatever answers are late or come twice.    *)
THEOREM ROCCallOwn == Spec => []OwnAnswer
<1>1. QED
  BY InitInv, StepInv, StepOwn, PTL DEF Spec
-----------------------------------------------------------------------------
(* The way of a request.                                                   *)

Unsent(c) == call[c] \in {"new", "located", "numbered"}
(* A call c may be broadcast to n by the connection k. *)
Far(c, k, n) == k = "second" => location[c] = None /\ <<From[c], n>> \in Second

(* What a module does to the requests: it sends its own, *)
SendsTo(e, k, m, n) ==
    /\ m = From[e] /\ m # n /\ Far(e, k, n)
    /\ link'[k][m][n] = Append(link[k][m][n], Request(e, k))
LEMMA CallMoves ==
    ASSUME TypeOK, NEW e \in Call, ROCCall(e)
    PROVE  /\ UNCHANGED <<executed, objPool, responses, agent, down>>
           /\ \A c \in Call : c # e => call'[c] = call[c] /\ location'[c] = location[c]
           /\ call[e] # "new" => location'[e] = location[e]
           /\ call[e] \notin Ended /\ call'[e] # "new"
           /\ call[e] = "new" => \A c \in Before[e] : call[c] \in Ended
           /\ \/ UNCHANGED <<link, requests>> /\ (Unsent(e)' => Unsent(e))
              \/ /\ call[e] = "numbered" /\ call'[e] \in {"waiting", "returned"}
                 /\ \A k \in Conn, m, n \in Module :
                      link'[k][m][n] = link[k][m][n] \/ SendsTo(e, k, m, n)
                 /\ \A m \in Module :
                      \/ requests'[m] = requests[m]
                      \/ /\ m = From[e]
                         /\ requests'[m] = Append(requests[m], Request(e, "named"))
<1> USE ROCCallAssumption
<1>1. UNCHANGED <<executed, objPool, responses, agent, down>>
  BY DEF ROCCall, Locate, TakeSeq, CallLocal, CallRemote, CallBroadcast, CallFails,
         Return, objects, threads
<1>2. CASE Locate(e)
  <2>1. /\ call' = [call EXCEPT ![e] = "located"] /\ call[e] = "new"
        /\ \A c \in Before[e] : call[c] \in Ended
        /\ \E l : location' = [location EXCEPT ![e] = l]
        /\ UNCHANGED <<link, requests>>
    BY <1>2 DEF Locate, threads
  <2>2. QED
    BY <1>1, <2>1 DEF TypeOK, Ended, Unsent
<1>3. CASE TakeSeq(e) \/ CallFails(e) \/ Return(e)
  <2>1. /\ call[e] \in {"located", "numbered", "waiting"}
        /\ \E s \in {"numbered", "failed", "returned"} :
             /\ call' = [call EXCEPT ![e] = s]
             /\ s = "numbered" => call[e] = "located"
        /\ UNCHANGED <<link, requests, location>>
    BY <1>3 DEF TakeSeq, CallFails, Return, Sends, threads
  <2>2. QED
    BY <1>1, <2>1 DEF TypeOK, Ended, Unsent
<1>4. ASSUME CallLocal(e) \/ CallRemote(e) \/ CallBroadcast(e)
      PROVE  /\ location' = location
             /\ \A c \in Call : c # e => call'[c] = call[c]
             /\ call[e] = "numbered" /\ call'[e] \in {"waiting", "returned"}
             /\ \A k \in Conn, m, n \in Module :
                  link'[k][m][n] = link[k][m][n] \/ SendsTo(e, k, m, n)
             /\ \A m \in Module :
                  \/ requests'[m] = requests[m]
                  \/ /\ m = From[e]
                     /\ requests'[m] = Append(requests[m], Request(e, "named"))
  <2>1. /\ location' = location /\ call[e] = "numbered"
        /\ call' = [call EXCEPT ![e] = IF NeedReturn[e] THEN "waiting" ELSE "returned"]
    BY <1>4 DEF CallLocal, CallRemote, CallBroadcast, Sends, AfterSend
  <2>2. ASSUME NEW k \in Conn, NEW m \in Module, NEW n \in Module
        PROVE  link'[k][m][n] = link[k][m][n] \/ SendsTo(e, k, m, n)
    <3>1. CASE CallLocal(e)
      BY <3>1 DEF CallLocal
    <3>2. CASE CallRemote(e)
      <4>1. \A l \in Conn, g, h \in Module :
              \/ link'[l][g][h] = link[l][g][h]
              \/ /\ l = "named" /\ g = From[e] /\ h # g /\ h = location[e]
                 /\ link'[l][g][h] = Append(link[l][g][h], Request(e, l))
        BY <3>2, RemoteLinks
      <4>2. QED
        BY <4>1 DEF SendsTo, Far
    <3>3. CASE CallBroadcast(e)
      <4>1. \A l \in Conn, g, h \in Module :
              \/ link'[l][g][h] = link[l][g][h]
              \/ /\ g = From[e] /\ <<l, h>> \in Pool(g)
                 /\ link'[l][g][h] = Append(link[l][g][h], Request(e, l))
        BY <3>3, BroadcastLinks
      <4>2. location[e] = None
        BY <3>3 DEF CallBroadcast
      <4>3. <<k, n>> \in Pool(m) =>
              m # n /\ (k = "second" => <<m, n>> \in Second)
        BY DEF Pool
      <4>4. QED
        BY <4>1, <4>2, <4>3 DEF SendsTo, Far
    <3>4. QED
      BY <1>4, <3>1, <3>2, <3>3
  <2>3. ASSUME NEW m \in Module
        PROVE  \/ requests'[m] = requests[m]
               \/ /\ m = From[e]
                  /\ requests'[m] = Append(requests[m], Request(e, "named"))
    <3>1. CASE CallLocal(e)
      BY <3>1 DEF CallLocal, TypeOK
    <3>2. CASE CallRemote(e) \/ CallBroadcast(e)
      BY <3>2 DEF CallRemote, CallBroadcast, threads
    <3>3. QED
      BY <1>4, <3>1, <3>2
  <2>4. /\ \A c \in Call : c # e => call'[c] = call[c]
        /\ call'[e] \in {"waiting", "returned"}
    BY <2>1 DEF TypeOK
  <2>5. QED
    BY <2>1, <2>2, <2>3, <2>4
<1>5. CASE CallLocal(e) \/ CallRemote(e) \/ CallBroadcast(e)
  BY <1>1, <1>4, <1>5 DEF Ended
<1>6. QED
  BY <1>2, <1>3, <1>5 DEF ROCCall

(* it queues those that it receives, *)
LEMMA ReceiveMoves ==
    ASSUME TypeOK, NEW k \in Conn, NEW m \in Module, NEW n \in Module,
           OnRecvSubnetMsg(k, m, n)
    PROVE  /\ UNCHANGED <<call, location, executed, objPool, seq, result, blockChan,
                          agent, down>>
           /\ link[k][m][n] \in Seq(Message \cup Answer) /\ link[k][m][n] # <<>>
           /\ Head(link[k][m][n]) \in Message \cup Answer
           /\ link'[k][m][n] = Tail(link[k][m][n])
           /\ \A l \in Conn, g, h \in Module :
                ~(l = k /\ g = m /\ h = n) => link'[l][g][h] = link[l][g][h]
           /\ \A l \in Module : l # n => UNCHANGED <<requests[l], responses[l]>>
           /\ \/ /\ Head(link[k][m][n]) \in Message
                 /\ requests'[n] = Append(requests[n], Head(link[k][m][n]))
                 /\ responses'[n] = responses[n]
              \/ /\ Head(link[k][m][n]) \in Answer
                 /\ responses'[n] = Append(responses[n], Head(link[k][m][n]))
                 /\ requests'[n] = requests[n]
<1>1. /\ UNCHANGED <<call, location, executed, objPool, seq, result, blockChan, agent, down>>
      /\ link[k][m][n] # <<>>
  BY DEF OnRecvSubnetMsg, caller, objects
<1>2. link[k][m][n] \in Seq(Message \cup Answer)
  BY LinkType
<1>3. PICK x \in Message \cup Answer : x = Head(link[k][m][n])
  BY <1>1, <1>2, TailFacts
<1>4. PICK t : t = Tail(link[k][m][n]) /\ Cell(k, m, n, t)
  BY DEF OnRecvSubnetMsg, Cell
<1>5. /\ link'[k][m][n] = t
      /\ \A l \in Conn, g, h \in Module :
           ~(l = k /\ g = m /\ h = n) => link'[l][g][h] = link[l][g][h]
  BY <1>4, LinkCell
<1>6. \/ /\ x.type = "SROCRequest" /\ responses' = responses
         /\ requests' = [requests EXCEPT ![n] = Append(@, x)]
      \/ /\ x.type = "SROCResponse" /\ requests' = requests
         /\ responses' = [responses EXCEPT ![n] = Append(@, x)]
  BY <1>3 DEF OnRecvSubnetMsg
<1>7. (x.type = "SROCRequest" => x \in Message) /\ (x.type = "SROCResponse" => x \in Answer)
  BY MessageFacts
<1>8. /\ \A l \in Module : l # n => UNCHANGED <<requests[l], responses[l]>>
      /\ \/ /\ x \in Message
            /\ requests'[n] = Append(requests[n], x)
            /\ responses'[n] = responses[n]
         \/ /\ x \in Answer
            /\ responses'[n] = Append(responses[n], x)
            /\ requests'[n] = requests[n]
  BY <1>6, <1>7 DEF TypeOK
<1>9. QED
  BY <1>1, <1>2, <1>3, <1>4, <1>5, <1>8

(* and it takes the first one of its queue, executes it or not, and sends   *)
(* nothing but its answer.                                                 *)
Executes(m, req, err) ==
    /\ UNCHANGED <<call, location, objPool, seq, result, blockChan, responses, agent>>
    /\ req \in Message /\ req.call \in Call
    /\ requests[m] \in Seq(Message) /\ requests[m] # <<>>
    /\ req = Head(requests[m])
    /\ requests'[m] = Tail(requests[m])
    /\ \A l \in Module : l # m =>
         UNCHANGED <<requests[l], executed[l], down[l]>>
    /\ err = "ErrUnknowObj" =>
         Target[req.call] \notin objPool[m] /\ executed'[m] = executed[m]
    /\ err # "ErrUnknowObj" =>
         /\ Target[req.call] \in objPool[m]
         /\ executed'[m] = Append(executed[m], CopyOf(req))
    /\ err \in {"ErrUnknowObj", "error"} =>
         \A k \in Conn, g, h \in Module :
           IF /\ k = "named" /\ g = m /\ h = From[req.call] /\ h # m
              /\ NeedReturn[req.call]
           THEN link'[k][g][h] = Append(link[k][g][h], Response(req.call, m, req.seq, err))
           ELSE link'[k][g][h] = link[k][g][h]
    /\ err \notin {"ErrUnknowObj", "error"} =>
         link' = link /\ (NeedReturn[req.call] /\ From[req.call] # m => down'[m])
    /\ ~down[m]
LEMMA AnswersMoves ==
    ASSUME TypeOK, NEW m \in Module, NEW req \in Message,
           NEW err \in {"ErrUnknowObj", "error"}, Answers(m, req, err)
    PROVE  \A k \in Conn, g, h \in Module :
             IF /\ k = "named" /\ g = m /\ h = From[req.call] /\ h # m
                /\ NeedReturn[req.call]
             THEN link'[k][g][h] = Append(link[k][g][h], Response(req.call, m, req.seq, err))
             ELSE link'[k][g][h] = link[k][g][h]
<1>1. CASE NeedReturn[req.call] /\ From[req.call] # m
  <2>1. PICK c \in Conn, o \in Module : c = "named" /\ o = From[req.call]
    BY MessageFacts, ROCCallAssumption
  <2>2. PICK t : /\ t = Append(link[c][m][o], Response(req.call, m, req.seq, err))
                 /\ Cell(c, m, o, t)
    BY <1>1, <2>1 DEF Answers, Cell
  <2>3. /\ link'[c][m][o] = t
        /\ \A l \in Conn, g, h \in Module :
             ~(l = c /\ g = m /\ h = o) => link'[l][g][h] = link[l][g][h]
    <3>1. TypeOK /\ Cell(c, m, o, t)
      BY <2>2
    <3>2. QED
      BY ONLY <3>1, LinkCell, m \in Module, c \in Conn, o \in Module
  <2>4. ASSUME NEW k \in Conn, NEW g \in Module, NEW h \in Module
        PROVE  IF /\ k = "named" /\ g = m /\ h = From[req.call] /\ h # m
                  /\ NeedReturn[req.call]
               THEN link'[k][g][h] =
                      Append(link[k][g][h], Response(req.call, m, req.seq, err))
               ELSE link'[k][g][h] = link[k][g][h]
    <3>1. CASE k = c /\ g = m /\ h = o
      BY <1>1, <2>1, <2>2, <2>3, <3>1
    <3>2. CASE ~(k = c /\ g = m /\ h = o)
      BY <2>1, <2>3, <3>2
    <3>3. QED
      BY <3>1, <3>2
  <2>5. QED
    BY <2>4
<1>2. CASE ~(NeedReturn[req.call] /\ From[req.call] # m)
  BY <1>2 DEF Answers
<1>3. QED
  BY <1>1, <1>2
LEMMA ExecuteMoves ==
    ASSUME TypeOK, NEW m \in Module, RequestProcess(m)
    PROVE  \E req \in Message, err \in {"ErrUnknowObj", "error", "none"} :
             Executes(m, req, err)
<1>1. PICK req \in ToSet(requests[m]), err \in {"ErrUnknowObj", "error", "none"} :
        /\ Takes(m, req)
        /\ UNCHANGED <<objects, caller, blockChan, responses, agent>>
        /\ err = "none" => /\ link' = link
                           /\ down' = [down EXCEPT ![m] =
                                NeedReturn[req.call] /\ From[req.call] # m]
        /\ err # "none" => Answers(m, req, err) /\ down' = down
        /\ err = "ErrUnknowObj" => Target[req.call] \notin objPool[m] /\ executed' = executed
        /\ err # "ErrUnknowObj" =>
             /\ Target[req.call] \in objPool[m]
             /\ executed' = [executed EXCEPT ![m] = Append(@, CopyOf(req))]
  BY DEF RequestProcess, ExecuteUnknown, ExecuteError, ExecuteSuccess
<1>2. /\ req \in Message /\ req.call \in Call
      /\ requests[m] \in Seq(Message) /\ requests[m] # <<>>
      /\ req = Head(requests[m]) /\ ~down[m]
      /\ requests' = [requests EXCEPT ![m] = Tail(@)]
  BY <1>1, TakenFacts, MessageFacts DEF Takes
<1>3. /\ requests'[m] = Tail(requests[m])
      /\ \A l \in Module : l # m => requests'[l] = requests[l]
  BY <1>2 DEF TypeOK
<1>4. /\ \A l \in Module : l # m => UNCHANGED <<executed[l], down[l]>>
      /\ err = "ErrUnknowObj" => executed'[m] = executed[m]
      /\ err # "ErrUnknowObj" => executed'[m] = Append(executed[m], CopyOf(req))
      /\ err = "none" => (NeedReturn[req.call] /\ From[req.call] # m => down'[m])
  BY <1>1 DEF TypeOK
<1>5. ASSUME err # "none"
      PROVE  \A k \in Conn, g, h \in Module :
               IF /\ k = "named" /\ g = m /\ h = From[req.call] /\ h # m
                  /\ NeedReturn[req.call]
               THEN link'[k][g][h] =
                      Append(link[k][g][h], Response(req.call, m, req.seq, err))
               ELSE link'[k][g][h] = link[k][g][h]
  <2>1. req \in Message /\ err \in {"ErrUnknowObj", "error"} /\ Answers(m, req, err)
    BY <1>1, <1>2, <1>5
  <2>2. QED
    BY <2>1, AnswersMoves
<1>6. UNCHANGED <<call, location, objPool, seq, result, blockChan, responses, agent>>
  BY <1>1 DEF objects, caller
<1>7. Executes(m, req, err)
  BY <1>1, <1>2, <1>3, <1>4, <1>5, <1>6 DEF Executes
<1>8. QED
  BY <1>2, <1>7

-----------------------------------------------------------------------------
(* The order of the requests of one goroutine, and that each is sent once.  *)

Asks(x, p) == x.type = "SROCRequest" /\ x.call = p.call /\ x.conn = p.conn
Holds(msgs, p) == \E i \in DOMAIN msgs : Asks(msgs[i], p)
Ahead(msgs, p, q) ==
    \A i, j \in DOMAIN msgs : Asks(msgs[i], p) /\ Asks(msgs[j], q) => i <= j
DoneAhead(copies, p, q) ==
    \A i, j \in DOMAIN copies : copies[i] = p /\ copies[j] = q => i <= j

(* No module has the copy p, *)
Nowhere(p) ==
    \A n \in Module :
        /\ \A k \in Conn, m \in Module : ~Holds(link[k][m][n], p)
        /\ ~Holds(requests[n], p)
        /\ p \notin ToSet(executed[n])
(* It comes before q, or is q. *)
Precedes(p, q) == p = q \/ (p.call \in Before[q.call] /\ p.conn = q.conn)

(* A goroutine begins a call when the ones before it ended.                 *)
BeforeInv ==
    \A d \in Call : \A c \in Before[d] : call[d] # "new" => call[c] \in Ended /\ c # d
(* No module has a request that was not sent yet.                           *)
SentInv == \A p \in Copy : Unsent(p.call) => Nowhere(p)
(* Requests come from their caller, by a connection that the call may use,  *)
(* and those of a module itself by none.                                    *)
RouteInv ==
    \A n \in Module, p \in Copy :
        /\ \A k \in Conn, m \in Module : Holds(link[k][m][n], p) =>
             k = p.conn /\ m = From[p.call] /\ m # n /\ Far(p.call, p.conn, n)
        /\ Holds(requests[n], p) => Far(p.call, p.conn, n)
        /\ p \in ToSet(executed[n]) => Far(p.call, p.conn, n)
(* On each part of the way the request of the earlier call is ahead, and it *)
(* has not been overtaken by one that is further; the same request is at    *)
(* one place only.                                                          *)
QueueInv ==
    \A m \in Module : \A p, q \in Copy : Precedes(p, q) =>
        /\ Ahead(link[q.conn][From[q.call]][m], p, q)
        /\ Ahead(requests[m], p, q)
        /\ DoneAhead(executed[m], p, q)
        /\ Holds(link[q.conn][From[q.call]][m], p) =>
             ~Holds(requests[m], q) /\ q \notin ToSet(executed[m])
        /\ Holds(requests[m], p) => q \notin ToSet(executed[m])
WayInv == BeforeInv /\ SentInv /\ RouteInv /\ QueueInv

LEMMA CopyFacts ==
    /\ \A p \in Copy : p.call \in Call /\ p.conn \in Conn /\ From[p.call] \in Module
    /\ \A p, q \in Copy : Precedes(p, q) => p.conn = q.conn /\ From[p.call] = From[q.call]
    /\ \A x \in Message : CopyOf(x) \in Copy /\ \A p \in Copy : Asks(x, p) <=> p = CopyOf(x)
    /\ \A x \in Answer, p \in Copy : ~Asks(x, p)
<1>1. \A p \in Copy : p.call \in Call /\ p.conn \in Conn /\ From[p.call] \in Module
  BY ROCCallAssumption DEF Copy
<1>2. \A p, q \in Copy : Precedes(p, q) => p.conn = q.conn /\ From[p.call] = From[q.call]
  BY <1>1, BeforeAssumption DEF Precedes
<1>3. ASSUME NEW x \in Message
      PROVE  CopyOf(x) \in Copy /\ \A p \in Copy : Asks(x, p) <=> p = CopyOf(x)
  <2>1. CopyOf(x) \in Copy /\ x.type = "SROCRequest"
    BY MessageFacts
  <2>2. \A p \in Copy : p = [call |-> p.call, conn |-> p.conn]
    BY DEF Copy
  <2>3. ASSUME NEW p \in Copy
        PROVE  Asks(x, p) <=> p = CopyOf(x)
    <3>1. Asks(x, p) => p = CopyOf(x)
      BY <2>2 DEF Asks, CopyOf
    <3>2. p = CopyOf(x) => Asks(x, p)
      BY <2>1 DEF Asks, CopyOf
    <3>3. QED
      BY <3>1, <3>2
  <2>4. QED
    BY <2>1, <2>3
<1>4. \A x \in Answer, p \in Copy : ~Asks(x, p)
  BY MessageFacts DEF Asks
<1>5. QED
  BY <1>1, <1>2, <1>3, <1>4

LEMMA AppendHolds ==
    ASSUME NEW S, NEW s \in Seq(S), NEW x \in S, NEW p
    PROVE  /\ Holds(Append(s, x), p) <=> Holds(s, p) \/ Asks(x, p)
           /\ \A q : Ahead(s, p, q) /\ (Asks(x, p) => ~Holds(s, q))
                     => Ahead(Append(s, x), p, q)
<1> DEFINE t == Append(s, x)
           n == Len(s)
<1>1. /\ DOMAIN t = 1 .. n + 1 /\ DOMAIN s = 1 .. n /\ n \in Nat
      /\ t[n + 1] = x
      /\ \A i \in 1 .. n : t[i] = s[i]
  OBVIOUS
<1> HIDE DEF t, n
<1>2. Holds(t, p) <=> Holds(s, p) \/ Asks(x, p)
  BY <1>1 DEF Holds
<1>3. ASSUME NEW q, Ahead(s, p, q), Asks(x, p) => ~Holds(s, q)
      PROVE  Ahead(t, p, q)
  <2> SUFFICES ASSUME NEW i \in DOMAIN t, NEW j \in DOMAIN t,
                      Asks(t[i], p), Asks(t[j], q)
               PROVE  i <= j
    BY DEF Ahead
  <2>1. CASE j = n + 1
    BY <1>1, <2>1
  <2>2. CASE j # n + 1 /\ i = n + 1
    BY <1>1, <1>3, <2>2 DEF Holds
  <2>3. CASE i # n + 1 /\ j # n + 1
    BY <1>1, <1>3, <2>3 DEF Ahead
  <2>4. QED
    BY <2>1, <2>2, <2>3
<1>4. QED
  BY <1>2, <1>3 DEF t

LEMMA TailHolds ==
    ASSUME NEW S, NEW s \in Seq(S), s # <<>>, NEW p
    PROVE  /\ Holds(s, p) <=> Asks(Head(s), p) \/ Holds(Tail(s), p)
           /\ \A q : Ahead(s, p, q) => Ahead(Tail(s), p, q)
           /\ \A q : Ahead(s, p, q) /\ Asks(Head(s), q) => ~Holds(Tail(s), p)
<1> DEFINE t == Tail(s)
           n == Len(s)
<1>1. /\ n \in Nat /\ n > 0 /\ DOMAIN s = 1 .. n /\ DOMAIN t = 1 .. n - 1
      /\ Head(s) = s[1]
      /\ \A i \in 1 .. n - 1 : t[i] = s[i + 1]
  OBVIOUS
<1> HIDE DEF t, n
<1>2. /\ \A i \in DOMAIN s : i # 1 => i - 1 \in DOMAIN t /\ t[i - 1] = s[i]
      /\ 1 \in DOMAIN s
      /\ \A i \in DOMAIN t : i \in Nat /\ i # 0 /\ i + 1 \in DOMAIN s /\ t[i] = s[i + 1]
  BY <1>1
<1>3. Holds(s, p) <=> Asks(Head(s), p) \/ Holds(t, p)
  BY <1>1, <1>2 DEF Holds
<1>4. ASSUME NEW q, Ahead(s, p, q)
      PROVE  Ahead(t, p, q)
  <2> SUFFICES ASSUME NEW i \in DOMAIN t, NEW j \in DOMAIN t,
                      Asks(t[i], p), Asks(t[j], q)
               PROVE  i <= j
    BY DEF Ahead
  <2>1. i + 1 <= j + 1
    BY <1>2, <1>4 DEF Ahead
  <2>2. QED
    BY <1>1, <2>1
<1>5. ASSUME NEW q, Ahead(s, p, q), Asks(Head(s), q)
      PROVE  ~Holds(t, p)
  <2> SUFFICES ASSUME NEW i \in DOMAIN t, Asks(t[i], p)
               PROVE  FALSE
    BY DEF Holds
  <2>1. i + 1 \in DOMAIN s /\ Asks(s[i + 1], p) /\ 1 \in DOMAIN s /\ Asks(s[1], q)
    BY <1>1, <1>2, <1>5
  <2>2. i + 1 <= 1
    BY <1>5, <2>1 DEF Ahead
  <2>3. QED
    BY <1>2, <2>2
<1>6. QED
  BY <1>3, <1>4, <1>5 DEF t

LEMMA AppendDone ==
    ASSUME NEW S, NEW s \in Seq(S), NEW x \in S
    PROVE  /\ ToSet(Append(s, x)) = ToSet(s) \cup {x}
           /\ \A p, q : DoneAhead(s, p, q) /\ (x = p => q \notin ToSet(s))
                        => DoneAhead(Append(s, x), p, q)
<1> DEFINE t == Append(s, x)
           n == Len(s)
<1>1. /\ DOMAIN t = 1 .. n + 1 /\ DOMAIN s = 1 .. n /\ n \in Nat
      /\ t[n + 1] = x
      /\ \A i \in 1 .. n : t[i] = s[i]
  OBVIOUS
<1> HIDE DEF t, n
<1>2. ToSet(t) = ToSet(s) \cup {x}
  BY <1>1 DEF ToSet
<1>3. ASSUME NEW p, NEW q, DoneAhead(s, p, q), x = p => q \notin ToSet(s)
      PROVE  DoneAhead(t, p, q)
  <2> SUFFICES ASSUME NEW i \in DOMAIN t, NEW j \in DOMAIN t, t[i] = p, t[j] = q
               PROVE  i <= j
    BY DEF DoneAhead
  <2>1. CASE j = n + 1
    BY <1>1, <2>1
  <2>2. CASE j # n + 1 /\ i = n + 1
    BY <1>1, <1>3, <2>2 DEF ToSet
  <2>3. CASE i # n + 1 /\ j # n + 1
    BY <1>1, <1>3, <2>3 DEF DoneAhead
  <2>4. QED
    BY <2>1, <2>2, <2>3
<1>4. QED
  BY <1>2, <1>3 DEF t

LEMMA NothingHolds ==
    \A p, q : ~Holds(<<>>, p) /\ Ahead(<<>>, p, q) /\ DoneAhead(<<>>, p, q) /\ ToSet(<<>>) = {}
BY DEF Holds, Ahead, DoneAhead, ToSet
LEMMA InitWay == Init => WayInv
<1> SUFFICES ASSUME Init
             PROVE  WayInv
  OBVIOUS
<1>1. /\ \A k \in Conn, m, n \in Module : link[k][m][n] = <<>>
      /\ \A m \in Module : requests[m] = <<>> /\ executed[m] = <<>>
      /\ \A c \in Call : call[c] = "new"
  BY DEF Init
<1>2. \A p \in Copy : Nowhere(p)
  BY <1>1, NothingHolds DEF Nowhere
<1>3. BeforeInv /\ SentInv
  BY <1>1, <1>2 DEF BeforeInv, SentInv
<1>4. RouteInv
  BY <1>1, NothingHolds DEF RouteInv
<1>5. QueueInv
  BY <1>1, NothingHolds, CopyFacts DEF QueueInv
<1>6. QED
  BY <1>3, <1>4, <1>5 DEF WayInv

LEMMA BeforeStep ==
    ASSUME BeforeInv, NEW e \in Call, \A d \in Call : d # e => call'[d] = call[d],
           call[e] \notin Ended, call'[e] # "new",
           call[e] = "new" => \A c \in Before[e] : call[c] \in Ended
    PROVE  BeforeInv'
<1> SUFFICES ASSUME NEW d \in Call, NEW c \in Before[d], call'[d] # "new"
             PROVE  call'[c] \in Ended /\ c # d
  BY DEF BeforeInv
<1>1. c \in Call
  BY ROCCallAssumption
<1>2. CASE d = e
  BY <1>1, <1>2 DEF BeforeInv
<1>3. CASE d # e
  BY <1>1, <1>3 DEF BeforeInv
<1>4. QED
  BY <1>2, <1>3

(* A call that sends nothing. *)
LEMMA StayWay ==
    ASSUME WayInv, NEW e \in Call, ROCCall(e), TypeOK,
           UNCHANGED <<link, requests>>, Unsent(e)' => Unsent(e)
    PROVE  WayInv'
<1>1. /\ executed' = executed
      /\ \A c \in Call : c # e => call'[c] = call[c] /\ location'[c] = location[c]
      /\ call[e] # "new" => location'[e] = location[e]
      /\ call[e] \notin Ended /\ call'[e] # "new"
      /\ call[e] = "new" => \A c \in Before[e] : call[c] \in Ended
  BY CallMoves
<1>2. BeforeInv'
  BY <1>1, BeforeStep DEF WayInv
<1>3. \A p \in Copy : (Unsent(p.call)' => Unsent(p.call)) /\ (Nowhere(p)' <=> Nowhere(p))
  BY <1>1, CopyFacts DEF Unsent, Nowhere
<1>4. SentInv'
  BY <1>3 DEF WayInv, SentInv
<1>5. RouteInv'
  <2>1. ASSUME NEW p \in Copy, ~Nowhere(p), NEW n \in Module
        PROVE  Far(p.call, p.conn, n)' <=> Far(p.call, p.conn, n)
    BY <1>1, <2>1, CopyFacts DEF WayInv, SentInv, Unsent, Far
  <2>2. ASSUME NEW n \in Module, NEW p \in Copy
        PROVE  /\ \A k \in Conn, m \in Module : Holds(link'[k][m][n], p) =>
                    k = p.conn /\ m = From[p.call] /\ m # n /\ Far(p.call, p.conn, n)'
               /\ Holds(requests'[n], p) => Far(p.call, p.conn, n)'
               /\ p \in ToSet(executed'[n]) => Far(p.call, p.conn, n)'
    <3>1. CASE Nowhere(p)
      BY <1>1, <3>1 DEF Nowhere
    <3>2. CASE ~Nowhere(p)
      BY <1>1, <2>1, <3>2 DEF WayInv, RouteInv
    <3>3. QED
      BY <3>1, <3>2
  <2>3. QED
    BY <2>2 DEF RouteInv
<1>6. QueueInv'
  BY <1>1 DEF WayInv, QueueInv
<1>7. QED
  BY <1>2, <1>4, <1>5, <1>6 DEF WayInv

LEMMA RequestAsks ==
    TypeOK => \A e \in Call, k \in Conn :
      /\ Request(e, k) \in Message
      /\ \A p : Asks(Request(e, k), p) => p.call = e /\ p.conn = k
<1>1. TypeOK => \A e \in Call, k \in Conn : Request(e, k) \in Message
  BY MessageFacts DEF TypeOK
<1>2. \A e, k, p : Asks(Request(e, k), p) => p.call = e /\ p.conn = k
  BY DEF Asks, Request
<1>3. QED
  BY <1>1, <1>2

(* A call that sends its request. *)
LEMMA SendWay ==
    ASSUME WayInv, NEW e \in Call, ROCCall(e), TypeOK,
           call[e] = "numbered", call'[e] \in {"waiting", "returned"},
           \A k \in Conn, m, n \in Module :
             link'[k][m][n] = link[k][m][n] \/ SendsTo(e, k, m, n),
           \A m \in Module :
             \/ requests'[m] = requests[m]
             \/ m = From[e] /\ requests'[m] = Append(requests[m], Request(e, "named"))
    PROVE  WayInv'
<1> USE ROCCallAssumption
<1>1. /\ executed' = executed
      /\ \A c \in Call : c # e => call'[c] = call[c]
      /\ location' = location
      /\ call[e] \notin Ended /\ call'[e] # "new"
  <2>1. /\ executed' = executed
        /\ \A c \in Call : c # e => call'[c] = call[c]
        /\ \A c \in Call : location'[c] = location[c]
        /\ call[e] \notin Ended /\ call'[e] # "new"
    BY CallMoves
  <2>2. location' = location
    BY DEF ROCCall, Locate, TakeSeq, CallLocal, CallRemote, CallBroadcast, CallFails, Return
  <2>3. QED
    BY <2>1, <2>2
<1>2. ASSUME NEW k \in Conn, NEW m \in Module, NEW n \in Module, NEW p \in Copy
      PROVE  /\ Holds(link'[k][m][n], p) =>
                  \/ Holds(link[k][m][n], p)
                  \/ p.call = e /\ p.conn = k /\ m = From[e] /\ m # n /\ Far(e, k, n)
             /\ \A q \in Copy : /\ Ahead(link[k][m][n], p, q)
                                /\ p.call = e => ~Holds(link[k][m][n], q)
                                => Ahead(link'[k][m][n], p, q)
  <2>1. PICK x \in Message : x = Request(e, k) /\ (Asks(x, p) => p.call = e /\ p.conn = k)
    BY MessageFacts, RequestAsks
  <2>2. link[k][m][n] \in Seq(Message \cup Answer) /\ x \in Message \cup Answer
    BY LinkType
  <2>3. /\ Holds(Append(link[k][m][n], x), p) <=> Holds(link[k][m][n], p) \/ Asks(x, p)
        /\ \A q : Ahead(link[k][m][n], p, q) /\ (Asks(x, p) => ~Holds(link[k][m][n], q))
                  => Ahead(Append(link[k][m][n], x), p, q)
    BY ONLY <2>2, AppendHolds
  <2>4. \/ link'[k][m][n] = link[k][m][n]
        \/ /\ m = From[e] /\ m # n /\ Far(e, k, n)
           /\ link'[k][m][n] = Append(link[k][m][n], x)
    BY <2>1 DEF SendsTo
  <2>5. QED
    BY <2>1, <2>3, <2>4
<1>3. ASSUME NEW m \in Module, NEW p \in Copy
      PROVE  /\ Holds(requests'[m], p) =>
                  \/ Holds(requests[m], p)
                  \/ p.call = e /\ p.conn = "named" /\ m = From[e]
             /\ \A q \in Copy : /\ Ahead(requests[m], p, q)
                                /\ p.call = e => ~Holds(requests[m], q)
                                => Ahead(requests'[m], p, q)
  <2>1. PICK x \in Message :
            /\ x = Request(e, "named")
            /\ Asks(x, p) => p.call = e /\ p.conn = "named"
    BY MessageFacts, RequestAsks
  <2>2. requests[m] \in Seq(Message)
    BY DEF TypeOK
  <2>3. /\ Holds(Append(requests[m], x), p) <=> Holds(requests[m], p) \/ Asks(x, p)
        /\ \A q : Ahead(requests[m], p, q) /\ (Asks(x, p) => ~Holds(requests[m], q))
                  => Ahead(Append(requests[m], x), p, q)
    BY <2>2, AppendHolds
  <2>4. \/ requests'[m] = requests[m]
        \/ m = From[e] /\ requests'[m] = Append(requests[m], x)
    BY <2>1
  <2>5. QED
    BY <2>1, <2>3, <2>4
<1>4. ASSUME NEW p \in Copy, NEW q \in Copy, Precedes(p, q), p.call = e
      PROVE  Nowhere(q)
  <2>1. Unsent(q.call)
    <3>1. CASE p = q
      BY <1>4, <3>1 DEF Unsent
    <3>2. CASE e \in Before[q.call]
      BY <1>1, <3>2, CopyFacts DEF WayInv, BeforeInv, Unsent
    <3>3. QED
      BY <1>4, <3>1, <3>2 DEF Precedes
  <2>2. QED
    BY <2>1 DEF WayInv, SentInv
<1>5. BeforeInv'
  BY <1>1, BeforeStep DEF WayInv
<1>6. SentInv'
  <2> SUFFICES ASSUME NEW p \in Copy, Unsent(p.call)'
               PROVE  Nowhere(p)'
    BY DEF SentInv
  <2>1. p.call # e /\ Unsent(p.call)
    BY <1>1, CopyFacts DEF Unsent
  <2>2. Nowhere(p)
    BY <2>1 DEF WayInv, SentInv
  <2>3. QED
    BY <1>1, <1>2, <1>3, <2>1, <2>2 DEF Nowhere
<1>7. RouteInv'
  <2>1. ASSUME NEW n \in Module, NEW p \in Copy
        PROVE  /\ \A k \in Conn, m \in Module : Holds(link'[k][m][n], p) =>
                    k = p.conn /\ m = From[p.call] /\ m # n /\ Far(p.call, p.conn, n)
               /\ Holds(requests'[n], p) => Far(p.call, p.conn, n)
               /\ p \in ToSet(executed'[n]) => Far(p.call, p.conn, n)
    <3>1. /\ \A k \in Conn, m \in Module : Holds(link[k][m][n], p) =>
               k = p.conn /\ m = From[p.call] /\ m # n /\ Far(p.call, p.conn, n)
          /\ Holds(requests[n], p) => Far(p.call, p.conn, n)
          /\ p \in ToSet(executed[n]) => Far(p.call, p.conn, n)
      BY DEF WayInv, RouteInv
    <3>2. p.conn = "named" => Far(p.call, p.conn, n)
      BY DEF Far
    <3>3. QED
      BY <1>1, <1>2, <1>3, <3>1, <3>2
  <2>2. QED
    BY <1>1, <2>1 DEF RouteInv, Far
<1>8. QueueInv'
  <2> SUFFICES ASSUME NEW m \in Module, NEW p \in Copy, NEW q \in Copy, Precedes(p, q)
               PROVE  /\ Ahead(link'[q.conn][From[q.call]][m], p, q)
                      /\ Ahead(requests'[m], p, q)
                      /\ DoneAhead(executed'[m], p, q)
                      /\ Holds(link'[q.conn][From[q.call]][m], p) =>
                           ~Holds(requests'[m], q) /\ q \notin ToSet(executed'[m])
                      /\ Holds(requests'[m], p) => q \notin ToSet(executed'[m])
    BY DEF QueueInv
  <2>1. /\ From[q.call] \in Module /\ q.conn \in Conn /\ p.conn = q.conn
        /\ From[p.call] = From[q.call]
    BY CopyFacts
  <2>2. /\ Ahead(link[q.conn][From[q.call]][m], p, q)
        /\ Ahead(requests[m], p, q)
        /\ DoneAhead(executed[m], p, q)
        /\ Holds(link[q.conn][From[q.call]][m], p) =>
             ~Holds(requests[m], q) /\ q \notin ToSet(executed[m])
        /\ Holds(requests[m], p) => q \notin ToSet(executed[m])
    BY DEF WayInv, QueueInv
  <2>3. /\ Holds(link'[q.conn][From[q.call]][m], p) =>
             \/ Holds(link[q.conn][From[q.call]][m], p)
             \/ p.call = e /\ From[q.call] # m
        /\ /\ Ahead(link[q.conn][From[q.call]][m], p, q)
           /\ p.call = e => ~Holds(link[q.conn][From[q.call]][m], q)
           => Ahead(link'[q.conn][From[q.call]][m], p, q)
    BY <1>2, <2>1
  <2>4. p.call = e => /\ ~Holds(link[q.conn][From[q.call]][m], q)
                      /\ ~Holds(requests[m], q) /\ q \notin ToSet(executed[m])
    BY <1>4, <2>1 DEF Nowhere
  <2>5. Ahead(link'[q.conn][From[q.call]][m], p, q) /\ Ahead(requests'[m], p, q)
    BY <1>3, <2>2, <2>3, <2>4
  <2>6. ASSUME Holds(link'[q.conn][From[q.call]][m], p)
        PROVE  ~Holds(requests'[m], q) /\ q \notin ToSet(executed'[m])
    <3>1. From[q.call] # m
      <4>1. Holds(link[q.conn][From[q.call]][m], p) => From[q.call] # m
        BY <2>1 DEF WayInv, RouteInv
      <4>2. QED
        BY <2>3, <2>6, <4>1
    <3>2. Holds(requests'[m], q) => Holds(requests[m], q)
      BY <1>3, <3>1
    <3>3. p.call # e => Holds(link[q.conn][From[q.call]][m], p)
      BY <2>3, <2>6
    <3>4. QED
      BY <1>1, <2>2, <2>4, <3>2, <3>3
  <2>7. Holds(requests'[m], p) => q \notin ToSet(executed'[m])
    BY <1>1, <1>3, <2>2, <2>4
  <2>8. QED
    BY <1>1, <2>2, <2>5, <2>6, <2>7
<1>9. QED
  BY <1>5, <1>6, <1>7, <1>8 DEF WayInv

LEMMA CallWay ==
    ASSUME TypeOK, WayInv, NEW e \in Call, ROCCall(e)
    PROVE  WayInv'
BY CallMoves, StayWay, SendWay

LEMMA ReceiveWay ==
    ASSUME TypeOK, WayInv, NEW k \in Conn, NEW m \in Module, NEW n \in Module,
           OnRecvSubnetMsg(k, m, n)
    PROVE  WayInv'
<1>1. PICK x \in Message \cup Answer : x = Head(link[k][m][n])
  BY ReceiveMoves
<1>2. /\ UNCHANGED <<call, location, executed>>
      /\ link[k][m][n] \in Seq(Message \cup Answer) /\ link[k][m][n] # <<>>
      /\ link'[k][m][n] = Tail(link[k][m][n])
      /\ \A l \in Conn, g, h \in Module :
           ~(l = k /\ g = m /\ h = n) => link'[l][g][h] = link[l][g][h]
      /\ \A l \in Module : \/ requests'[l] = requests[l]
                           \/ /\ l = n /\ x \in Message
                              /\ requests'[l] = Append(requests[l], x)
  BY <1>1, ReceiveMoves
<1>3. ASSUME NEW p \in Copy
      PROVE  /\ Holds(link[k][m][n], p) <=> Asks(x, p) \/ Holds(Tail(link[k][m][n]), p)
             /\ \A q : Ahead(link[k][m][n], p, q) => Ahead(Tail(link[k][m][n]), p, q)
             /\ \A q : Ahead(link[k][m][n], p, q) /\ Asks(x, q)
                       => ~Holds(Tail(link[k][m][n]), p)
  BY <1>1, <1>2, TailHolds
<1>4. ASSUME NEW l \in Conn, NEW g \in Module, NEW h \in Module, NEW p \in Copy
      PROVE  /\ Holds(link'[l][g][h], p) => Holds(link[l][g][h], p)
             /\ \A q : Ahead(link[l][g][h], p, q) => Ahead(link'[l][g][h], p, q)
  <2>1. CASE l = k /\ g = m /\ h = n
    BY <1>2, <1>3, <2>1
  <2>2. CASE ~(l = k /\ g = m /\ h = n)
    BY <1>2, <2>2
  <2>3. QED
    BY <2>1, <2>2
<1>5. ASSUME NEW l \in Module, NEW p \in Copy
      PROVE  /\ Holds(requests'[l], p) => Holds(requests[l], p) \/ (l = n /\ Asks(x, p))
             /\ \A q : /\ Ahead(requests[l], p, q)
                       /\ l = n /\ Asks(x, p) => ~Holds(requests[l], q)
                       => Ahead(requests'[l], p, q)
  <2>1. CASE requests'[l] = requests[l]
    BY <2>1
  <2>2. CASE l = n /\ x \in Message /\ requests'[l] = Append(requests[l], x)
    <3>1. requests[l] \in Seq(Message)
      BY DEF TypeOK
    <3>2. /\ Holds(Append(requests[l], x), p) <=> Holds(requests[l], p) \/ Asks(x, p)
          /\ \A q : Ahead(requests[l], p, q) /\ (Asks(x, p) => ~Holds(requests[l], q))
                    => Ahead(Append(requests[l], x), p, q)
      BY <2>2, <3>1, AppendHolds
    <3>3. QED
      BY <2>2, <3>2
  <2>3. QED
    BY <1>2, <2>1, <2>2
<1>6. ASSUME NEW p \in Copy, Asks(x, p)
      PROVE  Holds(link[k][m][n], p) /\ k = p.conn /\ m = From[p.call] /\ Far(p.call, p.conn, n)
  <2>1. Holds(link[k][m][n], p)
    BY <1>3, <1>6
  <2>2. QED
    BY <2>1 DEF WayInv, RouteInv
<1>7. BeforeInv'
  BY <1>2 DEF WayInv, BeforeInv
<1>8. SentInv'
  <2> SUFFICES ASSUME NEW p \in Copy, Unsent(p.call)
               PROVE  Nowhere(p)'
    BY <1>2 DEF SentInv, Unsent
  <2>1. Nowhere(p)
    BY DEF WayInv, SentInv
  <2>2. ~Asks(x, p)
    BY <1>6, <2>1 DEF Nowhere
  <2>3. QED
    BY <1>2, <1>4, <1>5, <2>1, <2>2 DEF Nowhere
<1>9. RouteInv'
  <2>1. ASSUME NEW h \in Module, NEW p \in Copy
        PROVE  /\ \A l \in Conn, g \in Module : Holds(link'[l][g][h], p) =>
                    l = p.conn /\ g = From[p.call] /\ g # h /\ Far(p.call, p.conn, h)
               /\ Holds(requests'[h], p) => Far(p.call, p.conn, h)
               /\ p \in ToSet(executed'[h]) => Far(p.call, p.conn, h)
    BY <1>2, <1>4, <1>5, <1>6 DEF WayInv, RouteInv
  <2>2. QED
    BY <1>2, <2>1 DEF RouteInv, Far
<1>10. QueueInv'
  <2> SUFFICES ASSUME NEW l \in Module, NEW p \in Copy, NEW q \in Copy, Precedes(p, q)
               PROVE  /\ Ahead(link'[q.conn][From[q.call]][l], p, q)
                      /\ Ahead(requests'[l], p, q)
                      /\ DoneAhead(executed'[l], p, q)
                      /\ Holds(link'[q.conn][From[q.call]][l], p) =>
                           ~Holds(requests'[l], q) /\ q \notin ToSet(executed'[l])
                      /\ Holds(requests'[l], p) => q \notin ToSet(executed'[l])
    BY DEF QueueInv
  <2>1. /\ From[q.call] \in Module /\ q.conn \in Conn /\ p.conn = q.conn
        /\ From[p.call] = From[q.call]
    BY CopyFacts
  <2>2. /\ Ahead(link[q.conn][From[q.call]][l], p, q)
        /\ Ahead(requests[l], p, q)
        /\ DoneAhead(executed[l], p, q)
        /\ Holds(link[q.conn][From[q.call]][l], p) =>
             ~Holds(requests[l], q) /\ q \notin ToSet(executed[l])
        /\ Holds(requests[l], p) => q \notin ToSet(executed[l])
    BY DEF WayInv, QueueInv
  <2>3. /\ Holds(link'[q.conn][From[q.call]][l], p) => Holds(link[q.conn][From[q.call]][l], p)
        /\ Ahead(link'[q.conn][From[q.call]][l], p, q)
    BY <1>4, <2>1, <2>2
  <2>4. l = n /\ Asks(x, q) => ~Holds(link'[q.conn][From[q.call]][l], p)
    BY <1>2, <1>3, <1>6, <2>1, <2>2
  <2>5. l = n /\ Asks(x, p) => Holds(link[q.conn][From[q.call]][l], p)
    BY <1>6, <2>1
  <2>6. Ahead(requests'[l], p, q)
    BY <1>5, <2>2, <2>5
  <2>7. Holds(link'[q.conn][From[q.call]][l], p) =>
          ~Holds(requests'[l], q) /\ q \notin ToSet(executed'[l])
    BY <1>2, <1>5, <2>2, <2>3, <2>4
  <2>8. Holds(requests'[l], p) => q \notin ToSet(executed'[l])
    BY <1>2, <1>5, <2>2, <2>5
  <2>9. QED
    BY <1>2, <2>2, <2>3, <2>6, <2>7, <2>8
<1>11. QED
  BY <1>7, <1>8, <1>9, <1>10 DEF WayInv

LEMMA ExecuteWay ==
    ASSUME TypeOK, WayInv, NEW m \in Module, RequestProcess(m)
    PROVE  WayInv'
<1>1. PICK req \in Message, err \in {"ErrUnknowObj", "error", "none"} : Executes(m, req, err)
  BY ExecuteMoves
<1>2. PICK e \in Copy : e = CopyOf(req) /\ \A p \in Copy : Asks(req, p) <=> p = e
  BY CopyFacts
<1>3. /\ UNCHANGED <<call, location>>
      /\ requests[m] \in Seq(Message) /\ requests[m] # <<>> /\ req = Head(requests[m])
      /\ requests'[m] = Tail(requests[m])
      /\ \A l \in Module : l # m => requests'[l] = requests[l] /\ executed'[l] = executed[l]
      /\ executed'[m] \in {executed[m], Append(executed[m], e)}
  BY <1>1, <1>2 DEF Executes
<1>4. ASSUME NEW p \in Copy
      PROVE  /\ Holds(requests[m], p) <=> p = e \/ Holds(requests'[m], p)
             /\ \A q : Ahead(requests[m], p, q) => Ahead(requests'[m], p, q)
             /\ Ahead(requests[m], p, e) => ~Holds(requests'[m], p)
  <2>1. /\ Holds(requests[m], p) <=> Asks(req, p) \/ Holds(Tail(requests[m]), p)
        /\ \A q : Ahead(requests[m], p, q) => Ahead(Tail(requests[m]), p, q)
        /\ \A q : Ahead(requests[m], p, q) /\ Asks(req, q) => ~Holds(Tail(requests[m]), p)
    BY <1>3, TailHolds
  <2>2. QED
    BY <1>2, <1>3, <2>1
<1>5. ASSUME NEW k \in Conn, NEW g \in Module, NEW h \in Module, NEW p \in Copy
      PROVE  /\ Holds(link'[k][g][h], p) => Holds(link[k][g][h], p)
             /\ \A q \in Copy : Ahead(link[k][g][h], p, q) => Ahead(link'[k][g][h], p, q)
  <2>1. CASE link'[k][g][h] = link[k][g][h]
    BY <2>1
  <2>2. ASSUME NEW y \in Answer, link'[k][g][h] = Append(link[k][g][h], y)
        PROVE  /\ Holds(link'[k][g][h], p) => Holds(link[k][g][h], p)
               /\ \A q \in Copy : Ahead(link[k][g][h], p, q) => Ahead(link'[k][g][h], p, q)
    <3>1. link[k][g][h] \in Seq(Message \cup Answer) /\ y \in Message \cup Answer
      BY LinkType
    <3>2. /\ Holds(Append(link[k][g][h], y), p) <=> Holds(link[k][g][h], p) \/ Asks(y, p)
          /\ \A q : Ahead(link[k][g][h], p, q) /\ (Asks(y, p) => ~Holds(link[k][g][h], q))
                    => Ahead(Append(link[k][g][h], y), p, q)
      BY ONLY <3>1, AppendHolds
    <3>3. ~Asks(y, p)
      BY CopyFacts
    <3>4. QED
      BY <2>2, <3>2, <3>3
  <2>3. \/ link'[k][g][h] = link[k][g][h]
        \/ \E y \in Answer : link'[k][g][h] = Append(link[k][g][h], y)
    <3>1. req.call \in Call /\ req.seq \in Seqs
      BY MessageFacts
    <3>2. CASE err = "none"
      BY <1>1, <3>2 DEF Executes
    <3>3. CASE err # "none"
      <4>1. Response(req.call, m, req.seq, err) \in Answer
        BY <3>1, <3>3, MessageFacts
      <4>2. link'[k][g][h] \in {link[k][g][h],
                Append(link[k][g][h], Response(req.call, m, req.seq, err))}
        BY <1>1, <3>3 DEF Executes
      <4>3. QED
        BY <4>1, <4>2
    <3>4. QED
      BY <3>2, <3>3
  <2>4. QED
    BY <2>1, <2>2, <2>3
<1>6. ASSUME NEW l \in Module
      PROVE  /\ \A p : p \in ToSet(executed'[l]) => p \in ToSet(executed[l]) \/ (l = m /\ p = e)
             /\ \A p, q : /\ DoneAhead(executed[l], p, q)
                          /\ l = m /\ p = e => q \notin ToSet(executed[l])
                          => DoneAhead(executed'[l], p, q)
  <2>1. executed[l] \in Seq(Copy)
    BY DEF TypeOK
  <2>2. /\ ToSet(Append(executed[l], e)) = ToSet(executed[l]) \cup {e}
        /\ \A p, q : DoneAhead(executed[l], p, q) /\ (e = p => q \notin ToSet(executed[l]))
                     => DoneAhead(Append(executed[l], e), p, q)
    BY <2>1, AppendDone
  <2>3. CASE executed'[l] = executed[l]
    BY <2>3
  <2>4. CASE l = m /\ executed'[l] = Append(executed[l], e)
    BY <2>2, <2>4
  <2>5. QED
    BY <1>3, <2>3, <2>4
<1>7. Holds(requests[m], e)
  BY <1>4
<1>8. ASSUME NEW l \in Module, NEW p \in Copy
      PROVE  /\ Holds(requests'[l], p) => Holds(requests[l], p)
             /\ \A q : Ahead(requests[l], p, q) => Ahead(requests'[l], p, q)
  <2>1. CASE l = m
    BY <1>4, <2>1
  <2>2. CASE l # m
    BY <1>3, <2>2
  <2>3. QED
    BY <2>1, <2>2
<1>9. BeforeInv'
  BY <1>3 DEF WayInv, BeforeInv
<1>10. SentInv'
  <2> SUFFICES ASSUME NEW p \in Copy, Unsent(p.call)
               PROVE  Nowhere(p)'
    BY <1>3 DEF SentInv, Unsent
  <2>1. Nowhere(p)
    BY DEF WayInv, SentInv
  <2>2. p # e
    BY <1>7, <2>1 DEF Nowhere
  <2>3. QED
    BY <1>5, <1>6, <1>8, <2>1, <2>2 DEF Nowhere
<1>11. RouteInv'
  <2>1. ASSUME NEW h \in Module, NEW p \in Copy
        PROVE  /\ \A l \in Conn, g \in Module : Holds(link'[l][g][h], p) =>
                    l = p.conn /\ g = From[p.call] /\ g # h /\ Far(p.call, p.conn, h)
               /\ Holds(requests'[h], p) => Far(p.call, p.conn, h)
               /\ p \in ToSet(executed'[h]) => Far(p.call, p.conn, h)
    BY <1>5, <1>6, <1>7, <1>8 DEF WayInv, RouteInv
  <2>2. QED
    BY <1>3, <2>1 DEF RouteInv, Far
<1>12. QueueInv'
  <2> SUFFICES ASSUME NEW l \in Module, NEW p \in Copy, NEW q \in Copy, Precedes(p, q)
               PROVE  /\ Ahead(link'[q.conn][From[q.call]][l], p, q)
                      /\ Ahead(requests'[l], p, q)
                      /\ DoneAhead(executed'[l], p, q)
                      /\ Holds(link'[q.conn][From[q.call]][l], p) =>
                           ~Holds(requests'[l], q) /\ q \notin ToSet(executed'[l])
                      /\ Holds(requests'[l], p) => q \notin ToSet(executed'[l])
    BY DEF QueueInv
  <2>1. From[q.call] \in Module /\ q.conn \in Conn
    BY CopyFacts
  <2>2. /\ Ahead(link[q.conn][From[q.call]][l], p, q)
        /\ Ahead(requests[l], p, q)
        /\ DoneAhead(executed[l], p, q)
        /\ Holds(link[q.conn][From[q.call]][l], p) =>
             ~Holds(requests[l], q) /\ q \notin ToSet(executed[l])
        /\ Holds(requests[l], p) => q \notin ToSet(executed[l])
    BY DEF WayInv, QueueInv
  <2>3. /\ Holds(link'[q.conn][From[q.call]][l], p) => Holds(link[q.conn][From[q.call]][l], p)
        /\ Ahead(link'[q.conn][From[q.call]][l], p, q)
    BY <1>5, <2>1, <2>2
  <2>4. l = m /\ q = e => /\ ~Holds(link[q.conn][From[q.call]][l], p)
                          /\ ~Holds(requests'[l], p)
    BY <1>4, <1>7, <2>2
  <2>5. DoneAhead(executed'[l], p, q)
    BY <1>6, <1>7, <2>2
  <2>6. Holds(link'[q.conn][From[q.call]][l], p) =>
          ~Holds(requests'[l], q) /\ q \notin ToSet(executed'[l])
    BY <1>6, <1>8, <2>2, <2>3, <2>4
  <2>7. Holds(requests'[l], p) => q \notin ToSet(executed'[l])
    BY <1>6, <1>8, <2>2, <2>4
  <2>8. QED
    BY <1>8, <2>2, <2>3, <2>5, <2>6, <2>7
<1>13. QED
  BY <1>9, <1>10, <1>11, <1>12 DEF WayInv

LEMMA StepWay == TypeOK /\ WayInv /\ [Next]_vars => WayInv'
<1> SUFFICES ASSUME TypeOK, WayInv, [Next]_vars
             PROVE  WayInv'
  OBVIOUS
<1>1. ASSUME UNCHANGED <<call, location, link, requests, executed>>
      PROVE  WayInv'
  <2>1. BeforeInv' /\ SentInv'
    BY <1>1 DEF WayInv, BeforeInv, SentInv, Unsent, Nowhere
  <2>2. RouteInv' /\ QueueInv'
    BY <1>1 DEF WayInv, RouteInv, QueueInv, Far
  <2>3. QED
    BY <2>1, <2>2 DEF WayInv
<1>2. \/ \E c \in Call : ROCCall(c)
      \/ \E k \in Conn, m, n \in Module : OnRecvSubnetMsg(k, m, n)
      \/ \E m \in Module : RequestProcess(m)
      \/ UNCHANGED <<call, location, link, requests, executed>>
  BY DEF Next, vars, caller, threads, ResponseProcess, TakeResponse, WriteResponse,
         Rebind, DelObj
<1>3. QED
  BY <1>1, <1>2, CallWay, ReceiveWay, ExecuteWay

(* An object is at its host only, and so is what was done to it.            *)
HostInv ==
    \A m \in Module :
        /\ \A o \in objPool[m] : Host[o] = m
        /\ \A p \in ToSet(executed[m]) : Host[Target[p.call]] = m

LEMMA InitHost == Init => HostInv
BY NothingHolds DEF Init, HostInv

LEMMA StepHost == TypeOK /\ HostInv /\ [Next]_vars => HostInv'
<1> SUFFICES ASSUME TypeOK, HostInv, [Next]_vars
             PROVE  HostInv'
  OBVIOUS
<1>1. ASSUME NEW m \in Module, RequestProcess(m)
      PROVE  HostInv'
  <2>1. PICK req \in Message, err \in {"ErrUnknowObj", "error", "none"} : Executes(m, req, err)
    BY <1>1, ExecuteMoves
  <2>2. PICK e \in Copy : e = CopyOf(req) /\ e.call = req.call
    <3>1. CopyOf(req) \in Copy
      BY CopyFacts
    <3>2. CopyOf(req).call = req.call
      BY DEF CopyOf
    <3>3. QED
      BY <3>1, <3>2
  <2>3. /\ objPool' = objPool
        /\ \A l \in Module : l # m => executed'[l] = executed[l]
        /\ \/ executed'[m] = executed[m]
           \/ executed'[m] = Append(executed[m], e) /\ Target[e.call] \in objPool[m]
    BY <2>1, <2>2 DEF Executes
  <2>4. executed[m] \in Seq(Copy)
    BY DEF TypeOK
  <2>5. ToSet(Append(executed[m], e)) = ToSet(executed[m]) \cup {e}
    BY <2>4, AppendDone
  <2>6. ASSUME NEW l \in Module, NEW p \in ToSet(executed'[l])
        PROVE  Host[Target[p.call]] = l
    BY <2>3, <2>5, <2>6 DEF HostInv
  <2>7. QED
    BY <2>3, <2>6 DEF HostInv
<1>2. CASE executed' = executed /\ \A m \in Module : objPool'[m] \subseteq objPool[m]
  BY <1>2 DEF HostInv
<1>3. ASSUME NEW m \in Module, NEW o \in Obj, DelObj(m, o)
      PROVE  executed' = executed /\ \A n \in Module : objPool'[n] \subseteq objPool[n]
  BY <1>3 DEF DelObj, TypeOK
<1>4. \/ \E m \in Module : RequestProcess(m)
      \/ \E m \in Module, o \in Obj : DelObj(m, o)
      \/ executed' = executed /\ objPool' = objPool
  BY DEF Next, vars, objects, ROCCall, Locate, TakeSeq, CallLocal, CallRemote,
         CallBroadcast, CallFails, Return, OnRecvSubnetMsg, ResponseProcess,
         TakeResponse, WriteResponse, Rebind
<1>5. QED
  BY <1>1, <1>2, <1>3, <1>4

LEMMA Way == Spec => [](TypeOK /\ WayInv /\ HostInv)
BY InitWay, StepWay, InitHost, StepHost, ROCCallTypes, PTL DEF Spec

(* What was executed was a copy of a request that has been sent. *)
LEMMA DoneFacts ==
    ASSUME TypeOK, WayInv, HostInv, NEW m \in Module, NEW i \in DOMAIN executed[m]
    PROVE  /\ executed[m][i] \in Copy /\ executed[m][i] \in ToSet(executed[m])
           /\ call[executed[m][i].call] # "new"
           /\ Far(executed[m][i].call, executed[m][i].conn, m)
           /\ Host[Target[executed[m][i].call]] = m
<1>1. PICK p \in Copy : p = executed[m][i] /\ p \in ToSet(executed[m])
  BY DEF TypeOK, ToSet
<1>2. ~Nowhere(p)
  BY <1>1 DEF Nowhere
<1>3. call[p.call] # "new"
  BY <1>2 DEF WayInv, SentInv, Unsent
<1>4. Far(p.call, p.conn, m)
  BY <1>1 DEF WayInv, RouteInv
<1>5. Host[Target[p.call]] = m
  BY <1>1 DEF HostInv
<1>6. QED
  BY <1>1, <1>3, <1>4, <1>5

(* The requests that one goroutine sends by one connection are executed in  *)
(* the order in which it made the calls, and so are those of a module to    *)
(* itself: the connection, the message queue of its other end and           *)
(* rocRequestChan keep the order, and a copy of a request goes by one       *)
(* connection only (ROCCallNR, ROCCallBlock, onMsgROCRequest,               *)
(* rocRequestProcess).                                                      *)
THEOREM ROCCallOrder == Spec => []InOrder
<1>1. TypeOK /\ WayInv /\ HostInv => InOrder
  <2> SUFFICES ASSUME TypeOK, WayInv, HostInv, NEW m \in Module,
                      NEW i \in DOMAIN executed[m], NEW j \in DOMAIN executed[m],
                      executed[m][i].call \in Before[executed[m][j].call],
                      executed[m][i].conn = executed[m][j].conn
               PROVE  i < j
    BY DEF InOrder
  <2>1. PICK p \in Copy, q \in Copy :
            /\ p = executed[m][i] /\ q = executed[m][j]
            /\ p.call \in Before[q.call] /\ p.conn = q.conn
            /\ call[q.call] # "new"
    BY DoneFacts
  <2>2. DoneAhead(executed[m], p, q)
    BY <2>1 DEF WayInv, QueueInv, Precedes
  <2>3. i <= j
    BY <2>1, <2>2 DEF DoneAhead
  <2>4. p # q
    BY <2>1, CopyFacts DEF WayInv, BeforeInv
  <2>5. i # j /\ i \in Nat /\ j \in Nat
    BY <2>1, <2>4 DEF TypeOK
  <2>6. QED
    BY <2>3, <2>5
<1>2. QED
  BY <1>1, Way, PTL

(* A call is executed at most once in the whole subnet, except that one     *)
(* that was broadcast to a module with two connections is executed once for *)
(* each of them: its request is at one place of its way by a connection,    *)
(* and of the modules to which a broadcast sends it only the host of the    *)
(* object has that to execute it on (ROCCallNR, ROCCallBlock, BroadcastCmd, *)
(* onMsgROCRequest, rocRequestProcess).                                     *)
THEOREM ROCCallOnce == Spec => []ExecutedOnce
<1>1. TypeOK /\ WayInv /\ HostInv => ExecutedOnce
  <2> SUFFICES ASSUME TypeOK, WayInv, HostInv, NEW m \in Module, NEW n \in Module,
                      NEW i \in DOMAIN executed[m], NEW j \in DOMAIN executed[n],
                      executed[m][i].call = executed[n][j].call
               PROVE  /\ m = n
                      /\ \/ i = j
                         \/ /\ executed[m][i].conn # executed[n][j].conn
                            /\ location[executed[m][i].call] = None
                            /\ <<From[executed[m][i].call], m>> \in Second
    BY DEF ExecutedOnce
  <2>1. PICK p \in Copy, q \in Copy :
            /\ p = executed[m][i] /\ q = executed[n][j] /\ p.call = q.call
            /\ Far(p.call, p.conn, m) /\ Far(q.call, q.conn, n)
            /\ Host[Target[p.call]] = m /\ Host[Target[q.call]] = n
    BY DoneFacts
  <2>2. m = n
    BY <2>1
  <2>3. CASE p = q
    <3>1. DoneAhead(executed[m], p, p)
      BY DEF WayInv, QueueInv, Precedes
    <3>2. i <= j /\ j <= i
      BY <2>1, <2>2, <2>3, <3>1 DEF DoneAhead
    <3>3. i \in Nat /\ j \in Nat
      BY DEF TypeOK
    <3>4. QED
      BY <2>2, <3>2, <3>3
  <2>4. CASE p # q
    <3>1. p.conn # q.conn
      BY <2>1, <2>4 DEF Copy
    <3>2. p.conn = "second" \/ q.conn = "second"
      BY <3>1 DEF Copy, Conn
    <3>3. QED
      BY <2>1, <2>2, <3>1, <3>2 DEF Far
  <2>5. QED
    BY <2>3, <2>4
<1>2. QED
  BY <1>1, Way, PTL

-----------------------------------------------------------------------------
(* What the answers say.                                                   *)

Says(x, n, c, err) == x \in Answer /\ x.call = c /\ x.from = n /\ x.err = err
Said(msgs, n, c, err) == \E i \in DOMAIN msgs : Says(msgs[i], n, c, err)
(* A report of an unknown object comes after one of the call's error. *)
First(msgs, n, c) ==
    \A i \in DOMAIN msgs : Says(msgs[i], n, c, "ErrUnknowObj") =>
        \E j \in DOMAIN msgs : j < i /\ Says(msgs[j], n, c, "error")

(* Where an answer of n to the call c is: on its way, at the module that    *)
(* called, in the channel, or returned.                                     *)
OnLink(n, c) == link["named"][n][From[c]]
InChannel(x, c) == Numbered(c) /\ NeedReturn[c] /\ blockChan[From[c]][seq[c]] = <<x>>
Around(n, c, err) ==
    \/ Said(OnLink(n, c), n, c, err)
    \/ Said(responses[From[c]], n, c, err)
    \/ Says(agent[From[c]], n, c, err)
    \/ \E x \in Answer : Says(x, n, c, err) /\ InChannel(x, c)
    \/ Says(result[c], n, c, err)
(* The call returns, or has an answer to return with. *)
Told(c) == call[c] = "returned" \/ \E x \in Answer : InChannel(x, c)

(* Who reports an error executed the call, and who reports an unknown       *)
(* object does not have it any more.                                        *)
SourceInv(n, c) ==
    /\ Around(n, c, "error") => Ran(n, c)
    /\ Around(n, c, "ErrUnknowObj") => Target[c] \notin objPool[n]
(* If a module that executed the call also reports an unknown object, to a  *)
(* second request, then that report is not what the call returns with: it   *)
(* comes after one of the call's error, or after another module's answer.   *)
LateInv(n, c) ==
    Ran(n, c) =>
        /\ ~Says(result[c], n, c, "ErrUnknowObj")
        /\ call[c] # "returned" =>
             \A x \in Answer : InChannel(x, c) => ~Says(x, n, c, "ErrUnknowObj")
        /\ \/ Told(c)
           \/ Says(agent[From[c]], n, c, "error")
           \/ /\ ~Says(agent[From[c]], n, c, "ErrUnknowObj")
              /\ First(responses[From[c]], n, c)
              /\ \/ Said(responses[From[c]], n, c, "error")
                 \/ First(OnLink(n, c), n, c)
(* A module that executed the call of another one and is up reported it.    *)
ReportInv(n, c) ==
    Ran(n, c) /\ NeedReturn[c] /\ n # From[c] /\ ~down[n] =>
        \/ Told(c)
        \/ Says(agent[From[c]], n, c, "error")
        \/ Said(responses[From[c]], n, c, "error")
        \/ Said(OnLink(n, c), n, c, "error")
True(n, c) == SourceInv(n, c) /\ LateInv(n, c) /\ ReportInv(n, c)
TruthInv == \A n \in Module, c \in Call : True(n, c)

Errs == {"ErrUnknowObj", "error"}

LEMMA AppendSaid ==
    ASSUME NEW S, NEW s \in Seq(S), NEW x \in S, NEW n, NEW c
    PROVE  /\ \A err : Said(Append(s, x), n, c, err) <=> Said(s, n, c, err) \/ Says(x, n, c, err)
           /\ First(s, n, c) /\ (Says(x, n, c, "ErrUnknowObj") => Said(s, n, c, "error"))
              => First(Append(s, x), n, c)
<1> DEFINE t == Append(s, x)
           l == Len(s)
<1>1. /\ DOMAIN t = 1 .. l + 1 /\ DOMAIN s = 1 .. l /\ l \in Nat
      /\ t[l + 1] = x
      /\ \A i \in 1 .. l : t[i] = s[i]
  OBVIOUS
<1> HIDE DEF t, l
<1>2. \A err : Said(t, n, c, err) <=> Said(s, n, c, err) \/ Says(x, n, c, err)
  BY <1>1 DEF Said
<1>3. ASSUME First(s, n, c), Says(x, n, c, "ErrUnknowObj") => Said(s, n, c, "error")
      PROVE  First(t, n, c)
  <2> SUFFICES ASSUME NEW i \in DOMAIN t, Says(t[i], n, c, "ErrUnknowObj")
               PROVE  \E j \in DOMAIN t : j < i /\ Says(t[j], n, c, "error")
    BY DEF First
  <2>1. CASE i = l + 1
    <3>1. PICK j \in DOMAIN s : Says(s[j], n, c, "error")
      BY <1>1, <1>3, <2>1 DEF Said
    <3>2. QED
      BY <1>1, <2>1, <3>1
  <2>2. CASE i # l + 1
    <3>1. i \in DOMAIN s /\ Says(s[i], n, c, "ErrUnknowObj")
      BY <1>1, <2>2
    <3>2. PICK j \in DOMAIN s : j < i /\ Says(s[j], n, c, "error")
      BY <1>3, <3>1 DEF First
    <3>3. QED
      BY <1>1, <3>2
  <2>3. QED
    BY <2>1, <2>2
<1>4. QED
  BY <1>2, <1>3 DEF t

LEMMA TailSaid ==
    ASSUME NEW S, NEW s \in Seq(S), s # <<>>, NEW n, NEW c
    PROVE  /\ \A err : Said(s, n, c, err) <=>
                Says(Head(s), n, c, err) \/ Said(Tail(s), n, c, err)
           /\ First(s, n, c) => ~Says(Head(s), n, c, "ErrUnknowObj")
           /\ First(s, n, c) /\ ~Says(Head(s), n, c, "error") => First(Tail(s), n, c)
<1> DEFINE t == Tail(s)
           l == Len(s)
<1>1. /\ l \in Nat /\ l > 0 /\ DOMAIN s = 1 .. l /\ DOMAIN t = 1 .. l - 1
      /\ Head(s) = s[1]
      /\ \A i \in 1 .. l - 1 : t[i] = s[i + 1]
  OBVIOUS
<1> HIDE DEF t, l
<1>2. /\ \A i \in DOMAIN s : i # 1 => i - 1 \in DOMAIN t /\ t[i - 1] = s[i]
      /\ 1 \in DOMAIN s
      /\ \A i \in DOMAIN t : i \in Nat /\ i # 0 /\ i + 1 \in DOMAIN s /\ t[i] = s[i + 1]
      /\ \A i \in DOMAIN s : i \in Nat /\ ~(i < 1)
  BY <1>1
<1>3. \A err : Said(s, n, c, err) <=> Says(Head(s), n, c, err) \/ Said(t, n, c, err)
  BY <1>1, <1>2 DEF Said
<1>4. First(s, n, c) => ~Says(Head(s), n, c, "ErrUnknowObj")
  BY <1>1, <1>2 DEF First
<1>5. ASSUME First(s, n, c), ~Says(Head(s), n, c, "error")
      PROVE  First(t, n, c)
  <2> SUFFICES ASSUME NEW i \in DOMAIN t, Says(t[i], n, c, "ErrUnknowObj")
               PROVE  \E j \in DOMAIN t : j < i /\ Says(t[j], n, c, "error")
    BY DEF First
  <2>1. i + 1 \in DOMAIN s /\ Says(s[i + 1], n, c, "ErrUnknowObj")
    BY <1>2
  <2>2. PICK j \in DOMAIN s : j < i + 1 /\ Says(s[j], n, c, "error")
    BY <1>5, <2>1 DEF First
  <2>3. j # 1
    BY <1>1, <1>5, <2>2
  <2>4. j - 1 \in DOMAIN t /\ t[j - 1] = s[j]
    BY <1>2, <2>3
  <2>5. j - 1 < i
    BY <1>2, <2>2
  <2>6. QED
    BY <2>2, <2>4, <2>5
<1>6. QED
  BY <1>3, <1>4, <1>5 DEF t

(* Nobody says both, and a request says nothing. *)
LEMMA SaysFacts ==
    /\ \A x, n, c : Says(x, n, c, "error") => ~Says(x, n, c, "ErrUnknowObj")
    /\ \A x \in Message : \A n, c, err : ~Says(x, n, c, err)
    /\ \A n, c, err : ~Says(None, n, c, err)
    /\ \A n, c, err : ~Said(<<>>, n, c, err)
    /\ \A s, n, c : ~Said(s, n, c, "ErrUnknowObj") => First(s, n, c)
<1>1. \A x, n, c : Says(x, n, c, "error") => ~Says(x, n, c, "ErrUnknowObj")
  BY DEF Says
<1>2. \A x \in Message : x \notin Answer
  BY MessageFacts
<1>3. None \notin Answer
  BY NoneAssumption
<1>4. \A n, c, err : ~Said(<<>>, n, c, err)
  BY DEF Said
<1>5. \A s, n, c : ~Said(s, n, c, "ErrUnknowObj") => First(s, n, c)
  BY DEF Said, First
<1>6. QED
  BY <1>1, <1>2, <1>3, <1>4, <1>5 DEF Says

LEMMA InitTruth == Init => TruthInv
<1> SUFFICES ASSUME Init, NEW n \in Module, NEW c \in Call
             PROVE  True(n, c)
  BY DEF TruthInv
<1>1. ~Ran(n, c)
  BY DEF Init, Ran
<1>2. From[c] \in Module
  BY ROCCallAssumption
<1>3. /\ OnLink(n, c) = <<>> /\ responses[From[c]] = <<>> /\ agent[From[c]] = None
      /\ result[c] = None /\ ~Numbered(c)
  BY <1>2, MessageFacts DEF Init, OnLink, Numbered
<1>4. \A err : ~Around(n, c, err)
  BY <1>3, SaysFacts DEF Around, InChannel
<1>5. QED
  BY <1>1, <1>4 DEF True, SourceInv, LateInv, ReportInv

(* A call that was not sent was not executed. *)
LEMMA UnsentRan ==
    ASSUME TypeOK, WayInv, NEW c \in Call, Unsent(c), NEW n \in Module
    PROVE  ~Ran(n, c)
<1> SUFFICES ASSUME NEW i \in DOMAIN executed[n], executed[n][i].call = c
             PROVE  FALSE
  BY DEF Ran
<1>1. PICK p \in Copy : p = executed[n][i] /\ p \in ToSet(executed[n])
  BY DEF TypeOK, ToSet
<1>2. QED
  BY <1>1 DEF WayInv, SentInv, Nowhere

(* Only the steps of a call change its channel, and an answer leaves it     *)
(* when the call returns.                                                   *)
LEMMA CallChannel ==
    ASSUME IInv, NEW e \in Call, ROCCall(e), NEW c \in Call, NEW x \in Answer
    PROVE  /\ InChannel(x, c)' => InChannel(x, c)
           /\ InChannel(x, c) =>
                \/ InChannel(x, c)'
                \/ c = e /\ call'[c] = "returned" /\ result'[c] = x
<1> USE ROCCallAssumption
<1>1. /\ TypeOK /\ NumberInv /\ WaitInv /\ CountInv
      /\ From[c] \in Module /\ From[e] \in Module /\ seq[c] \in Seqs /\ seq[e] \in Seqs
  BY DEF IInv, TypeOK
<1>2. CASE TakeSeq(e)
  <2> DEFINE s == lastSeq[From[e]] + 1
  <2>1. /\ s \in Seqs
        /\ \A d \in Call : Numbered(d) /\ From[d] = From[e] => seq[d] # s
    BY <1>1, <1>2, TakeNumbers
  <2>2. /\ call' = [call EXCEPT ![e] = "numbered"] /\ call[e] = "located"
        /\ seq' = [seq EXCEPT ![e] = s]
        /\ blockChan' = IF NeedReturn[e] THEN [blockChan EXCEPT ![From[e]][s] = <<>>]
                                         ELSE blockChan
    BY <1>2 DEF TakeSeq
  <2>3. CASE c = e
    BY <1>1, <2>1, <2>2, <2>3 DEF InChannel, Numbered, TypeOK
  <2>4. CASE c # e
    <3>1. Numbered(c)' <=> Numbered(c)
      BY <2>2, <2>4 DEF Numbered, TypeOK
    <3>2. seq'[c] = seq[c]
      BY <1>1, <2>2, <2>4 DEF TypeOK
    <3>3. Numbered(c) => blockChan'[From[c]][seq[c]] = blockChan[From[c]][seq[c]]
      BY <1>1, <2>1, <2>2 DEF TypeOK
    <3>4. QED
      BY <3>1, <3>2, <3>3 DEF InChannel
  <2>5. QED
    BY <2>3, <2>4
<1>3. CASE Return(e)
  <2>1. PICK y \in Answer : /\ blockChan[From[e]][seq[e]] = <<y>>
                            /\ Head(<<y>>) = y /\ Tail(<<y>>) = <<>>
                            /\ Numbered(e)
    BY <1>1, <1>3, ReturnChannel
  <2>2. /\ call' = [call EXCEPT ![e] = "returned"] /\ seq' = seq
        /\ result' = [result EXCEPT ![e] = y]
        /\ blockChan' = [blockChan EXCEPT ![From[e]][seq[e]] = <<>>]
    BY <1>3, <2>1 DEF Return
  <2>3. Numbered(c)' <=> Numbered(c)
    BY <1>1, <2>1, <2>2 DEF Numbered, TypeOK
  <2>4. CASE c = e
    <3>1. blockChan'[From[c]][seq'[c]] = <<>>
      BY <1>1, <2>2, <2>4 DEF TypeOK
    <3>2. ~InChannel(x, c)'
      BY <3>1 DEF InChannel
    <3>3. InChannel(x, c) => x = y
      BY <2>1, <2>4 DEF InChannel
    <3>4. call'[c] = "returned" /\ result'[c] = y
      BY <1>1, <2>2, <2>4 DEF TypeOK
    <3>5. QED
      BY <2>4, <3>2, <3>3, <3>4
  <2>5. CASE c # e
    <3>1. Numbered(c) => ~(From[c] = From[e] /\ seq[c] = seq[e])
      BY <1>1, <2>1, <2>5 DEF NumberInv
    <3>2. Numbered(c) => blockChan'[From[c]][seq[c]] = blockChan[From[c]][seq[c]]
      BY <1>1, <2>2, <3>1 DEF TypeOK
    <3>3. QED
      BY <2>2, <2>3, <3>2 DEF InChannel
  <2>6. QED
    BY <2>4, <2>5
<1>4. CASE ~TakeSeq(e) /\ ~Return(e)
  <2>1. /\ seq' = seq /\ blockChan' = blockChan
        /\ \/ call[e] = "new" /\ call' = [call EXCEPT ![e] = "located"]
           \/ call[e] = "numbered" /\ call' = [call EXCEPT ![e] = "failed"]
           \/ /\ call[e] = "numbered"
              /\ call' = [call EXCEPT ![e] =
                    IF NeedReturn[e] THEN "waiting" ELSE "returned"]
    BY <1>4 DEF ROCCall, Locate, CallLocal, CallRemote, CallBroadcast, CallFails,
                Sends, AfterSend
  <2>2. Numbered(c)' <=> Numbered(c)
    BY <1>1, <2>1 DEF TypeOK, Numbered
  <2>3. QED
    BY <2>1, <2>2 DEF InChannel
<1>5. QED
  BY <1>2, <1>3, <1>4

(* A step that concerns other calls, or another module. *)
LEMMA KeptTrue ==
    ASSUME NEW n \in Module, NEW c \in Call, True(n, c),
           Ran(n, c)' <=> Ran(n, c),
           Target[c] \notin objPool[n] => Target[c] \notin objPool'[n],
           ~down'[n] => ~down[n],
           \A err : Said(OnLink(n, c)', n, c, err) <=> Said(OnLink(n, c), n, c, err),
           First(OnLink(n, c), n, c) => First(OnLink(n, c)', n, c),
           \A err : Said(responses'[From[c]], n, c, err) <=> Said(responses[From[c]], n, c, err),
           First(responses[From[c]], n, c) => First(responses'[From[c]], n, c),
           \A err : Says(agent'[From[c]], n, c, err) <=> Says(agent[From[c]], n, c, err),
           \A x \in Answer : InChannel(x, c)' <=> InChannel(x, c),
           result'[c] = result[c],
           call'[c] = "returned" <=> call[c] = "returned"
    PROVE  True(n, c)'
<1>1. Told(c)' <=> Told(c)
  BY DEF Told
<1>2. \A err : Around(n, c, err)' <=> Around(n, c, err)
  BY DEF Around
<1>3. SourceInv(n, c)'
  BY <1>2 DEF True, SourceInv
<1>4. LateInv(n, c)'
  BY <1>1 DEF True, LateInv
<1>5. ReportInv(n, c)'
  BY <1>1 DEF True, ReportInv
<1>6. QED
  BY <1>3, <1>4, <1>5 DEF True

LEMMA CallTruth ==
    ASSUME IInv, WayInv, TruthInv, NEW e \in Call, ROCCall(e)
    PROVE  TruthInv'
<1> SUFFICES ASSUME NEW n \in Module, NEW c \in Call
             PROVE  True(n, c)'
  BY DEF TruthInv
<1>1. TypeOK /\ WaitInv /\ From[c] \in Module /\ True(n, c)
  BY ROCCallAssumption DEF IInv, TruthInv
<1>2. /\ UNCHANGED <<executed, objPool, responses, agent, down>>
      /\ c # e => call'[c] = call[c]
      /\ call[e] \notin Ended
      /\ \A k \in Conn, g, h \in Module :
           link'[k][g][h] = link[k][g][h] \/ SendsTo(e, k, g, h)
      /\ Unsent(e) \/ UNCHANGED link
  BY <1>1, CallMoves DEF Unsent
<1>3. /\ \A err : Said(OnLink(n, c)', n, c, err) <=> Said(OnLink(n, c), n, c, err)
      /\ First(OnLink(n, c), n, c) => First(OnLink(n, c)', n, c)
  <2>1. "named" \in Conn
    BY MessageFacts
  <2>2. PICK x \in Message : x = Request(e, "named")
    BY <1>1, <2>1, RequestAsks
  <2>3. link["named"][n][From[c]] \in Seq(Message \cup Answer) /\ x \in Message \cup Answer
    BY <1>1, <2>1, LinkType
  <2>4. OnLink(n, c)' = OnLink(n, c) \/ OnLink(n, c)' = Append(OnLink(n, c), x)
    BY <1>1, <1>2, <2>1, <2>2 DEF SendsTo, OnLink
  <2>5. /\ \A err : Said(Append(OnLink(n, c), x), n, c, err) <=>
                Said(OnLink(n, c), n, c, err) \/ Says(x, n, c, err)
        /\ First(OnLink(n, c), n, c)
             /\ (Says(x, n, c, "ErrUnknowObj") => Said(OnLink(n, c), n, c, "error"))
             => First(Append(OnLink(n, c), x), n, c)
    BY ONLY <2>3, AppendSaid DEF OnLink
  <2>6. \A err : ~Says(x, n, c, err)
    BY SaysFacts
  <2>7. QED
    BY <2>4, <2>5, <2>6
<1>4. Ran(n, c)' <=> Ran(n, c)
  BY <1>2 DEF Ran
<1>5. \A x \in Answer :
        /\ InChannel(x, c)' => InChannel(x, c)
        /\ InChannel(x, c) =>
             InChannel(x, c)' \/ (c = e /\ call'[c] = "returned" /\ result'[c] = x)
  BY CallChannel
<1>6. c # e => result'[c] = result[c]
  BY <1>1 DEF ROCCall, Locate, TakeSeq, CallLocal, CallRemote, CallBroadcast, CallFails,
              Return, TypeOK
<1>7. CASE c # e
  BY <1>1, <1>2, <1>3, <1>4, <1>5, <1>6, <1>7, KeptTrue
<1>8. CASE c = e /\ Unsent(e)
  <2>1. ~Ran(n, c)
    BY <1>1, <1>8, UnsentRan
  <2>2. result'[c] = result[c]
    BY <1>8 DEF Unsent, ROCCall, Locate, TakeSeq, CallLocal, CallRemote, CallBroadcast,
                CallFails, Return
  <2>3. \A err : Around(n, c, err)' => Around(n, c, err)
    BY <1>2, <1>3, <1>5, <2>2 DEF Around
  <2>4. QED
    BY <1>1, <1>2, <1>4, <2>1, <2>3 DEF True, SourceInv, LateInv, ReportInv
<1>9. CASE c = e /\ ~Unsent(e)
  <2>1. Return(c) /\ call[c] = "waiting"
    BY <1>9 DEF Unsent, ROCCall, Locate, TakeSeq, CallLocal, CallRemote, CallBroadcast,
                CallFails, Return, Sends
  <2>2. PICK x \in Answer : /\ blockChan[From[c]][seq[c]] = <<x>> /\ Head(<<x>>) = x
                            /\ Numbered(c)
    BY <1>1, <2>1, ReturnChannel
  <2>3. InChannel(x, c)
    BY <1>1, <2>1, <2>2 DEF InChannel, WaitInv
  <2>4. call'[c] = "returned" /\ result'[c] = x /\ link' = link
    BY <1>1, <2>1, <2>2 DEF Return, TypeOK
  <2>5. ASSUME NEW err, Around(n, c, err)'
        PROVE  Around(n, c, err)
    <3>1. Says(result'[c], n, c, err) => Around(n, c, err)
      BY <2>3, <2>4 DEF Around
    <3>2. QED
      BY <1>2, <1>3, <1>5, <2>5, <3>1 DEF Around
  <2>6. Told(c)'
    BY <2>4 DEF Told
  <2>7. SourceInv(n, c)'
    BY <1>1, <1>2, <1>4, <2>5 DEF True, SourceInv
  <2>8. LateInv(n, c)'
    BY <1>1, <1>4, <2>1, <2>3, <2>4, <2>6 DEF True, LateInv
  <2>9. ReportInv(n, c)'
    BY <2>6 DEF ReportInv
  <2>10. QED
    BY <2>7, <2>8, <2>9 DEF True
<1>10. QED
  BY <1>7, <1>8, <1>9

(* An answer goes from a connection to rocResponseChan. *)
LEMMA ReceiveTruth ==
    ASSUME IInv, TruthInv, NEW k \in Conn, NEW m \in Module, NEW h \in Module,
           OnRecvSubnetMsg(k, m, h)
    PROVE  TruthInv'
<1> SUFFICES ASSUME NEW n \in Module, NEW c \in Call
             PROVE  True(n, c)'
  BY DEF TruthInv
<1>1. TypeOK /\ LinkInv /\ From[c] \in Module /\ True(n, c) /\ "named" \in Conn
  BY ROCCallAssumption, MessageFacts DEF IInv, CarryInv, TruthInv
<1>2. PICK x \in Message \cup Answer : x = Head(link[k][m][h])
  BY <1>1, ReceiveMoves
<1>3. /\ UNCHANGED <<call, executed, objPool, seq, result, blockChan, agent, down>>
      /\ link[k][m][h] \in Seq(Message \cup Answer) /\ link[k][m][h] # <<>>
      /\ link'[k][m][h] = Tail(link[k][m][h])
      /\ \A l \in Conn, f, g \in Module :
           ~(l = k /\ f = m /\ g = h) => link'[l][f][g] = link[l][f][g]
      /\ \A l \in Module : l # h => responses'[l] = responses[l]
      /\ \/ x \in Message /\ responses'[h] = responses[h]
         \/ x \in Answer /\ responses'[h] = Append(responses[h], x)
  BY <1>1, <1>2, ReceiveMoves
<1>4. /\ \A err : Said(link[k][m][h], n, c, err) <=>
             Says(x, n, c, err) \/ Said(link'[k][m][h], n, c, err)
      /\ First(link[k][m][h], n, c) => ~Says(x, n, c, "ErrUnknowObj")
      /\ First(link[k][m][h], n, c) /\ ~Says(x, n, c, "error") =>
             First(link'[k][m][h], n, c)
  <2> DEFINE s == link[k][m][h]
  <2>1. s \in Seq(Message \cup Answer) /\ s # <<>>
    BY <1>3
  <2>2. /\ \A err : Said(s, n, c, err) <=>
                Says(Head(s), n, c, err) \/ Said(Tail(s), n, c, err)
        /\ First(s, n, c) => ~Says(Head(s), n, c, "ErrUnknowObj")
        /\ First(s, n, c) /\ ~Says(Head(s), n, c, "error") => First(Tail(s), n, c)
    BY ONLY <2>1, TailSaid
  <2>3. QED
    BY <1>2, <1>3, <2>2
<1>5. x \in Answer =>
        /\ \A err : Said(responses'[h], n, c, err) <=>
             Said(responses[h], n, c, err) \/ Says(x, n, c, err)
        /\ First(responses[h], n, c)
             /\ (Says(x, n, c, "ErrUnknowObj") => Said(responses[h], n, c, "error"))
             => First(responses'[h], n, c)
  <2> SUFFICES ASSUME x \in Answer
               PROVE  /\ \A err : Said(Append(responses[h], x), n, c, err) <=>
                           Said(responses[h], n, c, err) \/ Says(x, n, c, err)
                      /\ First(responses[h], n, c)
                           /\ (Says(x, n, c, "ErrUnknowObj") =>
                                 Said(responses[h], n, c, "error"))
                           => First(Append(responses[h], x), n, c)
    BY <1>3, MessageFacts
  <2>1. responses[h] \in Seq(Answer)
    BY <1>1 DEF TypeOK
  <2>2. QED
    BY <2>1, AppendSaid
<1>6. Ran(n, c)' <=> Ran(n, c)
  BY <1>3 DEF Ran
<1>7. \A y \in Answer : InChannel(y, c)' <=> InChannel(y, c)
  BY <1>3 DEF InChannel, Numbered
<1>8. CASE \A err : ~Says(x, n, c, err)
  <2>1. /\ \A err : Said(OnLink(n, c)', n, c, err) <=> Said(OnLink(n, c), n, c, err)
        /\ First(OnLink(n, c), n, c) => First(OnLink(n, c)', n, c)
    <3>1. CASE k = "named" /\ m = n /\ h = From[c]
      BY <1>4, <1>8, <3>1 DEF OnLink
    <3>2. CASE ~(k = "named" /\ m = n /\ h = From[c])
      <4>1. OnLink(n, c)' = OnLink(n, c)
        BY <1>1, <1>3, <3>2 DEF OnLink
      <4>2. QED
        BY <4>1
    <3>3. QED
      BY <3>1, <3>2
  <2>2. /\ \A err : Said(responses'[From[c]], n, c, err) <=>
                    Said(responses[From[c]], n, c, err)
        /\ First(responses[From[c]], n, c) => First(responses'[From[c]], n, c)
    <3>1. CASE h = From[c] /\ x \in Answer
      BY <1>5, <1>8, <3>1
    <3>2. CASE ~(h = From[c] /\ x \in Answer)
      <4>1. responses'[From[c]] = responses[From[c]]
        BY <1>1, <1>3, <3>2
      <4>2. QED
        BY <4>1
    <3>3. QED
      BY <3>1, <3>2
  <2>3. QED
    BY <1>1, <1>3, <1>6, <1>7, <2>1, <2>2, KeptTrue
<1>9. ASSUME NEW err, Says(x, n, c, err)
      PROVE  True(n, c)'
  <2>1. x \in Answer /\ x.call = c /\ x.from = n
    BY <1>9 DEF Says
  <2>2. Sent(x, k, m, h)
    <3>1. 1 \in DOMAIN link[k][m][h] /\ x = link[k][m][h][1]
      BY <1>2, <1>3, TailFacts
    <3>2. QED
      BY <1>1, <3>1 DEF LinkInv
  <2>3. k = "named" /\ m = n /\ h = From[c]
    BY <2>1, <2>2, MessageFacts DEF Sent, Own
  <2>4. OnLink(n, c) = link[k][m][h] /\ OnLink(n, c)' = link'[k][m][h]
    BY <2>3 DEF OnLink
  <2>5. \A e : /\ Said(OnLink(n, c), n, c, e) <=>
                    Says(x, n, c, e) \/ Said(OnLink(n, c)', n, c, e)
               /\ Said(responses'[From[c]], n, c, e) <=>
                    Said(responses[From[c]], n, c, e) \/ Says(x, n, c, e)
    BY <1>4, <1>5, <2>1, <2>3, <2>4
  <2>6. \A e : Around(n, c, e)' <=> Around(n, c, e)
    BY <1>3, <1>7, <2>5 DEF Around
  <2>7. Told(c)' <=> Told(c)
    BY <1>3, <1>7 DEF Told
  <2>8. SourceInv(n, c)'
    BY <1>1, <1>3, <1>6, <2>6 DEF True, SourceInv
  <2>9. ReportInv(n, c)'
    BY <1>1, <1>3, <1>6, <2>5, <2>7 DEF True, ReportInv
  <2>10. LateInv(n, c)'
    <3> SUFFICES ASSUME Ran(n, c), ~Told(c), ~Says(agent[From[c]], n, c, "error")
                 PROVE  /\ ~Says(agent[From[c]], n, c, "ErrUnknowObj")
                        /\ First(responses'[From[c]], n, c)
                        /\ \/ Said(responses'[From[c]], n, c, "error")
                           \/ First(OnLink(n, c)', n, c)
      BY <1>1, <1>3, <1>6, <1>7, <2>7 DEF True, LateInv
    <3>1. /\ ~Says(agent[From[c]], n, c, "ErrUnknowObj")
          /\ First(responses[From[c]], n, c)
          /\ \/ Said(responses[From[c]], n, c, "error")
             \/ First(OnLink(n, c), n, c)
      BY <1>1 DEF True, LateInv
    <3>2. QED
      BY <1>4, <1>5, <2>1, <2>3, <2>4, <2>5, <3>1
  <2>11. QED
    BY <2>8, <2>9, <2>10 DEF True
<1>10. QED
  BY <1>8, <1>9

(* rocResponseProcess takes it, *)
LEMMA TakeTruth ==
    ASSUME IInv, TruthInv, NEW m \in Module, TakeResponse(m)
    PROVE  TruthInv'
<1> SUFFICES ASSUME NEW n \in Module, NEW c \in Call
             PROVE  True(n, c)'
  BY DEF TruthInv
<1>1. /\ TypeOK /\ WaitInv /\ ResponseInv /\ From[c] \in Module /\ True(n, c)
      /\ responses[m] \in Seq(Answer) /\ responses[m] # <<>> /\ agent[m] = None
  BY ROCCallAssumption DEF IInv, CarryInv, TruthInv, TypeOK, TakeResponse
<1>2. PICK x \in Answer : x = Head(responses[m])
  BY <1>1, TailFacts
<1>3. blockChan[m][x.seq] # None
  <2>1. x = responses[m][1] /\ 1 \in DOMAIN responses[m]
    BY <1>1, <1>2, TailFacts
  <2>2. Own(x, m) /\ x.call \in Call
    BY <1>1, <2>1, MessageFacts DEF ResponseInv
  <2>3. blockChan[m][x.seq] \in Channel
    BY <1>1, <2>2 DEF WaitInv, Own, Carries
  <2>4. QED
    BY <2>3, NoneAssumption
<1>4. /\ UNCHANGED <<objects, caller, blockChan, link, down, executed>>
      /\ responses' = [responses EXCEPT ![m] = Tail(@)]
      /\ agent' = [agent EXCEPT ![m] = x]
  BY <1>2, <1>3 DEF TakeResponse
<1>5. UNCHANGED <<objPool, call, seq, result>>
  BY <1>4 DEF objects, caller
<1>6. Ran(n, c)' <=> Ran(n, c)
  BY <1>4 DEF Ran
<1>7. \A y \in Answer : InChannel(y, c)' <=> InChannel(y, c)
  BY <1>4, <1>5 DEF InChannel, Numbered
<1>8. OnLink(n, c)' = OnLink(n, c)
  BY <1>4 DEF OnLink
<1>9. CASE From[c] # m
  <2>1. responses'[From[c]] = responses[From[c]] /\ agent'[From[c]] = agent[From[c]]
    BY <1>1, <1>4, <1>9 DEF TypeOK
  <2>2. QED
    BY <1>1, <1>4, <1>5, <1>6, <1>7, <1>8, <2>1, KeptTrue
<1>10. CASE From[c] = m
  <2>1. responses'[m] = Tail(responses[m]) /\ agent'[m] = x
    BY <1>1, <1>4 DEF TypeOK
  <2>2. /\ \A err : Said(responses[m], n, c, err) <=>
                Says(x, n, c, err) \/ Said(responses'[m], n, c, err)
        /\ First(responses[m], n, c) => ~Says(x, n, c, "ErrUnknowObj")
        /\ First(responses[m], n, c) /\ ~Says(x, n, c, "error") =>
                First(responses'[m], n, c)
    <3> DEFINE s == responses[m]
    <3>1. s \in Seq(Answer) /\ s # <<>>
      BY <1>1
    <3>2. /\ \A err : Said(s, n, c, err) <=>
                  Says(Head(s), n, c, err) \/ Said(Tail(s), n, c, err)
          /\ First(s, n, c) => ~Says(Head(s), n, c, "ErrUnknowObj")
          /\ First(s, n, c) /\ ~Says(Head(s), n, c, "error") => First(Tail(s), n, c)
      BY ONLY <3>1, TailSaid
    <3>3. QED
      BY <1>2, <2>1, <3>2
  <2>3. \A err : ~Says(agent[m], n, c, err)
    BY <1>1, SaysFacts
  <2>4. \A err : Around(n, c, err)' <=> Around(n, c, err)
    BY <1>5, <1>7, <1>8, <1>10, <2>1, <2>2, <2>3 DEF Around
  <2>5. Told(c)' <=> Told(c)
    BY <1>5, <1>7 DEF Told
  <2>6. SourceInv(n, c)'
    BY <1>1, <1>5, <1>6, <2>4 DEF True, SourceInv
  <2>7. ReportInv(n, c)'
    BY <1>1, <1>4, <1>6, <1>8, <1>10, <2>1, <2>2, <2>3, <2>5 DEF True, ReportInv
  <2>8. LateInv(n, c)'
    BY <1>1, <1>5, <1>6, <1>7, <1>8, <1>10, <2>1, <2>2, <2>3, <2>5 DEF True, LateInv
  <2>9. QED
    BY <2>6, <2>7, <2>8 DEF True
<1>11. QED
  BY <1>9, <1>10

(* and writes it to the channel of the call, which was empty. *)
LEMMA WriteTruth ==
    ASSUME IInv, TruthInv, NEW m \in Module, WriteResponse(m)
    PROVE  TruthInv'
<1> SUFFICES ASSUME NEW n \in Module, NEW c \in Call
             PROVE  True(n, c)'
  BY DEF TruthInv
<1>1. /\ TypeOK /\ NumberInv /\ AgentInv /\ From[c] \in Module /\ True(n, c)
      /\ agent[m] # None
  BY ROCCallAssumption DEF IInv, CarryInv, TruthInv, WriteResponse
<1>2. PICK x \in Answer : x = agent[m]
  BY <1>1 DEF TypeOK
<1>3. /\ x.call \in Call /\ Numbered(x.call) /\ From[x.call] = m /\ NeedReturn[x.call]
      /\ x.seq = seq[x.call] /\ x.seq \in Seqs
  BY <1>1, <1>2, MessageFacts DEF AgentInv, Own, Carries
<1>4. /\ UNCHANGED <<objects, caller, link, responses, down, executed>>
      /\ blockChan[m][x.seq] = <<>>
      /\ blockChan' = [blockChan EXCEPT ![m][x.seq] = <<x>>]
      /\ agent' = [agent EXCEPT ![m] = None]
  BY <1>2 DEF WriteResponse
<1>5. UNCHANGED <<objPool, call, seq, result>>
  BY <1>4 DEF objects, caller
<1>6. Ran(n, c)' <=> Ran(n, c)
  BY <1>4 DEF Ran
<1>7. OnLink(n, c)' = OnLink(n, c)
  BY <1>4 DEF OnLink
<1>8. CASE c # x.call
  <2>1. \A y \in Answer : InChannel(y, c)' <=> InChannel(y, c)
    <3>1. Numbered(c) => ~(From[c] = m /\ seq[c] = x.seq)
      BY <1>1, <1>3, <1>8 DEF NumberInv
    <3>2. seq[c] \in Seqs
      BY <1>1 DEF TypeOK
    <3>3. Numbered(c) => blockChan'[From[c]][seq[c]] = blockChan[From[c]][seq[c]]
      BY <1>1, <1>3, <1>4, <3>1, <3>2 DEF TypeOK
    <3>4. QED
      BY <1>5, <3>3 DEF InChannel, Numbered
  <2>2. \A err : Says(agent'[From[c]], n, c, err) <=> Says(agent[From[c]], n, c, err)
    <3>1. CASE From[c] = m
      <4>1. agent'[m] = None
        BY <1>1, <1>4 DEF TypeOK
      <4>2. QED
        BY <1>2, <1>8, <3>1, <4>1, SaysFacts DEF Says
    <3>2. CASE From[c] # m
      <4>1. agent'[From[c]] = agent[From[c]]
        BY <1>1, <1>4, <3>2 DEF TypeOK
      <4>2. QED
        BY <4>1
    <3>3. QED
      BY <3>1, <3>2
  <2>3. QED
    BY <1>1, <1>4, <1>5, <1>6, <1>7, <2>1, <2>2, KeptTrue
<1>9. CASE c = x.call
  <2>1. agent'[m] = None /\ blockChan'[m][x.seq] = <<x>>
    BY <1>1, <1>3, <1>4 DEF TypeOK
  <2>2. \A y \in Answer : ~InChannel(y, c)
    BY <1>3, <1>4, <1>9 DEF InChannel
  <2>3. \A y \in Answer : InChannel(y, c)' <=> y = x
    BY <1>3, <1>5, <1>9, <2>1 DEF InChannel, Numbered
  <2>4. \A err : ~Says(agent'[m], n, c, err)
    BY <2>1, SaysFacts
  <2>5. \A err : Around(n, c, err)' <=> Around(n, c, err)
    BY <1>2, <1>3, <1>4, <1>5, <1>7, <1>9, <2>2, <2>3, <2>4 DEF Around
  <2>6. Told(c)'
    BY <2>3 DEF Told
  <2>7. SourceInv(n, c)'
    BY <1>1, <1>5, <1>6, <2>5 DEF True, SourceInv
  <2>8. ReportInv(n, c)'
    BY <2>6 DEF ReportInv
  <2>9. LateInv(n, c)'
    <3> SUFFICES ASSUME Ran(n, c), call[c] # "returned"
                 PROVE  ~Says(x, n, c, "ErrUnknowObj")
      BY <1>1, <1>5, <1>6, <2>3, <2>6 DEF True, LateInv
    <3>1. ~Told(c)
      BY <2>2 DEF Told
    <3>2. QED
      BY <1>1, <1>2, <1>3, <1>9, <3>1, SaysFacts DEF True, LateInv
  <2>10. QED
    BY <2>7, <2>8, <2>9 DEF True
<1>10. QED
  BY <1>8, <1>9

LEMMA AppendRan ==
    ASSUME NEW m \in Module, executed[m] \in Seq(Copy), NEW p \in Copy,
           executed'[m] = Append(executed[m], p), NEW c
    PROVE  Ran(m, c)' <=> Ran(m, c) \/ p.call = c
<1> DEFINE s == executed[m]
           t == executed'[m]
           l == Len(s)
<1>1. /\ DOMAIN t = 1 .. l + 1 /\ DOMAIN s = 1 .. l /\ l \in Nat
      /\ t[l + 1] = p
      /\ \A i \in 1 .. l : t[i] = s[i]
  OBVIOUS
<1> HIDE DEF l
<1>2. QED
  BY <1>1 DEF Ran

(* A module executes a request, and reports it. *)
LEMMA ExecuteTruth ==
    ASSUME IInv, TruthInv, NEW m \in Module, RequestProcess(m)
    PROVE  TruthInv'
<1> SUFFICES ASSUME NEW n \in Module, NEW c \in Call
             PROVE  True(n, c)'
  BY DEF TruthInv
<1>1. TypeOK /\ From[c] \in Module /\ True(n, c) /\ "named" \in Conn
  BY ROCCallAssumption, MessageFacts DEF IInv, TruthInv
<1>2. PICK req \in Message, err \in {"ErrUnknowObj", "error", "none"} : Executes(m, req, err)
  BY <1>1, ExecuteMoves
<1>3. /\ UNCHANGED <<call, location, objPool, seq, result, blockChan, responses, agent>>
      /\ \A l \in Module : l # m => UNCHANGED <<executed[l], down[l]>>
      /\ req.call \in Call /\ req.seq \in Seqs /\ ~down[m]
  BY <1>2, MessageFacts DEF Executes
<1>4. \A y \in Answer : InChannel(y, c)' <=> InChannel(y, c)
  BY <1>3 DEF InChannel, Numbered
<1>5. Told(c)' <=> Told(c)
  BY <1>3, <1>4 DEF Told
<1> DEFINE reports == /\ err # "none" /\ n = m /\ From[c] = From[req.call]
                      /\ From[c] # m /\ NeedReturn[req.call]
           x == Response(req.call, m, req.seq, err)
<1>6. /\ reports => OnLink(n, c)' = Append(OnLink(n, c), x)
      /\ ~reports => OnLink(n, c)' = OnLink(n, c)
  BY <1>1, <1>2 DEF Executes, OnLink
<1>7. err # "none" => /\ x \in Answer /\ x.call = req.call /\ x.from = m /\ x.err = err
  <2>1. x.call = req.call /\ x.from = m /\ x.err = err
    BY DEF Response
  <2>2. QED
    BY <1>3, <2>1, MessageFacts
<1> HIDE DEF x
<1>8. reports =>
        /\ \A e : Said(OnLink(n, c)', n, c, e) <=>
             Said(OnLink(n, c), n, c, e) \/ Says(x, n, c, e)
        /\ First(OnLink(n, c), n, c)
             /\ (Says(x, n, c, "ErrUnknowObj") => Said(OnLink(n, c), n, c, "error"))
             => First(OnLink(n, c)', n, c)
  <2> SUFFICES ASSUME reports
               PROVE  /\ \A e : Said(Append(OnLink(n, c), x), n, c, e) <=>
                           Said(OnLink(n, c), n, c, e) \/ Says(x, n, c, e)
                      /\ First(OnLink(n, c), n, c)
                           /\ (Says(x, n, c, "ErrUnknowObj") =>
                                 Said(OnLink(n, c), n, c, "error"))
                           => First(Append(OnLink(n, c), x), n, c)
    BY <1>6
  <2>1. OnLink(n, c) \in Seq(Message \cup Answer) /\ x \in Message \cup Answer
    BY <1>1, <1>7, LinkType DEF OnLink
  <2>2. QED
    BY ONLY <2>1, AppendSaid
<1>9. CASE n # m \/ c # req.call
  <2>1. \A e : reports => ~Says(x, n, c, e)
    BY <1>7, <1>9 DEF Says
  <2>2. /\ \A e : Said(OnLink(n, c)', n, c, e) <=> Said(OnLink(n, c), n, c, e)
        /\ First(OnLink(n, c), n, c) => First(OnLink(n, c)', n, c)
    BY <1>6, <1>8, <2>1
  <2>3. Ran(n, c)' <=> Ran(n, c)
    <3>1. CASE n # m
      BY <1>3, <3>1 DEF Ran
    <3>2. CASE executed'[m] = executed[m] /\ n = m
      BY <3>2 DEF Ran
    <3>3. CASE executed'[m] = Append(executed[m], CopyOf(req)) /\ n = m
      <4>1. executed[m] \in Seq(Copy) /\ CopyOf(req) \in Copy /\ CopyOf(req).call = req.call
        BY <1>1, MessageFacts DEF TypeOK, CopyOf
      <4>2. QED
        BY <1>9, <3>3, <4>1, AppendRan
    <3>4. QED
      BY <1>2, <3>1, <3>2, <3>3 DEF Executes
  <2>4. ~down'[n] => ~down[n]
    BY <1>3
  <2>5. QED
    BY <1>1, <1>3, <1>4, <2>2, <2>3, <2>4, KeptTrue
<1>10. CASE n = m /\ c = req.call /\ err = "ErrUnknowObj"
  <2>1. Target[c] \notin objPool[n] /\ executed'[n] = executed[n]
    BY <1>2, <1>10 DEF Executes
  <2>2. Ran(n, c)' <=> Ran(n, c)
    BY <2>1 DEF Ran
  <2>3. /\ \A e : e # "ErrUnknowObj" =>
             (Said(OnLink(n, c)', n, c, e) <=> Said(OnLink(n, c), n, c, e))
        /\ First(OnLink(n, c), n, c) /\ (reports => Said(OnLink(n, c), n, c, "error"))
             => First(OnLink(n, c)', n, c)
    BY <1>6, <1>7, <1>8, <1>10 DEF Says
  <2>4. SourceInv(n, c)'
    <3>1. Around(n, c, "error")' <=> Around(n, c, "error")
      BY <1>3, <1>4, <2>3 DEF Around
    <3>2. QED
      BY <1>1, <1>3, <2>1, <2>2, <3>1 DEF True, SourceInv
  <2>5. ReportInv(n, c)'
    BY <1>1, <1>3, <1>5, <1>10, <2>2, <2>3 DEF True, ReportInv
  <2>6. LateInv(n, c)'
    <3> SUFFICES ASSUME Ran(n, c), ~Told(c), ~Says(agent[From[c]], n, c, "error")
                 PROVE  /\ ~Says(agent[From[c]], n, c, "ErrUnknowObj")
                        /\ First(responses[From[c]], n, c)
                        /\ \/ Said(responses[From[c]], n, c, "error")
                           \/ First(OnLink(n, c)', n, c)
      BY <1>1, <1>3, <1>4, <1>5, <2>2 DEF True, LateInv
    <3>1. /\ ~Says(agent[From[c]], n, c, "ErrUnknowObj")
          /\ First(responses[From[c]], n, c)
          /\ \/ Said(responses[From[c]], n, c, "error")
             \/ First(OnLink(n, c), n, c)
      BY <1>1 DEF True, LateInv
    <3>2. reports => \/ Said(responses[From[c]], n, c, "error")
                     \/ Said(OnLink(n, c), n, c, "error")
      BY <1>1, <1>3, <1>10 DEF True, ReportInv
    <3>3. QED
      BY <2>3, <3>1, <3>2
  <2>7. QED
    BY <2>4, <2>5, <2>6 DEF True
<1>11. CASE n = m /\ c = req.call /\ err # "ErrUnknowObj"
  <2>1. /\ Target[c] \in objPool[n]
        /\ executed'[n] = Append(executed[n], CopyOf(req))
    BY <1>2, <1>11 DEF Executes
  <2>2. Ran(n, c)'
    <3>1. executed[m] \in Seq(Copy) /\ CopyOf(req) \in Copy /\ CopyOf(req).call = req.call
      BY <1>1, MessageFacts DEF TypeOK, CopyOf
    <3>2. QED
      BY <1>11, <2>1, <3>1, AppendRan
  <2>3. ~Around(n, c, "ErrUnknowObj")
    BY <1>1, <2>1 DEF True, SourceInv
  <2>4. \A e : e # "error" =>
          (Said(OnLink(n, c)', n, c, e) <=> Said(OnLink(n, c), n, c, e))
    BY <1>6, <1>7, <1>8, <1>11 DEF Says
  <2>5. ~Around(n, c, "ErrUnknowObj")'
    BY <1>3, <1>4, <2>3, <2>4 DEF Around
  <2>6. SourceInv(n, c)'
    BY <2>2, <2>5 DEF SourceInv
  <2>7. LateInv(n, c)'
    <3>1. /\ ~Says(result'[c], n, c, "ErrUnknowObj")
          /\ ~Says(agent'[From[c]], n, c, "ErrUnknowObj")
          /\ \A y \in Answer : InChannel(y, c)' => ~Says(y, n, c, "ErrUnknowObj")
          /\ ~Said(responses'[From[c]], n, c, "ErrUnknowObj")
          /\ ~Said(OnLink(n, c)', n, c, "ErrUnknowObj")
      BY <2>5 DEF Around
    <3>2. First(responses'[From[c]], n, c) /\ First(OnLink(n, c)', n, c)
      BY <3>1, SaysFacts
    <3>3. QED
      BY <3>1, <3>2 DEF LateInv
  <2>8. ReportInv(n, c)'
    <3> SUFFICES ASSUME NeedReturn[c], n # From[c], ~down'[n]
                 PROVE  Said(OnLink(n, c)', n, c, "error")
      BY DEF ReportInv
    <3>1. err = "error"
      BY <1>2, <1>11 DEF Executes
    <3>2. reports /\ Says(x, n, c, "error")
      BY <1>7, <1>11, <3>1 DEF Says
    <3>3. QED
      BY <1>8, <3>2
  <2>9. QED
    BY <2>6, <2>7, <2>8 DEF True
<1>12. QED
  BY <1>9, <1>10, <1>11

LEMMA StepTruth == IInv /\ WayInv /\ TruthInv /\ [Next]_vars => TruthInv'
<1> SUFFICES ASSUME IInv, WayInv, TruthInv, [Next]_vars
             PROVE  TruthInv'
  OBVIOUS
<1> DEFINE same == UNCHANGED <<caller, blockChan, link, threads, down, executed>>
<1>1. ASSUME same, \A m \in Module : objPool'[m] \subseteq objPool[m]
      PROVE  TruthInv'
  <2> SUFFICES ASSUME NEW n \in Module, NEW c \in Call
               PROVE  True(n, c)'
    BY DEF TruthInv
  <2>1. UNCHANGED <<call, seq, result, responses, agent>> /\ True(n, c)
    BY <1>1 DEF TruthInv, caller, threads
  <2>2. OnLink(n, c)' = OnLink(n, c) /\ (Ran(n, c)' <=> Ran(n, c))
    BY <1>1 DEF OnLink, Ran
  <2>3. \A y \in Answer : InChannel(y, c)' <=> InChannel(y, c)
    BY <1>1, <2>1 DEF InChannel, Numbered
  <2>4. Target[c] \notin objPool[n] => Target[c] \notin objPool'[n]
    BY <1>1
  <2>5. QED
    BY <1>1, <2>1, <2>2, <2>3, <2>4, KeptTrue
<1>2. ASSUME NEW m \in Module, NEW o \in Obj, DelObj(m, o)
      PROVE  TruthInv'
  <2>1. same /\ \A n \in Module : objPool'[n] \subseteq objPool[n]
    BY <1>2 DEF DelObj, IInv, TypeOK
  <2>2. QED
    BY <1>1, <2>1
<1>3. \/ \E c \in Call : ROCCall(c)
      \/ \E k \in Conn, m, n \in Module : OnRecvSubnetMsg(k, m, n)
      \/ \E m \in Module : RequestProcess(m) \/ TakeResponse(m) \/ WriteResponse(m)
      \/ \E m \in Module, o \in Obj : DelObj(m, o)
      \/ same /\ objPool' = objPool
  BY DEF Next, vars, objects, ResponseProcess, Rebind
<1> HIDE DEF same
<1>4. QED
  BY <1>1, <1>2, <1>3, CallTruth, ReceiveTruth, ExecuteTruth, TakeTruth, WriteTruth

(* The answer with which ROCCallBlock returns tells what happened at the    *)
(* module that gave it: it executed the call if it reports the call's error *)
(* and, if it reports an unknown object, did not and never will, however    *)
(* often the object was bound and deleted since, and although the same call *)
(* may reach that module by two connections (rocRequestProcess,             *)
(* rocResponseProcess).                                                     *)
THEOREM ROCCallTrue == Spec => []AnswersAreTrue
<1>1. IInv /\ OwnAnswer /\ TruthInv => AnswersAreTrue
  <2> SUFFICES ASSUME IInv, OwnAnswer, TruthInv, NEW c \in Call, result[c] # None
               PROVE  result[c].err = "error" <=> Ran(result[c].from, c)
    BY DEF AnswersAreTrue
  <2>1. /\ result[c] \in Answer /\ result[c].call = c
        /\ result[c].from \in Module /\ result[c].err \in {"ErrUnknowObj", "error"}
    BY DEF IInv, TypeOK, OwnAnswer, Answer
  <2>2. Says(result[c], result[c].from, c, result[c].err)
    BY <2>1 DEF Says
  <2>3. True(result[c].from, c)
    BY <2>1 DEF TruthInv
  <2>4. QED
    BY <2>1, <2>2, <2>3 DEF True, SourceInv, LateInv, Around
<1>2. QED
  BY InitInv, StepInv, StepOwn, InitWay, StepWay, InitTruth, StepTruth, <1>1, PTL
     DEF Spec, IInv
=============================================================================
