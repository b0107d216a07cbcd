--------------------------- MODULE Subnet_proofs ---------------------------
(***************************************************************************)
(* Theorems about Subnet, for any modules and any priorities, and with any *)
(* number of faults: type correctness, that a dialler joins only when the  *)
(* module dialled has accepted the same connection, and, as long as no     *)
(* fault has happened, that two modules join on one connection only and    *)
(* that nothing ends before they have.                                     *)
(***************************************************************************)
EXTENDS Subnet, TLAPS, SequenceTheorems

-----------------------------------------------------------------------------
(* The names of connections, of their ends and of the entries of a pool.    *)

LEMMA ConnFacts ==
    ASSUME NEW c \in Conn
    PROVE  /\ c[1] \in Node /\ c[2] \in Node
           /\ Client(c) \in Ep /\ Task(c) \in Ep
           /\ Client(c)[1] = c /\ Task(c)[1] = c
           /\ Client(c)[2] = "client" /\ Task(c)[2] = "task"
           /\ Client(c) # Task(c)
           /\ Peer(Client(c)) = Task(c) /\ Peer(Task(c)) = Client(c)
<1>1. PICK d \in Dials, k \in 1 .. MaxRun : c = <<d[1], d[2], k>>
  BY DEF Conn
<1>2. d[1] \in Node /\ d[2] \in Node
  BY DialsAssumption
<1>3. QED
  BY <1>1, <1>2 DEF Client, Task, Peer, Ep, Side

LEMMA EpFacts ==
    ASSUME NEW ep \in Ep
    PROVE  /\ ep[1] \in Conn
           /\ ep[2] \in {"client", "task"}
           /\ ep[2] = "client" => ep = Client(ep[1]) /\ Peer(ep) = Task(ep[1])
           /\ ep[2] = "task" => ep = Task(ep[1]) /\ Peer(ep) = Client(ep[1])
           /\ At(ep) \in Node
           /\ Peer(ep) \in Ep
<1>1. /\ ep[1] \in Conn
      /\ ep[2] \in {"client", "task"}
      /\ ep = <<ep[1], ep[2]>>
  BY DEF Ep, Side
<1>2. /\ ep[1][1] \in Node /\ ep[1][2] \in Node
      /\ Client(ep[1]) \in Ep /\ Task(ep[1]) \in Ep
  BY <1>1, ConnFacts
<1>3. QED
  BY <1>1, <1>2 DEF Client, Task, Peer, At

LEMMA IdFacts ==
    /\ Node \subseteq Id
    /\ \A ep \in Ep : <<"auto", ep>> \in Id /\ <<"unuse", ep>> \in Id
    /\ None \notin Ep /\ None \notin Id
BY NoneAssumption DEF Id

LEMMA TailFacts ==
    ASSUME NEW S, NEW s \in Seq(S), s # <<>>
    PROVE  /\ Head(s) \in S
           /\ Tail(s) \in Seq(S)
           /\ \A i \in DOMAIN Tail(s) : i + 1 \in DOMAIN s /\ Tail(s)[i] = s[i + 1]
           /\ 1 \in DOMAIN s /\ Head(s) = s[1]
OBVIOUS

LEMMA AppendFacts ==
    ASSUME NEW S, NEW s \in Seq(S), NEW x \in S
    PROVE  /\ Append(s, x) \in Seq(S)
           /\ \A i \in DOMAIN Append(s, x) :
                \/ i \in DOMAIN s /\ Append(s, x)[i] = s[i]
                \/ Append(s, x)[i] = x
OBVIOUS

LEMMA SentFacts ==
    ASSUME TypeOK, NEW ep \in Ep, NEW m \in Message
    PROVE  Sent(ep, m) \in [Ep -> Seq(Message)]
<1>1. [inbox EXCEPT ![Peer(ep)] = Append(@, m)] \in [Ep -> Seq(Message)]
  BY EpFacts, AppendFacts DEF TypeOK
<1>2. QED
  BY <1>1 DEF Sent, TypeOK

(* What is stored under an id that the pool does not have changes nothing.  *)
LEMMA StoreFacts ==
    ASSUME TypeOK, NEW n \in Node, NEW id, NEW ep \in Ep \cup {None}
    PROVE  Store(n, id, ep) \in [Node -> [Id -> Ep \cup {None}]]
<1>1. [pool[n] EXCEPT ![id] = ep] \in [Id -> Ep \cup {None}]
  BY DEF TypeOK
<1>2. Store(n, id, ep) = [pool EXCEPT ![n] = [pool[n] EXCEPT ![id] = ep]]
  BY DEF Store, TypeOK
<1>3. QED
  BY <1>1, <1>2 DEF TypeOK

LEMMA RenameFacts ==
    ASSUME TypeOK, NEW n \in Node, NEW ep \in Ep \cup {None}, NEW id,
           ep \in Ep => id \in Id,
           Rename(n, ep, id)
    PROVE  /\ pool' \in [Node -> [Id -> Ep \cup {None}]]
           /\ tempID' \in [Ep -> Id]
<1>1. pool' = Store(n, tempID[ep], None)
  BY DEF Rename, Store
<1>2. pool' \in [Node -> [Id -> Ep \cup {None}]]
  BY <1>1, StoreFacts
<1>3. CASE ep \in Ep
  BY <1>2, <1>3 DEF TypeOK, Rename
<1>4. CASE ep = None
  BY <1>2, <1>4, IdFacts DEF TypeOK, Rename
<1>5. QED
  BY <1>3, <1>4
-----------------------------------------------------------------------------
USE DEF envVars, dialVars, acceptVars, poolVars, netVars, threadVars, epVars

(* Types, and the priority with which a dialler logs in.                    *)

LEMMA TypeInit == Init => TypeOK /\ PrioInv
<1>1. ASSUME Init
      PROVE  PrioInv
  BY <1>1, ConnFacts DEF Init, PrioInv
<1>2. ASSUME Init
      PROVE  TypeOK
  <2>1. /\ local \in BOOLEAN
        /\ run \in [Node -> 1 .. MaxRun]
        /\ faults \in 0 .. MaxFaults
        /\ daemon \in [Conn -> {"off", "token", "sleep", "add", "login", "idle"}]
        /\ mutex \in [Node -> BOOLEAN]
    BY <1>2, RunAssumption, FaultAssumption DEF Init
  <2>2. /\ serverChan \in [Node -> Seq(ChanServerHandshake)]
        /\ inbox \in [Ep -> Seq(Message)]
    BY <1>2 DEF Init
  <2>3. /\ acceptID \in [Conn -> Id \cup {None}]
        /\ pool \in [Node -> [Id -> Ep \cup {None}]]
        /\ closeID \in [Ep -> Id \cup {None}]
    BY <1>2 DEF Init
  <2>4. tempID \in [Ep -> Id]
    BY <1>2, IdFacts DEF Init
  <2>5. QED
    BY <1>2, <2>1, <2>2, <2>3, <2>4 DEF Init, TypeOK
<1>3. QED
  BY <1>1, <1>2

LEMMA TypeDaemon ==
    ASSUME TypeOK, PrioInv, NEW c \in Conn, Daemon(c)
    PROVE  TypeOK' /\ PrioInv'
<1>1. CASE ConnectDuplicate(c)
  BY <1>1
  DEF TypeOK, PrioInv, ConnectDuplicate, MayConnect
<1>2. CASE ConnectFails(c)
  <2>1. faults' \in 0 .. MaxFaults
    BY <1>2, FaultAssumption DEF ConnectFails, TypeOK
  <2>2. QED
    BY <1>2, <2>1 DEF TypeOK, PrioInv, ConnectFails, MayConnect
<1>3. CASE Retry(c)
  BY <1>3
  DEF TypeOK, PrioInv, Retry
<1>4. ASSUME NEW x \in ClientPrio, Connect(c, x)
      PROVE  TypeOK' /\ PrioInv'
  BY <1>4, ConnFacts
  DEF TypeOK, PrioInv, Connect, Start
<1>5. CASE ConnectAdd(c)
  <2>1. pool' \in [Node -> [Id -> Ep \cup {None}]]
    BY <1>5, ConnFacts, StoreFacts DEF TypeOK, ConnectAdd
  <2>2. QED
    BY <1>5, <2>1, ConnFacts, IdFacts DEF TypeOK, PrioInv, ConnectAdd
<1>6. CASE ConnectLogin(c)
  <2>1. Login(prio[Client(c)]) \in Message
    BY <1>6 DEF ConnectLogin, PrioInv, Login, Message
  <2>2. inbox' \in [Ep -> Seq(Message)]
    BY <1>6, <2>1, ConnFacts, SentFacts DEF ConnectLogin
  <2>3. QED
    BY <1>6, <2>2, ConnFacts DEF TypeOK, PrioInv, ConnectLogin
<1>7. CASE ConnectChan(c)
  <2>1. [conn |-> c, seq |-> 0] \in ChanServerHandshake
    BY DEF ChanServerHandshake
  <2>2. serverChan' \in [Node -> Seq(ChanServerHandshake)]
    BY <1>7, <2>1, ConnFacts, AppendFacts DEF ConnectChan, TypeOK
  <2>3. QED
    BY <1>7, <2>2 DEF TypeOK, PrioInv, ConnectChan
<1>8. QED
  BY <1>1, <1>2, <1>3, <1>4, <1>5, <1>6, <1>7 DEF Daemon

LEMMA TypeHandshake ==
    ASSUME TypeOK, PrioInv, NEW c \in Conn, Handshake(c)
    PROVE  TypeOK' /\ PrioInv'
<1>1. ASSUME NEW seq \in {0, 1}, HandshakeDuplicate(c, seq)
      PROVE  TypeOK' /\ PrioInv'
  <2> DEFINE n == IF seq = 0 THEN c[2] ELSE c[1]
  <2>1. n \in Node /\ serverChan[n] # <<>>
    BY <1>1, ConnFacts DEF HandshakeDuplicate, NextHandshake
  <2>2. serverChan' = [serverChan EXCEPT ![n] = Tail(@)]
    BY <1>1 DEF HandshakeDuplicate
  <2> HIDE DEF n
  <2>3. serverChan' \in [Node -> Seq(ChanServerHandshake)]
    BY <2>1, <2>2, TailFacts DEF TypeOK
  <2>4. QED
    BY <1>1, <2>3 DEF TypeOK, PrioInv, HandshakeDuplicate
<1>2. ASSUME NEW x \in TaskPrio, HandshakeRequest(c, x)
      PROVE  TypeOK' /\ PrioInv'
  <2> DEFINE answer == [conn |-> c, seq |-> 1]
  <2>1. answer \in ChanServerHandshake
    BY DEF ChanServerHandshake
  <2>2. serverChan' = [serverChan EXCEPT ![c[2]] = Tail(@), ![c[1]] = Append(@, answer)]
    BY <1>2 DEF HandshakeRequest
  <2> HIDE DEF answer
  <2>3. serverChan' \in [Node -> Seq(ChanServerHandshake)]
    <3>1. Tail(serverChan[c[2]]) \in Seq(ChanServerHandshake)
      BY <1>2, ConnFacts, TailFacts DEF HandshakeRequest, NextHandshake, TypeOK
    <3>2. Append(serverChan[c[1]], answer) \in Seq(ChanServerHandshake)
      BY <2>1, ConnFacts, AppendFacts DEF TypeOK
    <3>3. c[1] # c[2]
      BY DialsAssumption DEF Conn
    <3>4. QED
      BY <2>2, <3>1, <3>2, <3>3, ConnFacts DEF TypeOK
  <2>4. pool' \in [Node -> [Id -> Ep \cup {None}]]
    BY <1>2, ConnFacts, StoreFacts DEF HandshakeRequest
  <2>5. /\ status' \in [Ep -> {"none", "up", "down", "gone"}]
        /\ prio' \in [Ep -> ClientPrio \cup TaskPrio \cup {None}]
        /\ pc' \in [Ep -> {"off", "recv", "unuse", "rename", "store", "register",
                          "reply", "notify", "load", "remove", "done"}]
        /\ \A d \in Conn : prio'[Client(d)] = prio[Client(d)]
    BY <1>2, ConnFacts DEF HandshakeRequest, Start, TypeOK
  <2>6. QED
    BY <1>2, <2>3, <2>4, <2>5 DEF TypeOK, PrioInv, HandshakeRequest
<1>3. ASSUME NEW x \in ClientPrio, HandshakeReply(c, x)
      PROVE  TypeOK' /\ PrioInv'
  <2>1. Login(x) \in Message
    BY DEF Login, Message
  <2>2. inbox' \in [Ep -> Seq(Message)]
    BY <1>3, <2>1, ConnFacts, AppendFacts DEF HandshakeReply, TypeOK
  <2>3. serverChan' \in [Node -> Seq(ChanServerHandshake)]
    BY <1>3, ConnFacts, TailFacts DEF HandshakeReply, NextHandshake, TypeOK
  <2>4. pool' \in [Node -> [Id -> Ep \cup {None}]]
    BY <1>3, ConnFacts, StoreFacts DEF HandshakeReply
  <2>5. /\ status' \in [Ep -> {"none", "up", "down", "gone"}]
        /\ prio' \in [Ep -> ClientPrio \cup TaskPrio \cup {None}]
        /\ pc' \in [Ep -> {"off", "recv", "unuse", "rename", "store", "register",
                          "reply", "notify", "load", "remove", "done"}]
        /\ tempID' \in [Ep -> Id]
        /\ \A d \in Conn : prio'[Client(d)] \in {prio[Client(d)], x}
    BY <1>3, ConnFacts, IdFacts DEF HandshakeReply, Start, TypeOK
  <2>6. QED
    BY <1>3, <2>2, <2>3, <2>4, <2>5 DEF TypeOK, PrioInv, HandshakeReply
<1>4. QED
  BY <1>1, <1>2, <1>3 DEF Handshake

LEMMA TypeListener ==
    ASSUME TypeOK, PrioInv, NEW c \in Conn, Listener(c)
    PROVE  TypeOK' /\ PrioInv'
<1>1. ASSUME NEW x \in TaskPrio, Accept(c, x)
      PROVE  TypeOK' /\ PrioInv'
  BY <1>1, ConnFacts
  DEF TypeOK, PrioInv, Accept, Start
<1>2. CASE AcceptRead(c)
  BY <1>2, ConnFacts
  DEF TypeOK, PrioInv, AcceptRead
<1>3. CASE AcceptAdd(c)
  <2>1. pool' \in [Node -> [Id -> Ep \cup {None}]]
    BY <1>3, ConnFacts, StoreFacts DEF AcceptAdd
  <2>2. QED
    BY <1>3, <2>1 DEF TypeOK, PrioInv, AcceptAdd
<1>4. QED
  BY <1>1, <1>2, <1>3 DEF Listener

LEMMA TypeLogin ==
    ASSUME TypeOK, PrioInv, NEW ep \in Ep, OnServerLogin(ep)
    PROVE  TypeOK' /\ PrioInv'
<1>1. CASE LoginRejected(ep)
  BY <1>1, EpFacts, TailFacts
  DEF TypeOK, PrioInv, LoginRejected, Receives
<1>2. CASE LoginPreferred(ep)
  <2>1. GetServer(At(ep), At(Peer(ep))) \in Ep \cup {None}
    BY EpFacts, IdFacts DEF TypeOK, GetServer
  <2>2. inbox' \in [Ep -> Seq(Message)]
    BY <1>2, TailFacts DEF TypeOK, LoginPreferred, Receives
  <2>3. QED
    BY <1>2, <2>1, <2>2, EpFacts DEF TypeOK, PrioInv, LoginPreferred
<1>3. CASE LoginFirst(ep)
  BY <1>3, EpFacts, TailFacts
  DEF TypeOK, PrioInv, LoginFirst, Receives
<1>4. CASE UnuseStore(ep)
  <2>1. pool' \in [Node -> [Id -> Ep \cup {None}]]
    BY <1>4, EpFacts, StoreFacts DEF TypeOK, UnuseStore
  <2>2. QED
    BY <1>4, <2>1 DEF TypeOK, PrioInv, UnuseStore
<1>5. CASE UnuseRename(ep)
  <2>1. /\ pool' \in [Node -> [Id -> Ep \cup {None}]]
        /\ tempID' \in [Ep -> Id]
    BY <1>5, EpFacts, IdFacts, RenameFacts DEF UnuseRename, TypeOK
  <2>2. QED
    BY <1>5, <2>1 DEF TypeOK, PrioInv, UnuseRename
<1>6. CASE LoginStore(ep)
  <2>1. pool' \in [Node -> [Id -> Ep \cup {None}]]
    BY <1>6, EpFacts, StoreFacts DEF TypeOK, LoginStore
  <2>2. QED
    BY <1>6, <2>1 DEF TypeOK, PrioInv, LoginStore
<1>7. CASE LoginRename(ep)
  <2>1. /\ pool' \in [Node -> [Id -> Ep \cup {None}]]
        /\ tempID' \in [Ep -> Id]
    BY <1>7, EpFacts, IdFacts, RenameFacts DEF LoginRename
  <2>2. QED
    BY <1>7, <2>1 DEF TypeOK, PrioInv, LoginRename
<1>8. CASE LoginReply(ep)
  <2>1. LoginRet \in Message
    BY DEF LoginRet, Message
  <2>2. inbox' \in [Ep -> Seq(Message)]
    BY <1>8, <2>1, SentFacts DEF LoginReply
  <2>3. QED
    BY <1>8, <2>2 DEF TypeOK, PrioInv, LoginReply
<1>9. CASE LoginJoin(ep)
  BY <1>9, EpFacts DEF TypeOK, PrioInv, LoginJoin
<1>10. QED
  BY <1>1, <1>2, <1>3, <1>4, <1>5, <1>6, <1>7, <1>8, <1>9 DEF OnServerLogin

LEMMA TypeRecv ==
    ASSUME TypeOK, PrioInv, NEW ep \in Ep, LoginAnswered(ep) \/ OnConnectClose(ep)
    PROVE  TypeOK' /\ PrioInv'
<1>1. CASE LoginAnswered(ep)
  BY <1>1, TailFacts
  DEF TypeOK, PrioInv, LoginAnswered, Receives
<1>2. CASE CloseRead(ep)
  BY <1>2
  DEF TypeOK, PrioInv, CloseRead
<1>3. CASE CloseShutdown(ep)
  BY <1>3
  DEF TypeOK, PrioInv, CloseShutdown, GetServer
<1>4. CASE CloseRemove(ep)
  <2>1. pool' \in [Node -> [Id -> Ep \cup {None}]]
    BY <1>4, EpFacts, StoreFacts DEF TypeOK, CloseRemove
  <2>2. QED
    BY <1>4, <2>1 DEF TypeOK, PrioInv, CloseRemove
<1>5. QED
  BY <1>1, <1>2, <1>3, <1>4 DEF OnConnectClose

LEMMA TypeEnvironment ==
    ASSUME TypeOK, PrioInv
    PROVE  /\ \A c \in Conn : NetFails(c) => TypeOK' /\ PrioInv'
           /\ \A n \in Node : Restart(n) => TypeOK' /\ PrioInv'
<1>1. ASSUME NEW c \in Conn, NetFails(c)
      PROVE  TypeOK' /\ PrioInv'
  <2>1. faults' \in 0 .. MaxFaults
    BY <1>1, FaultAssumption DEF NetFails, TypeOK
  <2>2. inbox' \in [Ep -> Seq(Message)]
    BY <1>1 DEF NetFails, TypeOK
  <2>3. QED
    BY <1>1, <2>1, <2>2 DEF TypeOK, PrioInv, NetFails
<1>2. ASSUME NEW n \in Node, Restart(n)
      PROVE  TypeOK' /\ PrioInv'
  <2> DEFINE mine == {ep \in Ep : /\ At(ep) = n
                                  /\ \/ status[ep] # "none"
                                     \/ status[Peer(ep)] # "none"}
  <2>1. /\ run' \in [Node -> 1 .. MaxRun]
        /\ faults' \in 0 .. MaxFaults
    BY <1>2, FaultAssumption, RunAssumption DEF Restart, TypeOK
  <2>2. /\ daemon' \in [Conn -> {"off", "token", "sleep", "add", "login", "idle"}]
        /\ mutex' \in [Node -> BOOLEAN]
        /\ accepting' \in [Conn -> {"no", "read", "add", "done"}]
        /\ acceptID' \in [Conn -> Id \cup {None}]
    BY <1>2 DEF Restart, TypeOK
  <2>3. /\ pool' \in [Node -> [Id -> Ep \cup {None}]]
        /\ tempID' \in [Ep -> Id]
    BY <1>2, IdFacts DEF Restart, TypeOK
  <2>4. /\ status' = [ep \in Ep |-> IF ep \in mine THEN "gone" ELSE status[ep]]
        /\ pc' = [ep \in Ep |-> IF ep \in mine THEN "done" ELSE pc[ep]]
        /\ inbox' = [ep \in Ep |-> IF ep \in mine THEN <<>> ELSE inbox[ep]]
        /\ myconn' = [ep \in Ep |-> IF ep \in mine THEN None ELSE myconn[ep]]
        /\ closeID' = [ep \in Ep |-> IF ep \in mine THEN None ELSE closeID[ep]]
        /\ terminated' = [ep \in Ep |-> IF ep \in mine THEN FALSE ELSE terminated[ep]]
        /\ prio' = [ep \in Ep |-> IF ep \in mine THEN None ELSE prio[ep]]
    BY <1>2 DEF Restart, TypeOK
  <2>5. ASSUME NEW c \in Conn, daemon'[c] \in {"add", "login"}
        PROVE  prio'[Client(c)] \in ClientPrio
    <3>1. c[1] # n /\ daemon[c] \in {"add", "login"}
      BY <1>2, <2>5 DEF Restart
    <3>2. Client(c) \in Ep /\ Client(c) \notin mine
      BY <3>1, ConnFacts DEF At
    <3>3. QED
      BY <2>4, <3>1, <3>2 DEF PrioInv
  <2> HIDE DEF mine
  <2>6. /\ status' \in [Ep -> {"none", "up", "down", "gone"}]
        /\ pc' \in [Ep -> {"off", "recv", "unuse", "rename", "store", "register",
                          "reply", "notify", "load", "remove", "done"}]
        /\ terminated' \in [Ep -> BOOLEAN]
    BY <2>4 DEF TypeOK
  <2>7. inbox' \in [Ep -> Seq(Message)]
    BY <2>4 DEF TypeOK
  <2>8. /\ myconn' \in [Ep -> Ep \cup {None}]
        /\ closeID' \in [Ep -> Id \cup {None}]
        /\ prio' \in [Ep -> ClientPrio \cup TaskPrio \cup {None}]
    BY <2>4 DEF TypeOK
  <2>9. UNCHANGED <<local, serverChan, lost, joined>>
    BY <1>2 DEF Restart
  <2>10. QED
    BY <2>1, <2>2, <2>3, <2>5, <2>6, <2>9, <2>7, <2>8 DEF TypeOK, PrioInv
<1>3. QED
  BY <1>1, <1>2

LEMMA TypeStep == TypeOK /\ PrioInv /\ [Next]_vars => TypeOK' /\ PrioInv'
<1>1. ASSUME TypeOK, PrioInv, UNCHANGED vars
      PROVE  TypeOK' /\ PrioInv'
  BY <1>1 DEF TypeOK, PrioInv, vars
<1>2. QED
  BY <1>1, TypeDaemon, TypeHandshake, TypeListener, TypeLogin, TypeRecv,
     TypeEnvironment DEF Next, RecvMsgThread

(* Every reachable state of a subnet is well typed. *)
THEOREM SubnetTypes == Spec => []TypeOK
BY TypeInit, TypeStep, PTL DEF Spec
-----------------------------------------------------------------------------
(* A dialler joins only if the other end accepted it.                       *)

InLogin(ep) ==
    pc[ep] \in {"unuse", "rename", "store", "register", "reply", "notify"}

(* What the agreement says of the modules of one process: no end is gone,   *)
(* and the end that accepts a login holds connectMutex.                     *)
LocalCalm ==
    local =>
        \A c \in Conn : /\ status[Task(c)] # "gone"
                        /\ pc[Task(c)] = "notify" => mutex[c[2]]

(* A step that calls OnServerJoinSubnet for no dialler, revokes no login,   *)
(* sends at most logins to modules dialled and lets only their ends begin   *)
(* to handle one.                                                           *)
Harmless ==
    /\ \A c \in Conn : joined'[Client(c)] = joined[Client(c)]
    /\ \A c \in Conn : Accepted(c) => Accepted(c)'
    /\ \A ep \in Ep : InLogin(ep)' => InLogin(ep) \/ ep[2] = "task"
    /\ \A ep \in Ep : \A i \in DOMAIN inbox'[ep] :
         \/ \E j \in DOMAIN inbox[ep] : inbox'[ep][i] = inbox[ep][j]
         \/ ep[2] = "task" /\ inbox'[ep][i].type = "SLogin"

LEMMA HarmlessStep ==
    JoinedMeansAccepted /\ LoginInv /\ Harmless => JoinedMeansAccepted' /\ LoginInv'
<1> SUFFICES ASSUME JoinedMeansAccepted, LoginInv, Harmless
             PROVE  JoinedMeansAccepted' /\ LoginInv'
  OBVIOUS
<1>1. JoinedMeansAccepted'
  BY DEF JoinedMeansAccepted, Harmless
<1>2. ASSUME NEW ep \in Ep, InLogin(ep)'
      PROVE  ep[2] = "task"
  BY <1>2 DEF Harmless, LoginInv, InLogin
<1>3. ASSUME NEW ep \in Ep, NEW i \in DOMAIN inbox'[ep]
      PROVE  IF inbox'[ep][i].type = "SLogin"
             THEN ep[2] = "task"
             ELSE ep[2] = "client" /\ Accepted(ep[1])'
  BY <1>3, EpFacts DEF Harmless, LoginInv
<1>4. QED
  BY <1>1, <1>2, <1>3 DEF LoginInv, InLogin

LEMMA JoinInit == Init => JoinInv
BY ConnFacts DEF Init, JoinInv, JoinedMeansAccepted, LoginInv, RunInv, Faultless

(* An end without a goroutine was never made, and modules of one process    *)
(* do not fail.                                                             *)
LEMMA RunConnecting ==
    ASSUME TypeOK, RunInv, NEW c \in Conn, Daemon(c) \/ Handshake(c) \/ Listener(c)
    PROVE  RunInv'
<1>1. /\ UNCHANGED <<local, run, lost>>
      /\ \/ UNCHANGED <<status, pc>>
         \/ \E ep \in Ep, x \in ClientPrio \cup TaskPrio : Start(ep, x)
  BY ConnFacts
  DEF Daemon, Handshake, Listener, ConnectDuplicate, ConnectFails, Retry, Connect,
      ConnectAdd, ConnectLogin, ConnectChan, HandshakeDuplicate, HandshakeRequest,
      HandshakeReply, Accept, AcceptRead, AcceptAdd
<1>2. \A ep \in Ep : status'[ep] = "none" => pc'[ep] = "off"
  BY <1>1 DEF TypeOK, RunInv, Start
<1>3. ASSUME NEW n \in Node, serverChan'[n] # <<>>
      PROVE  local
  BY <1>3, ConnFacts
  DEF TypeOK, RunInv, Daemon, Handshake, Listener, ConnectDuplicate, ConnectFails,
      Retry, Connect, ConnectAdd, ConnectLogin, ConnectChan, HandshakeDuplicate,
      NextHandshake, HandshakeRequest, HandshakeReply, Accept, AcceptRead, AcceptAdd
<1>4. QED
  BY <1>1, <1>2, <1>3 DEF RunInv, Faultless

LEMMA RunRecv ==
    ASSUME TypeOK, RunInv, NEW ep \in Ep, RecvMsgThread(ep)
    PROVE  RunInv'
<1>1. /\ UNCHANGED <<local, run, lost, serverChan>>
      /\ pc[ep] # "off"
      /\ \A f \in Ep : f # ep => pc'[f] = pc[f]
  BY DEF TypeOK, RecvMsgThread, OnServerLogin, Receives, LoginRejected, LoginPreferred,
     LoginFirst, UnuseStore, UnuseRename, LoginStore, LoginRename, LoginReply,
     LoginJoin, LoginAnswered, OnConnectClose, CloseRead, CloseShutdown, CloseRemove
<1>2. \A f \in Ep : status'[f] = "none" => status[f] = "none"
  BY DEF TypeOK, RecvMsgThread, OnServerLogin, LoginRejected, LoginPreferred,
     LoginFirst, UnuseStore, UnuseRename, LoginStore, LoginRename, LoginReply,
     LoginJoin, LoginAnswered, OnConnectClose, CloseRead, CloseShutdown, CloseRemove
<1>3. QED
  BY <1>1, <1>2 DEF RunInv, Faultless

LEMMA RunEnvironment ==
    ASSUME TypeOK, RunInv
    PROVE  /\ \A c \in Conn : NetFails(c) => RunInv'
           /\ \A n \in Node : Restart(n) => RunInv'
<1>1. ASSUME NEW c \in Conn, NetFails(c)
      PROVE  RunInv'
  BY <1>1 DEF NetFails, RunInv
<1>2. ASSUME NEW n \in Node, Restart(n)
      PROVE  RunInv'
  <2>1. ~local /\ ~local' /\ serverChan' = serverChan
    BY <1>2 DEF Restart
  <2>2. ASSUME NEW ep \in Ep, status'[ep] = "none"
        PROVE  status[ep] = "none" /\ pc'[ep] = pc[ep]
    BY <1>2, <2>2 DEF Restart, TypeOK
  <2>3. QED
    BY <2>1, <2>2 DEF RunInv
<1>3. QED
  BY <1>1, <1>2

LEMMA RunStep == TypeOK /\ RunInv /\ [Next]_vars => RunInv'
<1>1. ASSUME RunInv, UNCHANGED vars
      PROVE  RunInv'
  BY <1>1 DEF RunInv, Faultless, vars
<1>2. QED
  BY <1>1, RunConnecting, RunRecv, RunEnvironment DEF Next

(* What is received was waiting, and the rest waits on. *)
LEMMA ReceiveFacts ==
    ASSUME TypeOK, JoinInv, NEW ep \in Ep, NEW type, Receives(ep, type)
    PROVE  /\ type = "SLogin" => ep[2] = "task"
           /\ type = "SLoginRet" => ep[2] = "client" /\ Accepted(ep[1])
           /\ \A f \in Ep : \A i \in DOMAIN inbox'[f] :
                \E j \in DOMAIN inbox[f] : inbox'[f][i] = inbox[f][j]
<1>1. /\ inbox[ep] \in Seq(Message) /\ inbox[ep] # <<>>
      /\ inbox' = [inbox EXCEPT ![ep] = Tail(@)]
      /\ Head(inbox[ep]).type = type
  BY DEF Receives, TypeOK
<1>2. 1 \in DOMAIN inbox[ep] /\ inbox[ep][1].type = type
  BY <1>1, TailFacts
<1>3. /\ type = "SLogin" => ep[2] = "task"
      /\ type = "SLoginRet" => ep[2] = "client" /\ Accepted(ep[1])
  BY <1>2 DEF JoinInv, LoginInv
<1>4. ASSUME NEW f \in Ep, NEW i \in DOMAIN inbox'[f]
      PROVE  \E j \in DOMAIN inbox[f] : inbox'[f][i] = inbox[f][j]
  <2>1. CASE f = ep
    BY <1>1, <1>4, <2>1, TailFacts DEF TypeOK
  <2>2. CASE f # ep
    BY <1>1, <1>4, <2>2 DEF TypeOK
  <2>3. QED
    BY <2>1, <2>2
<1>5. QED
  BY <1>3, <1>4

(* A message that is sent joins those that wait at the other end. *)
LEMMA SentMessages ==
    ASSUME TypeOK, NEW ep \in Ep, NEW m \in Message, inbox' = Sent(ep, m)
    PROVE  \A f \in Ep : \A i \in DOMAIN inbox'[f] :
             \/ \E j \in DOMAIN inbox[f] : inbox'[f][i] = inbox[f][j]
             \/ f = Peer(ep) /\ inbox'[f][i] = m
<1> SUFFICES ASSUME NEW f \in Ep, NEW i \in DOMAIN inbox'[f]
             PROVE  \/ \E j \in DOMAIN inbox[f] : inbox'[f][i] = inbox[f][j]
                    \/ f = Peer(ep) /\ inbox'[f][i] = m
  OBVIOUS
<1>1. CASE inbox' = inbox
  BY <1>1
<1>2. CASE inbox' = [inbox EXCEPT ![Peer(ep)] = Append(@, m)]
  <2>1. CASE f = Peer(ep)
    <3>1. inbox'[f] = Append(inbox[f], m) /\ inbox[f] \in Seq(Message)
      BY <1>2, <2>1 DEF TypeOK
    <3>2. QED
      BY <2>1, <3>1, AppendFacts
  <2>2. CASE f # Peer(ep)
    BY <1>2, <2>2 DEF TypeOK
  <2>3. QED
    BY <2>1, <2>2
<1>3. QED
  BY <1>1, <1>2 DEF Sent

LEMMA JoinConnecting ==
    ASSUME TypeOK, PrioInv, RunInv, LocalCalm,
           NEW c \in Conn, Daemon(c) \/ Handshake(c) \/ Listener(c)
    PROVE  Harmless
<1>1. CASE ConnectDuplicate(c)
  BY <1>1, ConnFacts DEF TypeOK, Harmless, InLogin, Accepted, ConnectDuplicate
<1>2. CASE ConnectFails(c)
  BY <1>2, ConnFacts DEF TypeOK, Harmless, InLogin, Accepted, ConnectFails
<1>3. CASE Retry(c)
  BY <1>3, ConnFacts DEF TypeOK, Harmless, InLogin, Accepted, Retry
<1>4. ASSUME NEW x \in ClientPrio, Connect(c, x)
      PROVE  Harmless
  BY <1>4, ConnFacts DEF TypeOK, Harmless, InLogin, Accepted, Connect, Start
<1>5. CASE ConnectAdd(c)
  BY <1>5, ConnFacts DEF TypeOK, Harmless, InLogin, Accepted, ConnectAdd
<1>6. CASE ConnectLogin(c)
  <2>1. Login(prio[Client(c)]) \in Message /\ Login(prio[Client(c)]).type = "SLogin"
    BY <1>6 DEF ConnectLogin, PrioInv, Login, Message
  <2>2. \A f \in Ep : \A i \in DOMAIN inbox'[f] :
             \/ \E j \in DOMAIN inbox[f] : inbox'[f][i] = inbox[f][j]
             \/ f = Task(c) /\ inbox'[f][i].type = "SLogin"
    BY <1>6, <2>1, ConnFacts, SentMessages DEF ConnectLogin
  <2>3. QED
    BY <1>6, <2>2, ConnFacts DEF Harmless, InLogin, Accepted, ConnectLogin
<1>7. CASE ConnectChan(c)
  BY <1>7, ConnFacts DEF TypeOK, Harmless, InLogin, Accepted, ConnectChan
<1>8. ASSUME NEW seq \in {0, 1}, HandshakeDuplicate(c, seq)
      PROVE  Harmless
  BY <1>8, ConnFacts DEF TypeOK, Harmless, InLogin, Accepted, HandshakeDuplicate
<1>9. ASSUME NEW x \in TaskPrio, HandshakeRequest(c, x)
      PROVE  Harmless
  <2>1. /\ ~mutex[c[2]] /\ local
    BY <1>9, ConnFacts DEF HandshakeRequest, NextHandshake, RunInv
  <2>2. /\ UNCHANGED <<joined, inbox>>
        /\ \A ep \in Ep :
             /\ pc'[ep] = IF ep = Task(c) THEN "recv" ELSE pc[ep]
             /\ status'[ep] = IF ep = Task(c) THEN "up" ELSE status[ep]
    BY <1>9, ConnFacts DEF TypeOK, HandshakeRequest, Start
  <2>3. \A d \in Conn : Accepted(d) => Accepted(d)'
    <3>1. status[Task(c)] # "gone" /\ pc[Task(c)] # "notify"
      BY <2>1 DEF LocalCalm
    <3>2. QED
      BY <2>2, <3>1, ConnFacts DEF Accepted
  <2>4. QED
    BY <2>2, <2>3 DEF Harmless, InLogin
<1>10. ASSUME NEW x \in ClientPrio, HandshakeReply(c, x)
      PROVE  Harmless
  <2>1. Login(x) \in Message /\ Login(x).type = "SLogin"
    BY DEF Login, Message
  <2>2. ASSUME NEW f \in Ep, NEW i \in DOMAIN inbox'[f]
        PROVE  \/ \E j \in DOMAIN inbox[f] : inbox'[f][i] = inbox[f][j]
               \/ f = Task(c) /\ inbox'[f][i].type = "SLogin"
    <3>1. inbox' = [inbox EXCEPT ![Task(c)] = Append(@, Login(x))]
      BY <1>10 DEF HandshakeReply
    <3>2. CASE f = Task(c)
      <4>1. inbox'[f] = Append(inbox[f], Login(x)) /\ inbox[f] \in Seq(Message)
        BY <3>1, <3>2 DEF TypeOK
      <4>2. QED
        BY <2>1, <3>2, <4>1, AppendFacts
    <3>3. CASE f # Task(c)
      BY <3>1, <3>3 DEF TypeOK
    <3>4. QED
      BY <3>2, <3>3
  <2>3. QED
    BY <1>10, <2>2, ConnFacts DEF TypeOK, Harmless, InLogin, Accepted, HandshakeReply, Start
<1>11. ASSUME NEW x \in TaskPrio, Accept(c, x)
      PROVE  Harmless
  <2>1. /\ status[Task(c)] = "none" /\ pc[Task(c)] = "off"
        /\ UNCHANGED <<joined, inbox>>
        /\ \A ep \in Ep :
             /\ pc'[ep] = IF ep = Task(c) THEN "recv" ELSE pc[ep]
             /\ status'[ep] = IF ep = Task(c) THEN "up" ELSE status[ep]
    BY <1>11, ConnFacts DEF TypeOK, RunInv, Accept, Start
  <2>2. \A d \in Conn : Accepted(d) => Accepted(d)'
    BY <2>1, ConnFacts DEF Accepted
  <2>3. QED
    BY <2>1, <2>2 DEF Harmless, InLogin
<1>12. CASE AcceptRead(c)
  BY <1>12, ConnFacts DEF TypeOK, Harmless, InLogin, Accepted, AcceptRead
<1>13. CASE AcceptAdd(c)
  BY <1>13, ConnFacts DEF TypeOK, Harmless, InLogin, Accepted, AcceptAdd
<1>14. QED
  BY <1>1, <1>2, <1>3, <1>4, <1>5, <1>6, <1>7, <1>8, <1>9, <1>10, <1>11,
     <1>12, <1>13 DEF Daemon, Handshake, Listener

LEMMA JoinLogin ==
    ASSUME TypeOK, JoinInv, NEW ep \in Ep, OnServerLogin(ep)
    PROVE  JoinedMeansAccepted' /\ LoginInv'
<1>1. CASE LoginRejected(ep)
  <2>1. Receives(ep, "SLogin")
    BY <1>1 DEF LoginRejected
  <2>2. Harmless
    BY <1>1, <2>1, ReceiveFacts DEF TypeOK, Harmless, InLogin, Accepted, LoginRejected
  <2>3. QED
    BY <2>2, HarmlessStep DEF JoinInv
<1>2. CASE LoginPreferred(ep)
  <2>1. Receives(ep, "SLogin")
    BY <1>2 DEF LoginPreferred
  <2>2. ep[2] = "task"
    BY <2>1, ReceiveFacts
  <2>3. /\ pc[ep] = "recv"
        /\ UNCHANGED <<joined, status>>
        /\ \A f \in Ep : f # ep => pc'[f] = pc[f]
    BY <1>2, <2>1 DEF TypeOK, LoginPreferred, Receives
  <2>4. \A c \in Conn : Accepted(c) => Accepted(c)'
    BY <2>3, ConnFacts DEF Accepted
  <2>5. Harmless
    BY <2>1, <2>2, <2>3, <2>4, ReceiveFacts DEF Harmless, InLogin
  <2>6. QED
    BY <2>5, HarmlessStep DEF JoinInv
<1>3. CASE LoginFirst(ep)
  <2>1. Receives(ep, "SLogin")
    BY <1>3 DEF LoginFirst
  <2>2. ep[2] = "task"
    BY <2>1, ReceiveFacts
  <2>3. /\ pc[ep] = "recv"
        /\ UNCHANGED <<joined, status>>
        /\ \A f \in Ep : f # ep => pc'[f] = pc[f]
    BY <1>3, <2>1 DEF TypeOK, LoginFirst, Receives
  <2>4. \A c \in Conn : Accepted(c) => Accepted(c)'
    BY <2>3, ConnFacts DEF Accepted
  <2>5. Harmless
    BY <2>1, <2>2, <2>3, <2>4, ReceiveFacts DEF Harmless, InLogin
  <2>6. QED
    BY <2>5, HarmlessStep DEF JoinInv
<1>4. CASE UnuseStore(ep)
  <2>1. Harmless
    BY <1>4 DEF TypeOK, Harmless, InLogin, Accepted, UnuseStore
  <2>2. QED
    BY <2>1, HarmlessStep DEF JoinInv
<1>5. CASE UnuseRename(ep)
  <2>1. Harmless
    BY <1>5 DEF TypeOK, Harmless, InLogin, Accepted, UnuseRename
  <2>2. QED
    BY <2>1, HarmlessStep DEF JoinInv
<1>6. CASE LoginStore(ep)
  <2>1. Harmless
    BY <1>6 DEF TypeOK, Harmless, InLogin, Accepted, LoginStore
  <2>2. QED
    BY <2>1, HarmlessStep DEF JoinInv
<1>7. CASE LoginRename(ep)
  <2>1. Harmless
    BY <1>7 DEF TypeOK, Harmless, InLogin, Accepted, LoginRename
  <2>2. QED
    BY <2>1, HarmlessStep DEF JoinInv
<1>8. CASE LoginReply(ep)
  <2>1. /\ ep[2] = "task" /\ ep = Task(ep[1]) /\ Peer(ep) = Client(ep[1])
        /\ joined' = joined /\ status' = status
        /\ pc[ep] = "reply" /\ pc' = [pc EXCEPT ![ep] = "notify"]
        /\ inbox' = Sent(ep, LoginRet)
    BY <1>8, EpFacts DEF LoginReply, JoinInv, LoginInv
  <2>2. LoginRet \in Message /\ LoginRet.type = "SLoginRet"
    BY DEF LoginRet, Message
  <2>3. \A c \in Conn : Accepted(c) => Accepted(c)'
    BY <2>1, ConnFacts DEF TypeOK, Accepted
  <2>4. JoinedMeansAccepted'
    BY <2>1, <2>3 DEF JoinInv, JoinedMeansAccepted
  <2>5. ASSUME NEW f \in Ep, NEW i \in DOMAIN inbox'[f]
        PROVE  IF inbox'[f][i].type = "SLogin"
               THEN f[2] = "task"
               ELSE f[2] = "client" /\ Accepted(f[1])'
    <3>1. CASE \E j \in DOMAIN inbox[f] : inbox'[f][i] = inbox[f][j]
      BY <2>3, <2>5, <3>1, EpFacts DEF JoinInv, LoginInv
    <3>2. CASE f = Peer(ep) /\ inbox'[f][i] = LoginRet
      <4>1. f = Client(ep[1]) /\ Task(f[1]) = ep /\ f[2] = "client"
        BY <2>1, <3>2, EpFacts, ConnFacts
      <4>2. pc'[ep] = "notify"
        BY <2>1 DEF TypeOK
      <4>3. QED
        BY <2>2, <3>2, <4>1, <4>2 DEF Accepted
    <3>3. QED
      BY <2>1, <2>2, <3>1, <3>2, SentMessages
  <2>6. QED
    BY <2>1, <2>4, <2>5 DEF TypeOK, JoinInv, LoginInv
<1>9. CASE LoginJoin(ep)
  <2>1. /\ ep[2] = "task" /\ ep = Task(ep[1])
        /\ UNCHANGED <<status, inbox>>
        /\ \A f \in Ep : pc'[f] = IF f = ep THEN "recv" ELSE pc[f]
        /\ \A f \in Ep : joined'[f] = IF f = ep THEN TRUE ELSE joined[f]
    BY <1>9, EpFacts DEF TypeOK, LoginJoin, JoinInv, LoginInv
  <2>2. Harmless
    BY <2>1, ConnFacts DEF Harmless, InLogin, Accepted
  <2>3. QED
    BY <2>2, HarmlessStep DEF JoinInv
<1>10. QED
  BY <1>1, <1>2, <1>3, <1>4, <1>5, <1>6, <1>7, <1>8, <1>9 DEF OnServerLogin

LEMMA JoinAnswered ==
    ASSUME TypeOK, JoinInv, NEW ep \in Ep, LoginAnswered(ep)
    PROVE  JoinedMeansAccepted' /\ LoginInv'
<1>1. /\ Receives(ep, "SLoginRet")
      /\ joined' = [joined EXCEPT ![ep] = TRUE]
      /\ UNCHANGED <<pc, status>>
  BY DEF LoginAnswered, threadVars
<1>2. ep = Client(ep[1]) /\ Accepted(ep[1])
  BY <1>1, ReceiveFacts, EpFacts
<1>3. \A c \in Conn : Accepted(c)' <=> Accepted(c)
  BY <1>1, <1>2, EpFacts, ConnFacts DEF TypeOK, Accepted
<1>4. JoinedMeansAccepted'
  <2>1. ASSUME NEW c \in Conn, joined'[Client(c)]
        PROVE  Accepted(c)
    <3>1. CASE Client(c) = ep
      BY <1>2, <3>1, ConnFacts
    <3>2. CASE Client(c) # ep
      BY <1>1, <2>1, <3>2, ConnFacts DEF TypeOK, JoinInv, JoinedMeansAccepted
    <3>3. QED
      BY <3>1, <3>2
  <2>2. QED
    BY <1>3, <2>1 DEF JoinedMeansAccepted
<1>5. LoginInv'
  BY <1>1, <1>3, ReceiveFacts, EpFacts DEF JoinInv, LoginInv
<1>6. QED
  BY <1>4, <1>5

LEMMA JoinClose ==
    ASSUME TypeOK, NEW ep \in Ep, OnConnectClose(ep)
    PROVE  Harmless
<1>1. CASE CloseRead(ep)
  BY <1>1 DEF TypeOK, Harmless, InLogin, Accepted, CloseRead
<1>2. CASE CloseShutdown(ep)
  BY <1>2 DEF TypeOK, Harmless, InLogin, Accepted, CloseShutdown
<1>3. CASE CloseRemove(ep)
  BY <1>3 DEF TypeOK, Harmless, InLogin, Accepted, CloseRemove
<1>4. QED
  BY <1>1, <1>2, <1>3 DEF OnConnectClose

LEMMA JoinEnvironment ==
    ASSUME TypeOK, RunInv
    PROVE  /\ \A c \in Conn : NetFails(c) => Harmless
           /\ \A n \in Node : Restart(n) => Harmless
<1>1. ASSUME NEW c \in Conn, NetFails(c)
      PROVE  Harmless
  BY <1>1 DEF TypeOK, Harmless, InLogin, Accepted, NetFails
<1>2. ASSUME NEW n \in Node, Restart(n)
      PROVE  Harmless
  <2>1. /\ joined' = joined
        /\ \A ep \in Ep : inbox'[ep] \in {inbox[ep], <<>>}
        /\ \A ep \in Ep : \/ status'[ep] = status[ep] /\ pc'[ep] = pc[ep]
                          \/ status'[ep] = "gone" /\ pc'[ep] = "done"
    BY <1>2 DEF TypeOK, Restart
  <2>2. \A c \in Conn : Accepted(c) => Accepted(c)'
    BY <2>1, ConnFacts DEF Accepted
  <2>3. QED
    BY <2>1, <2>2 DEF Harmless, InLogin
<1>3. QED
  BY <1>1, <1>2

LEMMA JoinStep ==
    TypeOK /\ PrioInv /\ JoinInv /\ LocalCalm /\ [Next]_vars => JoinInv'
<1>1. ASSUME JoinInv, UNCHANGED vars
      PROVE  JoinedMeansAccepted' /\ LoginInv'
  BY <1>1 DEF JoinInv, JoinedMeansAccepted, LoginInv, Accepted, vars
<1>2. TypeOK /\ JoinInv /\ [Next]_vars => RunInv'
  BY RunStep DEF JoinInv
<1>3. TypeOK /\ PrioInv /\ JoinInv /\ LocalCalm /\ Harmless
        => JoinedMeansAccepted' /\ LoginInv'
  BY HarmlessStep DEF JoinInv
<1>4. TypeOK /\ PrioInv /\ JoinInv /\ LocalCalm /\ [Next]_vars
        => JoinedMeansAccepted' /\ LoginInv'
  BY <1>1, <1>3, JoinConnecting, JoinLogin, JoinAnswered, JoinClose,
     JoinEnvironment DEF Next, RecvMsgThread, JoinInv
<1>5. QED
  BY <1>2, <1>4 DEF JoinInv
-----------------------------------------------------------------------------
(* Agreement: as long as nothing fails, two modules that dial each other    *)
(* join on one connection.                                                  *)

Dialled(c) == status[Client(c)] # "none"
Dialling(c) == daemon[c] \in {"add", "login"}
LoggedIn(c) == joined[Task(c)] \/ InLogin(Task(c))
Named(c) == joined[Task(c)] \/ pc[Task(c)] \in {"register", "reply", "notify"}
Renamed(c) == joined[Task(c)] \/ pc[Task(c)] \in {"reply", "notify"}
Opposite(c, d) == c[1] = d[2] /\ c[2] = d[1]

(* No end closes, and only the first run of a process has connections.      *)
CalmInv ==
    /\ \A ep \in Ep :
         /\ status[ep] \in {"none", "up"}
         /\ pc[ep] \notin {"load", "remove", "done"}
         /\ status[ep] = "none" <=> pc[ep] = "off"
         /\ status[ep] = "up" => ep[1][3] = 1
         /\ joined[ep] => status[ep] = "up"
    /\ \A n \in Node : \A i \in DOMAIN serverChan[n] :
         serverChan[n][i].conn[3] = 1

(* connectMutex has one holder: the daemon that dials or an end that handles *)
(* a login.                                                                 *)
MutexInv ==
    /\ \A c \in Conn : Dialling(c) => mutex[c[1]] /\ c[3] = 1
    /\ \A c \in Conn : InLogin(Task(c)) => mutex[c[2]]
    /\ \A c, d \in Conn : Dialling(c) /\ Dialling(d) /\ c[1] = d[1] => c = d
    /\ \A c, d \in Conn : Dialling(c) /\ InLogin(Task(d)) => c[1] # d[2]
    /\ \A c, d \in Conn : /\ InLogin(Task(c)) /\ InLogin(Task(d)) /\ c[2] = d[2]
                          => c = d

(* A dialler logs in once, with the priority it drew.                       *)
OnceInv ==
    \A c \in Conn :
        /\ inbox[Task(c)] # <<>> =>
             /\ inbox[Task(c)] = <<Login(prio[Client(c)])>>
             /\ Dialled(c) /\ ~Dialling(c) /\ ~LoggedIn(c)
        /\ LoggedIn(c) => Dialled(c) /\ ~Dialling(c)
        /\ Dialling(c) => Dialled(c)
        /\ Dialled(c) => prio[Client(c)] \in ClientPrio
        /\ InLogin(Task(c)) => ~joined[Task(c)]

(* What a module has under the name of another is an end of a connection    *)
(* between them: its own end once it has dialled, the other one once the    *)
(* login was preferred.                                                     *)
Entry(n, p, c) ==
    /\ c[3] = 1
    /\ \/ /\ c[1] = n /\ c[2] = p /\ pool[n][p] = Client(c)
          /\ Dialled(c) /\ daemon[c] # "add" /\ tempID[Client(c)] = p
       \/ c[1] = p /\ c[2] = n /\ pool[n][p] = Task(c) /\ Named(c)
EntryInv ==
    \A n, p \in Node : pool[n][p] # None => \E c \in Conn : Entry(n, p, c)

(* The name of a connection is free only while a step under connectMutex    *)
(* is about to take it.                                                     *)
NameInv ==
    \A c \in Conn :
        /\ Named(c) => pool[c[2]][c[1]] = Task(c)
        /\ Dialled(c) => \/ pool[c[1]][c[2]] # None
                         \/ daemon[c] = "add"
                         \/ \E d \in Conn : Opposite(c, d) /\ pc[Task(d)] = "store"
        /\ pc[Task(c)] = "store" => pool[c[2]][c[1]] = None
        /\ daemon[c] = "add" => pool[c[1]][c[2]] = None
        /\ pc[Task(c)] \in {"unuse", "rename"} =>
             myconn[Task(c)] # None /\ myconn[Task(c)] = pool[c[2]][c[1]]

(* The end that accepted goes by the number drawn until it logged in.       *)
AutoInv ==
    \A c \in Conn :
        /\ \/ tempID[Task(c)] = <<"auto", Task(c)>>
           \/ tempID[Task(c)] = c[1] /\ Renamed(c)
        /\ accepting[c] = "add" => \/ acceptID[c] = <<"auto", Task(c)>>
                                   \/ acceptID[c] = c[1] /\ Renamed(c)

(* Of two connections that cross, the one that logs in has the higher       *)
(* priority.                                                                *)
WinsInv ==
    \A c, d \in Conn :
        Opposite(c, d) /\ LoggedIn(d) /\ Dialled(c)
            => prio[Client(c)] < prio[Client(d)]

(* A daemon rests when a connection was begun, by either side.              *)
Handshaking(c) ==
    \E n \in Node : \E i \in DOMAIN serverChan[n] : serverChan[n][i].conn = c
Begun(c) == Dialled(c) \/ LoggedIn(c) \/ Handshaking(c)
BeginInv ==
    \A c \in Conn : daemon[c] = "idle" =>
        \E d \in Conn : (Opposite(c, d) \/ (c[1] = d[1] /\ c[2] = d[2])) /\ Begun(d)

(* A connection that was dialled logs in, or loses; the answer is not lost. *)
Loses(c) ==
    \E d \in Conn :
        Opposite(c, d) /\ Dialled(d) /\ prio[Client(d)] >= prio[Client(c)]
EndInv ==
    \A c \in Conn :
        /\ Dialled(c) => \/ Dialling(c) \/ inbox[Task(c)] # <<>>
                         \/ LoggedIn(c) \/ Loses(c)
        /\ joined[Task(c)] \/ pc[Task(c)] = "notify"
             => joined[Client(c)] \/ inbox[Client(c)] # <<>>

AgreeInv ==
    /\ CalmInv /\ MutexInv /\ OnceInv /\ EntryInv /\ NameInv /\ AutoInv
    /\ WinsInv /\ BeginInv /\ EndInv

IInv == TypeOK /\ PrioInv /\ JoinInv /\ (Faultless => AgreeInv)

LEMMA Names ==
    /\ \A c \in Conn : c[1] # c[2] /\ At(Client(c)) = c[1] /\ At(Task(c)) = c[2]
    /\ \A c, d \in Conn :
         /\ Client(c) # Task(d)
         /\ Client(c) = Client(d) => c = d
         /\ Task(c) = Task(d) => c = d
         /\ c[1] = d[1] /\ c[2] = d[2] /\ c[3] = d[3] => c = d
<1>1. \A c \in Conn : \E d \in Dials, k \in 1 .. MaxRun :
          c = <<d[1], d[2], k>> /\ d[1] # d[2]
  BY DialsAssumption DEF Conn
<1>2. QED
  BY <1>1 DEF Client, Task, At

(* What holds before a step that fails nothing. *)
Base == TypeOK /\ JoinInv /\ Faultless /\ AgreeInv

(* A dialler dials while its name for the other module is free and nobody   *)
(* holds connectMutex: it has not dialled before.                           *)
LEMMA FreeMeansNew ==
    ASSUME Base, NEW c \in Conn, pool[c[1]][c[2]] = None, ~mutex[c[1]]
    PROVE  /\ ~Dialled(c) /\ ~LoggedIn(c) /\ ~Dialling(c) /\ inbox[Task(c)] = <<>>
           /\ \A d \in Conn : Opposite(c, d) => ~LoggedIn(d)
<1>1. daemon[c] # "add" /\ ~Dialling(c)
  BY DEF Base, AgreeInv, MutexInv, Dialling
<1>2. ASSUME NEW d \in Conn, Opposite(c, d)
      PROVE  ~LoggedIn(d) /\ pc[Task(d)] # "store"
  <2>1. ~InLogin(Task(d))
    BY <1>2 DEF Base, AgreeInv, MutexInv, Opposite
  <2>2. ~Named(d)
    BY <1>2, ConnFacts, EpFacts, IdFacts DEF Base, AgreeInv, NameInv, Opposite
  <2>3. QED
    BY <2>1, <2>2 DEF LoggedIn, Named, InLogin
<1>3. ~Dialled(c)
  BY <1>1, <1>2 DEF Base, AgreeInv, NameInv
<1>4. QED
  BY <1>1, <1>2, <1>3 DEF Base, AgreeInv, OnceInv

LEMMA AgreeConnect ==
    ASSUME Base, NEW c \in Conn, NEW x \in ClientPrio, Connect(c, x)
    PROVE  AgreeInv'
<1>1. /\ ~Dialled(c) /\ ~LoggedIn(c) /\ ~Dialling(c) /\ inbox[Task(c)] = <<>>
      /\ \A d \in Conn : Opposite(c, d) => ~LoggedIn(d)
  BY FreeMeansNew DEF Connect, MayConnect, GetServer
<1>2. /\ c[3] = 1 /\ ~mutex[c[1]] /\ pool[c[1]][c[2]] = None /\ daemon[c] = "token"
      /\ c[1] \in Node
  BY ConnFacts DEF Base, Faultless, Connect, MayConnect, GetServer
<1>3. /\ \A d \in Conn : daemon'[d] = IF d = c THEN "add" ELSE daemon[d]
      /\ \A n \in Node : (mutex'[n] <=> n = c[1] \/ mutex[n])
      /\ \A ep \in Ep :
           /\ status'[ep] = IF ep = Client(c) THEN "up" ELSE status[ep]
           /\ pc'[ep] = IF ep = Client(c) THEN "recv" ELSE pc[ep]
           /\ prio'[ep] = IF ep = Client(c) THEN x ELSE prio[ep]
      /\ UNCHANGED <<serverChan, accepting, acceptID, pool, tempID, inbox, myconn,
                     joined>>
  BY DEF Base, TypeOK, Connect, Start
<1>4. \A d \in Conn :
        /\ (Dialled(d)' <=> d = c \/ Dialled(d))
        /\ (Dialling(d)' <=> d = c \/ Dialling(d))
        /\ prio'[Client(d)] = IF d = c THEN x ELSE prio[Client(d)]
        /\ pc'[Task(d)] = pc[Task(d)]
  BY <1>3, ConnFacts, Names DEF Dialled, Dialling
<1>5. \A d \in Conn :
        /\ (InLogin(Task(d))' <=> InLogin(Task(d)))
        /\ (LoggedIn(d)' <=> LoggedIn(d))
        /\ (Named(d)' <=> Named(d)) /\ (Renamed(d)' <=> Renamed(d))
  BY <1>3, <1>4 DEF LoggedIn, InLogin, Named, Renamed
<1>6. CalmInv'
  BY <1>2, <1>3, ConnFacts DEF Base, AgreeInv, CalmInv
<1>7. MutexInv'
  BY <1>2, <1>3, <1>4, <1>5, ConnFacts DEF Base, AgreeInv, MutexInv
<1>8. OnceInv'
  BY <1>1, <1>3, <1>4, <1>5, ConnFacts DEF Base, AgreeInv, OnceInv
<1>9. EntryInv'
  BY <1>1, <1>3, <1>4, <1>5, ConnFacts DEF Base, AgreeInv, EntryInv, Entry
<1>10. NameInv'
  BY <1>1, <1>2, <1>3, <1>4, <1>5, ConnFacts DEF Base, AgreeInv, NameInv
<1>11. AutoInv'
  BY <1>3, <1>4, <1>5, ConnFacts DEF Base, AgreeInv, AutoInv
<1>12. WinsInv'
  BY <1>1, <1>4, <1>5, Names DEF Base, AgreeInv, WinsInv, Opposite, OnceInv
<1>13. BeginInv'
  BY <1>3, <1>4, <1>5 DEF Base, AgreeInv, BeginInv, Begun, Handshaking
<1>14. EndInv'
  BY <1>1, <1>3, <1>4, <1>5, Names DEF Base, AgreeInv, EndInv, Loses, Opposite
<1>15. QED
  BY <1>6, <1>7, <1>8, <1>9, <1>10, <1>11, <1>12, <1>13, <1>14 DEF AgreeInv

(* A daemon that neither begins nor ends to dial: at most the handshakes    *)
(* that wait change.                                                        *)
Waits(c) ==
    /\ \A d \in Conn : d # c => daemon'[d] = daemon[d]
    /\ ~Dialling(c) /\ daemon'[c] \notin {"add", "login"}
    /\ UNCHANGED <<mutex, accepting, acceptID, pool, tempID, prio, status, inbox, pc,
                   myconn, joined>>

LEMMA AgreeWaits ==
    ASSUME Base, NEW c \in Conn, Waits(c),
           \A n \in Node : \A i \in DOMAIN serverChan'[n] :
               serverChan'[n][i].conn[3] = 1,
           BeginInv'
    PROVE  AgreeInv'
<1>1. \A d \in Conn :
        /\ (Dialling(d)' <=> Dialling(d)) /\ (daemon'[d] = "add" <=> daemon[d] = "add")
        /\ (Dialled(d)' <=> Dialled(d))
        /\ (InLogin(Task(d))' <=> InLogin(Task(d)))
        /\ (LoggedIn(d)' <=> LoggedIn(d))
        /\ (Named(d)' <=> Named(d)) /\ (Renamed(d)' <=> Renamed(d))
  BY DEF Waits, Dialling, Dialled, InLogin, LoggedIn, Named, Renamed
<1>2. UNCHANGED <<mutex, accepting, acceptID, pool, tempID, prio, status, inbox, pc,
                  myconn, joined>>
  BY DEF Waits
<1>3. CalmInv'
  BY <1>2 DEF Base, AgreeInv, CalmInv
<1>4. MutexInv'
  BY <1>1, <1>2 DEF Base, AgreeInv, MutexInv
<1>5. OnceInv'
  BY <1>1, <1>2 DEF Base, AgreeInv, OnceInv
<1>6. EntryInv'
  BY <1>1, <1>2 DEF Base, AgreeInv, EntryInv, Entry
<1>7. NameInv'
  BY <1>1, <1>2 DEF Base, AgreeInv, NameInv
<1>8. AutoInv'
  BY <1>1, <1>2 DEF Base, AgreeInv, AutoInv
<1>9. WinsInv'
  BY <1>1, <1>2 DEF Base, AgreeInv, WinsInv
<1>10. EndInv'
  BY <1>1, <1>2 DEF Base, AgreeInv, EndInv, Loses
<1>11. QED
  BY <1>3, <1>4, <1>5, <1>6, <1>7, <1>8, <1>9, <1>10 DEF AgreeInv

(* What is in the pool under the name of the other module was begun. *)
LEMMA TakenMeansBegun ==
    ASSUME Base, NEW c \in Conn,
           pool[c[1]][c[2]] # None \/ pool[c[2]][c[1]] # None
    PROVE  \E d \in Conn : /\ Opposite(c, d) \/ (c[1] = d[1] /\ c[2] = d[2])
                           /\ Dialled(d)
<1>1. c[1] \in Node /\ c[2] \in Node
  BY ConnFacts
<1>2. PICK d \in Conn : Entry(c[1], c[2], d) \/ Entry(c[2], c[1], d)
  BY <1>1 DEF Base, AgreeInv, EntryInv
<1>3. Dialled(d) \/ Named(d)
  BY <1>2 DEF Entry
<1>4. Named(d) => LoggedIn(d)
  BY DEF Named, LoggedIn, InLogin
<1>5. Dialled(d)
  BY <1>3, <1>4 DEF Base, AgreeInv, OnceInv
<1>6. QED
  BY <1>2, <1>5 DEF Entry, Opposite

LEMMA AgreeDaemonWaits ==
    ASSUME Base, NEW c \in Conn,
           ConnectDuplicate(c) \/ ConnectFails(c) \/ Retry(c)
    PROVE  AgreeInv'
<1>1. /\ Waits(c) /\ UNCHANGED serverChan
      /\ daemon'[c] = "idle" => pool[c[1]][c[2]] # None
  BY DEF Base, TypeOK, ConnectDuplicate, ConnectFails, Retry, MayConnect, Waits,
         Dialling, GetServer
<1>2. /\ \A d \in Conn : d # c => daemon'[d] = daemon[d]
      /\ UNCHANGED <<status, pc, joined, serverChan>>
  BY <1>1 DEF Waits
<1>3. \A d \in Conn : Begun(d)' <=> Begun(d)
  BY <1>2 DEF Begun, Dialled, LoggedIn, InLogin, Handshaking
<1>4. ASSUME NEW e \in Conn, daemon'[e] = "idle"
      PROVE  \E d \in Conn :
                (Opposite(e, d) \/ (e[1] = d[1] /\ e[2] = d[2])) /\ Begun(d)
  <2>1. CASE e = c
    BY <1>1, <1>4, <2>1, TakenMeansBegun DEF Begun
  <2>2. CASE e # c
    BY <1>2, <1>4, <2>2 DEF Base, AgreeInv, BeginInv
  <2>3. QED
    BY <2>1, <2>2
<1>5. BeginInv'
  BY <1>3, <1>4 DEF BeginInv, Opposite
<1>6. QED
  BY <1>1, <1>5, AgreeWaits DEF Base, AgreeInv, CalmInv

LEMMA AgreeConnectChan ==
    ASSUME Base, NEW c \in Conn, ConnectChan(c)
    PROVE  AgreeInv'
<1> DEFINE request == [conn |-> c, seq |-> 0]
<1>1. c[3] = 1 /\ c[1] \in Node /\ c[2] \in Node
  BY ConnFacts DEF Base, Faultless, ConnectChan, MayConnect
<1>2. /\ Waits(c)
      /\ \A d \in Conn : d # c => daemon'[d] = daemon[d]
      /\ UNCHANGED <<status, pc, joined>>
      /\ serverChan' = [serverChan EXCEPT ![c[2]] = Append(@, request)]
  BY DEF Base, TypeOK, ConnectChan, MayConnect, Waits, Dialling
<1>3. request.conn = c /\ request \in ChanServerHandshake
  BY DEF ChanServerHandshake
<1>4. serverChan \in [Node -> Seq(ChanServerHandshake)]
  BY DEF Base, TypeOK
<1> HIDE DEF request
<1>5. ASSUME NEW n \in Node
      PROVE  /\ \A i \in DOMAIN serverChan'[n] :
                  \/ i \in DOMAIN serverChan[n] /\ serverChan'[n][i] = serverChan[n][i]
                  \/ serverChan'[n][i] = request
             /\ \A i \in DOMAIN serverChan[n] :
                  i \in DOMAIN serverChan'[n] /\ serverChan'[n][i] = serverChan[n][i]
             /\ n = c[2] => \E i \in DOMAIN serverChan'[n] : serverChan'[n][i] = request
  <2>1. serverChan[n] \in Seq(ChanServerHandshake)
    BY <1>4
  <2>2. serverChan'[n] = serverChan[n] \/ serverChan'[n] = Append(serverChan[n], request)
    BY <1>2, <1>4
  <2>3. n = c[2] => serverChan'[n] = Append(serverChan[n], request)
    BY <1>2, <1>4
  <2>4. QED
    BY <2>1, <2>2, <2>3, <1>3
<1>6. \A n \in Node : \A i \in DOMAIN serverChan'[n] : serverChan'[n][i].conn[3] = 1
  BY <1>1, <1>3, <1>5 DEF Base, AgreeInv, CalmInv
<1>7. /\ \A d \in Conn : Handshaking(d) => Handshaking(d)'
      /\ Handshaking(c)'
  BY <1>1, <1>3, <1>5 DEF Handshaking
<1>8. \A d \in Conn : Begun(d) \/ d = c => Begun(d)'
  BY <1>2, <1>7 DEF Begun, Dialled, LoggedIn, InLogin
<1>9. BeginInv'
  BY <1>2, <1>8 DEF Base, AgreeInv, BeginInv, Opposite
<1>10. QED
  BY <1>2, <1>6, <1>9, AgreeWaits

LEMMA TailKeeps ==
    ASSUME NEW S, NEW s \in Seq(S), s # <<>>
    PROVE  \A i \in DOMAIN s : s[i] = Head(s) \/ \E j \in DOMAIN Tail(s) : Tail(s)[j] = s[i]
<1> SUFFICES ASSUME NEW i \in DOMAIN s, s[i] # Head(s)
             PROVE  \E j \in DOMAIN Tail(s) : Tail(s)[j] = s[i]
  OBVIOUS
<1>1. i # 1 /\ i \in 1 .. Len(s)
  OBVIOUS
<1>2. i - 1 \in DOMAIN Tail(s) /\ Tail(s)[i - 1] = s[i]
  BY <1>1
<1>3. QED
  BY <1>2

(* A handshake that is taken was that of a first run; the others wait on. *)
LEMMA TakenHandshake ==
    ASSUME Base, NEW n \in Node, NEW c \in Conn, NEW seq, NextHandshake(n, c, seq)
    PROVE  /\ c[3] = 1
           /\ \A i \in DOMAIN Tail(serverChan[n]) : Tail(serverChan[n])[i].conn[3] = 1
           /\ \A d \in Conn : \A i \in DOMAIN serverChan[n] :
                serverChan[n][i].conn = d
                  => d = c \/ \E j \in DOMAIN Tail(serverChan[n]) :
                                  Tail(serverChan[n])[j].conn = d
<1> DEFINE s == serverChan[n]
<1>1. s \in Seq(ChanServerHandshake) /\ s # <<>> /\ Head(s).conn = c
  BY DEF Base, TypeOK, NextHandshake
<1>2. \A i \in DOMAIN s : s[i].conn[3] = 1
  BY DEF Base, AgreeInv, CalmInv
<1> HIDE DEF s
<1>3. /\ 1 \in DOMAIN s /\ Head(s) = s[1]
      /\ \A i \in DOMAIN Tail(s) : i + 1 \in DOMAIN s /\ Tail(s)[i] = s[i + 1]
  BY <1>1, TailFacts
<1>4. \A i \in DOMAIN s : s[i] = Head(s) \/ \E j \in DOMAIN Tail(s) : Tail(s)[j] = s[i]
  BY <1>1, TailKeeps
<1>5. QED
  BY <1>1, <1>2, <1>3, <1>4 DEF s

LEMMA AgreeHandshakeDuplicate ==
    ASSUME Base, NEW c \in Conn, NEW seq \in {0, 1}, HandshakeDuplicate(c, seq)
    PROVE  AgreeInv'
<1> DEFINE n == IF seq = 0 THEN c[2] ELSE c[1]
<1>1. n \in Node /\ NextHandshake(n, c, seq)
  BY ConnFacts DEF HandshakeDuplicate
<1>2. /\ serverChan' = [serverChan EXCEPT ![n] = Tail(@)]
      /\ pool[c[1]][c[2]] # None \/ pool[c[2]][c[1]] # None
      /\ UNCHANGED <<daemon, mutex, accepting, acceptID, pool, tempID, prio, status,
                     inbox, pc, myconn, joined>>
  BY DEF HandshakeDuplicate, GetServer
<1> HIDE DEF n
<1>3. \A m \in Node : serverChan'[m] = IF m = n THEN Tail(serverChan[n]) ELSE serverChan[m]
  BY <1>2 DEF Base, TypeOK
<1> DEFINE rest == Tail(serverChan[n])
<1>4. /\ \A i \in DOMAIN rest : rest[i].conn[3] = 1
      /\ \A d \in Conn : \A i \in DOMAIN serverChan[n] :
           serverChan[n][i].conn = d
             => d = c \/ \E j \in DOMAIN rest : rest[j].conn = d
  BY <1>1, TakenHandshake
<1>5. \A m \in Node : serverChan'[m] = IF m = n THEN rest ELSE serverChan[m]
  BY <1>3
<1> HIDE DEF rest
<1>6. \A m \in Node : \A i \in DOMAIN serverChan'[m] : serverChan'[m][i].conn[3] = 1
  BY <1>4, <1>5 DEF Base, AgreeInv, CalmInv
<1>7. \A d \in Conn : Handshaking(d) => d = c \/ Handshaking(d)'
  BY <1>1, <1>4, <1>5 DEF Handshaking
<1>8. \A d \in Conn : Begun(d) => d = c \/ Begun(d)'
  BY <1>2, <1>7 DEF Begun, Dialled, LoggedIn, InLogin
<1>9. PICK d \in Conn : /\ Opposite(c, d) \/ (c[1] = d[1] /\ c[2] = d[2])
                        /\ Dialled(d)
  BY <1>2, TakenMeansBegun
<1>10. Begun(d)'
  BY <1>2, <1>9 DEF Begun, Dialled
<1>11. BeginInv'
  BY <1>2, <1>8, <1>9, <1>10 DEF Base, AgreeInv, BeginInv, Opposite
<1>12. CalmInv'
  BY <1>2, <1>6 DEF Base, AgreeInv, CalmInv
<1>13. MutexInv' /\ OnceInv' /\ EntryInv' /\ NameInv'
  BY <1>2 DEF Base, AgreeInv, MutexInv, OnceInv, EntryInv, Entry, NameInv, Dialling,
              Dialled, LoggedIn, InLogin, Named
<1>14. AutoInv' /\ WinsInv' /\ EndInv'
  BY <1>2 DEF Base, AgreeInv, AutoInv, WinsInv, EndInv, Loses, Dialling, Dialled,
              LoggedIn, InLogin, Renamed
<1>15. QED
  BY <1>11, <1>12, <1>13, <1>14 DEF AgreeInv

LEMMA AgreeConnectAdd ==
    ASSUME Base, NEW c \in Conn, ConnectAdd(c)
    PROVE  AgreeInv'
<1>1. /\ Dialling(c) /\ daemon[c] = "add" /\ Dialled(c)
      /\ mutex[c[1]] /\ c[3] = 1 /\ pool[c[1]][c[2]] = None
      /\ c[1] \in Node /\ c[2] \in Node
  BY ConnFacts DEF ConnectAdd, Dialling, Base, AgreeInv, MutexInv, OnceInv, NameInv
<1>2. /\ \A d \in Conn : daemon'[d] = IF d = c THEN "login" ELSE daemon[d]
      /\ \A ep \in Ep : tempID'[ep] = IF ep = Client(c) THEN c[2] ELSE tempID[ep]
      /\ \A n, p \in Node :
            pool'[n][p] = IF n = c[1] /\ p = c[2] THEN Client(c) ELSE pool[n][p]
      /\ UNCHANGED <<serverChan, mutex, accepting, acceptID, prio, status, inbox, pc,
                     myconn, joined>>
  BY IdFacts DEF Base, TypeOK, ConnectAdd, Store
<1>3. \A d \in Conn :
        /\ (Dialled(d)' <=> Dialled(d)) /\ (Dialling(d)' <=> Dialling(d))
        /\ (InLogin(Task(d))' <=> InLogin(Task(d)))
        /\ (LoggedIn(d)' <=> LoggedIn(d))
        /\ (Named(d)' <=> Named(d)) /\ (Renamed(d)' <=> Renamed(d))
  BY <1>1, <1>2 DEF Dialled, Dialling, LoggedIn, InLogin, Named, Renamed
<1>4. CalmInv' /\ MutexInv' /\ OnceInv' /\ WinsInv'
  BY <1>2, <1>3 DEF Base, AgreeInv, CalmInv, MutexInv, OnceInv, WinsInv
<1>5. \A d \in Conn : /\ tempID'[Task(d)] = tempID[Task(d)]
                      /\ tempID'[Client(d)] = IF d = c THEN c[2] ELSE tempID[Client(d)]
  BY <1>2, ConnFacts, Names
<1>6. \A d \in Conn : /\ InLogin(Task(d)) => d[2] # c[1]
                      /\ Dialling(d) /\ d[1] = c[1] => d = c
  BY <1>1 DEF Base, AgreeInv, MutexInv
<1>7. EntryInv'
  <2>1. Entry(c[1], c[2], c)'
    BY <1>1, <1>2, <1>3, <1>5 DEF Entry
  <2>2. ASSUME NEW n \in Node, NEW p \in Node, NEW d \in Conn, Entry(n, p, d),
               ~(n = c[1] /\ p = c[2])
        PROVE  Entry(n, p, d)'
    BY <1>1, <1>2, <1>3, <1>5, <2>2 DEF Entry
  <2>3. QED
    BY <1>1, <1>2, <2>1, <2>2 DEF Base, AgreeInv, EntryInv
<1>8. NameInv'
  <2>1. \A d \in Conn : Named(d) => ~(d[2] = c[1] /\ d[1] = c[2])
    BY <1>1, ConnFacts, EpFacts, IdFacts DEF Base, AgreeInv, NameInv
  <2>2. Client(c) # None
    BY ConnFacts, IdFacts
  <2>3. \A d \in Conn : pc[Task(d)] \in {"store", "unuse", "rename"} => InLogin(Task(d))
    BY DEF InLogin
  <2>4. \A d \in Conn : daemon[d] = "add" => Dialling(d)
    BY DEF Dialling
  <2>5. QED
    BY <1>1, <1>2, <1>3, <1>6, <2>1, <2>2, <2>3, <2>4, ConnFacts
    DEF Base, AgreeInv, NameInv
<1>9. AutoInv'
  BY <1>2, <1>3, <1>5 DEF Base, AgreeInv, AutoInv
<1>10. BeginInv'
  BY <1>2, <1>3 DEF Base, AgreeInv, BeginInv, Begun, Handshaking
<1>11. EndInv'
  BY <1>2, <1>3 DEF Base, AgreeInv, EndInv, Loses
<1>12. QED
  BY <1>4, <1>7, <1>8, <1>9, <1>10, <1>11 DEF AgreeInv

LEMMA AgreeConnectLogin ==
    ASSUME Base, NEW c \in Conn, ConnectLogin(c)
    PROVE  AgreeInv'
<1> DEFINE login == Login(prio[Client(c)])
<1>1. /\ Dialling(c) /\ Dialled(c) /\ ~LoggedIn(c) /\ inbox[Task(c)] = <<>>
      /\ mutex[c[1]] /\ c[1] \in Node
      /\ daemon[c] = "login"
  BY ConnFacts DEF ConnectLogin, Dialling, Base, AgreeInv, MutexInv, OnceInv
<1>2. inbox' = [inbox EXCEPT ![Task(c)] = Append(@, login)]
  <2>1. status[Client(c)] = "up" /\ ~lost[c] /\ status[Task(c)] \in {"none", "up"}
    BY <1>1, ConnFacts DEF Base, Faultless, AgreeInv, CalmInv, Dialled
  <2>2. QED
    BY <2>1, ConnFacts DEF ConnectLogin, Sent
<1>3. Append(inbox[Task(c)], login) = <<login>>
  BY <1>1
<1> HIDE DEF login
<1>4. /\ \A d \in Conn : daemon'[d] = IF d = c THEN "idle" ELSE daemon[d]
      /\ \A n \in Node : (mutex'[n] <=> n # c[1] /\ mutex[n])
      /\ UNCHANGED <<serverChan, accepting, acceptID, pool, tempID, prio, status, pc,
                     myconn, joined>>
  BY DEF Base, TypeOK, ConnectLogin
<1>5. \A ep \in Ep : inbox'[ep] = IF ep = Task(c) THEN <<login>> ELSE inbox[ep]
  BY <1>2, <1>3 DEF Base, TypeOK
<1>6. \A d \in Conn :
        /\ (Dialled(d)' <=> Dialled(d)) /\ (Dialling(d)' <=> d # c /\ Dialling(d))
        /\ (daemon'[d] = "add" <=> daemon[d] = "add")
        /\ (InLogin(Task(d))' <=> InLogin(Task(d)))
        /\ (LoggedIn(d)' <=> LoggedIn(d))
        /\ (Named(d)' <=> Named(d)) /\ (Renamed(d)' <=> Renamed(d))
  BY <1>1, <1>4 DEF Dialled, Dialling, LoggedIn, InLogin, Named, Renamed
<1>7. /\ \A d \in Conn \ {c} : inbox'[Task(d)] = inbox[Task(d)]
      /\ \A d \in Conn : inbox'[Client(d)] = inbox[Client(d)]
      /\ inbox'[Task(c)] = <<Login(prio'[Client(c)])>> /\ inbox'[Task(c)] # <<>>
  BY <1>4, <1>5, ConnFacts, Names DEF login
<1>8. CalmInv'
  BY <1>4 DEF Base, AgreeInv, CalmInv
<1>9. MutexInv'
  BY <1>1, <1>4, <1>6, ConnFacts DEF Base, AgreeInv, MutexInv
<1>10. OnceInv'
  <2>1. \A d \in Conn : prio'[Client(d)] = prio[Client(d)] /\ joined' = joined
    BY <1>4
  <2>2. QED
    BY <1>1, <1>6, <1>7, <2>1 DEF Base, AgreeInv, OnceInv
<1>11. EntryInv' /\ NameInv'
  BY <1>1, <1>4, <1>6 DEF Base, AgreeInv, EntryInv, Entry, NameInv
<1>12. AutoInv' /\ WinsInv'
  BY <1>4, <1>6 DEF Base, AgreeInv, AutoInv, WinsInv
<1>13. BeginInv'
  BY <1>1, <1>4, <1>6 DEF Base, AgreeInv, BeginInv, Begun, Handshaking, Opposite
<1>14. EndInv'
  <2>1. \A d \in Conn : Loses(d)' <=> Loses(d)
    BY <1>4, <1>6 DEF Loses
  <2>2. QED
    BY <1>4, <1>6, <1>7, <2>1 DEF Base, AgreeInv, EndInv
<1>15. QED
  BY <1>8, <1>9, <1>10, <1>11, <1>12, <1>13, <1>14 DEF AgreeInv

(* A step that starts the end that accepts: it has handled no login yet.    *)
AcceptStarts(c, x) ==
    /\ c[3] = 1 /\ ~LoggedIn(c)
    /\ \A ep \in Ep :
         /\ status'[ep] = IF ep = Task(c) THEN "up" ELSE status[ep]
         /\ pc'[ep] = IF ep = Task(c) THEN "recv" ELSE pc[ep]
         /\ prio'[ep] = IF ep = Task(c) THEN x ELSE prio[ep]
    /\ \A n, p \in Node : pool'[n][p] = pool[n][p]
    /\ \A d \in Conn : accepting'[d] = "add" => accepting[d] = "add"
    /\ UNCHANGED <<daemon, mutex, acceptID, tempID, inbox, myconn, joined>>

LEMMA AgreeAcceptStarts ==
    ASSUME Base, NEW c \in Conn, NEW x, AcceptStarts(c, x),
           \A n \in Node : \A i \in DOMAIN serverChan'[n] :
               serverChan'[n][i].conn[3] = 1,
           \A d \in Conn : Handshaking(d) => Handshaking(d)'
    PROVE  AgreeInv'
<1>1. /\ c[3] = 1 /\ ~LoggedIn(c)
      /\ \A ep \in Ep :
           /\ status'[ep] = IF ep = Task(c) THEN "up" ELSE status[ep]
           /\ pc'[ep] = IF ep = Task(c) THEN "recv" ELSE pc[ep]
           /\ prio'[ep] = IF ep = Task(c) THEN x ELSE prio[ep]
      /\ \A n, p \in Node : pool'[n][p] = pool[n][p]
      /\ \A d \in Conn : accepting'[d] = "add" => accepting[d] = "add"
      /\ UNCHANGED <<daemon, mutex, acceptID, tempID, inbox, myconn, joined>>
  BY DEF AcceptStarts
<1>2. ~InLogin(Task(c))
  BY <1>1 DEF LoggedIn, InLogin
<1>3. \A d \in Conn :
        /\ pc'[Task(d)] = IF d = c THEN "recv" ELSE pc[Task(d)]
        /\ prio'[Client(d)] = prio[Client(d)]
        /\ status'[Client(d)] = status[Client(d)]
  BY <1>1, ConnFacts, Names
<1>4. \A d \in Conn :
        /\ (Dialled(d)' <=> Dialled(d)) /\ (Dialling(d)' <=> Dialling(d))
        /\ (pc'[Task(d)] = "store" <=> pc[Task(d)] = "store")
        /\ (pc'[Task(d)] \in {"unuse", "rename"} <=> pc[Task(d)] \in {"unuse", "rename"})
        /\ (InLogin(Task(d))' <=> InLogin(Task(d)))
        /\ (LoggedIn(d)' <=> LoggedIn(d))
        /\ (Named(d)' <=> Named(d)) /\ (Renamed(d)' <=> Renamed(d))
  BY <1>1, <1>2, <1>3 DEF Dialled, Dialling, LoggedIn, InLogin, Named, Renamed
<1>5. CalmInv'
  BY <1>1, <1>2, ConnFacts DEF Base, AgreeInv, CalmInv
<1>6. MutexInv' /\ OnceInv'
  BY <1>1, <1>3, <1>4 DEF Base, AgreeInv, MutexInv, OnceInv
<1>7. EntryInv'
  BY <1>1, <1>4 DEF Base, AgreeInv, EntryInv, Entry
<1>8. NameInv'
  BY <1>1, <1>4, ConnFacts DEF Base, AgreeInv, NameInv
<1>9. AutoInv' /\ WinsInv'
  BY <1>1, <1>3, <1>4 DEF Base, AgreeInv, AutoInv, WinsInv
<1>10. BeginInv'
  BY <1>1, <1>4 DEF Base, AgreeInv, BeginInv, Begun, Opposite
<1>11. EndInv'
  BY <1>1, <1>3, <1>4 DEF Base, AgreeInv, EndInv, Loses
<1>12. QED
  BY <1>5, <1>6, <1>7, <1>8, <1>9, <1>10, <1>11 DEF AgreeInv

LEMMA AgreeAccept ==
    ASSUME Base, NEW c \in Conn, NEW x \in TaskPrio, Accept(c, x)
    PROVE  AgreeInv'
<1>1. status[Client(c)] = "up" /\ c[3] = 1 /\ ~LoggedIn(c)
  BY ConnFacts DEF Base, AgreeInv, CalmInv, Accept, LoggedIn, InLogin
<1>2. AcceptStarts(c, x) /\ UNCHANGED serverChan
  BY <1>1 DEF AcceptStarts, Accept, Start, Base, TypeOK
<1>3. \A d \in Conn : Handshaking(d) => Handshaking(d)'
  BY <1>2 DEF Handshaking
<1>4. QED
  BY <1>2, <1>3, AgreeAcceptStarts DEF Base, AgreeInv, CalmInv

LEMMA AgreeHandshakeRequest ==
    ASSUME Base, NEW c \in Conn, NEW x \in TaskPrio, HandshakeRequest(c, x)
    PROVE  AgreeInv'
<1> DEFINE answer == [conn |-> c, seq |-> 1]
           rest == Tail(serverChan[c[2]])
<1>1. /\ NextHandshake(c[2], c, 0) /\ ~mutex[c[2]] /\ pool[c[2]][c[1]] = None
      /\ c[1] \in Node /\ c[2] \in Node /\ c[1] # c[2] /\ Task(c) # None
      /\ Task(c) \in Ep
  BY ConnFacts, Names, IdFacts DEF HandshakeRequest, NextHandshake, GetServer
<1>2. /\ c[3] = 1
      /\ \A i \in DOMAIN rest : rest[i].conn[3] = 1
      /\ \A d \in Conn : \A i \in DOMAIN serverChan[c[2]] :
           serverChan[c[2]][i].conn = d => d = c \/ \E j \in DOMAIN rest : rest[j].conn = d
  BY <1>1, TakenHandshake
<1>3. ~LoggedIn(c)
  BY <1>1 DEF Base, AgreeInv, MutexInv, NameInv, LoggedIn, Named
<1>4. tempID[Task(c)] = <<"auto", Task(c)>>
  BY <1>3 DEF Base, AgreeInv, AutoInv, LoggedIn, Renamed, InLogin
<1>5. \A n, p \in Node : pool'[n][p] = pool[n][p]
  BY <1>1, <1>4, IdAssumption DEF HandshakeRequest, Store, Base, TypeOK
<1>6. AcceptStarts(c, x)
  BY <1>2, <1>3, <1>5 DEF AcceptStarts, HandshakeRequest, Start, Base, TypeOK
<1>7. serverChan' = [serverChan EXCEPT ![c[2]] = rest, ![c[1]] = Append(@, answer)]
  BY DEF HandshakeRequest
<1>8. answer.conn = c /\ answer \in ChanServerHandshake
  BY DEF ChanServerHandshake
<1>9. serverChan \in [Node -> Seq(ChanServerHandshake)]
  BY DEF Base, TypeOK
<1> HIDE DEF answer, rest
<1>10. \A n \in Node : serverChan'[n] = IF n = c[2] THEN rest
                                       ELSE IF n = c[1] THEN Append(serverChan[n], answer)
                                       ELSE serverChan[n]
  BY <1>1, <1>7, <1>9
<1>11. /\ \A i \in DOMAIN serverChan'[c[1]] :
            \/ /\ i \in DOMAIN serverChan[c[1]]
               /\ serverChan'[c[1]][i] = serverChan[c[1]][i]
            \/ serverChan'[c[1]][i] = answer
       /\ \A i \in DOMAIN serverChan[c[1]] :
            i \in DOMAIN serverChan'[c[1]] /\ serverChan'[c[1]][i] = serverChan[c[1]][i]
       /\ \E i \in DOMAIN serverChan'[c[1]] : serverChan'[c[1]][i] = answer
  <2>1. serverChan[c[1]] \in Seq(ChanServerHandshake)
    BY <1>1, <1>9
  <2>2. serverChan'[c[1]] = Append(serverChan[c[1]], answer)
    BY <1>1, <1>10
  <2>3. QED
    BY <2>1, <2>2, <1>8
<1>12. \A n \in Node : \A i \in DOMAIN serverChan'[n] : serverChan'[n][i].conn[3] = 1
  <2>1. \A n \in Node : \A i \in DOMAIN serverChan[n] : serverChan[n][i].conn[3] = 1
    BY DEF Base, AgreeInv, CalmInv
  <2>2. QED
    BY <1>1, <1>2, <1>8, <1>10, <1>11, <2>1
<1>13. Handshaking(c)'
  BY <1>1, <1>8, <1>11 DEF Handshaking
<1>14. ASSUME NEW d \in Conn, Handshaking(d), d # c
       PROVE  Handshaking(d)'
  <2>1. PICK n \in Node : \E i \in DOMAIN serverChan[n] : serverChan[n][i].conn = d
    BY <1>14 DEF Handshaking
  <2>2. \E j \in DOMAIN serverChan'[n] : serverChan'[n][j].conn = d
    BY <1>1, <1>2, <1>10, <1>11, <1>14, <2>1
  <2>3. QED
    BY <2>2 DEF Handshaking
<1>15. QED
  BY <1>6, <1>12, <1>13, <1>14, AgreeAcceptStarts

LEMMA AgreeHandshakeReply ==
    ASSUME Base, NEW c \in Conn, NEW x \in ClientPrio, HandshakeReply(c, x)
    PROVE  AgreeInv'
<1> DEFINE rest == Tail(serverChan[c[1]])
           login == Login(x)
<1>1. /\ NextHandshake(c[1], c, 1) /\ ~mutex[c[1]] /\ pool[c[1]][c[2]] = None
      /\ c[1] \in Node /\ c[2] \in Node
      /\ Client(c) # None /\ Client(c) \in Ep /\ Task(c) \in Ep
  BY ConnFacts, IdFacts DEF HandshakeReply, NextHandshake, GetServer
<1>2. /\ c[3] = 1
      /\ \A i \in DOMAIN rest : rest[i].conn[3] = 1
      /\ \A d \in Conn : \A i \in DOMAIN serverChan[c[1]] :
           serverChan[c[1]][i].conn = d => d = c \/ \E j \in DOMAIN rest : rest[j].conn = d
  BY <1>1, TakenHandshake
<1>3. /\ ~Dialled(c) /\ ~LoggedIn(c) /\ ~Dialling(c) /\ inbox[Task(c)] = <<>>
      /\ \A d \in Conn : Opposite(c, d) => ~LoggedIn(d)
  BY <1>1, FreeMeansNew
<1>4. Append(inbox[Task(c)], login) = <<login>>
  BY <1>3
<1>5. serverChan' = [serverChan EXCEPT ![c[1]] = rest]
  BY DEF HandshakeReply
<1> HIDE DEF rest, login
<1>6. \A n \in Node : serverChan'[n] = IF n = c[1] THEN rest ELSE serverChan[n]
  BY <1>5 DEF Base, TypeOK
<1>7. /\ \A ep \in Ep :
           /\ status'[ep] = IF ep = Client(c) THEN "up" ELSE status[ep]
           /\ pc'[ep] = IF ep = Client(c) THEN "recv" ELSE pc[ep]
           /\ prio'[ep] = IF ep = Client(c) THEN x ELSE prio[ep]
           /\ tempID'[ep] = IF ep = Client(c) THEN c[2] ELSE tempID[ep]
      /\ \A n, p \in Node :
            pool'[n][p] = IF n = c[1] /\ p = c[2] THEN Client(c) ELSE pool[n][p]
      /\ UNCHANGED <<daemon, mutex, accepting, acceptID, myconn, joined>>
  BY <1>1, IdFacts DEF Base, TypeOK, HandshakeReply, Start, Store
<1>8. \A ep \in Ep : inbox'[ep] = IF ep = Task(c) THEN <<login>> ELSE inbox[ep]
  BY <1>4 DEF Base, TypeOK, HandshakeReply, login
<1>9. \A d \in Conn :
        /\ (Dialled(d)' <=> d = c \/ Dialled(d)) /\ (Dialling(d)' <=> Dialling(d))
        /\ prio'[Client(d)] = IF d = c THEN x ELSE prio[Client(d)]
        /\ tempID'[Client(d)] = IF d = c THEN c[2] ELSE tempID[Client(d)]
        /\ tempID'[Task(d)] = tempID[Task(d)]
        /\ pc'[Task(d)] = pc[Task(d)]
  BY <1>7, ConnFacts, Names DEF Dialled, Dialling
<1>10. \A d \in Conn :
        /\ (InLogin(Task(d))' <=> InLogin(Task(d)))
        /\ (LoggedIn(d)' <=> LoggedIn(d))
        /\ (Named(d)' <=> Named(d)) /\ (Renamed(d)' <=> Renamed(d))
  BY <1>7, <1>9 DEF LoggedIn, InLogin, Named, Renamed
<1>11. /\ \A d \in Conn \ {c} : inbox'[Task(d)] = inbox[Task(d)]
       /\ \A d \in Conn : inbox'[Client(d)] = inbox[Client(d)]
       /\ inbox'[Task(c)] = <<Login(x)>> /\ inbox'[Task(c)] # <<>>
  BY <1>8, ConnFacts, Names DEF login
<1>12. CalmInv'
  <2>1. \A n \in Node : \A i \in DOMAIN serverChan'[n] : serverChan'[n][i].conn[3] = 1
    BY <1>2, <1>6 DEF Base, AgreeInv, CalmInv
  <2>2. QED
    BY <1>2, <1>7, <2>1, ConnFacts DEF Base, AgreeInv, CalmInv
<1>13. MutexInv'
  BY <1>7, <1>9, <1>10 DEF Base, AgreeInv, MutexInv
<1>14. OnceInv'
  BY <1>3, <1>7, <1>9, <1>10, <1>11 DEF Base, AgreeInv, OnceInv
<1>15. EntryInv'
  <2>1. daemon[c] # "add"
    BY <1>3 DEF Dialling
  <2>2. Entry(c[1], c[2], c)'
    BY <1>1, <1>2, <1>7, <1>9, <2>1 DEF Entry
  <2>3. ASSUME NEW n \in Node, NEW p \in Node, NEW d \in Conn, Entry(n, p, d),
               ~(n = c[1] /\ p = c[2])
        PROVE  Entry(n, p, d)'
    BY <1>2, <1>7, <1>9, <1>10, <2>3 DEF Entry
  <2>4. QED
    BY <1>7, <2>2, <2>3 DEF Base, AgreeInv, EntryInv
<1>16. NameInv'
  <2>1. \A d \in Conn : Named(d) => ~(d[2] = c[1] /\ d[1] = c[2])
    BY <1>1, ConnFacts, EpFacts, IdFacts DEF Base, AgreeInv, NameInv
  <2>2. \A d \in Conn : InLogin(Task(d)) => d[2] # c[1]
    BY <1>1 DEF Base, AgreeInv, MutexInv
  <2>3. \A d \in Conn : pc[Task(d)] \in {"store", "unuse", "rename"} => InLogin(Task(d))
    BY DEF InLogin
  <2>4. \A d \in Conn : daemon[d] = "add" => d[1] # c[1]
    BY <1>1 DEF Dialling, Base, AgreeInv, MutexInv
  <2>5. QED
    BY <1>1, <1>7, <1>9, <1>10, <2>1, <2>2, <2>3, <2>4, ConnFacts
    DEF Base, AgreeInv, NameInv
<1>17. AutoInv'
  BY <1>7, <1>9, <1>10 DEF Base, AgreeInv, AutoInv
<1>18. WinsInv'
  BY <1>3, <1>9, <1>10, Names DEF Base, AgreeInv, WinsInv, Opposite, OnceInv
<1>19. BeginInv'
  <2>1. ASSUME NEW d \in Conn, Handshaking(d), d # c
        PROVE  Handshaking(d)'
    <3>1. PICK n \in Node : \E i \in DOMAIN serverChan[n] : serverChan[n][i].conn = d
      BY <2>1 DEF Handshaking
    <3>2. \E j \in DOMAIN serverChan'[n] : serverChan'[n][j].conn = d
      BY <1>2, <1>6, <2>1, <3>1
    <3>3. QED
      BY <3>2 DEF Handshaking
  <2>2. \A d \in Conn : Begun(d) => Begun(d)'
    BY <1>9, <1>10, <2>1 DEF Begun
  <2>3. QED
    BY <1>7, <2>2 DEF Base, AgreeInv, BeginInv, Opposite
<1>20. EndInv'
  <2>1. \A d \in Conn \ {c} : Dialled(d) /\ Loses(d) => Loses(d)'
    BY <1>3, <1>9 DEF Loses, Opposite
  <2>2. QED
    BY <1>7, <1>9, <1>10, <1>11, <2>1 DEF Base, AgreeInv, EndInv
<1>21. QED
  BY <1>12, <1>13, <1>14, <1>15, <1>16, <1>17, <1>18, <1>19, <1>20 DEF AgreeInv

LEMMA AgreeAcceptAdd ==
    ASSUME Base, NEW c \in Conn, AcceptRead(c) \/ AcceptAdd(c)
    PROVE  AgreeInv'
<1>1. UNCHANGED <<daemon, serverChan, mutex, tempID, prio, status, inbox, pc, myconn,
                  joined>>
  BY DEF AcceptRead, AcceptAdd
<1>2. \A d \in Conn :
        /\ (Dialled(d)' <=> Dialled(d)) /\ (Dialling(d)' <=> Dialling(d))
        /\ (InLogin(Task(d))' <=> InLogin(Task(d)))
        /\ (LoggedIn(d)' <=> LoggedIn(d))
        /\ (Named(d)' <=> Named(d)) /\ (Renamed(d)' <=> Renamed(d))
  BY <1>1 DEF Dialled, Dialling, LoggedIn, InLogin, Named, Renamed
<1>3. \/ acceptID[c] = <<"auto", Task(c)>>
      \/ acceptID[c] = c[1] /\ pool[c[2]][c[1]] = Task(c)
      \/ AcceptRead(c)
  BY DEF Base, AgreeInv, AutoInv, NameInv, AcceptAdd, Named, Renamed
<1>4. \A n, p \in Node : pool'[n][p] = pool[n][p]
  <2>1. CASE AcceptRead(c)
    BY <2>1 DEF AcceptRead
  <2>2. CASE AcceptAdd(c) /\ acceptID[c] = <<"auto", Task(c)>>
    BY <2>2, ConnFacts, IdAssumption DEF AcceptAdd, Store, Base, TypeOK
  <2>3. CASE AcceptAdd(c) /\ acceptID[c] = c[1] /\ pool[c[2]][c[1]] = Task(c)
    BY <2>3, ConnFacts, IdFacts DEF AcceptAdd, Store, Base, TypeOK
  <2>4. QED
    BY <1>3, <2>1, <2>2, <2>3
<1>5. \A d \in Conn :
         accepting'[d] = "add" => \/ accepting[d] = "add" /\ acceptID'[d] = acceptID[d]
                                  \/ acceptID'[d] = tempID[Task(d)]
  BY DEF AcceptRead, AcceptAdd, Base, TypeOK
<1>6. CalmInv' /\ MutexInv' /\ OnceInv'
  BY <1>1, <1>2 DEF Base, AgreeInv, CalmInv, MutexInv, OnceInv
<1>7. EntryInv' /\ NameInv'
  BY <1>1, <1>2, <1>4, ConnFacts DEF Base, AgreeInv, EntryInv, Entry, NameInv
<1>8. AutoInv'
  BY <1>1, <1>2, <1>5 DEF Base, AgreeInv, AutoInv
<1>9. WinsInv' /\ BeginInv' /\ EndInv'
  BY <1>1, <1>2 DEF Base, AgreeInv, WinsInv, BeginInv, EndInv, Begun, Handshaking, Loses
<1>10. QED
  BY <1>6, <1>7, <1>8, <1>9 DEF AgreeInv

(* A login is received: the dialler sent it once, and its end here has      *)
(* handled none.                                                            *)
LEMMA ReceivedLogin ==
    ASSUME Base, NEW c \in Conn, Receives(Task(c), "SLogin")
    PROVE  /\ Head(inbox[Task(c)]).prio = prio[Client(c)]
           /\ Dialled(c) /\ ~Dialling(c) /\ ~LoggedIn(c) /\ c[3] = 1
           /\ ~mutex[c[2]] /\ pc[Task(c)] = "recv"
           /\ inbox'[Task(c)] = <<>>
           /\ \A d \in Conn \ {c} : inbox'[Task(d)] = inbox[Task(d)]
           /\ \A d \in Conn : inbox'[Client(d)] = inbox[Client(d)]
<1>1. /\ inbox[Task(c)] # <<>> /\ ~mutex[c[2]] /\ pc[Task(c)] = "recv"
      /\ inbox' = [inbox EXCEPT ![Task(c)] = Tail(@)]
  BY Names DEF Receives
<1>2. /\ inbox[Task(c)] = <<Login(prio[Client(c)])>>
      /\ Dialled(c) /\ ~Dialling(c) /\ ~LoggedIn(c)
  BY <1>1 DEF Base, AgreeInv, OnceInv
<1>3. Tail(inbox[Task(c)]) = <<>> /\ Head(inbox[Task(c)]) = Login(prio[Client(c)])
  BY <1>2
<1>4. c[3] = 1
  BY <1>2, ConnFacts DEF Base, AgreeInv, CalmInv, Dialled
<1>5. \A ep \in Ep : inbox'[ep] = IF ep = Task(c) THEN <<>> ELSE inbox[ep]
  BY <1>1, <1>3 DEF Base, TypeOK
<1>6. QED
  BY <1>1, <1>2, <1>3, <1>4, <1>5, ConnFacts, Names DEF Login

(* What the module has under the dialler's name by then is its own end of   *)
(* the connection it dialled itself.                                        *)
LEMMA OldIsOpposite ==
    ASSUME Base, NEW c \in Conn, ~Named(c), c[3] = 1, pool[c[2]][c[1]] # None
    PROVE  \E d \in Conn : /\ Opposite(d, c) /\ d[3] = 1
                           /\ pool[c[2]][c[1]] = Client(d)
                           /\ Dialled(d) /\ tempID[Client(d)] = c[1]
                           /\ daemon[d] # "add"
<1>1. PICK d \in Conn : Entry(c[2], c[1], d)
  BY ConnFacts DEF Base, AgreeInv, EntryInv
<1>2. d[1] = c[1] /\ d[2] = c[2] /\ d[3] = 1 => d = c
  BY Names
<1>3. QED
  BY <1>1, <1>2 DEF Entry, Opposite

(* The module rejects the login: its own connection is preferred. *)
LEMMA AgreeRejected ==
    ASSUME Base, NEW c \in Conn, LoginRejected(Task(c))
    PROVE  AgreeInv'
<1>1. /\ Receives(Task(c), "SLogin") /\ c[1] \in Node /\ c[2] \in Node
      /\ pool[c[2]][c[1]] # None
      /\ prio[pool[c[2]][c[1]]] >= Head(inbox[Task(c)]).prio
  BY ConnFacts, Names DEF LoginRejected, GetServer
<1>2. /\ Head(inbox[Task(c)]).prio = prio[Client(c)]
      /\ ~LoggedIn(c) /\ c[3] = 1
      /\ inbox'[Task(c)] = <<>>
      /\ \A d \in Conn \ {c} : inbox'[Task(d)] = inbox[Task(d)]
      /\ \A d \in Conn : inbox'[Client(d)] = inbox[Client(d)]
  BY <1>1, ReceivedLogin
<1>3. UNCHANGED <<daemon, serverChan, mutex, accepting, acceptID, pool, tempID, prio,
                  status, pc, myconn, joined>>
  BY DEF LoginRejected
<1>4. \A d \in Conn :
        /\ (Dialled(d)' <=> Dialled(d)) /\ (Dialling(d)' <=> Dialling(d))
        /\ (InLogin(Task(d))' <=> InLogin(Task(d)))
        /\ (LoggedIn(d)' <=> LoggedIn(d)) /\ (Loses(d)' <=> Loses(d))
        /\ (Named(d)' <=> Named(d)) /\ (Renamed(d)' <=> Renamed(d))
  BY <1>3 DEF Dialled, Dialling, LoggedIn, InLogin, Named, Renamed, Loses
<1>5. Loses(c)
  <2>1. ~Named(c)
    BY <1>2 DEF Named, LoggedIn, InLogin
  <2>2. PICK d \in Conn : Opposite(d, c) /\ pool[c[2]][c[1]] = Client(d) /\ Dialled(d)
    BY <1>1, <1>2, <2>1, OldIsOpposite
  <2>3. prio[Client(d)] >= prio[Client(c)]
    BY <1>1, <1>2, <2>2
  <2>4. QED
    BY <2>2, <2>3 DEF Loses, Opposite
<1>6. CalmInv' /\ MutexInv' /\ AutoInv' /\ WinsInv'
  BY <1>3, <1>4 DEF Base, AgreeInv, CalmInv, MutexInv, AutoInv, WinsInv
<1>7. OnceInv'
  BY <1>2, <1>3, <1>4 DEF Base, AgreeInv, OnceInv
<1>8. EntryInv' /\ NameInv' /\ BeginInv'
  BY <1>3, <1>4 DEF Base, AgreeInv, EntryInv, Entry, NameInv, BeginInv, Begun,
                    Handshaking
<1>9. EndInv'
  BY <1>2, <1>3, <1>4, <1>5 DEF Base, AgreeInv, EndInv
<1>10. QED
  BY <1>6, <1>7, <1>8, <1>9 DEF AgreeInv

(* The module begins a login, which is of a higher priority than its own    *)
(* connection, if it has one.                                               *)
Begins(c, place) ==
    /\ Receives(Task(c), "SLogin")
    /\ \A n \in Node : (mutex'[n] <=> n = c[2] \/ mutex[n])
    /\ \A ep \in Ep : pc'[ep] = IF ep = Task(c) THEN place ELSE pc[ep]
    /\ \A ep \in Ep \ {Task(c)} : myconn'[ep] = myconn[ep]
    /\ UNCHANGED <<daemon, serverChan, accepting, acceptID, pool, tempID, prio, status,
                   joined>>

LEMMA AgreeBegins ==
    ASSUME Base, NEW c \in Conn, NEW place \in {"unuse", "store"}, Begins(c, place),
           place = "store" => pool[c[2]][c[1]] = None,
           place = "unuse" =>
               pool[c[2]][c[1]] # None /\ myconn'[Task(c)] = pool[c[2]][c[1]],
           \A d \in Conn :
               Opposite(d, c) /\ Dialled(d) => prio[Client(d)] < prio[Client(c)]
    PROVE  AgreeInv'
<1>1. /\ Dialled(c) /\ ~Dialling(c) /\ ~LoggedIn(c) /\ c[3] = 1
      /\ ~mutex[c[2]] /\ pc[Task(c)] = "recv"
      /\ inbox'[Task(c)] = <<>>
      /\ \A d \in Conn \ {c} : inbox'[Task(d)] = inbox[Task(d)]
      /\ \A d \in Conn : inbox'[Client(d)] = inbox[Client(d)]
  BY ReceivedLogin DEF Begins
<1>2. /\ \A n \in Node : (mutex'[n] <=> n = c[2] \/ mutex[n])
      /\ \A ep \in Ep : pc'[ep] = IF ep = Task(c) THEN place ELSE pc[ep]
      /\ \A ep \in Ep \ {Task(c)} : myconn'[ep] = myconn[ep]
      /\ UNCHANGED <<daemon, serverChan, accepting, acceptID, pool, tempID, prio,
                     status, joined>>
  BY DEF Begins
<1>3. \A d \in Conn :
        /\ pc'[Task(d)] = IF d = c THEN place ELSE pc[Task(d)]
        /\ d # c => myconn'[Task(d)] = myconn[Task(d)]
  BY <1>2, ConnFacts, Names
<1>4. \A d \in Conn :
        /\ (Dialled(d)' <=> Dialled(d)) /\ (Dialling(d)' <=> Dialling(d))
        /\ (InLogin(Task(d))' <=> d = c \/ InLogin(Task(d)))
        /\ (LoggedIn(d)' <=> d = c \/ LoggedIn(d)) /\ (Loses(d)' <=> Loses(d))
        /\ (Named(d)' <=> Named(d)) /\ (Renamed(d)' <=> Renamed(d))
  BY <1>1, <1>2, <1>3 DEF Dialled, Dialling, LoggedIn, InLogin, Named, Renamed, Loses
<1>5. CalmInv'
  BY <1>1, <1>2, ConnFacts DEF Base, AgreeInv, CalmInv
<1>6. MutexInv'
  BY <1>1, <1>2, <1>4, ConnFacts DEF Base, AgreeInv, MutexInv
<1>7. OnceInv'
  <2>1. ~joined[Task(c)]
    BY <1>1 DEF LoggedIn
  <2>2. QED
    BY <1>1, <1>2, <1>4, <2>1 DEF Base, AgreeInv, OnceInv
<1>8. EntryInv'
  BY <1>2, <1>4 DEF Base, AgreeInv, EntryInv, Entry
<1>9. NameInv'
  BY <1>1, <1>2, <1>3, <1>4 DEF Base, AgreeInv, NameInv
<1>10. AutoInv'
  BY <1>2, <1>4 DEF Base, AgreeInv, AutoInv
<1>11. WinsInv'
  BY <1>2, <1>4 DEF Base, AgreeInv, WinsInv
<1>12. BeginInv'
  BY <1>2, <1>4 DEF Base, AgreeInv, BeginInv, Begun, Handshaking, Opposite
<1>13. EndInv'
  BY <1>1, <1>2, <1>3, <1>4 DEF Base, AgreeInv, EndInv
<1>14. QED
  BY <1>5, <1>6, <1>7, <1>8, <1>9, <1>10, <1>11, <1>12, <1>13 DEF AgreeInv

LEMMA AgreeReceived ==
    ASSUME Base, NEW c \in Conn, LoginPreferred(Task(c)) \/ LoginFirst(Task(c))
    PROVE  AgreeInv'
<1>1. /\ Receives(Task(c), "SLogin") /\ c[1] \in Node /\ c[2] \in Node
      /\ Task(c) \in Ep /\ At(Task(c)) = c[2] /\ At(Peer(Task(c))) = c[1]
  BY ConnFacts, Names DEF LoginPreferred, LoginFirst
<1>2. /\ Head(inbox[Task(c)]).prio = prio[Client(c)]
      /\ ~LoggedIn(c) /\ c[3] = 1 /\ ~mutex[c[2]]
  BY <1>1, ReceivedLogin
<1>3. ~Named(c)
  BY <1>2 DEF Named, LoggedIn, InLogin
<1>4. CASE LoginPreferred(Task(c))
  <2>1. /\ pool[c[2]][c[1]] # None
        /\ prio[pool[c[2]][c[1]]] < prio[Client(c)]
        /\ myconn'[Task(c)] = pool[c[2]][c[1]]
    BY <1>1, <1>2, <1>4 DEF LoginPreferred, GetServer, Base, TypeOK
  <2>2. PICK d \in Conn : Opposite(d, c) /\ d[3] = 1 /\ pool[c[2]][c[1]] = Client(d)
    BY <1>2, <1>3, <2>1, OldIsOpposite
  <2>3. ASSUME NEW e \in Conn, Opposite(e, c), Dialled(e)
        PROVE  prio[Client(e)] < prio[Client(c)]
    <3>1. e[3] = 1
      BY <2>3, ConnFacts DEF Base, AgreeInv, CalmInv, Dialled
    <3>2. e = d
      BY <2>2, <2>3, <3>1, Names DEF Opposite
    <3>3. QED
      BY <2>1, <2>2, <3>2
  <2>4. Begins(c, "unuse")
    BY <1>1, <1>4 DEF Begins, LoginPreferred, Base, TypeOK
  <2>5. QED
    BY <2>1, <2>3, <2>4, AgreeBegins
<1>5. CASE LoginFirst(Task(c))
  <2>1. pool[c[2]][c[1]] = None
    BY <1>1, <1>5 DEF LoginFirst, GetServer
  <2>2. ASSUME NEW e \in Conn, Opposite(e, c)
        PROVE  ~Dialled(e)
    BY <1>2, <2>1, <2>2, FreeMeansNew DEF Opposite
  <2>3. Begins(c, "store")
    BY <1>1, <1>5 DEF Begins, LoginFirst, Base, TypeOK
  <2>4. QED
    BY <2>1, <2>2, <2>3, AgreeBegins
<1>6. QED
  BY <1>4, <1>5

(* The steps of a login under connectMutex, which rename.                   *)
Moves(c) ==
    /\ InLogin(Task(c)) /\ InLogin(Task(c))' /\ pc'[Task(c)] # "notify"
    /\ \A d \in Conn : d # c => pc'[Task(d)] = pc[Task(d)]
    /\ \A d \in Conn : pc'[Client(d)] = pc[Client(d)]
    /\ UNCHANGED <<daemon, serverChan, mutex, accepting, acceptID, prio, status, inbox,
                   myconn, joined>>

LEMMA AgreeMoves ==
    ASSUME Base, NEW c \in Conn, Moves(c)
    PROVE  /\ CalmInv' /\ MutexInv' /\ OnceInv' /\ WinsInv' /\ BeginInv' /\ EndInv'
           /\ c[3] = 1 /\ ~joined[Task(c)] /\ c[1] \in Node /\ c[2] \in Node
           /\ \A d \in Conn : Dialled(d)' <=> Dialled(d)
           /\ \A d \in Conn \ {c} :
                /\ pc'[Task(d)] = pc[Task(d)]
                /\ (Named(d)' <=> Named(d)) /\ (Renamed(d)' <=> Renamed(d))
           /\ \A d \in Conn : InLogin(Task(d)) /\ d[2] = c[2] => d = c
           /\ \A d \in Conn : daemon[d] = "add" => d[1] # c[2]
<1>1. /\ InLogin(Task(c)) /\ InLogin(Task(c))' /\ pc'[Task(c)] # "notify"
      /\ \A d \in Conn : d # c => pc'[Task(d)] = pc[Task(d)]
      /\ \A d \in Conn : pc'[Client(d)] = pc[Client(d)]
      /\ UNCHANGED <<daemon, serverChan, mutex, accepting, acceptID, prio, status,
                     inbox, myconn, joined>>
  BY DEF Moves
<1>2. \A d \in Conn :
        /\ (Dialled(d)' <=> Dialled(d)) /\ (Dialling(d)' <=> Dialling(d))
        /\ (InLogin(Task(d))' <=> InLogin(Task(d)))
        /\ (LoggedIn(d)' <=> LoggedIn(d)) /\ (Loses(d)' <=> Loses(d))
  BY <1>1 DEF Dialled, Dialling, LoggedIn, InLogin, Loses
<1>3. pc[Task(c)] \notin {"off", "load", "remove", "done"}
      /\ pc'[Task(c)] \notin {"off", "load", "remove", "done"}
  BY <1>1 DEF InLogin
<1>4. status[Task(c)] = "up" /\ c[3] = 1
  BY <1>3, ConnFacts DEF Base, AgreeInv, CalmInv
<1>5. CalmInv'
  <2>1. ASSUME NEW ep \in Ep
        PROVE  /\ pc'[ep] \notin {"load", "remove", "done"}
               /\ pc'[ep] = "off" <=> pc[ep] = "off"
    <3>1. PICK d \in Conn : ep = Client(d) \/ ep = Task(d)
      BY EpFacts
    <3>2. CASE ep = Task(c)
      BY <1>3, <3>2
    <3>3. CASE ep # Task(c)
      BY <1>1, <3>1, <3>3 DEF Base, AgreeInv, CalmInv
    <3>4. QED
      BY <3>2, <3>3
  <2>2. QED
    BY <1>1, <2>1 DEF Base, AgreeInv, CalmInv
<1>6. MutexInv' /\ OnceInv'
  BY <1>1, <1>2 DEF Base, AgreeInv, MutexInv, OnceInv
<1>7. WinsInv' /\ BeginInv' /\ EndInv'
  <2>1. \A d \in Conn : pc'[Task(d)] = "notify" => pc[Task(d)] = "notify"
    BY <1>1
  <2>2. EndInv'
    BY <1>1, <1>2, <2>1 DEF Base, AgreeInv, EndInv
  <2>3. QED
    BY <1>1, <1>2, <2>2 DEF Base, AgreeInv, WinsInv, BeginInv, Begun, Handshaking
<1>8. \A d \in Conn \ {c} : (Named(d)' <=> Named(d)) /\ (Renamed(d)' <=> Renamed(d))
  BY <1>1 DEF Named, Renamed
<1>9. /\ \A d \in Conn : InLogin(Task(d)) /\ d[2] = c[2] => d = c
      /\ \A d \in Conn : daemon[d] = "add" => d[1] # c[2]
      /\ ~joined[Task(c)]
  BY <1>1 DEF Base, AgreeInv, MutexInv, OnceInv, Dialling
<1>10. QED
  BY <1>1, <1>2, <1>4, <1>5, <1>6, <1>7, <1>8, <1>9, ConnFacts

LEMMA AgreeUnuseStore ==
    ASSUME Base, NEW c \in Conn, UnuseStore(Task(c))
    PROVE  AgreeInv'
<1>1. /\ pc[Task(c)] = "unuse"
      /\ \A ep \in Ep : pc'[ep] = IF ep = Task(c) THEN "rename" ELSE pc[ep]
      /\ UNCHANGED <<daemon, serverChan, mutex, accepting, acceptID, tempID, prio,
                     status, inbox, myconn, joined>>
  BY DEF UnuseStore, Base, TypeOK
<1>2. Moves(c) /\ pc'[Task(c)] = "rename"
  BY <1>1, ConnFacts, Names DEF Moves, InLogin
<1>3. /\ CalmInv' /\ MutexInv' /\ OnceInv' /\ WinsInv' /\ BeginInv' /\ EndInv'
      /\ ~joined[Task(c)] /\ c[2] \in Node
      /\ \A d \in Conn : Dialled(d)' <=> Dialled(d)
      /\ \A d \in Conn \ {c} :
           /\ pc'[Task(d)] = pc[Task(d)]
           /\ (Named(d)' <=> Named(d)) /\ (Renamed(d)' <=> Renamed(d))
  BY <1>2, AgreeMoves
<1>4. \A d \in Conn :
        /\ (pc'[Task(d)] = "store" <=> pc[Task(d)] = "store")
        /\ (pc'[Task(d)] \in {"unuse", "rename"} <=> pc[Task(d)] \in {"unuse", "rename"})
        /\ (Named(d)' <=> Named(d)) /\ (Renamed(d)' <=> Renamed(d))
  BY <1>1, <1>2, <1>3 DEF Named, Renamed
<1>5. \A n, p \in Node : pool'[n][p] = pool[n][p]
  <2>1. myconn[Task(c)] \in Ep
    BY <1>1, ConnFacts DEF Base, AgreeInv, NameInv, TypeOK
  <2>2. QED
    BY <2>1, IdAssumption, Names DEF UnuseStore, Store, Base, TypeOK
<1>6. EntryInv' /\ AutoInv'
  BY <1>1, <1>3, <1>4, <1>5 DEF Base, AgreeInv, EntryInv, Entry, AutoInv
<1>7. NameInv'
  BY <1>1, <1>3, <1>4, <1>5, ConnFacts DEF Base, AgreeInv, NameInv
<1>8. QED
  BY <1>3, <1>6, <1>7 DEF AgreeInv

LEMMA AgreeUnuseRename ==
    ASSUME Base, NEW c \in Conn, UnuseRename(Task(c))
    PROVE  AgreeInv'
<1> DEFINE old == myconn[Task(c)]
<1>1. /\ pc[Task(c)] = "rename"
      /\ \A ep \in Ep : pc'[ep] = IF ep = Task(c) THEN "store" ELSE pc[ep]
      /\ UNCHANGED <<daemon, serverChan, mutex, accepting, acceptID, prio, status,
                     inbox, myconn, joined>>
      /\ Rename(c[2], old, <<"unuse", old>>)
  BY Names DEF UnuseRename, Base, TypeOK
<1>2. Moves(c) /\ pc'[Task(c)] = "store"
  BY <1>1, ConnFacts, Names DEF Moves, InLogin
<1>3. /\ CalmInv' /\ MutexInv' /\ OnceInv' /\ WinsInv' /\ BeginInv' /\ EndInv'
      /\ c[3] = 1 /\ ~joined[Task(c)] /\ c[1] \in Node /\ c[2] \in Node
      /\ \A d \in Conn : Dialled(d)' <=> Dialled(d)
      /\ \A d \in Conn \ {c} :
           /\ pc'[Task(d)] = pc[Task(d)]
           /\ (Named(d)' <=> Named(d)) /\ (Renamed(d)' <=> Renamed(d))
      /\ \A d \in Conn : InLogin(Task(d)) /\ d[2] = c[2] => d = c
      /\ \A d \in Conn : daemon[d] = "add" => d[1] # c[2]
  BY <1>2, AgreeMoves
<1>4. ~Named(c) /\ ~Renamed(c) /\ ~Named(c)' /\ ~Renamed(c)'
  BY <1>1, <1>2, <1>3 DEF Named, Renamed
<1>5. pool[c[2]][c[1]] # None /\ old = pool[c[2]][c[1]]
  BY <1>1 DEF Base, AgreeInv, NameInv
<1>6. PICK d \in Conn : /\ Opposite(d, c) /\ d[3] = 1
                        /\ old = Client(d) /\ tempID[Client(d)] = c[1]
  BY <1>3, <1>4, <1>5, OldIsOpposite
<1>7. /\ \A n, p \in Node :
           pool'[n][p] = IF n = c[2] /\ p = c[1] THEN None ELSE pool[n][p]
      /\ \A e \in Conn : tempID'[Task(e)] = tempID[Task(e)]
      /\ \A e \in Conn \ {d} : tempID'[Client(e)] = tempID[Client(e)]
  BY <1>1, <1>3, <1>6, ConnFacts, Names, IdFacts DEF Rename, Base, TypeOK
<1>8. EntryInv'
  <2>1. ASSUME NEW n \in Node, NEW p \in Node, NEW e \in Conn, Entry(n, p, e),
               ~(n = c[2] /\ p = c[1])
        PROVE  Entry(n, p, e)'
    <3>1. e = d => pool[n][p] # Client(e) \/ ~(e[1] = n /\ e[2] = p)
      BY <1>6, <2>1 DEF Opposite
    <3>2. Named(e) => e # c
      BY <1>4
    <3>3. QED
      BY <1>1, <1>3, <1>7, <2>1, <3>1, <3>2 DEF Entry
  <2>2. QED
    BY <1>7, <2>1 DEF Base, AgreeInv, EntryInv
<1>9. NameInv'
  <2>1. ASSUME NEW e \in Conn, e[2] = c[2], e[1] = c[1], Named(e)
        PROVE  FALSE
    <3>1. e[3] = 1
      BY <2>1, ConnFacts DEF Named, Base, AgreeInv, CalmInv
    <3>2. QED
      BY <1>3, <1>4, <2>1, <3>1, Names
  <2>2. \A e \in Conn : pc[Task(e)] \in {"store", "unuse", "rename"} => InLogin(Task(e))
    BY DEF InLogin
  <2>3. ASSUME NEW e \in Conn
        PROVE  /\ Named(e)' => pool'[e[2]][e[1]] = Task(e)
               /\ pc'[Task(e)] = "store" => pool'[e[2]][e[1]] = None
               /\ daemon'[e] = "add" => pool'[e[1]][e[2]] = None
               /\ pc'[Task(e)] \in {"unuse", "rename"} =>
                    myconn'[Task(e)] # None /\ myconn'[Task(e)] = pool'[e[2]][e[1]]
    <3>1. e[1] \in Node /\ e[2] \in Node
      BY ConnFacts
    <3>2. CASE e = c
      BY <1>1, <1>2, <1>3, <1>4, <1>7, <3>1, <3>2 DEF Base, AgreeInv, NameInv
    <3>3. CASE e # c
      BY <1>1, <1>3, <1>7, <2>1, <2>2, <3>1, <3>3 DEF Base, AgreeInv, NameInv
    <3>4. QED
      BY <3>2, <3>3
  <2>4. ASSUME NEW e \in Conn, Dialled(e)
        PROVE  \/ pool'[e[1]][e[2]] # None
               \/ daemon'[e] = "add"
               \/ \E f \in Conn : Opposite(e, f) /\ pc'[Task(f)] = "store"
    <3>1. e[1] \in Node /\ e[2] \in Node
      BY ConnFacts
    <3>2. CASE e[1] = c[2] /\ e[2] = c[1]
      BY <1>2, <3>2 DEF Opposite
    <3>3. CASE ~(e[1] = c[2] /\ e[2] = c[1])
      BY <1>1, <1>3, <1>7, <2>4, <3>1, <3>3 DEF Base, AgreeInv, NameInv, Opposite
    <3>4. QED
      BY <3>2, <3>3
  <2>5. QED
    BY <1>3, <2>3, <2>4 DEF NameInv, Opposite
<1>10. AutoInv'
  BY <1>1, <1>3, <1>4, <1>7 DEF Base, AgreeInv, AutoInv
<1>11. QED
  BY <1>3, <1>8, <1>9, <1>10 DEF AgreeInv

(* The name is free: the end that logs in is stored under it. *)
LEMMA AgreeLoginStore ==
    ASSUME Base, NEW c \in Conn, LoginStore(Task(c))
    PROVE  AgreeInv'
<1>1. /\ pc[Task(c)] = "store" /\ pool[c[2]][c[1]] = None
      /\ c[1] \in Node /\ c[2] \in Node
      /\ At(Task(c)) = c[2] /\ At(Peer(Task(c))) = c[1]
  BY ConnFacts, Names DEF LoginStore, Base, AgreeInv, NameInv
<1>2. /\ \A ep \in Ep : pc'[ep] = IF ep = Task(c) THEN "register" ELSE pc[ep]
      /\ UNCHANGED <<daemon, serverChan, mutex, accepting, acceptID, tempID, prio,
                     status, inbox, myconn, joined>>
      /\ pool' = Store(c[2], c[1], Task(c))
  BY <1>1 DEF LoginStore, Base, TypeOK
<1>3. Moves(c) /\ pc'[Task(c)] = "register"
  BY <1>1, <1>2, ConnFacts, Names DEF Moves, InLogin
<1>4. /\ CalmInv' /\ MutexInv' /\ OnceInv' /\ WinsInv' /\ BeginInv' /\ EndInv'
      /\ c[3] = 1 /\ ~joined[Task(c)]
      /\ \A d \in Conn : Dialled(d)' <=> Dialled(d)
      /\ \A d \in Conn \ {c} :
           /\ pc'[Task(d)] = pc[Task(d)]
           /\ (Named(d)' <=> Named(d)) /\ (Renamed(d)' <=> Renamed(d))
      /\ \A d \in Conn : InLogin(Task(d)) /\ d[2] = c[2] => d = c
      /\ \A d \in Conn : daemon[d] = "add" => d[1] # c[2]
  BY <1>3, AgreeMoves
<1>5. ~Named(c) /\ ~Renamed(c) /\ Named(c)' /\ ~Renamed(c)'
  BY <1>1, <1>2, <1>3, <1>4 DEF Named, Renamed
<1>6. \A n, p \in Node :
         pool'[n][p] = IF n = c[2] /\ p = c[1] THEN Task(c) ELSE pool[n][p]
  BY <1>1, <1>2, IdFacts DEF Store, Base, TypeOK
<1>7. Task(c) # None
  BY ConnFacts, IdFacts
<1>8. EntryInv'
  <2>1. Entry(c[2], c[1], c)'
    BY <1>1, <1>4, <1>5, <1>6 DEF Entry
  <2>2. ASSUME NEW n \in Node, NEW p \in Node, NEW e \in Conn, Entry(n, p, e),
               ~(n = c[2] /\ p = c[1])
        PROVE  Entry(n, p, e)'
    BY <1>2, <1>4, <1>5, <1>6, <2>2 DEF Entry
  <2>3. QED
    BY <1>6, <2>1, <2>2 DEF Base, AgreeInv, EntryInv
<1>9. NameInv'
  <2>1. \A e \in Conn : pc[Task(e)] \in {"store", "unuse", "rename"} => InLogin(Task(e))
    BY DEF InLogin
  <2>2. ASSUME NEW e \in Conn, e[2] = c[2], e[1] = c[1], Named(e)
        PROVE  FALSE
    <3>1. Task(e) # None
      BY ConnFacts, IdFacts
    <3>2. pool[e[2]][e[1]] = Task(e)
      BY <2>2 DEF Base, AgreeInv, NameInv
    <3>3. QED
      BY <1>1, <2>2, <3>1, <3>2
  <2>3. ASSUME NEW e \in Conn
        PROVE  /\ Named(e)' => pool'[e[2]][e[1]] = Task(e)
               /\ pc'[Task(e)] = "store" => pool'[e[2]][e[1]] = None
               /\ daemon'[e] = "add" => pool'[e[1]][e[2]] = None
               /\ pc'[Task(e)] \in {"unuse", "rename"} =>
                    myconn'[Task(e)] # None /\ myconn'[Task(e)] = pool'[e[2]][e[1]]
    <3>1. e[1] \in Node /\ e[2] \in Node
      BY ConnFacts
    <3>2. CASE e = c
      BY <1>1, <1>2, <1>3, <1>4, <1>6, <3>1, <3>2 DEF Base, AgreeInv, NameInv
    <3>3. CASE e # c
      BY <1>2, <1>4, <1>6, <2>1, <2>2, <3>1, <3>3 DEF Base, AgreeInv, NameInv
    <3>4. QED
      BY <3>2, <3>3
  <2>4. ASSUME NEW e \in Conn, Dialled(e)
        PROVE  \/ pool'[e[1]][e[2]] # None
               \/ daemon'[e] = "add"
               \/ \E f \in Conn : Opposite(e, f) /\ pc'[Task(f)] = "store"
    <3>1. e[1] \in Node /\ e[2] \in Node
      BY ConnFacts
    <3>2. CASE e[1] = c[2] /\ e[2] = c[1]
      BY <1>1, <1>6, <1>7, <3>2
    <3>3. CASE ~(e[1] = c[2] /\ e[2] = c[1])
      BY <1>2, <1>4, <1>6, <2>4, <3>1, <3>3 DEF Base, AgreeInv, NameInv, Opposite
    <3>4. QED
      BY <3>2, <3>3
  <2>5. QED
    BY <1>4, <2>3, <2>4 DEF NameInv, Opposite
<1>10. AutoInv'
  BY <1>2, <1>4, <1>5 DEF Base, AgreeInv, AutoInv
<1>11. QED
  BY <1>4, <1>8, <1>9, <1>10 DEF AgreeInv

LEMMA AgreeLoginRename ==
    ASSUME Base, NEW c \in Conn, LoginRename(Task(c))
    PROVE  AgreeInv'
<1>1. /\ pc[Task(c)] = "register"
      /\ \A ep \in Ep : pc'[ep] = IF ep = Task(c) THEN "reply" ELSE pc[ep]
      /\ UNCHANGED <<daemon, serverChan, mutex, accepting, acceptID, prio, status,
                     inbox, myconn, joined>>
      /\ Rename(c[2], Task(c), c[1])
  BY ConnFacts, Names DEF LoginRename, Base, TypeOK
<1>2. Moves(c) /\ pc'[Task(c)] = "reply"
  BY <1>1, ConnFacts, Names DEF Moves, InLogin
<1>3. /\ CalmInv' /\ MutexInv' /\ OnceInv' /\ WinsInv' /\ BeginInv' /\ EndInv'
      /\ ~joined[Task(c)] /\ c[1] \in Node /\ c[2] \in Node
      /\ \A d \in Conn : Dialled(d)' <=> Dialled(d)
      /\ \A d \in Conn \ {c} :
           /\ pc'[Task(d)] = pc[Task(d)]
           /\ (Named(d)' <=> Named(d)) /\ (Renamed(d)' <=> Renamed(d))
  BY <1>2, AgreeMoves
<1>4. Named(c) /\ Named(c)' /\ ~Renamed(c) /\ Renamed(c)'
  BY <1>1, <1>2, <1>3 DEF Named, Renamed
<1>5. tempID[Task(c)] = <<"auto", Task(c)>>
  BY <1>4 DEF Base, AgreeInv, AutoInv
<1>6. /\ \A n, p \in Node : pool'[n][p] = pool[n][p]
      /\ \A e \in Conn : tempID'[Client(e)] = tempID[Client(e)]
      /\ \A e \in Conn : tempID'[Task(e)] = IF e = c THEN c[1] ELSE tempID[Task(e)]
  BY <1>1, <1>3, <1>5, ConnFacts, Names, IdAssumption DEF Rename, Base, TypeOK
<1>7. \A d \in Conn :
        /\ (pc'[Task(d)] = "store" <=> pc[Task(d)] = "store")
        /\ (pc'[Task(d)] \in {"unuse", "rename"} <=> pc[Task(d)] \in {"unuse", "rename"})
        /\ (Named(d)' <=> Named(d)) /\ (Renamed(d)' <=> d = c \/ Renamed(d))
  BY <1>1, <1>2, <1>3, <1>4
<1>8. EntryInv' /\ AutoInv'
  BY <1>1, <1>3, <1>6, <1>7 DEF Base, AgreeInv, EntryInv, Entry, AutoInv
<1>9. NameInv'
  BY <1>1, <1>3, <1>6, <1>7, ConnFacts DEF Base, AgreeInv, NameInv
<1>10. QED
  BY <1>3, <1>8, <1>9 DEF AgreeInv

LEMMA AgreeLoginReply ==
    ASSUME Base, NEW c \in Conn, LoginReply(Task(c))
    PROVE  AgreeInv'
<1>1. /\ pc[Task(c)] = "reply" /\ InLogin(Task(c))
      /\ c[1] \in Node /\ c[2] \in Node /\ At(Task(c)) = c[2]
      /\ Peer(Task(c)) = Client(c) /\ Task(c)[1] = c
      /\ Task(c) \in Ep /\ Client(c) \in Ep
  BY ConnFacts, Names DEF LoginReply, InLogin
<1>2. status[Task(c)] = "up" /\ ~lost[c] /\ status[Client(c)] \in {"none", "up"}
  BY <1>1 DEF Base, Faultless, AgreeInv, CalmInv
<1>3. inbox' = [inbox EXCEPT ![Client(c)] = Append(@, LoginRet)]
  BY <1>1, <1>2 DEF LoginReply, Sent
<1>4. LoginRet \in Message
  BY DEF LoginRet, Message
<1>5. Append(inbox[Client(c)], LoginRet) # <<>>
  <2>1. inbox[Client(c)] \in Seq(Message)
    BY <1>1 DEF Base, TypeOK
  <2>2. QED
    BY <2>1, <1>4
<1>6. /\ inbox'[Client(c)] # <<>>
      /\ \A d \in Conn : inbox'[Task(d)] = inbox[Task(d)]
      /\ \A d \in Conn \ {c} : inbox'[Client(d)] = inbox[Client(d)]
  BY <1>1, <1>3, <1>5, ConnFacts, Names DEF Base, TypeOK
<1>7. /\ \A ep \in Ep : pc'[ep] = IF ep = Task(c) THEN "notify" ELSE pc[ep]
      /\ UNCHANGED <<daemon, serverChan, mutex, accepting, acceptID, pool, tempID, prio,
                     status, myconn, joined>>
  BY <1>1 DEF LoginReply, Base, TypeOK
<1>8. \A d \in Conn : pc'[Task(d)] = IF d = c THEN "notify" ELSE pc[Task(d)]
  BY <1>7, ConnFacts, Names
<1>9. \A d \in Conn :
        /\ (Dialled(d)' <=> Dialled(d)) /\ (Dialling(d)' <=> Dialling(d))
        /\ (InLogin(Task(d))' <=> InLogin(Task(d)))
        /\ (LoggedIn(d)' <=> LoggedIn(d)) /\ (Loses(d)' <=> Loses(d))
        /\ (Named(d)' <=> Named(d)) /\ (Renamed(d)' <=> Renamed(d))
  BY <1>1, <1>7, <1>8 DEF Dialled, Dialling, LoggedIn, InLogin, Named, Renamed, Loses
<1>10. CalmInv'
  BY <1>1, <1>7 DEF Base, AgreeInv, CalmInv
<1>11. MutexInv'
  BY <1>7, <1>9 DEF Base, AgreeInv, MutexInv
<1>12. OnceInv'
  BY <1>6, <1>7, <1>9 DEF Base, AgreeInv, OnceInv
<1>13. EntryInv'
  BY <1>7, <1>9 DEF Base, AgreeInv, EntryInv, Entry
<1>14. NameInv'
  BY <1>1, <1>7, <1>8, <1>9 DEF Base, AgreeInv, NameInv
<1>15. AutoInv' /\ WinsInv'
  BY <1>7, <1>9 DEF Base, AgreeInv, AutoInv, WinsInv
<1>16. BeginInv'
  BY <1>7, <1>9 DEF Base, AgreeInv, BeginInv, Begun, Handshaking
<1>17. EndInv'
  BY <1>6, <1>7, <1>8, <1>9 DEF Base, AgreeInv, EndInv
<1>18. QED
  BY <1>10, <1>11, <1>12, <1>13, <1>14, <1>15, <1>16, <1>17 DEF AgreeInv

LEMMA AgreeLoginJoin ==
    ASSUME Base, NEW c \in Conn, LoginJoin(Task(c))
    PROVE  AgreeInv'
<1>1. /\ pc[Task(c)] = "notify" /\ InLogin(Task(c))
      /\ c[1] \in Node /\ c[2] \in Node /\ At(Task(c)) = c[2]
      /\ Task(c) \in Ep /\ Client(c) \in Ep
  BY ConnFacts, Names DEF LoginJoin, InLogin
<1>2. status[Task(c)] = "up"
  BY <1>1 DEF Base, AgreeInv, CalmInv
<1>3. joined[Client(c)] \/ inbox[Client(c)] # <<>>
  BY <1>1 DEF Base, AgreeInv, EndInv
<1>4. /\ \A ep \in Ep : pc'[ep] = IF ep = Task(c) THEN "recv" ELSE pc[ep]
      /\ \A ep \in Ep \ {Task(c)} : myconn'[ep] = myconn[ep]
      /\ \A ep \in Ep : (joined'[ep] <=> ep = Task(c) \/ joined[ep])
      /\ \A n \in Node : (mutex'[n] <=> n # c[2] /\ mutex[n])
      /\ UNCHANGED <<daemon, serverChan, accepting, acceptID, pool, tempID, prio,
                     status, inbox>>
  BY <1>1 DEF LoginJoin, Base, TypeOK
<1>5. \A d \in Conn :
        /\ pc'[Task(d)] = IF d = c THEN "recv" ELSE pc[Task(d)]
        /\ d # c => myconn'[Task(d)] = myconn[Task(d)]
        /\ (joined'[Task(d)] <=> d = c \/ joined[Task(d)])
        /\ (joined'[Client(d)] <=> joined[Client(d)])
  BY <1>4, ConnFacts, Names
<1>6. \A d \in Conn :
        /\ (Dialled(d)' <=> Dialled(d)) /\ (Dialling(d)' <=> Dialling(d))
        /\ (InLogin(Task(d))' <=> d # c /\ InLogin(Task(d)))
        /\ (LoggedIn(d)' <=> LoggedIn(d)) /\ (Loses(d)' <=> Loses(d))
        /\ (Named(d)' <=> Named(d)) /\ (Renamed(d)' <=> Renamed(d))
  BY <1>1, <1>4, <1>5 DEF Dialled, Dialling, LoggedIn, InLogin, Named, Renamed, Loses
<1>7. CalmInv'
  BY <1>1, <1>2, <1>4 DEF Base, AgreeInv, CalmInv
<1>8. MutexInv'
  BY <1>1, <1>4, <1>6, ConnFacts DEF Base, AgreeInv, MutexInv
<1>9. OnceInv'
  BY <1>4, <1>5, <1>6 DEF Base, AgreeInv, OnceInv
<1>10. EntryInv'
  BY <1>4, <1>6 DEF Base, AgreeInv, EntryInv, Entry
<1>11. NameInv'
  BY <1>1, <1>4, <1>5, <1>6 DEF Base, AgreeInv, NameInv
<1>12. AutoInv' /\ WinsInv'
  BY <1>4, <1>6 DEF Base, AgreeInv, AutoInv, WinsInv
<1>13. BeginInv'
  BY <1>4, <1>6 DEF Base, AgreeInv, BeginInv, Begun, Handshaking
<1>14. EndInv'
  BY <1>3, <1>4, <1>5, <1>6 DEF Base, AgreeInv, EndInv
<1>15. QED
  BY <1>7, <1>8, <1>9, <1>10, <1>11, <1>12, <1>13, <1>14 DEF AgreeInv

LEMMA AgreeAnswered ==
    ASSUME Base, NEW ep \in Ep, LoginAnswered(ep)
    PROVE  AgreeInv'
<1>1. Receives(ep, "SLoginRet")
  BY DEF LoginAnswered
<1>2. PICK c \in Conn : ep = Client(c)
  BY <1>1, ReceiveFacts, EpFacts DEF Base
<1>3. /\ pc[ep] = "recv" /\ inbox' = [inbox EXCEPT ![ep] = Tail(@)]
      /\ joined' = [joined EXCEPT ![ep] = TRUE]
      /\ UNCHANGED <<daemon, serverChan, mutex, accepting, acceptID, pool, tempID, prio,
                     status, pc, myconn>>
  BY DEF LoginAnswered, Receives
<1>4. \A f \in Ep : (joined'[f] <=> f = ep \/ joined[f])
  BY <1>3 DEF Base, TypeOK
<1>5. /\ \A d \in Conn : inbox'[Task(d)] = inbox[Task(d)]
      /\ \A d \in Conn \ {c} : inbox'[Client(d)] = inbox[Client(d)]
      /\ \A d \in Conn : (joined'[Task(d)] <=> joined[Task(d)])
      /\ \A d \in Conn : (joined'[Client(d)] <=> d = c \/ joined[Client(d)])
  BY <1>2, <1>3, <1>4, ConnFacts, Names DEF Base, TypeOK
<1>6. \A d \in Conn :
        /\ (Dialled(d)' <=> Dialled(d)) /\ (Dialling(d)' <=> Dialling(d))
        /\ (InLogin(Task(d))' <=> InLogin(Task(d)))
        /\ (LoggedIn(d)' <=> LoggedIn(d)) /\ (Loses(d)' <=> Loses(d))
        /\ (Named(d)' <=> Named(d)) /\ (Renamed(d)' <=> Renamed(d))
  BY <1>3, <1>5 DEF Dialled, Dialling, LoggedIn, InLogin, Named, Renamed, Loses
<1>7. CalmInv'
  BY <1>3, <1>4 DEF Base, AgreeInv, CalmInv
<1>8. MutexInv' /\ OnceInv'
  BY <1>3, <1>5, <1>6 DEF Base, AgreeInv, MutexInv, OnceInv
<1>9. EntryInv' /\ NameInv' /\ AutoInv'
  BY <1>3, <1>6 DEF Base, AgreeInv, EntryInv, Entry, NameInv, AutoInv
<1>10. WinsInv' /\ BeginInv'
  BY <1>3, <1>6 DEF Base, AgreeInv, WinsInv, BeginInv, Begun, Handshaking
<1>11. EndInv'
  BY <1>3, <1>5, <1>6 DEF Base, AgreeInv, EndInv
<1>12. QED
  BY <1>7, <1>8, <1>9, <1>10, <1>11 DEF AgreeInv

LEMMA AgreeInit == Init => AgreeInv
<1> SUFFICES ASSUME Init PROVE AgreeInv
  OBVIOUS
<1>1. \A c \in Conn :
        /\ ~Dialled(c) /\ ~Dialling(c) /\ ~LoggedIn(c) /\ ~InLogin(Task(c))
        /\ ~Named(c) /\ ~joined[Task(c)] /\ inbox[Task(c)] = <<>>
        /\ pc[Task(c)] = "off" /\ daemon[c] \in {"token", "off"}
        /\ tempID[Task(c)] = <<"auto", Task(c)>> /\ accepting[c] = "no"
  BY ConnFacts DEF Init, Dialled, Dialling, LoggedIn, InLogin, Named
<1>2. CalmInv
  BY DEF Init, CalmInv
<1>3. MutexInv /\ OnceInv /\ WinsInv
  BY <1>1 DEF MutexInv, OnceInv, WinsInv
<1>4. EntryInv /\ NameInv /\ AutoInv
  <2>1. \A n, p \in Node : pool[n][p] = None
    BY IdFacts DEF Init
  <2>2. QED
    BY <1>1, <2>1 DEF EntryInv, NameInv, AutoInv
<1>5. BeginInv /\ EndInv
  BY <1>1 DEF BeginInv, EndInv
<1>6. QED
  BY <1>2, <1>3, <1>4, <1>5 DEF AgreeInv

(* No end closes as long as nothing failed. *)
LEMMA AgreeClose ==
    ASSUME Base, NEW ep \in Ep
    PROVE  ~OnConnectClose(ep)
<1>1. status[ep] # "down" /\ pc[ep] \notin {"load", "remove"}
  BY DEF Base, AgreeInv, CalmInv
<1>2. ~lost[ep[1]] /\ status[Peer(ep)] \notin {"down", "gone"}
  BY EpFacts DEF Base, Faultless, AgreeInv, CalmInv
<1>3. QED
  BY <1>1, <1>2 DEF OnConnectClose, CloseRead, CloseShutdown, CloseRemove, Ends

LEMMA AgreeConnecting ==
    ASSUME Base, NEW c \in Conn, Daemon(c) \/ Handshake(c) \/ Listener(c)
    PROVE  AgreeInv'
BY AgreeConnect, AgreeDaemonWaits, AgreeConnectChan, AgreeHandshakeDuplicate,
   AgreeConnectAdd, AgreeConnectLogin, AgreeAccept, AgreeHandshakeRequest,
   AgreeHandshakeReply, AgreeAcceptAdd
DEF Daemon, Handshake, Listener

LEMMA AgreeRecv ==
    ASSUME Base, NEW ep \in Ep, RecvMsgThread(ep)
    PROVE  AgreeInv'
<1>1. CASE LoginAnswered(ep)
  BY <1>1, AgreeAnswered
<1>2. CASE OnServerLogin(ep)
  <2>1. ep[2] = "task"
    <3>1. CASE Receives(ep, "SLogin")
      BY <3>1, ReceiveFacts DEF Base
    <3>2. CASE InLogin(ep)
      BY <3>2 DEF Base, JoinInv, LoginInv, InLogin
    <3>3. QED
      BY <1>2, <3>1, <3>2
      DEF OnServerLogin, LoginRejected, LoginPreferred, LoginFirst, UnuseStore,
          UnuseRename, LoginStore, LoginRename, LoginReply, LoginJoin, InLogin
  <2>2. PICK c \in Conn : ep = Task(c)
    BY <2>1, EpFacts
  <2>3. QED
    BY <1>2, <2>2, AgreeRejected, AgreeReceived, AgreeUnuseStore, AgreeUnuseRename,
       AgreeLoginStore, AgreeLoginRename, AgreeLoginReply, AgreeLoginJoin
    DEF OnServerLogin
<1>3. QED
  BY <1>1, <1>2, AgreeClose DEF RecvMsgThread

(* A fault is never undone, and a step that is one needs no agreement. *)
LEMMA FaultlessBefore ==
    ASSUME TypeOK, [Next]_vars, Faultless'
    PROVE  /\ Faultless
           /\ \A c \in Conn : ~NetFails(c)
           /\ \A n \in Node : ~Restart(n)
<1>1. ASSUME NEW c \in Conn, NetFails(c)
      PROVE  FALSE
  <2>1. lost'[c]
    BY <1>1 DEF NetFails, TypeOK
  <2>2. QED
    BY <2>1 DEF Faultless
<1>2. ASSUME NEW n \in Node, Restart(n)
      PROVE  FALSE
  <2>1. run[n] \in Nat /\ run[n] >= 1 /\ run'[n] = run[n] + 1
    BY <1>2, RunAssumption DEF Restart, TypeOK
  <2>2. QED
    BY <2>1 DEF Faultless
<1>3. CASE UNCHANGED vars
  BY <1>1, <1>2, <1>3 DEF vars, Faultless
<1>4. ASSUME NEW c \in Conn, Daemon(c) \/ Handshake(c) \/ Listener(c)
      PROVE  UNCHANGED <<run, lost>>
  BY <1>4 DEF Daemon, Handshake, Listener, ConnectDuplicate, ConnectFails, Retry,
     Connect, ConnectAdd, ConnectLogin, ConnectChan, HandshakeDuplicate,
     HandshakeRequest, HandshakeReply, Accept, AcceptRead, AcceptAdd
<1>5. ASSUME NEW ep \in Ep, RecvMsgThread(ep)
      PROVE  UNCHANGED <<run, lost>>
  BY <1>5 DEF RecvMsgThread, OnServerLogin, LoginRejected, LoginPreferred, LoginFirst,
     UnuseStore, UnuseRename, LoginStore, LoginRename, LoginReply, LoginJoin,
     LoginAnswered, OnConnectClose, CloseRead, CloseShutdown, CloseRemove
<1>6. QED
  BY <1>1, <1>2, <1>3, <1>4, <1>5 DEF Next, Faultless

LEMMA AgreeStep == IInv /\ [Next]_vars => IInv'
<1> SUFFICES ASSUME IInv, [Next]_vars
             PROVE  IInv'
  OBVIOUS
<1>1. TypeOK' /\ PrioInv' /\ JoinInv'
  <2>1. LocalCalm
    BY ConnFacts
    DEF IInv, JoinInv, RunInv, LocalCalm, AgreeInv, CalmInv, MutexInv, InLogin
  <2>2. QED
    BY <2>1, TypeStep, JoinStep DEF IInv
<1>2. ASSUME Faultless'
      PROVE  AgreeInv'
  <2>1. Base
    BY <1>2, FaultlessBefore DEF IInv, Base
  <2>2. CASE UNCHANGED vars
    BY <2>1, <2>2
    DEF vars, Base, AgreeInv, CalmInv, MutexInv, OnceInv, EntryInv, Entry, NameInv,
        AutoInv, WinsInv, BeginInv, Begun, Handshaking, EndInv, Loses, Dialled,
        Dialling, LoggedIn, InLogin, Named, Renamed
  <2>3. CASE Next
    BY <1>2, <2>1, <2>3, FaultlessBefore, AgreeConnecting, AgreeRecv DEF IInv, Next
  <2>4. QED
    BY <2>2, <2>3
<1>3. QED
  BY <1>1, <1>2 DEF IInv

LEMMA FirstRuns ==
    ASSUME AgreeInv, NEW c \in Conn, Dialled(c)
    PROVE  /\ c[3] = 1 /\ status[Client(c)] = "up"
           /\ prio[Client(c)] \in Nat /\ prio[Client(c)] # None
<1>1. c[3] = 1 /\ status[Client(c)] = "up"
  BY ConnFacts DEF AgreeInv, CalmInv, Dialled
<1>2. prio[Client(c)] \in ClientPrio
  BY DEF AgreeInv, OnceInv
<1>3. QED
  BY <1>1, <1>2, PrioAssumption

(* Two connections that cross do not both log in. *)
LEMMA OneLogsIn ==
    ASSUME AgreeInv, NEW c \in Conn, NEW d \in Conn, LoggedIn(c), LoggedIn(d)
    PROVE  ~Opposite(c, d)
<1>1. Dialled(c) /\ Dialled(d)
  BY DEF AgreeInv, OnceInv
<1>2. prio[Client(c)] \in Nat /\ prio[Client(d)] \in Nat
  BY <1>1, FirstRuns
<1>3. Opposite(c, d) =>
        prio[Client(c)] < prio[Client(d)] /\ prio[Client(d)] < prio[Client(c)]
  BY <1>1 DEF AgreeInv, WinsInv, Opposite
<1>4. QED
  BY <1>2, <1>3

LEMMA AgreeJoins == JoinInv /\ (Faultless => AgreeInv) => JoinAgreement
<1> SUFFICES ASSUME JoinInv, AgreeInv,
                    NEW c \in Conn, NEW d \in Conn,
                    {c[1], c[2]} = {d[1], d[2]},
                    joined[Client(c)] \/ joined[Task(c)],
                    joined[Client(d)] \/ joined[Task(d)]
             PROVE  c = d
  BY DEF JoinAgreement
<1>1. LoggedIn(c) /\ LoggedIn(d)
  <2>1. \A e \in Conn : status[Task(e)] # "gone"
    BY ConnFacts DEF AgreeInv, CalmInv
  <2>2. QED
    BY <2>1 DEF JoinInv, JoinedMeansAccepted, Accepted, LoggedIn, InLogin
<1>2. ~Opposite(c, d)
  BY <1>1, OneLogsIn
<1>3. c[1] = d[1] /\ c[2] = d[2]
  BY <1>2, Names DEF Opposite
<1>4. c[3] = 1 /\ d[3] = 1
  BY <1>1, FirstRuns DEF AgreeInv, OnceInv
<1>5. QED
  BY <1>3, <1>4, Names

(* A dialler calls OnServerJoinSubnet for a connection only when the module *)
(* dialled has accepted it: it has joined there, or will when its           *)
(* broadcasts return, or its process ended (OnServerLogin sends the answer  *)
(* before it broadcasts and joins).                                         *)
THEOREM SubnetJoin == Spec => []JoinedMeansAccepted
<1>1. Init => IInv
  BY TypeInit, JoinInit, AgreeInit DEF IInv
<1>2. IInv => JoinedMeansAccepted
  BY DEF IInv, JoinInv
<1>3. QED
  BY <1>1, <1>2, AgreeStep, PTL DEF Spec

(* As long as no connection is lost and no process restarted, two modules   *)
(* that dial each other join on one connection only (OnServerLogin rejects  *)
(* the login of the lower ConnectPriority on both sides).                   *)
THEOREM SubnetAgree == Spec => []JoinAgreement
<1>1. Init => IInv
  BY TypeInit, JoinInit, AgreeInit DEF IInv
<1>2. IInv => JoinAgreement
  BY AgreeJoins DEF IInv
<1>3. QED
  BY <1>1, <1>2, AgreeStep, PTL DEF Spec

(* A connection on which both ends joined is the one each module finds.     *)
LEMMA JoinedMeansConnected ==
    ASSUME AgreeInv, Quiet, Faultless, NEW e \in Conn, joined[Task(e)]
    PROVE  Connected(e[1], e[2]) /\ Connected(e[2], e[1])
<1>1. LoggedIn(e) /\ Named(e)
  BY DEF LoggedIn, Named
<1>2. Dialled(e)
  BY <1>1 DEF AgreeInv, OnceInv
<1>3. /\ e[1] \in Node /\ e[2] \in Node /\ Client(e) \in Ep /\ Task(e) \in Ep
      /\ Peer(Client(e)) = Task(e) /\ Peer(Task(e)) = Client(e)
      /\ At(Client(e)) = e[1] /\ At(Task(e)) = e[2]
  BY ConnFacts, Names
<1>4. e[3] = 1 /\ status[Client(e)] = "up" /\ status[Task(e)] = "up"
  BY <1>2, <1>3, FirstRuns DEF AgreeInv, CalmInv
<1>5. joined[Client(e)]
  <2>1. pc[Client(e)] = "recv"
    BY <1>3, <1>4 DEF AgreeInv, CalmInv, Quiet
  <2>2. inbox[Client(e)] = <<>>
    BY <1>3, <2>1 DEF Quiet
  <2>3. QED
    BY <2>2 DEF AgreeInv, EndInv
<1>6. pool[e[2]][e[1]] = Task(e)
  BY <1>1 DEF AgreeInv, NameInv
<1>7. pool[e[1]][e[2]] = Client(e)
  <2>1. daemon[e] = "idle"
    BY <1>3, <1>4 DEF Quiet, Faultless
  <2>2. pool[e[1]][e[2]] # None
    BY <1>2, <2>1, ConnFacts DEF AgreeInv, NameInv, Quiet
  <2>3. PICK g \in Conn : Entry(e[1], e[2], g)
    BY <1>3, <2>2 DEF AgreeInv, EntryInv
  <2>4. CASE g[1] = e[1] /\ g[2] = e[2] /\ pool[e[1]][e[2]] = Client(g)
    <3>1. g = e
      BY <1>4, <2>3, <2>4, Names DEF Entry
    <3>2. QED
      BY <2>4, <3>1
  <2>5. CASE g[1] = e[2] /\ g[2] = e[1] /\ Named(g)
    <3>1. LoggedIn(g)
      BY <2>5 DEF Named, LoggedIn, InLogin
    <3>2. QED
      BY <1>1, <2>5, <3>1, OneLogsIn DEF Opposite
  <2>6. QED
    BY <2>3, <2>4, <2>5 DEF Entry
<1>8. Connected(e[1], e[2])
  BY <1>3, <1>4, <1>5, <1>6, <1>7 DEF Connected, Client, Side
<1>9. Connected(e[2], e[1])
  BY <1>3, <1>4, <1>5, <1>6, <1>7 DEF Connected, Task, Side
<1>10. QED
  BY <1>8, <1>9

(* Nobody has anything left to do: a connection that was dialled joined, or *)
(* one that crosses it has no lower priority.                               *)
LEMMA QuietEnds ==
    ASSUME AgreeInv, Quiet, Faultless, NEW e \in Conn, Dialled(e)
    PROVE  joined[Task(e)] \/ Loses(e)
<1>1. e[3] = 1 /\ status[Client(e)] # "none"
  BY FirstRuns DEF Dialled
<1>2. e[1] \in Node /\ Task(e) \in Ep
  BY ConnFacts
<1>3. ~Dialling(e)
  BY <1>1, <1>2 DEF Quiet, Faultless, Dialling
<1>4. pc[Task(e)] = "recv"
  BY <1>1, <1>2 DEF Quiet, AgreeInv, CalmInv
<1>5. inbox[Task(e)] = <<>>
  BY <1>2, <1>4 DEF Quiet
<1>6. QED
  BY <1>3, <1>4, <1>5 DEF AgreeInv, EndInv, LoggedIn, InLogin

LEMMA AgreeQuiet == (Faultless => AgreeInv) => QuietMeansConnected
<1> SUFFICES ASSUME AgreeInv, Quiet, Faultless, NEW d \in Dials, ~Tied(d[1], d[2])
             PROVE  Connected(d[1], d[2])
  BY DEF QuietMeansConnected
<1> DEFINE c == <<d[1], d[2], 1>>
<1>1. c \in Conn /\ c[1] = d[1] /\ c[2] = d[2] /\ c[3] = 1
  BY RunAssumption DEF Conn
<1> HIDE DEF c
<1>2. daemon[c] = "idle"
  BY <1>1, ConnFacts DEF Quiet, Faultless
<1>3. PICK e \in Conn :
        (Opposite(c, e) \/ (c[1] = e[1] /\ c[2] = e[2])) /\ Begun(e)
  BY <1>1, <1>2 DEF AgreeInv, BeginInv
<1>4. Dialled(e)
  BY <1>3 DEF Begun, Handshaking, Quiet, AgreeInv, OnceInv
<1>5. ASSUME NEW f \in Conn, joined[Task(f)],
             Opposite(c, f) \/ (c[1] = f[1] /\ c[2] = f[2])
      PROVE  Connected(d[1], d[2])
  BY <1>1, <1>5, JoinedMeansConnected DEF Opposite
<1>6. CASE Loses(e)
  <2>1. PICK f \in Conn : /\ Opposite(e, f) /\ Dialled(f)
                          /\ prio[Client(f)] >= prio[Client(e)]
    BY <1>6 DEF Loses
  <2>2. /\ prio[Client(e)] \in Nat /\ prio[Client(e)] # None /\ e[3] = 1
        /\ prio[Client(f)] \in Nat /\ prio[Client(f)] # None
    BY <1>4, <2>1, FirstRuns
  <2>3. prio[Client(f)] # prio[Client(e)]
    BY <1>1, <1>3, <2>1, <2>2 DEF Tied, Opposite
  <2>4. ~Loses(f)
    <3>1. ASSUME NEW g \in Conn, Opposite(f, g), Dialled(g)
          PROVE  g = e
      BY <2>1, <2>2, <3>1, FirstRuns, Names DEF Opposite
    <3>2. ~(prio[Client(e)] >= prio[Client(f)])
      BY <2>1, <2>2, <2>3
    <3>3. QED
      BY <3>1, <3>2 DEF Loses
  <2>5. joined[Task(f)]
    BY <2>1, <2>4, QuietEnds
  <2>6. QED
    BY <1>3, <1>5, <2>1, <2>5 DEF Opposite
<1>7. QED
  BY <1>3, <1>4, <1>5, <1>6, QuietEnds

(* When nobody has anything left to do and nothing failed, two modules of   *)
(* which one dials the other find each other in their pools, on two ends of *)
(* one connection over which both joined (unless they drew one priority).   *)
THEOREM SubnetConnects == Spec => []QuietMeansConnected
<1>1. Init => IInv
  BY TypeInit, JoinInit, AgreeInit DEF IInv
<1>2. IInv => QuietMeansConnected
  BY AgreeQuiet DEF IInv
<1>3. QED
  BY <1>1, <1>2, AgreeStep, PTL DEF Spec
=============================================================================
