------------------------------- MODULE Subnet -------------------------------
(***************************************************************************)
(* server/subnet and connect/server_pool.go: how the modules of a subnet   *)
(* connect to each other.  Every module dials its peers and is dialled by  *)
(* them, so that two modules may meet on two connections at once; the one  *)
(* whose dialler drew the higher ConnectPriority is meant to stay.         *)
(*                                                                         *)
(* A connection is named by the module that dials, the module dialled and  *)
(* the run of the dialler's process.  Each of its two ends is a            *)
(* connect.Server with a goroutine of its own (recvMsgThread) and an entry *)
(* in its module's ServerPool.  connectMutex protects a login and a dial   *)
(* but neither the removal of a connection nor the accepting of one, so    *)
(* these interleave with the steps on the pool's sync.Map.                 *)
(*                                                                         *)
(* Two modules of one process meet over Go channels instead (local).       *)
(* Messages other than the login and its answer, and the tables filled by  *)
(* SNotifyAllInfo, which nobody fills first, are left out.                 *)
(***************************************************************************)
EXTENDS Naturals, Sequences, FiniteSets

CONSTANTS
    Node,        \* the modules, by their ModuleID
    Dials,       \* <<n, p>> : n has p in its configuration (BindSubnet)
    MaxRun,      \* how many times a process is started
    MayRestart,  \* the modules whose process may be restarted
    ClientPrio,  \* the values rand.Int63 has at the dialler's end
    TaskPrio,    \* and those it has at the other end
    NetMayFail,  \* whether a connection may be lost
    MaxFaults,   \* how many dials, connections and processes fail at most
    None         \* nil

ASSUME DialsAssumption == \A d \in Dials : d \in Node \X Node /\ d[1] # d[2]
ASSUME RunAssumption == MaxRun \in Nat \ {0} /\ MayRestart \subseteq Node
ASSUME PrioAssumption ==
    ClientPrio \subseteq Nat /\ TaskPrio \subseteq Nat /\ None \notin Nat
ASSUME FaultAssumption == NetMayFail \in BOOLEAN /\ MaxFaults \in Nat

Conn == {<<d[1], d[2], k>> : d \in Dials, k \in 1 .. MaxRun}
Side == {"client", "task"}
Ep == Conn \X Side

Client(c) == <<c, "client">>
Task(c) == <<c, "task">>
Peer(ep) == IF ep[2] = "client" THEN Task(ep[1]) ELSE Client(ep[1])
At(ep) == IF ep[2] = "client" THEN ep[1][1] ELSE ep[1][2]

(* A TmpID is the module's name, the number drawn for the connection, or    *)
(* what OnServerLogin makes of it ("...unuse...").                          *)
Id == Node \cup ({"auto", "unuse"} \X Ep)

ASSUME NoneAssumption == None \notin Ep /\ None \notin Id
ASSUME IdAssumption == Node \cap ({"auto", "unuse"} \X Ep) = {}

VARIABLES
    local,      \* the modules live in one process
    run,        \* run[n] : how often n's process was started
    faults,     \* how many dials, connections and processes failed
    daemon,     \* daemon[c] : tryConnectServerThread of c's dialler
    mutex,      \* mutex[n] : connectMutex is held
    serverChan, \* serverChan[n] : handshakes for n, of a local subnet
    accepting,  \* accepting[c] : where mTCPServerListener stands with c
    acceptID,   \* acceptID[c] : the TmpID it read
    pool,       \* pool[n] : ServerPool.allSockets
    tempID,     \* tempID[ep] : BaseConnect.tempID
    prio,       \* prio[ep] : Server.ConnectPriority
    status,     \* status[ep] : the connection of ep
    lost,       \* lost[c] : the network lost c
    inbox,      \* inbox[ep] : messages ep has not handled
    pc,         \* pc[ep] : recvMsgThread of ep
    myconn,     \* myconn[ep] : local variable of OnServerLogin
    closeID,    \* closeID[ep] : the TmpID onConnectClose read
    terminated, \* terminated[ep] : terminate_force
    joined      \* joined[ep] : OnServerJoinSubnet(ep) was called

netVars == <<status, lost, inbox>>
poolVars == <<pool, tempID>>
dialVars == <<daemon, serverChan>>
acceptVars == <<accepting, acceptID>>
threadVars == <<pc, myconn, closeID>>
epVars == <<prio, terminated, joined>>
envVars == <<local, run, faults>>
vars == <<envVars, dialVars, mutex, acceptVars, poolVars, netVars, threadVars,
          epVars>>

Init ==
    /\ local \in BOOLEAN
    /\ run = [n \in Node |-> 1]
    /\ faults = 0
    /\ daemon = [c \in Conn |-> IF c[3] = 1 THEN "token" ELSE "off"]
    /\ mutex = [n \in Node |-> FALSE]
    /\ serverChan = [n \in Node |-> <<>>]
    /\ accepting = [c \in Conn |-> "no"]
    /\ acceptID = [c \in Conn |-> None]
    /\ pool = [n \in Node |-> [id \in Id |-> None]]
    /\ tempID = [ep \in Ep |-> <<"auto", ep>>]
    /\ prio = [ep \in Ep |-> None]
    /\ status = [ep \in Ep |-> "none"]
    /\ lost = [c \in Conn |-> FALSE]
    /\ inbox = [ep \in Ep |-> <<>>]
    /\ pc = [ep \in Ep |-> "off"]
    /\ myconn = [ep \in Ep |-> None]
    /\ closeID = [ep \in Ep |-> None]
    /\ terminated = [ep \in Ep |-> FALSE]
    /\ joined = [ep \in Ep |-> FALSE]
-----------------------------------------------------------------------------
(* The ServerPool, and what a connection does for it.                      *)

GetServer(n, id) == pool[n][id]
Store(n, id, ep) == [pool EXCEPT ![n][id] = ep]

(* Mutant of Rename: the entry under the old TmpID stays. *)
RenameKeeps(n, ep, id) ==
    /\ tempID' = [tempID EXCEPT ![ep] = id]
    /\ pool' = pool

(* setTempID, and remove of the entry under the old TmpID. *)
Rename(n, ep, id) ==
    /\ tempID' = [tempID EXCEPT ![ep] = id]
    /\ pool' = [pool EXCEPT ![n][tempID[ep]] = None]

(* InitTCP and InitChan: a priority is drawn, the goroutines start. *)
Start(ep, x) ==
    /\ status' = [status EXCEPT ![ep] = "up"]
    /\ pc' = [pc EXCEPT ![ep] = "recv"]
    /\ prio' = [prio EXCEPT ![ep] = x]

(* SendCmd: what a dead connection should send is lost; a connection that   *)
(* the other module has not accepted yet keeps it.                          *)
Sent(ep, msg) ==
    IF status[ep] = "up" /\ ~lost[ep[1]]
       /\ status[Peer(ep)] \in {"none", "up"}
    THEN [inbox EXCEPT ![Peer(ep)] = Append(@, msg)]
    ELSE inbox

Login(x) == [type |-> "SLogin", prio |-> x]
LoginRet == [type |-> "SLoginRet"]
-----------------------------------------------------------------------------
(* tryConnectServerThread and ConnectServer.                               *)

(* The daemon of a running process got a token, and connectMutex is free. *)
MayConnect(c) ==
    /\ run[c[1]] = c[3]
    /\ daemon[c] = "token"
    /\ ~mutex[c[1]]

ConnectDuplicate(c) ==
    /\ MayConnect(c)
    /\ GetServer(c[1], c[2]) # None
    /\ daemon' = [daemon EXCEPT ![c] = "idle"]
    /\ UNCHANGED <<envVars, serverChan, mutex, acceptVars, poolVars, netVars,
                   threadVars, epVars>>

(* The address does not answer: the daemon sleeps and hands itself a token. *)
ConnectFails(c) ==
    /\ MayConnect(c)
    /\ ~local
    /\ GetServer(c[1], c[2]) = None
    /\ faults < MaxFaults
    /\ faults' = faults + 1
    /\ daemon' = [daemon EXCEPT ![c] = "sleep"]
    /\ UNCHANGED <<local, run, serverChan, mutex, acceptVars, poolVars, netVars,
                   threadVars, epVars>>

Retry(c) ==
    /\ run[c[1]] = c[3]
    /\ daemon[c] = "sleep"
    /\ daemon' = [daemon EXCEPT ![c] = "token"]
    /\ UNCHANGED <<envVars, serverChan, mutex, acceptVars, poolVars, netVars,
                   threadVars, epVars>>

(* DialTCP, and NewTCPServer up to InitTCP, which starts the goroutines. *)
Connect(c, x) ==
    /\ MayConnect(c)
    /\ ~local
    /\ GetServer(c[1], c[2]) = None
    /\ daemon' = [daemon EXCEPT ![c] = "add"]
    /\ mutex' = [mutex EXCEPT ![c[1]] = TRUE]
    /\ Start(Client(c), x)
    /\ UNCHANGED <<envVars, serverChan, acceptVars, poolVars, lost, inbox,
                   myconn, closeID, terminated, joined>>

(* AddServer: the connection is registered under its peer's name. *)
ConnectAdd(c) ==
    /\ run[c[1]] = c[3]
    /\ daemon[c] = "add"
    /\ daemon' = [daemon EXCEPT ![c] = "login"]
    /\ tempID' = [tempID EXCEPT ![Client(c)] = c[2]]
    /\ pool' = Store(c[1], c[2], Client(c))
    /\ UNCHANGED <<envVars, serverChan, mutex, acceptVars, netVars, threadVars,
                   epVars>>

(* onClientConnected.  No token is left: the daemon waits for one. *)
ConnectLogin(c) ==
    /\ run[c[1]] = c[3]
    /\ daemon[c] = "login"
    /\ daemon' = [daemon EXCEPT ![c] = "idle"]
    /\ mutex' = [mutex EXCEPT ![c[1]] = FALSE]
    /\ inbox' = Sent(Client(c), Login(prio[Client(c)]))
    /\ UNCHANGED <<envVars, serverChan, acceptVars, poolVars, status, lost,
                   threadVars, epVars>>
-----------------------------------------------------------------------------
(* Modules of one process: a handshake over the modules' serverChan.  The  *)
(* mutex covers each step and nothing removes a connection meanwhile.      *)

ConnectChan(c) ==
    /\ MayConnect(c)
    /\ local
    /\ GetServer(c[1], c[2]) = None
    /\ daemon' = [daemon EXCEPT ![c] = "idle"]
    /\ serverChan' = [serverChan EXCEPT
            ![c[2]] = Append(@, [conn |-> c, seq |-> 0])]
    /\ UNCHANGED <<envVars, mutex, acceptVars, poolVars, netVars, threadVars,
                   epVars>>

NextHandshake(n, c, seq) ==
    /\ serverChan[n] # <<>>
    /\ Head(serverChan[n]) = [conn |-> c, seq |-> seq]
    /\ ~mutex[n]

HandshakeDuplicate(c, seq) ==
    LET n == IF seq = 0 THEN c[2] ELSE c[1]
        p == IF seq = 0 THEN c[1] ELSE c[2] IN
    /\ NextHandshake(n, c, seq)
    /\ GetServer(n, p) # None
    /\ serverChan' = [serverChan EXCEPT ![n] = Tail(@)]
    /\ UNCHANGED <<envVars, daemon, mutex, acceptVars, poolVars, netVars,
                   threadVars, epVars>>

(* Seq 0, at the module dialled: it answers and makes its own end. *)
HandshakeRequest(c, x) ==
    /\ NextHandshake(c[2], c, 0)
    /\ GetServer(c[2], c[1]) = None
    /\ serverChan' = [serverChan EXCEPT
            ![c[2]] = Tail(@), ![c[1]] = Append(@, [conn |-> c, seq |-> 1])]
    /\ Start(Task(c), x)
    /\ pool' = Store(c[2], tempID[Task(c)], Task(c))
    /\ UNCHANGED <<envVars, daemon, mutex, acceptVars, tempID, lost, inbox,
                   myconn, closeID, terminated, joined>>

(* Seq 1, at the dialler: it makes its end and logs in. *)
HandshakeReply(c, x) ==
    /\ NextHandshake(c[1], c, 1)
    /\ GetServer(c[1], c[2]) = None
    /\ serverChan' = [serverChan EXCEPT ![c[1]] = Tail(@)]
    /\ Start(Client(c), x)
    /\ tempID' = [tempID EXCEPT ![Client(c)] = c[2]]
    /\ pool' = Store(c[1], c[2], Client(c))
    /\ inbox' = [inbox EXCEPT ![Task(c)] = Append(@, Login(x))]
    /\ UNCHANGED <<envVars, daemon, mutex, acceptVars, lost, myconn, closeID,
                   terminated, joined>>
-----------------------------------------------------------------------------
(* mTCPServerListener, which accepts one connection after the other: the   *)
(* goroutines of the new end run before AddServerAuto reads its TmpID and  *)
(* stores it.                                                              *)

Accept(c, x) ==
    /\ status[Client(c)] # "none"
    /\ status[Task(c)] = "none"
    /\ ~local
    /\ \A d \in Conn : d[2] = c[2] => accepting[d] \in {"no", "done"}
    /\ accepting' = [accepting EXCEPT ![c] = "read"]
    /\ Start(Task(c), x)
    /\ UNCHANGED <<envVars, dialVars, mutex, acceptID, poolVars, lost, inbox,
                   myconn, closeID, terminated, joined>>

AcceptRead(c) ==
    /\ accepting[c] = "read"
    /\ accepting' = [accepting EXCEPT ![c] = "add"]
    /\ acceptID' = [acceptID EXCEPT ![c] = tempID[Task(c)]]
    /\ UNCHANGED <<envVars, dialVars, mutex, poolVars, netVars, threadVars,
                   epVars>>

AcceptAdd(c) ==
    /\ accepting[c] = "add"
    /\ accepting' = [accepting EXCEPT ![c] = "done"]
    /\ pool' = Store(c[2], acceptID[c], Task(c))
    /\ acceptID' = [acceptID EXCEPT ![c] = None]
    /\ UNCHANGED <<envVars, dialVars, mutex, tempID, netVars,
                   threadVars, epVars>>
-----------------------------------------------------------------------------
(* onConnectRecv of SLogin: OnServerLogin, under connectMutex.             *)

Receives(ep, type) ==
    /\ pc[ep] = "recv"
    /\ inbox[ep] # <<>>
    /\ Head(inbox[ep]).type = type
    /\ ~mutex[At(ep)]
    /\ inbox' = [inbox EXCEPT ![ep] = Tail(@)]

(* Mutant of LoginRejected: the module that is rejected is told it may join. *)
LoginRejectedAnswers(ep) ==
    LET old == GetServer(At(ep), At(Peer(ep))) IN
    /\ pc[ep] = "recv"
    /\ inbox[ep] # <<>>
    /\ Head(inbox[ep]).type = "SLogin"
    /\ ~mutex[At(ep)]
    /\ old # None
    /\ prio[old] >= Head(inbox[ep]).prio
    /\ inbox' = [inbox EXCEPT ![ep] = Tail(@), ![Peer(ep)] = Append(@, LoginRet)]
    /\ UNCHANGED <<envVars, dialVars, mutex, acceptVars, poolVars, status, lost,
                   threadVars, epVars>>

(* A connection to that module exists, of no lower priority: no answer. *)
LoginRejected(ep) ==
    LET old == GetServer(At(ep), At(Peer(ep))) IN
    /\ Receives(ep, "SLogin")
    /\ old # None
    /\ prio[old] >= Head(inbox[ep]).prio
    /\ UNCHANGED <<envVars, dialVars, mutex, acceptVars, poolVars, status, lost,
                   threadVars, epVars>>

(* Mutant of LoginPreferred: the priorities are not compared. *)
LoginPreferredAlways(ep) ==
    LET old == GetServer(At(ep), At(Peer(ep))) IN
    /\ Receives(ep, "SLogin")
    /\ old # None
    /\ terminated' = [terminated EXCEPT ![old] = TRUE]
    /\ mutex' = [mutex EXCEPT ![At(ep)] = TRUE]
    /\ pc' = [pc EXCEPT ![ep] = "unuse"]
    /\ myconn' = [myconn EXCEPT ![ep] = old]
    /\ UNCHANGED <<envVars, dialVars, acceptVars, poolVars, status, lost,
                   closeID, prio, joined>>

(* One of lower priority exists: it is terminated. *)
LoginPreferred(ep) ==
    LET old == GetServer(At(ep), At(Peer(ep))) IN
    /\ Receives(ep, "SLogin")
    /\ old # None
    /\ prio[old] < Head(inbox[ep]).prio
    /\ terminated' = [terminated EXCEPT ![old] = TRUE]
    /\ mutex' = [mutex EXCEPT ![At(ep)] = TRUE]
    /\ pc' = [pc EXCEPT ![ep] = "unuse"]
    /\ myconn' = [myconn EXCEPT ![ep] = old]
    /\ UNCHANGED <<envVars, dialVars, acceptVars, poolVars, status, lost,
                   closeID, prio, joined>>

LoginFirst(ep) ==
    /\ Receives(ep, "SLogin")
    /\ GetServer(At(ep), At(Peer(ep))) = None
    /\ mutex' = [mutex EXCEPT ![At(ep)] = TRUE]
    /\ pc' = [pc EXCEPT ![ep] = "store"]
    /\ UNCHANGED <<envVars, dialVars, acceptVars, poolVars, status, lost,
                   myconn, closeID, epVars>>

(* ChangeServerTempid of the connection terminated, in its two steps. *)
UnuseStore(ep) ==
    /\ pc[ep] = "unuse"
    /\ pc' = [pc EXCEPT ![ep] = "rename"]
    /\ pool' = Store(At(ep), <<"unuse", myconn[ep]>>, myconn[ep])
    /\ UNCHANGED <<envVars, dialVars, mutex, acceptVars, tempID, netVars,
                   myconn, closeID, epVars>>

UnuseRename(ep) ==
    /\ pc[ep] = "rename"
    /\ pc' = [pc EXCEPT ![ep] = "store"]
    /\ Rename(At(ep), myconn[ep], <<"unuse", myconn[ep]>>)
    /\ UNCHANGED <<envVars, dialVars, mutex, acceptVars, netVars, myconn,
                   closeID, epVars>>

(* ChangeServerTempid of the connection that logs in; when the name is      *)
(* taken, its error is ignored.                                             *)
LoginStore(ep) ==
    LET n == At(ep)
        p == At(Peer(ep)) IN
    /\ pc[ep] = "store"
    /\ pool' = IF pool[n][p] = None THEN Store(n, p, ep) ELSE pool
    /\ pc' = [pc EXCEPT
            ![ep] = IF pool[n][p] = None THEN "register" ELSE "reply"]
    /\ UNCHANGED <<envVars, dialVars, mutex, acceptVars, tempID, netVars,
                   myconn, closeID, epVars>>

LoginRename(ep) ==
    /\ pc[ep] = "register"
    /\ pc' = [pc EXCEPT ![ep] = "reply"]
    /\ Rename(At(ep), ep, At(Peer(ep)))
    /\ UNCHANGED <<envVars, dialVars, mutex, acceptVars, netVars, myconn,
                   closeID, epVars>>

(* The module that logs in is answered and may join at once. *)
LoginReply(ep) ==
    /\ pc[ep] = "reply"
    /\ pc' = [pc EXCEPT ![ep] = "notify"]
    /\ inbox' = Sent(ep, LoginRet)
    /\ UNCHANGED <<envVars, dialVars, mutex, acceptVars, poolVars, status, lost,
                   myconn, closeID, epVars>>

(* NotifyAllServerInfo and BroadcastCmd, which may wait for the connections *)
(* they send over; only then OnServerJoinSubnet is called here.             *)
LoginJoin(ep) ==
    /\ pc[ep] = "notify"
    /\ pc' = [pc EXCEPT ![ep] = "recv"]
    /\ myconn' = [myconn EXCEPT ![ep] = None]
    /\ mutex' = [mutex EXCEPT ![At(ep)] = FALSE]
    /\ joined' = [joined EXCEPT ![ep] = TRUE]
    /\ UNCHANGED <<envVars, dialVars, acceptVars, poolVars, netVars, closeID,
                   prio, terminated>>

(* onConnectRecv of SLoginRet, at the dialler. *)
LoginAnswered(ep) ==
    /\ Receives(ep, "SLoginRet")
    /\ joined' = [joined EXCEPT ![ep] = TRUE]
    /\ UNCHANGED <<envVars, dialVars, mutex, acceptVars, poolVars, status, lost,
                   threadVars, prio, terminated>>
-----------------------------------------------------------------------------
(* The end of a connection: recvMsgThread runs onConnectClose, which reads *)
(* the TmpID and removes what the pool holds under it by then.             *)

(* It ends when this end is shut down, or when everything the other end     *)
(* sent before the connection ended was handled.                            *)
Ends(ep) ==
    \/ status[ep] = "down"
    \/ /\ inbox[ep] = <<>>
       /\ ~local
       /\ lost[ep[1]] \/ status[Peer(ep)] \in {"down", "gone"}

CloseRead(ep) ==
    /\ pc[ep] = "recv"
    /\ Ends(ep)
    /\ pc' = [pc EXCEPT ![ep] = "load"]
    /\ closeID' = [closeID EXCEPT ![ep] = tempID[ep]]
    /\ UNCHANGED <<envVars, dialVars, mutex, acceptVars, poolVars, netVars,
                   myconn, epVars>>

(* RemoveServer: Load and Shutdown, then remove. *)
CloseShutdown(ep) ==
    LET value == GetServer(At(ep), closeID[ep]) IN
    /\ pc[ep] = "load"
    /\ pc' = [pc EXCEPT ![ep] = IF value = None THEN "done" ELSE "remove"]
    /\ status' = IF value # None /\ status[value] = "up"
                 THEN [status EXCEPT ![value] = "down"] ELSE status
    /\ UNCHANGED <<envVars, dialVars, mutex, acceptVars, poolVars, lost, inbox,
                   myconn, closeID, epVars>>

CloseRemove(ep) ==
    /\ pc[ep] = "remove"
    /\ pc' = [pc EXCEPT ![ep] = "done"]
    /\ pool' = Store(At(ep), closeID[ep], None)
    /\ closeID' = [closeID EXCEPT ![ep] = None]
    /\ UNCHANGED <<envVars, dialVars, mutex, acceptVars, tempID, netVars,
                   myconn, epVars>>
-----------------------------------------------------------------------------
(* The environment.                                                        *)

NetFails(c) ==
    /\ NetMayFail
    /\ ~local
    /\ faults < MaxFaults
    /\ \E s \in Side : status[<<c, s>>] = "up"
    /\ faults' = faults + 1
    /\ lost' = [lost EXCEPT ![c] = TRUE]
    /\ \E kept \in SUBSET {Client(c), Task(c)} :
         inbox' = [ep \in Ep |->
            IF ep[1] = c /\ ep \notin kept THEN <<>> ELSE inbox[ep]]
    /\ UNCHANGED <<local, run, dialVars, mutex, acceptVars, poolVars, status,
                   threadVars, epVars>>

(* The process of n stops, and with it its ends of connections, and starts *)
(* anew; the connections made to the old process end.                      *)
Restart(n) ==
    LET mine == {ep \in Ep : /\ At(ep) = n
                             /\ \/ status[ep] # "none"
                                \/ status[Peer(ep)] # "none"}
        Reset(f, v) == [x \in DOMAIN f |-> IF x \in mine THEN v ELSE f[x]] IN
    /\ n \in MayRestart
    /\ run[n] < MaxRun
    /\ ~local
    /\ faults < MaxFaults
    /\ run' = [run EXCEPT ![n] = @ + 1]
    /\ faults' = faults + 1
    /\ daemon' = [c \in Conn |->
            IF c[1] = n THEN IF c[3] = run[n] + 1 THEN "token" ELSE "off"
            ELSE daemon[c]]
    /\ mutex' = [mutex EXCEPT ![n] = FALSE]
    /\ accepting' = [c \in Conn |-> IF Task(c) \in mine THEN "done"
                                    ELSE accepting[c]]
    /\ acceptID' = [c \in Conn |-> IF Task(c) \in mine THEN None
                                   ELSE acceptID[c]]
    /\ pool' = [pool EXCEPT ![n] = [id \in Id |-> None]]
    /\ tempID' = [ep \in Ep |-> IF ep \in mine THEN <<"auto", ep>>
                                ELSE tempID[ep]]
    /\ status' = Reset(status, "gone")
    /\ pc' = Reset(pc, "done")
    /\ inbox' = Reset(inbox, <<>>)
    /\ myconn' = Reset(myconn, None)
    /\ closeID' = Reset(closeID, None)
    /\ terminated' = Reset(terminated, FALSE)
    /\ prio' = Reset(prio, None)
    /\ UNCHANGED <<local, serverChan, lost, joined>>
-----------------------------------------------------------------------------
Daemon(c) ==
    \/ ConnectDuplicate(c) \/ ConnectFails(c) \/ Retry(c)
    \/ \E x \in ClientPrio : Connect(c, x)
    \/ ConnectAdd(c) \/ ConnectLogin(c)
    \/ ConnectChan(c)

Handshake(c) ==
    \/ \E seq \in {0, 1} : HandshakeDuplicate(c, seq)
    \/ \E x \in TaskPrio : HandshakeRequest(c, x)
    \/ \E x \in ClientPrio : HandshakeReply(c, x)

Listener(c) ==
    (\E x \in TaskPrio : Accept(c, x)) \/ AcceptRead(c) \/ AcceptAdd(c)

OnServerLogin(ep) ==
    \/ LoginRejected(ep) \/ LoginPreferred(ep) \/ LoginFirst(ep)
    \/ UnuseStore(ep) \/ UnuseRename(ep)
    \/ LoginStore(ep) \/ LoginRename(ep) \/ LoginReply(ep) \/ LoginJoin(ep)

OnConnectClose(ep) == CloseRead(ep) \/ CloseShutdown(ep) \/ CloseRemove(ep)

RecvMsgThread(ep) ==
    OnServerLogin(ep) \/ LoginAnswered(ep) \/ OnConnectClose(ep)

Next ==
    \/ \E c \in Conn : Daemon(c) \/ Handshake(c) \/ Listener(c) \/ NetFails(c)
    \/ \E ep \in Ep : RecvMsgThread(ep)
    \/ \E n \in Node : Restart(n)

Spec == Init /\ [][Next]_vars

(* The scheduler runs every goroutine that can run; a peer that listens is  *)
(* reached by one of the attempts; a goroutine that waits for connectMutex  *)
(* gets it in the end (a Go mutex does not starve a waiter).                *)
Fairness ==
    /\ \A c \in Conn :
         /\ SF_vars(\E x \in ClientPrio : Connect(c, x))
         /\ SF_vars(ConnectDuplicate(c))
         /\ WF_vars(Retry(c) \/ ConnectAdd(c) \/ ConnectLogin(c))
         /\ SF_vars(ConnectChan(c))
         /\ SF_vars(Handshake(c))
         /\ WF_vars(Listener(c))
    /\ \A ep \in Ep : SF_vars(RecvMsgThread(ep))

FairSpec == Spec /\ Fairness
-----------------------------------------------------------------------------
Message == [type : {"SLogin"}, prio : ClientPrio] \cup [type : {"SLoginRet"}]
ChanServerHandshake == [conn : Conn, seq : {0, 1}]

TypeOK ==
    /\ local \in BOOLEAN
    /\ run \in [Node -> 1 .. MaxRun]
    /\ faults \in 0 .. MaxFaults
    /\ daemon \in [Conn -> {"off", "token", "sleep", "add", "login", "idle"}]
    /\ mutex \in [Node -> BOOLEAN]
    /\ serverChan \in [Node -> Seq(ChanServerHandshake)]
    /\ accepting \in [Conn -> {"no", "read", "add", "done"}]
    /\ acceptID \in [Conn -> Id \cup {None}]
    /\ pool \in [Node -> [Id -> Ep \cup {None}]]
    /\ tempID \in [Ep -> Id]
    /\ prio \in [Ep -> ClientPrio \cup TaskPrio \cup {None}]
    /\ status \in [Ep -> {"none", "up", "down", "gone"}]
    /\ lost \in [Conn -> BOOLEAN]
    /\ inbox \in [Ep -> Seq(Message)]
    /\ pc \in [Ep -> {"off", "recv", "unuse", "rename", "store", "register",
                      "reply", "notify", "load", "remove", "done"}]
    /\ myconn \in [Ep -> Ep \cup {None}]
    /\ closeID \in [Ep -> Id \cup {None}]
    /\ terminated \in [Ep -> BOOLEAN]
    /\ joined \in [Ep -> BOOLEAN]

(* The module dialled has accepted the login: it joined, or is about to      *)
(* while it tells the others, or its process ended.                          *)
Accepted(c) == joined[Task(c)] \/ pc[Task(c)] = "notify" \/ status[Task(c)] = "gone"

(* The dialler calls OnServerJoinSubnet for a connection only when the      *)
(* module dialled has accepted this connection, and joins on it too or      *)
(* ends, also when logins cross, are rejected, or meet a restart.  The      *)
(* dialler may be the first of the two.                                     *)
JoinedMeansAccepted ==
    \A c \in Conn : joined[Client(c)] => Accepted(c)

(* What TypeOK and JoinedMeansAccepted need to be inductive: the login that *)
(* is about to be sent has the priority drawn for it; logins wait at the    *)
(* module dialled only, and only there are they handled; an answer waits at *)
(* the dialler once the other end accepted; an end that was not made has no *)
(* goroutine; and the modules of one process do not fail, nor do others use *)
(* the handshake.                                                           *)
PrioInv ==
    \A c \in Conn : daemon[c] \in {"add", "login"} => prio[Client(c)] \in ClientPrio
LoginInv ==
    \A ep \in Ep :
        /\ pc[ep] \in {"unuse", "rename", "store", "register", "reply", "notify"}
             => ep[2] = "task"
        /\ \A i \in DOMAIN inbox[ep] :
             IF inbox[ep][i].type = "SLogin"
             THEN ep[2] = "task"
             ELSE ep[2] = "client" /\ Accepted(ep[1])
Faultless == (\A c \in Conn : ~lost[c]) /\ (\A n \in Node : run[n] = 1)
RunInv ==
    /\ \A ep \in Ep : status[ep] = "none" => pc[ep] = "off"
    /\ local => Faultless
    /\ \A n \in Node : serverChan[n] # <<>> => local
JoinInv == JoinedMeansAccepted /\ LoginInv /\ RunInv

(* As long as no process was restarted and no connection lost, two modules  *)
(* that dial each other join on one connection, the same on both sides.     *)
JoinAgreement ==
    Faultless => \A c, d \in Conn :
        /\ {c[1], c[2]} = {d[1], d[2]}
        /\ joined[Client(c)] \/ joined[Task(c)]
        /\ joined[Client(d)] \/ joined[Task(d)]
        => c = d

(* Each of the modules finds the other in its pool, on two ends of one      *)
(* connection, over which both joined.                                      *)
Connected(n, p) ==
    \E c \in Conn, s \in Side :
        LET ep == <<c, s>> IN
        /\ At(ep) = n /\ At(Peer(ep)) = p
        /\ pool[n][p] = ep /\ pool[p][n] = Peer(ep)
        /\ status[ep] = "up" /\ status[Peer(ep)] = "up"
        /\ joined[ep] /\ joined[Peer(ep)]

(* Both drew the same priority, which OnServerLogin takes for the lower one *)
(* on both sides.                                                           *)
Tied(n, p) ==
    \E c, d \in Conn : /\ c[1] = n /\ c[2] = p /\ d[1] = p /\ d[2] = n
                       /\ prio[Client(c)] # None
                       /\ prio[Client(c)] = prio[Client(d)]

(* Nobody has anything left to do for a connection. *)
Quiet ==
    /\ \A c \in Conn : /\ run[c[1]] = c[3] => daemon[c] = "idle"
                       /\ status[Client(c)] # "none" => status[Task(c)] # "none"
                       /\ accepting[c] \in {"no", "done"}
    /\ \A n \in Node : serverChan[n] = <<>>
    /\ \A ep \in Ep : /\ pc[ep] \in {"off", "recv", "done"}
                      /\ pc[ep] = "recv" => inbox[ep] = <<>>

(* Two modules of which one dials the other are connected when everything   *)
(* sent was handled, whoever dialled first and whatever was rejected, if    *)
(* nothing failed and the priorities differ.                                *)
QuietMeansConnected ==
    Quiet /\ Faultless =>
        \A d \in Dials : Tied(d[1], d[2]) \/ Connected(d[1], d[2])

(* The daemon keeps the connection with its module                          *)
(* (subnet_connecter.go: tryConnectServerThread).                           *)
KeepsConnected == \A d \in Dials : []<>(GetServer(d[1], d[2]) # None)

(* A connection that was terminated is closed (connect/base.go: Terminate). *)
TerminatedCloses ==
    \A ep \in Ep : terminated[ep] ~> status[ep] # "up"

(* onConnectClose removes the connection that was closed and no other       *)
(* (connect/server_pool.go: RemoveServer).                                  *)
RemovesItself ==
    \A ep \in Ep : pc[ep] = "load" =>
        GetServer(At(ep), closeID[ep]) \in {ep, None}
=============================================================================
