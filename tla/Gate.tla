-------------------------------- MODULE Gate -------------------------------
(****************************************************************************)
(* The clients of a gateway and their sessions: server/gate, connect.Client *)
(* and ClientPool, the handlers of server/servercmd_handler.go that forward *)
(* between the clients and the other modules, and the application at these, *)
(* which logs users in, answers and closes connections.                     *)
(*                                                                          *)
(* The number of message queues, MsgThreadNum, is not configured, so that a *)
(* module has one (InitMsgQueue, subnet_handler.go:172) and handles one     *)
(* message after another; SessionManager is about modules with more of      *)
(* them.  Beside the handlers run the goroutines of the clients, which read *)
(* the clients' sessions and the pool: the gateway's onUpdateSession is     *)
(* taken apart where it writes what they read, one copy from or to a        *)
(* Session in a step.  At a worker nobody sees the middle of a handler, and *)
(* it is one step.  The messages from one module to another come in order.  *)
(* The connections between the modules last (Subnet is about them).         *)
(****************************************************************************)
EXTENDS Session, Naturals, Sequences, FiniteSets

CONSTANTS
    Gateway,  \* the module with the gateway
    UserOf,   \* UserOf[c]: the users that may log in on connection c
    Route,    \* Route[c]: the workers the application forwards c's messages to
    Answered, \* the connections the application may answer
    Picked,   \* the connections the application may remove or have closed
    MaxSends  \* MaxSends[c]: bound on the messages of connection c

ASSUME ModuleAssumption == Gateway \in Module
ASSUME UserAssumption == UserOf \in [Conn -> SUBSET User]
ASSUME RouteAssumption == Route \in [Conn -> SUBSET (Module \ {Gateway})]
ASSUME AnsweredAssumption == Answered \subseteq Conn
ASSUME PickedAssumption == Picked \subseteq Conn
ASSUME BoundAssumption == MaxSends \in [Conn -> Nat]
\* A session of the gateway is named by its connection or by its user.
ASSUME ObjectAssumption == Conn \cap User = {}

Worker == Module \ {Gateway}

VARIABLES
    phase,      \* phase[c]: "new", "open", "ended" (the receiver), "closed"
    inbox,      \* inbox[c]: how many of its messages wait in recvmsgchan
    sent,       \* sent[c]: how many messages the client has sent
    terminated, \* the connections with terminate_force
    pool,       \* ClientPool.allSockets, by TmpID
    object,     \* the Session objects at the gateway: Client.Session, by the
                \* connection, and those its manager made, by the user
    kept,       \* the gateway's SessionManager.sessions: the object of a user
    sessions,   \* sessions[m]: SessionManager.sessions at worker m, by value
    queue,      \* queue[m][n]: from m to n, the commands not handled yet
    handler     \* the gateway's onUpdateSession that is going on, or Idle

clientVars == <<phase, inbox, sent, terminated, pool>>
sessionVars == <<object, kept, sessions, handler>>
vars == <<clientVars, sessionVars, queue>>

Idle == [at |-> "idle"]

Init ==
    /\ phase = [c \in Conn |-> "new"]
    /\ inbox = [c \in Conn |-> 0]
    /\ sent = [c \in Conn |-> 0]
    /\ terminated = {}
    /\ pool = {}
    /\ object = [o \in Conn \cup User |-> NewSession]
    /\ kept = NewSession
    /\ sessions = [m \in Worker |-> [u \in User |-> NewSession]]
    /\ queue = [m \in Module |-> [n \in Module |-> <<>>]]
    /\ handler = Idle
-----------------------------------------------------------------------------
(* A client. *)

\* addTCPClient: InitTCP, which makes the connection's ID its TmpID, Add,
\* OnNewClient and StartRecv.
AddTCPClient(c) ==
    /\ phase[c] = "new"
    /\ phase' = [phase EXCEPT ![c] = "open"]
    /\ pool' = pool \cup {c}
    /\ object' = [object EXCEPT ![c] = SetBind(Set(NewSession, "conn", c), Gateway)]
    /\ UNCHANGED <<inbox, sent, terminated, kept, sessions, handler, queue>>

ClientSends(c) ==
    /\ phase[c] = "open"
    /\ sent[c] < MaxSends[c]
    /\ sent' = [sent EXCEPT ![c] = @ + 1]
    /\ inbox' = [inbox EXCEPT ![c] = @ + 1]
    /\ UNCHANGED <<phase, terminated, pool, sessionVars, queue>>

\* The receiver ends, on EOF or on Shutdown; what it queued stays.
Shutdown(C) == [c \in Conn |-> IF c \in C /\ phase[c] = "open" THEN "ended"
                                                             ELSE phase[c]]
ClientLeaves(c) ==
    /\ phase[c] = "open"
    /\ phase' = Shutdown({c})
    /\ UNCHANGED <<inbox, sent, terminated, pool, sessionVars, queue>>

Enqueue(m, n, command) == [queue EXCEPT ![m][n] = Append(@, command)]

\* Mutant: the message of a client that is to be closed is only dropped.
DropOnly(c) ==
    /\ inbox[c] > 0
    /\ inbox' = [inbox EXCEPT ![c] = @ - 1]
    /\ IF c \in terminated THEN UNCHANGED queue
       ELSE \E m \in Route[c] : queue' = Enqueue(Gateway, m,
                  [type |-> "SForwardFromGate", from |-> c, session |-> object[c]])
    /\ UNCHANGED <<phase, sent, terminated, pool, sessionVars>>

\* OnRecvConnectMessage; the application forwards the message.
OnRecvConnectMessage(c) ==
    /\ inbox[c] > 0
    /\ inbox' = [inbox EXCEPT ![c] = @ - 1]
    /\ IF c \in terminated
       THEN phase' = Shutdown({c}) /\ UNCHANGED queue
       ELSE /\ \E m \in Route[c] : queue' = Enqueue(Gateway, m,
                  [type |-> "SForwardFromGate", from |-> c, session |-> object[c]])
            /\ UNCHANGED phase
    /\ UNCHANGED <<sent, terminated, pool, sessionVars>>

\* ClientPool.Remove, called with the session's connection ID: the connection
\* with this ID, if there is one, is shut down and leaves the pool.
Remove(id) == pool' = pool \ {id}

\* Mutant: a client that was told to close is taken to be removed already.
CloseTerminated(c) ==
    LET id == object[c]["conn"] IN
    /\ phase[c] = "ended"
    /\ inbox[c] = 0
    /\ IF c \in terminated THEN UNCHANGED pool ELSE Remove(id)
    /\ phase' = [phase EXCEPT ![c] = "closed"]
    /\ UNCHANGED <<inbox, sent, terminated, sessionVars, queue>>

OnConnectClose(c) ==
    LET id == object[c]["conn"] IN
    /\ phase[c] = "ended"
    /\ inbox[c] = 0
    /\ Remove(id)
    /\ phase' = [Shutdown(pool \cap {id}) EXCEPT ![c] = "closed"]
    /\ UNCHANGED <<inbox, sent, terminated, sessionVars, queue>>

RecvMsgThread(c) == OnRecvConnectMessage(c) \/ OnConnectClose(c)

\* Mutant: the connection is left to the client, which is in no pool any more.
RemoveOnly(c) ==
    /\ c \in pool \cap Picked
    /\ terminated' = terminated \cup {c}
    /\ Remove(object[c]["conn"])
    /\ UNCHANGED <<phase, inbox, sent, sessionVars, queue>>

\* RangeRemove, with a callback of the application that picks a connection.
RangeRemove(c) ==
    LET id == object[c]["conn"] IN
    /\ c \in pool \cap Picked
    /\ terminated' = terminated \cup {c}
    /\ Remove(id)
    /\ phase' = Shutdown(pool \cap {id})
    /\ UNCHANGED <<inbox, sent, sessionVars, queue>>
-----------------------------------------------------------------------------
(* A worker. *)

First(n, m) == Head(queue[n][m])
Receives(m, n, type) == queue[n][m] # <<>> /\ First(n, m).type = type
Taken(n, m) == [queue EXCEPT ![n][m] = Tail(@)]

\* onForwardFromGate: the session the application gets is the one kept under
\* the UUID that came with the message, or a new one of what came with it.
SessionOf(m) ==
    LET came == First(Gateway, m).session
    IN IF IsVertify(came) /\ sessions[m][came["uuid"]] # NewSession
       THEN sessions[m][came["uuid"]] ELSE came

\* SyncToBindedModule: a snapshot goes to every other module s is bound to.
Synced(q, m, s) ==
    [q EXCEPT ![m] = [n \in Module |->
        IF n \in GetBindedList(s) \ {m}
        THEN Append(@[n], [type |-> "SUpdateSession", session |-> s]) ELSE @[n]]]

\* The application logs u in: UpdateSessionUUID, SetBind, SyncToBindedModule.
Login(m, u) ==
    LET updated == UpdateSessionUUID(sessions[m], u, SessionOf(m))
        s == SetBind(updated[u], m)
    IN /\ Receives(m, Gateway, "SForwardFromGate")
       /\ u \in UserOf[First(Gateway, m).from]
       /\ sessions' = [sessions EXCEPT ![m] = [updated EXCEPT ![u] = s]]
       /\ queue' = Synced(Taken(Gateway, m), m, s)
       /\ UNCHANGED <<clientVars, object, kept, handler>>

\* What the application asks of the gateway for the client of a message.
Asks(m, type) ==
    /\ Receives(m, Gateway, "SForwardFromGate")
    /\ queue' = [Taken(Gateway, m) EXCEPT ![m][Gateway] =
                     Append(@, [type |-> type, conn |-> SessionOf(m)["conn"]])]
    /\ UNCHANGED <<clientVars, sessionVars>>

\* The application answers with Session.SendMsg.
SendMsg(m) ==
    /\ Asks(m, "SForwardToClient")
    /\ SessionOf(m)["conn"] \in Answered

\* The application has the connection closed with CloseSessionConnect.
CloseSessionConnect(m) ==
    /\ Asks(m, "SReqCloseConnect")
    /\ SessionOf(m)["conn"] \in Picked

\* onUpdateSession at a module without a gateway.
OnUpdateSession(m, n) ==
    LET data == First(n, m).session IN
    /\ Receives(m, n, "SUpdateSession")
    /\ queue' = Taken(n, m)
    /\ sessions' = [sessions EXCEPT ![m] = MustUpdateFromMap(@, data["uuid"], data)]
    /\ UNCHANGED <<clientVars, object, kept, handler>>
-----------------------------------------------------------------------------
(* The gateway, for the workers. *)

Starts(n, type) == handler = Idle /\ Receives(Gateway, n, type)
Keep(u, o) == [v \in DOMAIN kept \cup {u} |-> IF v = u THEN o ELSE kept[v]]
Write(o, s) == object' = [object EXCEPT ![o] = s]

\* onUpdateSession: the session of the client that the data names gets them, if the
\* client is connected here.  It is the one to go on with; the name of the user
\* stands for none.  (That the client's goroutine takes it out of the pool after
\* GetClient changes nothing: it goes by the ID that the data have, too.)
OnUpdateClient(n) ==
    LET data == First(n, Gateway).session
        c == data["conn"]
    IN /\ Starts(n, "SUpdateSession")
       /\ queue' = Taken(n, Gateway)
       /\ \/ /\ c \in pool
             /\ Write(c, FromMap(object[c], data))
             /\ handler' = [at |-> "find", data |-> data, s |-> c]
          \/ /\ c \notin pool
             /\ handler' = [at |-> "find", data |-> data, s |-> data["uuid"]]
             /\ UNCHANGED object
       /\ UNCHANGED <<clientVars, kept, sessions>>

\* The session that is kept for the user: what it has more is copied to the client's,
\* which is kept in its place; without a client it is the one to go on with.  If
\* there is neither, a new one is kept.
FindSession ==
    LET u == handler.data["uuid"]
        isKept == u \in DOMAIN kept
        isClient == handler.s \in Conn
        s == IF isKept /\ ~isClient THEN kept[u] ELSE handler.s
    IN /\ handler # Idle /\ handler.at = "find"
       /\ handler' = [handler EXCEPT !.at = "load", !.s = s]
       /\ \/ /\ isKept /\ isClient
             /\ Write(s, OnlyAddKeyFromSession(object[s], object[kept[u]]))
             /\ kept' = Keep(u, s)
          \/ /\ ~isKept /\ ~isClient
             /\ Write(s, Set(NewSession, "uuid", u))
             /\ kept' = Keep(u, s)
          \/ isKept # isClient /\ UNCHANGED <<object, kept>>
       /\ UNCHANGED <<clientVars, sessions, queue>>

\* MustUpdateFromMap: the session that is kept under the UUID of s, if it is another
\* one, gets what s has more; otherwise s is kept.
LoadOrStore ==
    LET s == handler.s
        u == object[s]["uuid"]
        target == IF u \in DOMAIN kept THEN kept[u] ELSE s
    IN /\ handler # Idle /\ handler.at = "load"
       /\ handler' = [handler EXCEPT !.at = "write", !.s = target]
       /\ Write(target, OnlyAddKeyFromSession(object[target], object[s]))
       /\ kept' = Keep(u, target)
       /\ UNCHANGED <<clientVars, sessions, queue>>

WriteData ==
    /\ handler # Idle /\ handler.at = "write"
    /\ Write(handler.s, FromMap(object[handler.s], handler.data))
    /\ handler' = Idle
    /\ UNCHANGED <<clientVars, kept, sessions, queue>>

\* onReqCloseConnect, doCloseConnect: only the flag is set.
OnReqCloseConnect(n) ==
    LET c == First(n, Gateway).conn IN
    /\ Starts(n, "SReqCloseConnect")
    /\ queue' = Taken(n, Gateway)
    /\ terminated' = terminated \cup (pool \cap {c})
    /\ UNCHANGED <<phase, inbox, sent, pool, sessionVars>>

\* onForwardToClient, DoSendBytesToClient: the client is bound to who answers.
OnForwardToClient(n) ==
    LET c == First(n, Gateway).conn IN
    /\ Starts(n, "SForwardToClient")
    /\ queue' = Taken(n, Gateway)
    /\ IF c \in pool THEN Write(c, SetBind(object[c], n)) ELSE UNCHANGED object
    /\ UNCHANGED <<clientVars, kept, sessions, handler>>
-----------------------------------------------------------------------------
WorkerHandles(m) ==
    \/ \E u \in User : Login(m, u)
    \/ SendMsg(m)
    \/ CloseSessionConnect(m)
    \/ \E n \in Module : OnUpdateSession(m, n)

GatewayHandles ==
    \/ \E n \in Worker : OnUpdateClient(n) \/ OnReqCloseConnect(n) \/ OnForwardToClient(n)
    \/ FindSession \/ LoadOrStore \/ WriteData

Next ==
    \/ \E c \in Conn : \/ AddTCPClient(c) \/ ClientSends(c) \/ ClientLeaves(c)
                       \/ RecvMsgThread(c) \/ RangeRemove(c)
    \/ \E m \in Worker : WorkerHandles(m)
    \/ GatewayHandles

\* The goroutine of a client's connection runs.  Neither the clients nor the
\* other modules need do anything.
Fairness == \A c \in Conn : WF_vars(RecvMsgThread(c))

Spec == Init /\ [][Next]_vars /\ Fairness
-----------------------------------------------------------------------------
\* The sessions are tables of the right values, and the counters within their
\* bounds; a client in the pool was connected (Session.set, ClientPool.Add).
TypeOK ==
    /\ phase \in [Conn -> {"new", "open", "ended", "closed"}]
    /\ \A c \in Conn : sent[c] \in 0..MaxSends[c]
    /\ \A c \in Conn : inbox[c] \in 0..sent[c]
    /\ terminated \subseteq Conn
    /\ pool \subseteq {c \in Conn : phase[c] # "new"}
    /\ \A o \in Conn \cup User : IsSession(object[o])
    /\ DOMAIN kept \subseteq User
    /\ \A u \in DOMAIN kept : kept[u] \in Conn \cup User
    /\ \A m \in Worker, u \in User : IsSession(sessions[m][u])
    /\ \A m, n \in Module : \A i \in DOMAIN queue[m][n] :
          queue[m][n][i].type \in {"SForwardFromGate", "SUpdateSession",
                                   "SForwardToClient", "SReqCloseConnect"}
    /\ handler = Idle \/ /\ handler.at \in {"find", "load", "write"}
                         /\ IsSession(handler.data)
                         /\ handler.s \in Conn \cup User

\* A connection whose receiver runs is in the pool, so that messages and the
\* request to close it can reach it (ClientPool.Remove, client_pool.go:97).
OpenIsPooled == \A c \in Conn : phase[c] = "open" => c \in pool

\* The session a manager keeps under a UUID has this UUID, whatever connections
\* the user comes by and whoever else a connection logs in at a worker; at the
\* gateway, if the user's connections are his only: a UUID that a client's session
\* gets there in place of another leaves the manager as it is (manager.go:87).
Settled(u) == \A c \in Conn : u \in UserOf[c] => UserOf[c] = {u}
Keyed ==
    /\ \A u \in DOMAIN kept : Settled(u) =>
          IsVertify(object[kept[u]]) /\ object[kept[u]]["uuid"] = u
    /\ \A m \in Worker, u \in User : sessions[m][u] # NewSession =>
          IsVertify(sessions[m][u]) /\ sessions[m][u]["uuid"] = u

\* A client whose user has no other connection leaves the pool when its
\* connection has ended: its session still has its TmpID (OnConnectClose).
Alone(c) == \A d \in Conn \ {c} : UserOf[c] \cap UserOf[d] = {}
Removed == \A c \in {d \in Conn : Alone(d)} :
    phase[c] = "ended" ~> phase[c] = "closed" /\ c \notin pool

\* The session of a client whose user has no other connection names this one,
\* whatever the workers send, and when the connection is closed it is in the pool
\* no more (client.go:37).
OwnConnID == \A c \in Conn : Alone(c) /\ phase[c] # "new" =>
                object[c]["conn"] = c /\ (phase[c] = "closed" => c \notin pool)

\* A client that is to be closed and still sends is disconnected (doCloseConnect
\* sets a flag that Client.Check reads when a message comes, client.go:90).
KickedLeaves == \A c \in Picked :
    (c \in terminated /\ inbox[c] > 0) ~> phase[c] = "closed"

\* The connection ID of a client's session is the TmpID of its connection, as
\* connect/client.go:37 has it; GateBase.remove and Range rely on it.
ConnIDIsTmpID == \A c \in pool : object[c]["conn"] = c

\* The session that the gateway keeps under a UUID has it, also for users who share
\* a connection one after the other (manager.go:87).
UUIDIsKey == handler = Idle => \A u \in DOMAIN kept : object[kept[u]]["uuid"] = u
=============================================================================
