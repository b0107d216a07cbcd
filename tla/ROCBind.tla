------------------------------ MODULE ROCBind -------------------------------
(***************************************************************************)
(* server/rocserver.go and roc/: how the modules of a subnet learn where a *)
(* remote object is.  A module that registers or deletes an object changes *)
(* its own cache, tells every connection of its subnet pool (SROCBind) and *)
(* records the object in localObj, in that order and under no common lock; *)
(* a module that joins is told localObj.  Notices travel in order on each  *)
(* connection (TCPConn shows this), and are handled by the queue goroutine *)
(* that the connection's name hashes to.  Every module is a process of its *)
(* own, so that each has its own roc.Cache, and connections do not end.    *)
(***************************************************************************)
EXTENDS Naturals, FiniteSets, Sequences, SequencesExt

CONSTANTS
    Module,      \* the modules of the subnet
    Obj,         \* the IDs of the objects, of one type
    Hosts,       \* Hosts[o]: the modules that may register o
    MsgThreads,  \* conf.MsgThreadNum, the number of message queues
    Modes,       \* the values of conf.AsynchronousSyncRocbind
    MaxOps,      \* how many registrations and deletions are made at most
    None

ASSUME ROCBindAssumption ==
    /\ Hosts \in [Obj -> SUBSET Module]
    /\ MsgThreads \in Nat \ {0}
    /\ Modes \subseteq BOOLEAN
    /\ MaxOps \in Nat
    /\ None \notin Module

VARIABLES
    async,     \* async[m]: AsynchronousSyncRocbind of m
    objPool,   \* objPool[m]: the objects registered at m (ROC.objPool)
    localObj,  \* localObj[m]: the objects of m as joining modules are told
    catchType, \* catchType[m][o]: where m believes o to be (roc.Cache)
    servers,   \* servers[m]: the modules m has a connection to in its pool
    joined,    \* joined[m]: those that joined, whose ModuleInfo m has set
    call,      \* call[m][o]: the goroutine of m that registers or deletes o
    waiting,   \* waiting[m][del]: rocDelCacheChan and rocAddCacheChan
    link,      \* link[m][n]: the notices from m to n, not yet received
    queue,     \* queue[n][m][q]: those n has received, in message queue q
    disordered,\* history: the <<m, n, o>> whose notices lost their order
    overwritten,\* history: those of which the last word was lost in a list
    ops        \* the registrations and deletions made

local == <<async, objPool, localObj, call, waiting, ops>>
net == <<link, queue>>
history == <<disordered, overwritten>>
vars == <<local, catchType, servers, joined, net, history>>

(* The steps of OnROCObjAdd and OnROCObjDel. *)
Steps == {"idle", "pooled", "cached", "noticed"}
Call == [at : Steps, del : BOOLEAN, told : SUBSET Module]
Idle == [at |-> "idle", del |-> FALSE, told |-> {}]
(* What arrives of a SROCBind, and its length: every ID of its list is       *)
(* written over the one before (Command!WriteStrings), so that the receiver *)
(* finds the last one only.                                                  *)
Notice == [del : BOOLEAN, obj : Obj]
Queues == {0, 1}

Init ==
    /\ async \in [Module -> Modes]
    /\ objPool = [m \in Module |-> {}]
    /\ localObj = [m \in Module |-> {}]
    /\ catchType = [m \in Module |-> [o \in Obj |-> None]]
    /\ servers = [m \in Module |-> {}]
    /\ joined = [m \in Module |-> {}]
    /\ call = [m \in Module |-> [o \in Obj |-> Idle]]
    /\ waiting = [m \in Module |-> [del \in BOOLEAN |-> <<>>]]
    /\ link = [m \in Module |-> [n \in Module |-> <<>>]]
    /\ queue = [n \in Module |-> [m \in Module |-> [q \in Queues |-> <<>>]]]
    /\ disordered = {}
    /\ overwritten = {}
    /\ ops = 0
-----------------------------------------------------------------------------
(* A registration or a deletion.  The application is assumed to make one at *)
(* a time on an object; those on several objects run side by side.          *)
Start(m, o, del) ==
    /\ ops < MaxOps
    /\ call[m][o].at = "idle"
    /\ ops' = ops + 1
    /\ objPool' = [objPool EXCEPT ![m] = IF del THEN @ \ {o} ELSE @ \cup {o}]
    /\ call' = [call EXCEPT ![m][o] = [at |-> "pooled", del |-> del, told |-> {}]]
    /\ UNCHANGED <<async, localObj, waiting, catchType, servers, joined, net, history>>

(* RegObj notifies even if the object is there, GetOrRegObj only if it is   *)
(* not.                                                                     *)
RegObj(m, o) == m \in Hosts[o] /\ Start(m, o, FALSE)
DelObj(m, o) == o \in objPool[m] /\ Start(m, o, TRUE)

(* Cache.Set, and Cache.Del: a module deletes only what it is host of. *)
CacheSet(cache, m, o) == [cache EXCEPT ![o] = m]
CacheDel(cache, m, o) ==
    [cache EXCEPT ![o] = IF @ = m THEN None ELSE @]
Cached(cache, m, notice) ==
    IF notice.del THEN CacheDel(cache, m, notice.obj)
                  ELSE CacheSet(cache, m, notice.obj)

SetCache(m, o) ==
    /\ call[m][o].at = "pooled"
    /\ call' = [call EXCEPT ![m][o].at = "cached"]
    /\ catchType' = [catchType EXCEPT
            ![m] = Cached(@, m, [del |-> call[m][o].del, obj |-> o])]
    /\ UNCHANGED <<async, objPool, localObj, waiting, ops, servers, joined, net, history>>

(* The list objs goes to the modules told, and last arrives of it. *)
Lost(m, told, objs, last) ==
    (overwritten \ {<<m, n, last>> : n \in told})
    \cup {<<m, n, o>> : n \in told, o \in objs \ {last}}

(* sendROCBindMsg: every connection of the pool, joined or not.  It is a    *)
(* loop, taken as one step: what a module hears depends on the order on its *)
(* own link only.                                                           *)
(* Mutant: only those that joined. *)
TellJoined(m, notice) ==
    link' = [link EXCEPT ![m] = [n \in Module |->
                IF n \in joined[m] THEN Append(@[n], notice) ELSE @[n]]]
Tell(m, notice) ==
    link' = [link EXCEPT ![m] = [n \in Module |->
                IF n \in servers[m] THEN Append(@[n], notice) ELSE @[n]]]

Notify(m, o) ==
    /\ call[m][o].at = "cached"
    /\ ~async[m]
    /\ Tell(m, [del |-> call[m][o].del, obj |-> o])
    /\ overwritten' = Lost(m, servers[m], {o}, o)
    /\ call' = [call EXCEPT ![m][o].at = "noticed", ![m][o].told = servers[m]]
    /\ UNCHANGED <<async, objPool, localObj, waiting, ops,
                   catchType, servers, joined, queue, disordered>>

(* With asynchronous_sync_rocbind the object is left to one of two threads; *)
(* a registration and a deletion that wait in their channels have no order. *)
Enqueue(m, o) ==
    LET del == call[m][o].del IN
    /\ call[m][o].at = "cached"
    /\ async[m]
    /\ waiting' = [waiting EXCEPT ![m][del] = Append(@, o)]
    /\ disordered' = IF o \in ToSet(waiting[m][~del])
                     THEN disordered \cup {<<m, n, o>> : n \in Module}
                     ELSE disordered
    /\ call' = [call EXCEPT ![m][o].at = "noticed"]
    /\ UNCHANGED <<async, objPool, localObj, ops, catchType, servers, joined, net, overwritten>>

(* rocObjNoticeProcess: it sends the objects it took together. *)
NoticeProcess(m, del) ==
    \E k \in 1 .. Len(waiting[m][del]) :
       LET objs == ToSet(SubSeq(waiting[m][del], 1, k))
           last == waiting[m][del][k] IN
       /\ Tell(m, [del |-> del, obj |-> last])
       /\ overwritten' = Lost(m, servers[m], objs, last)
       /\ waiting' = [waiting EXCEPT ![m][del] = SubSeq(@, k + 1, Len(@))]
       /\ call' = [call EXCEPT ![m] = [o \in Obj |->
            IF o \in objs /\ @[o].at = "noticed" THEN [@[o] EXCEPT !.told = servers[m]]
                                                 ELSE @[o]]]
       /\ UNCHANGED <<async, objPool, localObj, ops, catchType, servers, joined, queue, disordered>>

(* recordLocalObj, the last step.  Mutant: a deletion is not recorded. *)
RecordAdditions(m, o) ==
    /\ call[m][o].at = "noticed"
    /\ localObj' = [localObj EXCEPT ![m] = IF call[m][o].del THEN @ ELSE @ \cup {o}]
    /\ call' = [call EXCEPT ![m][o] = Idle]
    /\ UNCHANGED <<async, objPool, waiting, ops, catchType, servers, joined, net, history>>
Record(m, o) ==
    /\ call[m][o].at = "noticed"
    /\ localObj' = [localObj EXCEPT
            ![m] = IF call[m][o].del THEN @ \ {o} ELSE @ \cup {o}]
    /\ call' = [call EXCEPT ![m][o] = Idle]
    /\ UNCHANGED <<async, objPool, waiting, ops, catchType, servers, joined, net, history>>
-----------------------------------------------------------------------------
(* A connection to n enters the subnet pool of m. *)
AddServer(m, n) ==
    /\ n \notin servers[m]
    /\ servers' = [servers EXCEPT ![m] = @ \cup {n}]
    /\ UNCHANGED <<local, catchType, joined, net, history>>

(* The objects whose change was sent, and is not recorded, when n joins: n  *)
(* is told the recorded ones after what it was told of the change, if it    *)
(* was.                                                                     *)
Overtaken(m, n) ==
    {o \in Obj : /\ call[m][o].at = "noticed"
                 /\ o \notin ToSet(waiting[m][call[m][o].del])
                 /\ call[m][o].del \/ n \notin call[m][o].told}

(* onServerJoinSubnet, under localObjMutex.  The range over localObj is in   *)
(* no order.                                                                 *)
(* The receiving goroutine of the connection calls it, when the login or    *)
(* its answer arrived, so that the other end is registered by then.         *)
JoinSubnet(m, n) ==
    /\ n \in servers[m] \ joined[m]
    /\ m \in servers[n]
    /\ joined' = [joined EXCEPT ![m] = @ \cup {n}]
    /\ IF localObj[m] = {} THEN UNCHANGED <<link, overwritten>>
       ELSE \E last \in localObj[m] :
             /\ link' = [link EXCEPT ![m][n] = Append(@, [del |-> FALSE, obj |-> last])]
             /\ overwritten' = Lost(m, {n}, localObj[m], last)
    /\ disordered' = disordered \cup {<<m, n, o>> : o \in Overtaken(m, n)}
    /\ UNCHANGED <<local, catchType, servers, queue>>

(* getRecvTCPMsgParseChan: a connection that has no name yet uses queue 0. *)
QueueOf(n, m) == IF MsgThreads > 1 /\ m \in joined[n] THEN 1 ELSE 0

About(o, notices) == \E i \in DOMAIN notices : o = notices[i].obj

(* MultiQueueControl, by the receiving goroutine of n's connection to m. *)
MultiQueueControl(n, m) ==
    LET notice == Head(link[m][n])
        q == QueueOf(n, m) IN
    /\ link[m][n] # <<>>
    /\ link' = [link EXCEPT ![m][n] = Tail(@)]
    /\ queue' = [queue EXCEPT ![n][m][q] = Append(@, notice)]
    /\ disordered' = IF About(notice.obj, queue[n][m][1 - q])
                     THEN disordered \cup {<<m, n, notice.obj>>}
                     ELSE disordered
    /\ UNCHANGED <<local, catchType, servers, joined, overwritten>>

(* onMsgROCBind, by the goroutine of the queue.  The connections share the  *)
(* queues; what that orders is in the order in which the messages arrive.   *)
OnMsgROCBind(n, m, q) ==
    /\ queue[n][m][q] # <<>>
    /\ queue' = [queue EXCEPT ![n][m][q] = Tail(@)]
    /\ catchType' = [catchType EXCEPT
            ![n] = Cached(@, m, Head(queue[n][m][q]))]
    /\ UNCHANGED <<local, servers, joined, link, history>>
-----------------------------------------------------------------------------
Application(m, o) == RegObj(m, o) \/ DelObj(m, o)
OnROCObj(m, o) == SetCache(m, o) \/ Notify(m, o) \/ Enqueue(m, o) \/ Record(m, o)

Next ==
    \/ \E m \in Module, o \in Obj : Application(m, o) \/ OnROCObj(m, o)
    \/ \E m \in Module, del \in BOOLEAN : NoticeProcess(m, del)
    \/ \E m, n \in Module : m # n /\ AddServer(m, n)
    \/ \E m, n \in Module : JoinSubnet(m, n) \/ MultiQueueControl(n, m)
    \/ \E m, n \in Module, q \in Queues : OnMsgROCBind(n, m, q)

Spec == Init /\ [][Next]_vars
-----------------------------------------------------------------------------
TypeOK ==
    /\ async \in [Module -> BOOLEAN]
    /\ objPool \in [Module -> SUBSET Obj]
    /\ localObj \in [Module -> SUBSET Obj]
    /\ catchType \in [Module -> [Obj -> Module \cup {None}]]
    /\ servers \in [Module -> SUBSET Module]
    /\ joined \in [Module -> SUBSET Module]
    /\ call \in [Module -> [Obj -> Call]]
    /\ waiting \in [Module -> [BOOLEAN -> Seq(Obj)]]
    /\ link \in [Module -> [Module -> Seq(Notice)]]
    /\ queue \in [Module -> [Module -> [Queues -> Seq(Notice)]]]
    /\ disordered \subseteq Module \X Module \X Obj
    /\ overwritten \subseteq Module \X Module \X Obj
    /\ ops \in 0 .. MaxOps

(* A change of o at m of which n may still hear. *)
Busy(m, o) == call[m][o].at # "idle" \/ \E del \in BOOLEAN : o \in ToSet(waiting[m][del])
OnItsWay(m, n, o) ==
    \/ Busy(m, o)
    \/ About(o, link[m][n])
    \/ \E q \in Queues : About(o, queue[n][m][q])

(* Nothing about o is under way from m to n, and all of it was in order. *)
Arrived(m, n, o) == ~OnItsWay(m, n, o) /\ <<m, n, o>> \notin disordered
(* Nor was the last word about o lost in a list. *)
Settled(m, n, o) == Arrived(m, n, o) /\ <<m, n, o>> \notin overwritten

(* A module does not believe for good in an object that is gone: once what  *)
(* m said of o has arrived at n, n takes m for the host of o only if m has  *)
(* registered it, however many hosts o has and whatever they said meanwhile *)
(* (the host check of Cache.Del, the order of the last two steps of         *)
(* OnROCObjDel against onServerJoinSubnet).  It leaves out, by disordered,  *)
(* the three places where the code gives the order up, and, by overwritten, *)
(* the objects whose change was in a list before its last element.          *)
NotStale ==
    \A m, n \in Module, o \in Obj :
        Settled(m, n, o) /\ catchType[n][o] = m => o \in objPool[m]

(* And a module that joined finds every object: the notices that it was     *)
(* sent before it joined, what arrived of the list that it was told when it *)
(* joined, and the changes that went on at that moment add up to what its   *)
(* host has.  It says so of the objects that only one module ever hosts     *)
(* (see Migrated).                                                          *)
Joined(n, m, o) ==
    /\ Hosts[o] = {m}
    /\ n = m \/ n \in joined[m]
    /\ o \in objPool[m]
Found ==
    \A n, m \in Module, o \in Obj :
        Joined(n, m, o) /\ Settled(m, n, o) => catchType[n][o] = m

(* roc/roc.go:14 promises a strongly consistent network that keeps the      *)
(* locations of the objects: a module that joined finds all the objects of  *)
(* a host that has told it everything, those that were told in lists too.   *)
ListsTold ==
    \A n, m \in Module, o \in Obj :
        Joined(n, m, o) /\ Arrived(m, n, o) => catchType[n][o] = m

(* roc/roc.go:11-14 promises that the objects of a module can be moved to   *)
(* its new version and that their location is kept strongly consistent: an  *)
(* object that was registered at the new module and deleted at the old one  *)
(* is found there by all that both have told everything.                    *)
Migrated ==
    \A n, m \in Module, o \in Obj :
        /\ \A h \in Hosts[o] : n \in joined[h] /\ Settled(h, n, o)
        /\ {h \in Hosts[o] : o \in objPool[h]} = {m}
        => catchType[n][o] = m
=============================================================================
