--------------------------- MODULE ROCBind_proofs ---------------------------
(***************************************************************************)
(* Theorems about ROCBind, for any modules, objects and hosts, any number  *)
(* of operations and both ways to send a notice: type correctness, that no *)
(* module keeps believing in an object that is gone, and that a module     *)
(* that joined finds every object.                                         *)
(***************************************************************************)
EXTENDS ROCBind, TLAPS, SequenceTheorems

(* The last word about o in some notices: whether o was deleted. *)
Final(notices, o, del) ==
    \E i \in DOMAIN notices :
        /\ notices[i] = [del |-> del, obj |-> o]
        /\ \A j \in DOMAIN notices : j > i => notices[j].obj # o

(* What n believes of o at m once it has handled all that is on its way. *)
Word(m, n, o, del) ==
    \/ Final(link[m][n], o, del)
    \/ /\ ~About(o, link[m][n])
       /\ \E q \in Queues : Final(queue[n][m][q], o, del)
    \/ /\ ~About(o, link[m][n])
       /\ \A q \in Queues : ~About(o, queue[n][m][q])
       /\ catchType[n][o] = m <=> ~del

Pending(m, o) == call[m][o].at \in {"pooled", "cached"}
Ordered(m, n, o) == <<m, n, o>> \notin disordered
Clear(m, n, o) == Ordered(m, n, o) /\ <<m, n, o>> \notin overwritten

(* A module speaks of the objects that it may host, and not to itself. *)
HostInv ==
    \A m \in Module :
        /\ m \notin servers[m] /\ joined[m] \subseteq servers[m]
        /\ \A n \in Module : n \notin servers[m] =>
             /\ link[m][n] = <<>>
             /\ \A q \in Queues : queue[n][m][q] = <<>>
             /\ n # m => \A o \in Obj : catchType[n][o] # m
        /\ \A o \in Obj : m \notin Hosts[o] =>
             /\ o \notin objPool[m] /\ o \notin localObj[m] /\ call[m][o].at = "idle"
             /\ \A del \in BOOLEAN : o \notin ToSet(waiting[m][del])
             /\ \A n \in Module :
                  /\ ~About(o, link[m][n])
                  /\ \A q \in Queues : ~About(o, queue[n][m][q])

(* What a call is about has happened in objPool, and not yet in localObj. *)
CallInv ==
    \A m \in Module, o \in Obj :
        IF call[m][o].at = "idle"
        THEN o \in localObj[m] <=> o \in objPool[m]
        ELSE o \in objPool[m] <=> ~call[m][o].del

(* A module's own cache follows its objPool; nobody else sets it to m. *)
SelfInv ==
    \A m \in Module, o \in Obj :
        call[m][o].at # "pooled" =>
            /\ catchType[m][o] = m => o \in objPool[m]
            /\ Hosts[o] = {m} /\ o \in objPool[m] => catchType[m][o] = m

(* A change that waits to be sent is the last one, unless another is going  *)
(* on or the two threads may exchange them.                                 *)
WaitInv ==
    \A m \in Module, del \in BOOLEAN, o \in Obj :
        o \in ToSet(waiting[m][del]) =>
            /\ async[m]
            /\ \/ o \in objPool[m] <=> ~del
               \/ Pending(m, o)
               \/ \A n \in Module : ~Ordered(m, n, o)

(* The notices about an object wait in one queue. *)
QueueInv ==
    \A m, n \in Module, o \in Obj :
        Ordered(m, n, o) =>
            ~(About(o, queue[n][m][0]) /\ About(o, queue[n][m][1]))

(* What is deleted was said to be deleted, or will be. *)
StaleInv ==
    \A m, n \in Module, o \in Obj :
        m # n /\ Clear(m, n, o) /\ o \notin objPool[m] =>
            \/ Pending(m, o)
            \/ o \in ToSet(waiting[m][TRUE])
            \/ Word(m, n, o, TRUE)

(* What is registered was said to be registered, or will be, to those that  *)
(* joined and to those that the call has told.                              *)
FoundInv ==
    \A m, n \in Module, o \in Obj :
        /\ m # n /\ Clear(m, n, o) /\ o \in objPool[m] /\ Hosts[o] = {m}
        /\ n \in joined[m] \/ (call[m][o].at = "noticed" /\ n \in call[m][o].told)
        => \/ Pending(m, o)
           \/ o \in ToSet(waiting[m][FALSE])
           \/ Word(m, n, o, FALSE)

IInv == /\ TypeOK /\ HostInv /\ CallInv /\ SelfInv /\ WaitInv /\ QueueInv
        /\ StaleInv /\ FoundInv
-----------------------------------------------------------------------------
(* The last word in a sequence of notices, as it grows and shrinks.         *)

LEMMA AppendNotice ==
    ASSUME NEW s \in Seq(Notice), NEW x \in Notice, NEW o
    PROVE  /\ About(o, Append(s, x)) <=> About(o, s) \/ x.obj = o
           /\ x.obj = o => Final(Append(s, x), o, x.del)
           /\ \A del : x.obj # o /\ Final(s, o, del) => Final(Append(s, x), o, del)
<1>1. /\ DOMAIN Append(s, x) = 1 .. Len(s) + 1 /\ DOMAIN s = 1 .. Len(s)
      /\ Len(s) \in Nat
      /\ Append(s, x)[Len(s) + 1] = x
      /\ \A i \in 1 .. Len(s) : Append(s, x)[i] = s[i]
  OBVIOUS
<1>2. x = [del |-> x.del, obj |-> x.obj]
  BY DEF Notice
<1> DEFINE t == Append(s, x)
           n == Len(s)
<1> HIDE DEF t, n
<1>3. About(o, t) <=> About(o, s) \/ x.obj = o
  BY <1>1 DEF About, t, n
<1>4. x.obj = o => Final(t, o, x.del)
  <2>1. n + 1 \in DOMAIN t /\ \A j \in DOMAIN t : ~(j > n + 1)
    BY <1>1 DEF t, n
  <2>2. x.obj = o => t[n + 1] = [del |-> x.del, obj |-> o]
    BY <1>1, <1>2 DEF t, n
  <2>3. QED
    BY <2>1, <2>2 DEF Final
<1>5. ASSUME NEW del, x.obj # o, Final(s, o, del)
      PROVE  Final(t, o, del)
  <2>1. PICK i \in DOMAIN s : /\ s[i] = [del |-> del, obj |-> o]
                              /\ \A j \in DOMAIN s : j > i => s[j].obj # o
    BY <1>5 DEF Final
  <2>2. i \in DOMAIN t /\ t[i] = [del |-> del, obj |-> o]
    BY <1>1, <2>1 DEF t, n
  <2>3. \A j \in DOMAIN t : j > i => t[j].obj # o
    BY <1>1, <1>5, <2>1 DEF t, n
  <2>4. QED
    BY <2>2, <2>3 DEF Final
<1>6. QED
  BY <1>3, <1>4, <1>5 DEF t

LEMMA TailNotice ==
    ASSUME NEW s \in Seq(Notice), s # <<>>, NEW o
    PROVE  /\ Head(s) \in Notice /\ Tail(s) \in Seq(Notice)
           /\ About(o, s) <=> Head(s).obj = o \/ About(o, Tail(s))
           /\ \A del : Final(s, o, del) =>
                \/ Final(Tail(s), o, del)
                \/ ~About(o, Tail(s)) /\ Head(s) = [del |-> del, obj |-> o]
<1> DEFINE t == Tail(s)
           n == Len(s)
<1>1. /\ n \in Nat /\ n > 0 /\ DOMAIN s = 1 .. n /\ DOMAIN t = 1 .. n - 1
      /\ Head(s) = s[1]
      /\ \A i \in 1 .. n - 1 : t[i] = s[i + 1]
  OBVIOUS
<1>2. Head(s) \in Notice /\ t \in Seq(Notice)
  OBVIOUS
<1> HIDE DEF t, n
<1>3. \A i \in DOMAIN s : i # 1 => i - 1 \in DOMAIN t /\ t[i - 1] = s[i]
  BY <1>1
<1>4. 1 \in DOMAIN s /\ \A i \in DOMAIN t : i + 1 \in DOMAIN s /\ t[i] = s[i + 1]
  BY <1>1
<1>5. About(o, s) <=> Head(s).obj = o \/ About(o, t)
  <2>1. ASSUME NEW i \in DOMAIN s, s[i].obj = o
        PROVE  Head(s).obj = o \/ About(o, t)
    BY <1>1, <1>3, <2>1 DEF About
  <2>2. ASSUME NEW i \in DOMAIN t, t[i].obj = o
        PROVE  About(o, s)
    BY <1>4, <2>2 DEF About
  <2>3. Head(s).obj = o => About(o, s)
    BY <1>1, <1>4 DEF About
  <2>4. QED
    BY ONLY <2>1, <2>2, <2>3 DEF About
<1>6. ASSUME NEW del, Final(s, o, del)
      PROVE  Final(t, o, del) \/ (~About(o, t) /\ Head(s) = [del |-> del, obj |-> o])
  <2>1. PICK i \in DOMAIN s : /\ s[i] = [del |-> del, obj |-> o]
                              /\ \A j \in DOMAIN s : j > i => s[j].obj # o
    BY <1>6 DEF Final
  <2>2. CASE i = 1
    <3>1. \A j \in DOMAIN t : t[j].obj # o
      BY <1>1, <1>4, <2>1, <2>2
    <3>2. QED
      BY <1>1, <2>1, <2>2, <3>1 DEF About
  <2>3. CASE i # 1
    <3>1. i - 1 \in DOMAIN t /\ t[i - 1] = [del |-> del, obj |-> o]
      BY <1>3, <2>1, <2>3
    <3>2. \A j \in DOMAIN t : j > i - 1 => t[j].obj # o
      BY <1>1, <1>4, <2>1
    <3>3. QED
      BY <3>1, <3>2 DEF Final
  <2>4. QED
    BY <2>2, <2>3
<1>7. QED
  BY <1>2, <1>5, <1>6 DEF t

LEMMA FinalAbout == \A s, o, del : Final(s, o, del) => About(o, s)
BY DEF Final, About

LEMMA NothingAbout == \A o : ~About(o, <<>>)
BY DEF About

LEMMA AppendSet ==
    ASSUME NEW S, NEW s \in Seq(S), NEW x \in S
    PROVE  Append(s, x) \in Seq(S) /\ ToSet(Append(s, x)) = ToSet(s) \cup {x}
<1>1. /\ DOMAIN Append(s, x) = 1 .. Len(s) + 1 /\ DOMAIN s = 1 .. Len(s)
      /\ Len(s) \in Nat
      /\ Append(s, x)[Len(s) + 1] = x
      /\ \A i \in 1 .. Len(s) : Append(s, x)[i] = s[i]
  OBVIOUS
<1>2. QED
  BY <1>1 DEF ToSet

(* What a thread takes from its channel at once, and what it leaves. *)
LEMMA TakenSet ==
    ASSUME NEW S, NEW s \in Seq(S), NEW k \in 1 .. Len(s)
    PROVE  /\ SubSeq(s, k + 1, Len(s)) \in Seq(S)
           /\ s[k] \in ToSet(SubSeq(s, 1, k)) /\ s[k] \in S
           /\ ToSet(SubSeq(s, 1, k)) \subseteq S
           /\ ToSet(s) = ToSet(SubSeq(s, 1, k)) \cup ToSet(SubSeq(s, k + 1, Len(s)))
<1> DEFINE a == SubSeq(s, 1, k)
           b == SubSeq(s, k + 1, Len(s))
           n == Len(s)
<1>1. /\ n \in Nat /\ k \in 1 .. n /\ DOMAIN s = 1 .. n
      /\ \A i \in 1 .. n : s[i] \in S
  OBVIOUS
<1>2. /\ DOMAIN a = 1 .. k /\ \A i \in 1 .. k : a[i] = s[i]
  OBVIOUS
<1>3. /\ DOMAIN b = 1 .. n - k /\ \A i \in 1 .. n - k : b[i] = s[i + k]
      /\ b \in Seq(S)
  OBVIOUS
<1> HIDE DEF a, b, n
<1>4. s[k] \in ToSet(a) /\ s[k] \in S /\ ToSet(a) \subseteq S
  BY <1>1, <1>2 DEF ToSet
<1>5. ToSet(s) \subseteq ToSet(a) \cup ToSet(b)
  <2> SUFFICES ASSUME NEW i \in 1 .. n
               PROVE  s[i] \in ToSet(a) \/ s[i] \in ToSet(b)
    BY <1>1 DEF ToSet
  <2>1. CASE i <= k
    BY <1>2, <2>1 DEF ToSet
  <2>2. CASE i > k
    <3>1. i - k \in 1 .. n - k /\ b[i - k] = s[i]
      BY <1>1, <1>3, <2>2
    <3>2. QED
      BY <1>3, <3>1 DEF ToSet
  <2>3. QED
    BY <1>1, <2>1, <2>2
<1>6. ToSet(a) \subseteq ToSet(s)
  BY <1>1, <1>2 DEF ToSet
<1>7. ToSet(b) \subseteq ToSet(s)
  <2>1. \A i \in 1 .. n - k : i + k \in 1 .. n
    BY <1>1
  <2>2. QED
    BY <1>1, <1>3, <2>1 DEF ToSet
<1>8. QED
  BY <1>3, <1>4, <1>5, <1>6, <1>7 DEF a, b, n
-----------------------------------------------------------------------------
USE DEF local, net, history

(* Types.                                                                   *)

LEMMA TypeInit == Init => TypeOK
BY ROCBindAssumption DEF Init, TypeOK, Idle, Call, Steps

LEMMA CachedType ==
    ASSUME TypeOK, NEW n \in Module, NEW m \in Module, NEW notice \in Notice
    PROVE  [catchType EXCEPT ![n] = Cached(@, m, notice)]
               \in [Module -> [Obj -> Module \cup {None}]]
<1>1. catchType[n] \in [Obj -> Module \cup {None}]
  BY DEF TypeOK
<1>2. Cached(catchType[n], m, notice) \in [Obj -> Module \cup {None}]
  BY <1>1 DEF Cached, CacheSet, CacheDel, Notice
<1>3. QED
  BY <1>2 DEF TypeOK

LEMMA TellType ==
    ASSUME TypeOK, NEW m \in Module, NEW notice \in Notice, Tell(m, notice)
    PROVE  /\ link' \in [Module -> [Module -> Seq(Notice)]]
           /\ \A a, n \in Module :
                link'[a][n] = IF a = m /\ n \in servers[m] THEN Append(link[a][n], notice)
                                                           ELSE link[a][n]
<1>1. [n \in Module |-> IF n \in servers[m] THEN Append(link[m][n], notice) ELSE link[m][n]]
          \in [Module -> Seq(Notice)]
  BY DEF TypeOK
<1>2. link' = [link EXCEPT ![m] = [n \in Module |->
                 IF n \in servers[m] THEN Append(link[m][n], notice) ELSE link[m][n]]]
  BY DEF Tell, TypeOK
<1>3. QED
  BY <1>1, <1>2 DEF TypeOK

LEMMA LostType ==
    ASSUME TypeOK, NEW m \in Module, NEW told \in SUBSET Module,
           NEW objs \in SUBSET Obj, NEW last
    PROVE  /\ Lost(m, told, objs, last) \subseteq Module \X Module \X Obj
           /\ \A a, n, o : <<a, n, o>> \in Lost(m, told, objs, last) <=>
                IF a = m /\ n \in told /\ o = last THEN FALSE
                ELSE \/ <<a, n, o>> \in overwritten
                     \/ a = m /\ n \in told /\ o \in objs
BY DEF Lost, TypeOK

LEMMA TypeStart ==
    ASSUME TypeOK, NEW m \in Module, NEW o \in Obj, NEW del \in BOOLEAN, Start(m, o, del)
    PROVE  TypeOK'
<1>1. /\ objPool' \in [Module -> SUBSET Obj] /\ ops' \in 0 .. MaxOps
  BY ROCBindAssumption DEF TypeOK, Start
<1>2. call' \in [Module -> [Obj -> Call]]
  <2>1. [at |-> "pooled", del |-> del, told |-> {}] \in Call
    BY DEF Call, Steps
  <2>2. QED
    BY <2>1 DEF TypeOK, Start
<1>3. QED
  BY <1>1, <1>2 DEF TypeOK, Start

LEMMA TypeCall ==
    ASSUME TypeOK, NEW m \in Module, NEW o \in Obj, OnROCObj(m, o)
    PROVE  TypeOK'
<1>1. call[m][o] \in Call /\ call[m][o].del \in BOOLEAN
  BY DEF TypeOK, Call
<1> DEFINE notice == [del |-> call[m][o].del, obj |-> o]
<1>2. notice \in Notice
  BY <1>1 DEF Notice
<1>3. CASE SetCache(m, o)
  <2>1. catchType' \in [Module -> [Obj -> Module \cup {None}]]
    BY <1>2, <1>3, CachedType DEF SetCache
  <2>2. call' \in [Module -> [Obj -> Call]]
    BY <1>1, <1>3 DEF SetCache, TypeOK, Call, Steps
  <2>3. QED
    BY <1>3, <2>1, <2>2 DEF TypeOK, SetCache
<1>4. CASE Notify(m, o)
  <2>1. link' \in [Module -> [Module -> Seq(Notice)]]
    BY <1>2, <1>4, TellType DEF Notify
  <2>2. overwritten' \subseteq Module \X Module \X Obj
    <3>1. servers[m] \in SUBSET Module
      BY DEF TypeOK
    <3>2. QED
      BY <1>4, <3>1, LostType DEF Notify
  <2>3. call' \in [Module -> [Obj -> Call]]
    BY <1>1, <1>4 DEF Notify, TypeOK, Call, Steps
  <2>4. QED
    BY <1>4, <2>1, <2>2, <2>3 DEF TypeOK, Notify
<1>5. CASE Enqueue(m, o)
  <2>1. waiting' \in [Module -> [BOOLEAN -> Seq(Obj)]]
    BY <1>1, <1>5, AppendSet DEF Enqueue, TypeOK
  <2>2. disordered' \subseteq Module \X Module \X Obj
    BY <1>5 DEF Enqueue, TypeOK
  <2>3. call' \in [Module -> [Obj -> Call]]
    BY <1>1, <1>5 DEF Enqueue, TypeOK, Call, Steps
  <2>4. QED
    BY <1>5, <2>1, <2>2, <2>3 DEF TypeOK, Enqueue
<1>6. CASE Record(m, o)
  <2>1. Idle \in Call
    BY DEF Idle, Call, Steps
  <2>2. QED
    BY <1>6, <2>1 DEF TypeOK, Record
<1>7. QED
  BY <1>3, <1>4, <1>5, <1>6 DEF OnROCObj

LEMMA TypeNoticeProcess ==
    ASSUME TypeOK, NEW m \in Module, NEW del \in BOOLEAN, NoticeProcess(m, del)
    PROVE  TypeOK'
<1> DEFINE w == waiting[m][del]
<1>1. w \in Seq(Obj) /\ servers[m] \in SUBSET Module
  BY DEF TypeOK
<1>2. PICK k \in 1 .. Len(w) :
        /\ Tell(m, [del |-> del, obj |-> w[k]])
        /\ overwritten' = Lost(m, servers[m], ToSet(SubSeq(w, 1, k)), w[k])
        /\ waiting' = [waiting EXCEPT ![m][del] = SubSeq(@, k + 1, Len(@))]
        /\ call' = [call EXCEPT ![m] = [o \in Obj |->
             IF o \in ToSet(SubSeq(w, 1, k)) /\ @[o].at = "noticed"
             THEN [@[o] EXCEPT !.told = servers[m]] ELSE @[o]]]
        /\ UNCHANGED <<async, objPool, localObj, ops, catchType, servers, joined, queue,
                       disordered>>
  BY DEF NoticeProcess
<1> DEFINE rest == SubSeq(w, k + 1, Len(w))
           objs == ToSet(SubSeq(w, 1, k))
<1>3. w[k] \in Obj /\ objs \in SUBSET Obj /\ rest \in Seq(Obj)
  BY <1>1, TakenSet
<1>4. waiting' = [waiting EXCEPT ![m][del] = rest]
  BY <1>2
<1>5. call' = [call EXCEPT ![m] = [o \in Obj |->
             IF o \in objs /\ call[m][o].at = "noticed"
             THEN [call[m][o] EXCEPT !.told = servers[m]] ELSE call[m][o]]]
  BY <1>2 DEF TypeOK
<1> HIDE DEF w, rest, objs
<1>6. waiting' \in [Module -> [BOOLEAN -> Seq(Obj)]]
  BY <1>3, <1>4 DEF TypeOK
<1>7. call' \in [Module -> [Obj -> Call]]
  <2>1. \A o \in Obj : call[m][o] \in Call
    BY DEF TypeOK
  <2>2. \A o \in Obj : [call[m][o] EXCEPT !.told = servers[m]] \in Call
    BY <1>1, <2>1 DEF Call
  <2>3. QED
    BY <1>5, <2>1, <2>2 DEF TypeOK
<1>8. link' \in [Module -> [Module -> Seq(Notice)]]
  <2>1. [del |-> del, obj |-> w[k]] \in Notice
    BY <1>3 DEF Notice
  <2>2. QED
    BY <1>2, <2>1, TellType
<1>9. overwritten' \subseteq Module \X Module \X Obj
  BY <1>1, <1>2, <1>3, LostType DEF objs
<1>10. QED
  BY <1>2, <1>6, <1>7, <1>8, <1>9 DEF TypeOK

LEMMA TypeJoin ==
    ASSUME TypeOK, NEW m \in Module, NEW n \in Module,
           AddServer(m, n) \/ JoinSubnet(m, n)
    PROVE  TypeOK'
<1>1. CASE AddServer(m, n)
  BY <1>1 DEF TypeOK, AddServer
<1>2. CASE JoinSubnet(m, n)
  <2>1. link' \in [Module -> [Module -> Seq(Notice)]]
    <3>1. CASE link' = link
      BY <3>1 DEF TypeOK
    <3>2. CASE link' # link
      <4>1. PICK last \in localObj[m] :
              link' = [link EXCEPT ![m][n] = Append(@, [del |-> FALSE, obj |-> last])]
        BY <1>2, <3>2 DEF JoinSubnet
      <4>2. [del |-> FALSE, obj |-> last] \in Notice
        BY DEF Notice, TypeOK
      <4>3. Append(link[m][n], [del |-> FALSE, obj |-> last]) \in Seq(Notice)
        BY <4>2 DEF TypeOK
      <4>4. QED
        BY <4>1, <4>3 DEF TypeOK
    <3>3. QED
      BY <3>1, <3>2
  <2>2. overwritten' \subseteq Module \X Module \X Obj
    <3>1. localObj[m] \in SUBSET Obj /\ {n} \in SUBSET Module
      BY DEF TypeOK
    <3>2. CASE overwritten' = overwritten
      BY <3>2 DEF TypeOK
    <3>3. CASE overwritten' # overwritten
      <4>1. PICK last \in localObj[m] : overwritten' = Lost(m, {n}, localObj[m], last)
        BY <1>2, <3>3 DEF JoinSubnet
      <4>2. Lost(m, {n}, localObj[m], last) \subseteq Module \X Module \X Obj
        BY <3>1, LostType
      <4>3. QED
        BY <4>1, <4>2
    <3>4. QED
      BY <3>2, <3>3
  <2>3. disordered' \subseteq Module \X Module \X Obj
    BY <1>2 DEF JoinSubnet, Overtaken, TypeOK
  <2>4. joined' \in [Module -> SUBSET Module]
    BY <1>2 DEF JoinSubnet, TypeOK
  <2>5. UNCHANGED <<async, objPool, localObj, call, waiting, ops, catchType, servers, queue>>
    BY <1>2 DEF JoinSubnet
  <2>6. QED
    BY <2>1, <2>2, <2>3, <2>4, <2>5 DEF TypeOK
<1>3. QED
  BY <1>1, <1>2

LEMMA TypeReceive ==
    ASSUME TypeOK, NEW m \in Module, NEW n \in Module,
           MultiQueueControl(n, m) \/ \E q \in Queues : OnMsgROCBind(n, m, q)
    PROVE  TypeOK'
<1>1. CASE MultiQueueControl(n, m)
  <2> DEFINE notice == Head(link[m][n])
             rest == Tail(link[m][n])
             q == QueueOf(n, m)
  <2>1. notice \in Notice /\ rest \in Seq(Notice) /\ q \in Queues
    <3>1. link[m][n] \in Seq(Notice) /\ link[m][n] # <<>>
      BY <1>1 DEF TypeOK, MultiQueueControl
    <3>2. notice \in Notice /\ rest \in Seq(Notice)
      BY <3>1, TailNotice
    <3>3. q \in Queues
      BY DEF QueueOf, Queues
    <3>4. QED
      BY <3>2, <3>3
  <2>2. /\ link' = [link EXCEPT ![m][n] = rest]
        /\ queue' = [queue EXCEPT ![n][m][q] = Append(@, notice)]
        /\ disordered' \in {disordered, disordered \cup {<<m, n, notice.obj>>}}
        /\ UNCHANGED <<local, catchType, servers, joined, overwritten>>
    BY <1>1 DEF MultiQueueControl
  <2> HIDE DEF notice, rest, q
  <2>3. link' \in [Module -> [Module -> Seq(Notice)]]
    BY <2>1, <2>2 DEF TypeOK
  <2>4. Append(queue[n][m][q], notice) \in Seq(Notice)
    BY <2>1 DEF TypeOK
  <2>5. queue' \in [Module -> [Module -> [Queues -> Seq(Notice)]]]
    BY <2>1, <2>2, <2>4 DEF TypeOK
  <2>6. disordered' \subseteq Module \X Module \X Obj
    <3>1. notice.obj \in Obj
      BY <2>1 DEF Notice
    <3>2. disordered \subseteq Module \X Module \X Obj
      BY DEF TypeOK
    <3>3. QED
      BY <2>2, <3>1, <3>2
  <2>7. QED
    BY <2>2, <2>3, <2>5, <2>6 DEF TypeOK
<1>2. ASSUME NEW q \in Queues, OnMsgROCBind(n, m, q)
      PROVE  TypeOK'
  <2> DEFINE notice == Head(queue[n][m][q])
             rest == Tail(queue[n][m][q])
  <2>1. notice \in Notice /\ rest \in Seq(Notice)
    BY <1>2, TailNotice DEF TypeOK, OnMsgROCBind
  <2>2. /\ queue' = [queue EXCEPT ![n][m][q] = rest]
        /\ catchType' = [catchType EXCEPT ![n] = Cached(@, m, notice)]
        /\ UNCHANGED <<local, servers, joined, link, history>>
    BY <1>2 DEF OnMsgROCBind
  <2> HIDE DEF notice, rest
  <2>3. queue' \in [Module -> [Module -> [Queues -> Seq(Notice)]]]
    BY <2>1, <2>2 DEF TypeOK
  <2>4. catchType' \in [Module -> [Obj -> Module \cup {None}]]
    BY <2>1, <2>2, CachedType
  <2>5. QED
    BY <2>2, <2>3, <2>4 DEF TypeOK
<1>3. QED
  BY <1>1, <1>2

LEMMA TypeStep == TypeOK /\ [Next]_vars => TypeOK'
<1>1. ASSUME TypeOK, UNCHANGED vars
      PROVE  TypeOK'
  BY <1>1 DEF TypeOK, vars
<1>2. QED
  BY <1>1, TypeStart, TypeCall, TypeNoticeProcess, TypeJoin, TypeReceive
  DEF Next, Application, RegObj, DelObj

(* Every reachable state of the registry of a subnet is well typed. *)
THEOREM TypeCorrect == Spec => []TypeOK
BY TypeInit, TypeStep, PTL DEF Spec
-----------------------------------------------------------------------------
(* What a step does to the last word of m about o at n.                     *)

LEMMA WordSame ==
    ASSUME NEW m \in Module, NEW n \in Module, NEW o \in Obj,
           link'[m][n] = link[m][n],
           \A q \in Queues : queue'[n][m][q] = queue[n][m][q],
           catchType'[n][o] = m => catchType[n][o] = m
    PROVE  /\ Word(m, n, o, TRUE) => Word(m, n, o, TRUE)'
           /\ (catchType[n][o] = m => catchType'[n][o] = m)
                => (Word(m, n, o, FALSE) => Word(m, n, o, FALSE)')
BY DEF Word

LEMMA WordTold ==
    ASSUME TypeOK, NEW m \in Module, NEW n \in Module, NEW x \in Notice, NEW o \in Obj,
           link'[m][n] = Append(link[m][n], x), UNCHANGED <<queue, catchType>>
    PROVE  /\ x.obj = o => Word(m, n, o, x.del)'
           /\ \A del : x.obj # o /\ Word(m, n, o, del) => Word(m, n, o, del)'
<1>1. link[m][n] \in Seq(Notice)
  BY DEF TypeOK
<1> DEFINE s == link[m][n]
<1> HIDE DEF s
<1>2. /\ About(o, Append(s, x)) <=> About(o, s) \/ x.obj = o
      /\ x.obj = o => Final(Append(s, x), o, x.del)
      /\ \A del : x.obj # o /\ Final(s, o, del) => Final(Append(s, x), o, del)
  BY <1>1, AppendNotice DEF s
<1>3. link'[m][n] = Append(s, x)
  BY DEF s
<1>4. QED
  BY <1>2, <1>3 DEF Word, s

LEMMA WordSilent ==
    ASSUME NEW m \in Module, NEW n \in Module, NEW o \in Obj,
           link[m][n] = <<>>, \A q \in Queues : queue[n][m][q] = <<>>,
           catchType[n][o] # m
    PROVE  Word(m, n, o, TRUE)
BY NothingAbout DEF Word

LEMMA WordReceived ==
    ASSUME TypeOK, NEW m \in Module, NEW n \in Module, NEW o \in Obj, NEW q \in Queues,
           NEW del, link[m][n] # <<>>,
           link'[m][n] = Tail(link[m][n]),
           \A p \in Queues : queue'[n][m][p] =
                IF p = q THEN Append(queue[n][m][q], Head(link[m][n])) ELSE queue[n][m][p],
           UNCHANGED catchType, Word(m, n, o, del)
    PROVE  Word(m, n, o, del)'
<1> DEFINE s == link[m][n]
           h == Head(s)
<1>1. s \in Seq(Notice) /\ \A p \in Queues : queue[n][m][p] \in Seq(Notice)
  BY DEF TypeOK
<1>2. /\ h \in Notice
      /\ About(o, s) <=> h.obj = o \/ About(o, Tail(s))
      /\ \A d : Final(s, o, d) =>
                \/ Final(Tail(s), o, d)
                \/ ~About(o, Tail(s)) /\ h = [del |-> d, obj |-> o]
  BY <1>1, TailNotice
<1>3. /\ About(o, queue'[n][m][q]) <=> About(o, queue[n][m][q]) \/ h.obj = o
      /\ h.obj = o => Final(queue'[n][m][q], o, h.del)
      /\ \A d : h.obj # o /\ Final(queue[n][m][q], o, d) => Final(queue'[n][m][q], o, d)
  BY <1>1, <1>2, AppendNotice
<1>4. link'[m][n] = Tail(s)
  OBVIOUS
<1> HIDE DEF s, h
<1>5. CASE Final(s, o, del)
  <2>1. CASE Final(Tail(s), o, del)
    BY <1>4, <2>1 DEF Word
  <2>2. CASE ~About(o, Tail(s)) /\ h = [del |-> del, obj |-> o]
    <3>1. Final(queue'[n][m][q], o, del)
      BY <1>3, <2>2
    <3>2. QED
      BY <1>4, <2>2, <3>1 DEF Word
  <2>3. QED
    BY <1>2, <1>5, <2>1, <2>2
<1>6. CASE ~About(o, s) /\ \E p \in Queues : Final(queue[n][m][p], o, del)
  <2>1. h.obj # o /\ ~About(o, Tail(s))
    BY <1>2, <1>6
  <2>2. \E p \in Queues : Final(queue'[n][m][p], o, del)
    BY <1>3, <1>6, <2>1
  <2>3. QED
    BY <1>4, <2>1, <2>2 DEF Word
<1>7. CASE /\ ~About(o, s)
           /\ \A p \in Queues : ~About(o, queue[n][m][p])
           /\ catchType[n][o] = m <=> ~del
  <2>1. h.obj # o /\ ~About(o, Tail(s))
    BY <1>2, <1>7
  <2>2. \A p \in Queues : ~About(o, queue'[n][m][p])
    BY <1>3, <1>7, <2>1
  <2>3. QED
    BY <1>4, <1>7, <2>1, <2>2 DEF Word
<1>8. QED
  BY <1>5, <1>6, <1>7 DEF Word, s

LEMMA WordHandled ==
    ASSUME TypeOK, QueueInv, NEW m \in Module, NEW n \in Module, NEW o \in Obj,
           Ordered(m, n, o), NEW q \in Queues, NEW del \in BOOLEAN,
           queue[n][m][q] # <<>>, link' = link,
           \A p \in Queues : queue'[n][m][p] =
                IF p = q THEN Tail(queue[n][m][q]) ELSE queue[n][m][p],
           Head(queue[n][m][q]).obj # o => catchType'[n][o] = catchType[n][o],
           Head(queue[n][m][q]) = [del |-> del, obj |-> o] =>
                (catchType'[n][o] = m <=> ~del),
           Word(m, n, o, del)
    PROVE  Word(m, n, o, del)'
<1> DEFINE s == queue[n][m][q]
           h == Head(s)
<1>1. s \in Seq(Notice)
  BY DEF TypeOK
<1>2. /\ h \in Notice
      /\ About(o, s) <=> h.obj = o \/ About(o, Tail(s))
      /\ \A d : Final(s, o, d) =>
                \/ Final(Tail(s), o, d)
                \/ ~About(o, Tail(s)) /\ h = [del |-> d, obj |-> o]
  BY <1>1, TailNotice
<1>3. queue'[n][m][q] = Tail(s) /\ \A p \in Queues : p # q => queue'[n][m][p] = queue[n][m][p]
  OBVIOUS
<1>4. \A p \in Queues : p # q /\ About(o, s) => ~About(o, queue[n][m][p])
  BY DEF QueueInv, Queues
<1> HIDE DEF s, h
<1>5. CASE Final(link[m][n], o, del)
  BY <1>5 DEF Word
<1>6. CASE ~About(o, link[m][n]) /\ \E p \in Queues : Final(queue[n][m][p], o, del)
  <2>1. PICK p \in Queues : Final(queue[n][m][p], o, del)
    BY <1>6
  <2>2. CASE p # q
    BY <1>3, <1>6, <2>1, <2>2 DEF Word
  <2>3. CASE p = q /\ Final(Tail(s), o, del)
    BY <1>3, <1>6, <2>3 DEF Word
  <2>4. CASE p = q /\ ~About(o, Tail(s)) /\ h = [del |-> del, obj |-> o]
    <3>1. About(o, s)
      BY <1>2, <2>4
    <3>2. \A r \in Queues : ~About(o, queue'[n][m][r])
      BY <1>3, <1>4, <2>4, <3>1
    <3>3. catchType'[n][o] = m <=> ~del
      BY <2>4 DEF h, s
    <3>4. QED
      BY <1>6, <3>2, <3>3 DEF Word
  <2>5. QED
    BY <1>2, <2>1, <2>2, <2>3, <2>4 DEF s
<1>7. CASE /\ ~About(o, link[m][n])
           /\ \A p \in Queues : ~About(o, queue[n][m][p])
           /\ catchType[n][o] = m <=> ~del
  <2>1. h.obj # o /\ ~About(o, Tail(s))
    BY <1>2, <1>7 DEF s
  <2>2. \A p \in Queues : ~About(o, queue'[n][m][p])
    BY <1>3, <1>7, <2>1
  <2>3. catchType'[n][o] = catchType[n][o]
    BY <2>1 DEF h, s
  <2>4. QED
    BY <1>7, <2>2, <2>3 DEF Word
<1>8. QED
  BY <1>5, <1>6, <1>7 DEF Word
LEMMA WordUnchanged ==
    ASSUME UNCHANGED <<link, queue, catchType>>
    PROVE  \A m, n, o, del : Word(m, n, o, del)' <=> Word(m, n, o, del)
BY DEF Word
-----------------------------------------------------------------------------
(* The steps of a registration or a deletion.                               *)

LEMMA CallFacts ==
    ASSUME TypeOK, NEW m \in Module, NEW o \in Obj
    PROVE  /\ call[m][o].at \in Steps /\ call[m][o].del \in BOOLEAN
           /\ call[m][o].told \in SUBSET Module
           /\ DOMAIN call = Module /\ DOMAIN call[m] = Obj
           /\ DOMAIN call[m][o] = {"at", "del", "told"}
BY DEF TypeOK, Call

LEMMA InvStart ==
    ASSUME IInv, TypeOK', NEW m \in Module, NEW o \in Obj, NEW del \in BOOLEAN,
           m \in Hosts[o], Start(m, o, del)
    PROVE  IInv'
<1>1. \A a \in Module, p \in Obj :
        /\ call'[a][p] = IF a = m /\ p = o
                         THEN [at |-> "pooled", del |-> del, told |-> {}] ELSE call[a][p]
        /\ p \in objPool'[a] <=> IF a = m /\ p = o THEN ~del ELSE p \in objPool[a]
  BY DEF IInv, TypeOK, Start
<1>2. UNCHANGED <<async, localObj, waiting, catchType, servers, joined, net, history>>
  BY DEF Start
<1>3. \A a, n, p, d : Word(a, n, p, d)' <=> Word(a, n, p, d)
  BY <1>2, WordUnchanged
<1>4. \A a \in Module, p \in Obj :
        /\ Pending(a, p)' <=> (a = m /\ p = o) \/ Pending(a, p)
        /\ call'[a][p].at = "idle" <=> ~(a = m /\ p = o) /\ call[a][p].at = "idle"
        /\ call'[a][p].at = "pooled" <=> (a = m /\ p = o) \/ call[a][p].at = "pooled"
  BY <1>1 DEF Pending
<1>5. \A a, n, p : /\ Ordered(a, n, p)' <=> Ordered(a, n, p)
                   /\ Clear(a, n, p)' <=> Clear(a, n, p)
  BY <1>2 DEF Ordered, Clear
<1>6. HostInv'
  <2>1. \A a \in Module, p \in Obj : a \notin Hosts[p] =>
          /\ p \in objPool'[a] <=> p \in objPool[a]
          /\ call'[a][p].at = "idle" <=> call[a][p].at = "idle"
    BY <1>1, <1>4
  <2>2. QED
    BY <1>2, <2>1 DEF HostInv, IInv
<1>7. CallInv'
  BY <1>1, <1>2 DEF CallInv, IInv
<1>8. SelfInv'
  BY <1>1, <1>2, <1>4 DEF SelfInv, IInv
<1>9. WaitInv'
  BY <1>1, <1>2, <1>4, <1>5 DEF WaitInv, IInv
<1>10. QueueInv'
  BY <1>2, <1>5 DEF QueueInv, IInv
<1>11. StaleInv'
  BY <1>1, <1>2, <1>3, <1>4, <1>5 DEF StaleInv, IInv
<1>12. FoundInv'
  <2>1. \A a \in Module, p \in Obj : ~(a = m /\ p = o) => call'[a][p] = call[a][p]
    BY <1>1
  <2>2. QED
    BY <1>1, <1>2, <1>3, <1>4, <1>5, <2>1 DEF FoundInv, IInv
<1>13. QED
  BY <1>6, <1>7, <1>8, <1>9, <1>10, <1>11, <1>12 DEF IInv

LEMMA InvSetCache ==
    ASSUME IInv, TypeOK', NEW m \in Module, NEW o \in Obj, SetCache(m, o)
    PROVE  IInv'
<1> DEFINE del == call[m][o].del
<1>1. /\ del \in BOOLEAN /\ call[m][o].at = "pooled" /\ m \in Hosts[o]
      /\ o \in objPool[m] <=> ~del
  BY CallFacts DEF IInv, SetCache, HostInv, CallInv
<1>2. \A a \in Module, p \in Obj :
        /\ call'[a][p].at = IF a = m /\ p = o THEN "cached" ELSE call[a][p].at
        /\ call'[a][p].del = call[a][p].del
        /\ call'[a][p].told = call[a][p].told
  <2>1. \A a \in Module, p \in Obj :
          call'[a][p] = IF a = m /\ p = o THEN [call[m][o] EXCEPT !.at = "cached"]
                                          ELSE call[a][p]
    BY DEF IInv, SetCache, TypeOK
  <2>2. DOMAIN call[m][o] = {"at", "del", "told"}
    BY CallFacts DEF IInv
  <2>3. QED
    BY <2>1, <2>2
<1>3. UNCHANGED <<async, objPool, localObj, waiting, servers, joined, net, history>>
  BY DEF SetCache
<1> HIDE DEF del
<1>4. \A n \in Module, p \in Obj :
        catchType'[n][p] =
            IF n = m /\ p = o
            THEN IF del THEN IF catchType[m][o] = m THEN None ELSE catchType[m][o] ELSE m
            ELSE catchType[n][p]
  <2>1. catchType' = [catchType EXCEPT
            ![m] = Cached(@, m, [del |-> del, obj |-> o])]
    BY DEF SetCache, del
  <2>2. catchType \in [Module -> [Obj -> Module \cup {None}]]
    BY DEF IInv, TypeOK
  <2>3. CASE del
    <3>1. Cached(catchType[m], m, [del |-> del, obj |-> o])
            = [catchType[m] EXCEPT ![o] = IF @ = m THEN None ELSE @]
      BY <2>3 DEF Cached, CacheDel
    <3>2. QED
      BY <2>1, <2>2, <2>3, <3>1
  <2>4. CASE ~del
    <3>1. Cached(catchType[m], m, [del |-> del, obj |-> o]) = [catchType[m] EXCEPT ![o] = m]
      BY <2>4 DEF Cached, CacheSet
    <3>2. QED
      BY <2>1, <2>2, <2>4, <3>1
  <2>5. QED
    BY <2>3, <2>4
<1>5. \A a \in Module, p \in Obj :
        /\ Pending(a, p)' <=> Pending(a, p)
        /\ call'[a][p].at = "idle" <=> call[a][p].at = "idle"
        /\ call'[a][p].at = "noticed" <=> call[a][p].at = "noticed"
        /\ call'[a][p].at = "pooled" <=> call[a][p].at = "pooled" /\ ~(a = m /\ p = o)
  BY <1>1, <1>2 DEF Pending
<1>6. \A a, n, p : /\ Ordered(a, n, p)' <=> Ordered(a, n, p)
                   /\ Clear(a, n, p)' <=> Clear(a, n, p)
  BY <1>3 DEF Ordered, Clear
<1>7. \A a, n \in Module, p \in Obj : a # n /\ catchType'[n][p] = a => catchType[n][p] = a
  BY <1>4, ROCBindAssumption
<1>8. HostInv'
  <2>1. \A a, n \in Module, p \in Obj : n # a /\ catchType[n][p] # a => catchType'[n][p] # a
    BY <1>7
  <2>2. QED
    BY <1>3, <1>5, <2>1 DEF HostInv, IInv
<1>9. CallInv'
  BY <1>2, <1>3, <1>5 DEF CallInv, IInv
<1>10. SelfInv'
  <2>1. \A a \in Module, p \in Obj : ~(a = m /\ p = o) => catchType'[a][p] = catchType[a][p]
    BY <1>4
  <2>2. /\ catchType'[m][o] = m => ~del
        /\ ~del => catchType'[m][o] = m
    BY <1>4, ROCBindAssumption
  <2>3. QED
    BY <1>1, <1>3, <1>5, <2>1, <2>2 DEF SelfInv, IInv
<1>11. WaitInv'
  BY <1>3, <1>5, <1>6 DEF WaitInv, IInv
<1>12. QueueInv'
  BY <1>3, <1>6 DEF QueueInv, IInv
<1>13. \A a, n \in Module, p \in Obj :
         a # n => /\ Word(a, n, p, TRUE) => Word(a, n, p, TRUE)'
                  /\ Hosts[p] = {a} => (Word(a, n, p, FALSE) => Word(a, n, p, FALSE)')
  <2> SUFFICES ASSUME NEW a \in Module, NEW n \in Module, NEW p \in Obj, a # n
               PROVE  /\ Word(a, n, p, TRUE) => Word(a, n, p, TRUE)'
                      /\ Hosts[p] = {a} => (Word(a, n, p, FALSE) => Word(a, n, p, FALSE)')
    OBVIOUS
  <2>1. link' = link /\ queue' = queue
    BY <1>3
  <2>2. Hosts[p] = {a} => catchType'[n][p] = catchType[n][p]
    BY <1>1, <1>4
  <2>3. QED
    BY <1>7, <2>1, <2>2, WordSame
<1>14. StaleInv'
  BY <1>3, <1>5, <1>6, <1>13 DEF StaleInv, IInv
<1>15. FoundInv'
  <2> SUFFICES ASSUME NEW a \in Module, NEW n \in Module, NEW p \in Obj,
                      a # n, Clear(a, n, p)', p \in objPool'[a], Hosts[p] = {a},
                      \/ n \in joined'[a]
                      \/ call'[a][p].at = "noticed" /\ n \in call'[a][p].told
               PROVE  \/ Pending(a, p)'
                      \/ p \in ToSet(waiting'[a][FALSE])
                      \/ Word(a, n, p, FALSE)'
    BY DEF FoundInv
  <2>1. \/ Pending(a, p)
        \/ p \in ToSet(waiting[a][FALSE])
        \/ Word(a, n, p, FALSE)
    BY <1>2, <1>3, <1>5, <1>6 DEF FoundInv, IInv
  <2>2. QED
    BY <1>3, <1>5, <1>13, <2>1
<1>16. QED
  BY <1>8, <1>9, <1>10, <1>11, <1>12, <1>14, <1>15 DEF IInv
(* A notice about o that m tells its subnet pool: it is the last word about *)
(* o for those it reaches, and the others have heard nothing of m at all.   *)
LEMMA TellEffect ==
    ASSUME IInv, NEW m \in Module, NEW o \in Obj, NEW del \in BOOLEAN,
           m \in Hosts[o], Tell(m, [del |-> del, obj |-> o]),
           UNCHANGED <<queue, catchType, servers, joined>>
    PROVE  /\ \A n \in Module : n \in servers[m] => Word(m, n, o, del)'
           /\ \A n \in Module, p \in Obj :
                n # m /\ n \notin servers[m] => Word(m, n, p, TRUE)'
           /\ \A a, n \in Module, p \in Obj, d \in BOOLEAN :
                ~(a = m /\ p = o) /\ Word(a, n, p, d) => Word(a, n, p, d)'
           /\ \A a, n \in Module : n \notin servers[a] => link'[a][n] = link[a][n]
           /\ \A a, n \in Module, p \in Obj :
                a \notin Hosts[p] /\ ~About(p, link[a][n]) => ~About(p, link'[a][n])
<1> DEFINE x == [del |-> del, obj |-> o]
<1>1. x \in Notice /\ x.obj = o /\ x.del = del
  BY DEF Notice
<1>2. \A a, n \in Module :
        link'[a][n] = IF a = m /\ n \in servers[m] THEN Append(link[a][n], x)
                                                   ELSE link[a][n]
  BY <1>1, TellType DEF IInv
<1> HIDE DEF x
<1>3. ASSUME NEW n \in Module, n \in servers[m], NEW p \in Obj
      PROVE  /\ Word(m, n, o, del)'
             /\ \A d : p # o /\ Word(m, n, p, d) => Word(m, n, p, d)'
             /\ About(p, link'[m][n]) => p = o \/ About(p, link[m][n])
  <2>1. link'[m][n] = Append(link[m][n], x) /\ UNCHANGED <<queue, catchType>>
    BY <1>2, <1>3
  <2>2. Word(m, n, o, del)'
    BY <1>1, <2>1, WordTold DEF IInv
  <2>3. \A d : p # o /\ Word(m, n, p, d) => Word(m, n, p, d)'
    BY <1>1, <2>1, WordTold DEF IInv
  <2>4. About(p, Append(link[m][n], x)) => p = o \/ About(p, link[m][n])
    <3>1. link[m][n] \in Seq(Notice)
      BY DEF IInv, TypeOK
    <3>2. QED
      BY <1>1, <3>1, AppendNotice
  <2>5. QED
    BY <2>1, <2>2, <2>3, <2>4
<1>4. ASSUME NEW a \in Module, NEW n \in Module, NEW p \in Obj,
             ~(a = m /\ n \in servers[m])
      PROVE  /\ link'[a][n] = link[a][n]
             /\ \A d : Word(a, n, p, d) => Word(a, n, p, d)'
  <2>1. link'[a][n] = link[a][n]
    BY <1>2, <1>4
  <2>2. QED
    BY <2>1 DEF Word
<1>5. ASSUME NEW n \in Module, NEW p \in Obj, n # m, n \notin servers[m]
      PROVE  Word(m, n, p, TRUE)'
  <2>1. /\ link[m][n] = <<>> /\ \A q \in Queues : queue[n][m][q] = <<>>
        /\ catchType[n][p] # m
    BY <1>5 DEF IInv, HostInv
  <2>2. QED
    BY <1>4, <1>5, <2>1, WordSilent
<1>6. \A a, n \in Module, p \in Obj, d \in BOOLEAN :
        ~(a = m /\ p = o) /\ Word(a, n, p, d) => Word(a, n, p, d)'
  BY <1>3, <1>4
<1>7. \A a, n \in Module, p \in Obj :
        a \notin Hosts[p] /\ ~About(p, link[a][n]) => ~About(p, link'[a][n])
  BY <1>3, <1>4
<1>8. QED
  BY <1>3, <1>4, <1>5, <1>6, <1>7

LEMMA InvNotify ==
    ASSUME IInv, TypeOK', NEW m \in Module, NEW o \in Obj, Notify(m, o)
    PROVE  IInv'
<1>1. PICK del \in BOOLEAN :
        /\ del = call[m][o].del /\ call[m][o].at = "cached" /\ m \in Hosts[o]
        /\ o \in objPool[m] <=> ~del
        /\ ~async[m]
  BY CallFacts DEF IInv, Notify, HostInv, CallInv
<1>2. \A a \in Module, p \in Obj :
        /\ call'[a][p].at = IF a = m /\ p = o THEN "noticed" ELSE call[a][p].at
        /\ call'[a][p].del = call[a][p].del
        /\ call'[a][p].told = IF a = m /\ p = o THEN servers[m] ELSE call[a][p].told
  <2>1. \A a \in Module, p \in Obj :
          call'[a][p] = IF a = m /\ p = o
                        THEN [call[m][o] EXCEPT !.at = "noticed", !.told = servers[m]]
                        ELSE call[a][p]
    BY DEF IInv, Notify, TypeOK
  <2> DEFINE r == [call[m][o] EXCEPT !.at = "noticed", !.told = servers[m]]
  <2>2. r.at = "noticed" /\ r.del = call[m][o].del /\ r.told = servers[m]
    BY CallFacts DEF IInv
  <2> HIDE DEF r
  <2>3. \A a \in Module, p \in Obj :
          call'[a][p] = IF a = m /\ p = o THEN r ELSE call[a][p]
    BY <2>1 DEF r
  <2>4. QED
    BY <2>2, <2>3
<1>3. UNCHANGED <<async, objPool, localObj, waiting, ops, catchType, servers, joined, queue,
                  disordered>>
  BY DEF Notify
<1>4. Tell(m, [del |-> del, obj |-> o]) /\ overwritten' = Lost(m, servers[m], {o}, o)
  BY <1>1 DEF Notify
<1>5. /\ \A n \in Module : n \in servers[m] => Word(m, n, o, del)'
      /\ \A n \in Module, p \in Obj : n # m /\ n \notin servers[m] => Word(m, n, p, TRUE)'
      /\ \A a, n \in Module, p \in Obj, d \in BOOLEAN :
           ~(a = m /\ p = o) /\ Word(a, n, p, d) => Word(a, n, p, d)'
      /\ \A a, n \in Module : n \notin servers[a] => link'[a][n] = link[a][n]
      /\ \A a, n \in Module, p \in Obj :
           a \notin Hosts[p] /\ ~About(p, link[a][n]) => ~About(p, link'[a][n])
  <2>1. UNCHANGED <<queue, catchType, servers, joined>>
    BY <1>3
  <2>2. Tell(m, [del |-> del, obj |-> o])
    BY <1>4
  <2>3. QED
    BY <1>1, <2>1, <2>2, TellEffect
<1>6. \A a \in Module, p \in Obj : ~(a = m /\ p = o) =>
        /\ Pending(a, p)' <=> Pending(a, p)
        /\ call'[a][p].at = "noticed" <=> call[a][p].at = "noticed"
  BY <1>2 DEF Pending
<1>7. \A a \in Module, p \in Obj :
        /\ call'[a][p].at = "idle" <=> call[a][p].at = "idle"
        /\ call'[a][p].at = "pooled" <=> call[a][p].at = "pooled"
  BY <1>1, <1>2
<1>8. /\ \A a, n, p : Ordered(a, n, p)' <=> Ordered(a, n, p)
      /\ \A a, n, p : ~(a = m /\ p = o) => (Clear(a, n, p)' <=> Clear(a, n, p))
  <2>1. servers[m] \in SUBSET Module
    BY DEF IInv, TypeOK
  <2>2. \A a, n, p : ~(a = m /\ p = o) =>
          (<<a, n, p>> \in overwritten' <=> <<a, n, p>> \in overwritten)
    BY <1>4, <2>1, LostType DEF IInv
  <2>3. QED
    BY <1>3, <2>2 DEF Ordered, Clear
<1>9. HostInv'
  BY <1>3, <1>5, <1>7 DEF HostInv, IInv
<1>10. CallInv'
  BY <1>2, <1>3, <1>7 DEF CallInv, IInv
<1>11. SelfInv'
  BY <1>3, <1>7 DEF SelfInv, IInv
<1>12. WaitInv'
  <2>1. \A d \in BOOLEAN, p \in Obj : p \notin ToSet(waiting[m][d])
    BY <1>1 DEF WaitInv, IInv
  <2>2. QED
    BY <1>3, <1>6, <1>8, <2>1 DEF WaitInv, IInv
<1>13. QueueInv'
  BY <1>3, <1>8 DEF QueueInv, IInv
<1>14. StaleInv'
  <2> SUFFICES ASSUME NEW a \in Module, NEW n \in Module, NEW p \in Obj,
                      a # n, Clear(a, n, p)', p \notin objPool[a]
               PROVE  \/ Pending(a, p)'
                      \/ p \in ToSet(waiting[a][TRUE])
                      \/ Word(a, n, p, TRUE)'
    BY <1>3 DEF StaleInv
  <2>1. CASE a = m /\ p = o
    <3>1. del = TRUE
      BY <1>1, <2>1
    <3>2. Word(m, n, o, TRUE)'
      BY <1>5, <2>1, <3>1
    <3>3. QED
      BY <2>1, <3>2
  <2>2. CASE ~(a = m /\ p = o)
    BY <1>5, <1>6, <1>8, <2>2 DEF StaleInv, IInv
  <2>3. QED
    BY <2>1, <2>2
<1>15. FoundInv'
  <2> SUFFICES ASSUME NEW a \in Module, NEW n \in Module, NEW p \in Obj,
                      a # n, Clear(a, n, p)', p \in objPool[a], Hosts[p] = {a},
                      \/ n \in joined[a]
                      \/ call'[a][p].at = "noticed" /\ n \in call'[a][p].told
               PROVE  \/ Pending(a, p)'
                      \/ p \in ToSet(waiting[a][FALSE])
                      \/ Word(a, n, p, FALSE)'
    BY <1>3 DEF FoundInv
  <2>1. CASE a = m /\ p = o
    <3>1. n \in servers[m]
      BY <1>1, <1>2, <2>1 DEF HostInv, IInv
    <3>2. del = FALSE
      BY <1>1, <2>1
    <3>3. Word(m, n, o, FALSE)'
      BY <1>5, <3>1, <3>2
    <3>4. QED
      BY <2>1, <3>3
  <2>2. CASE ~(a = m /\ p = o)
    <3>1. \/ n \in joined[a]
          \/ call[a][p].at = "noticed" /\ n \in call[a][p].told
      BY <1>2, <2>2
    <3>2. \/ Pending(a, p)
          \/ p \in ToSet(waiting[a][FALSE])
          \/ Word(a, n, p, FALSE)
      BY <1>8, <2>2, <3>1 DEF FoundInv, IInv
    <3>3. QED
      BY <1>5, <1>6, <2>2, <3>2
  <2>3. QED
    BY <2>1, <2>2
<1>16. QED
  BY <1>9, <1>10, <1>11, <1>12, <1>13, <1>14, <1>15 DEF IInv
LEMMA InvEnqueue ==
    ASSUME IInv, TypeOK', NEW m \in Module, NEW o \in Obj, Enqueue(m, o)
    PROVE  IInv'
<1>1. PICK del \in BOOLEAN :
        /\ del = call[m][o].del /\ call[m][o].at = "cached" /\ m \in Hosts[o]
        /\ o \in objPool[m] <=> ~del
        /\ async[m]
  BY CallFacts DEF IInv, Enqueue, HostInv, CallInv
<1>2. \A a \in Module, p \in Obj :
        /\ call'[a][p].at = IF a = m /\ p = o THEN "noticed" ELSE call[a][p].at
        /\ call'[a][p].del = call[a][p].del
        /\ call'[a][p].told = call[a][p].told
  <2>1. \A a \in Module, p \in Obj :
          call'[a][p] = IF a = m /\ p = o THEN [call[m][o] EXCEPT !.at = "noticed"]
                                          ELSE call[a][p]
    BY DEF IInv, Enqueue, TypeOK
  <2>2. DOMAIN call[m][o] = {"at", "del", "told"}
    BY CallFacts DEF IInv
  <2>3. QED
    BY <2>1, <2>2
<1>3. UNCHANGED <<async, objPool, localObj, ops, catchType, servers, joined, net, overwritten>>
  BY DEF Enqueue
<1>4. \A a \in Module, d \in BOOLEAN, p \in Obj :
        p \in ToSet(waiting'[a][d]) <=>
            (a = m /\ d = del /\ p = o) \/ p \in ToSet(waiting[a][d])
  <2>1. waiting' = [waiting EXCEPT ![m][del] = Append(@, o)]
    BY <1>1 DEF Enqueue
  <2>2. \A a \in Module, d \in BOOLEAN :
          waiting'[a][d] = IF a = m /\ d = del THEN Append(waiting[m][del], o)
                                               ELSE waiting[a][d]
    BY <2>1 DEF IInv, TypeOK
  <2>3. ToSet(Append(waiting[m][del], o)) = ToSet(waiting[m][del]) \cup {o}
    BY AppendSet DEF IInv, TypeOK
  <2>4. QED
    BY <2>2, <2>3
<1>5. /\ disordered \subseteq disordered'
      /\ o \in ToSet(waiting[m][~del]) => \A n \in Module : <<m, n, o>> \in disordered'
  BY <1>1 DEF Enqueue
<1>6. /\ \A a \in Module, p \in Obj : ~(a = m /\ p = o) =>
            /\ Pending(a, p)' <=> Pending(a, p)
            /\ call'[a][p].at = "noticed" <=> call[a][p].at = "noticed"
      /\ \A a \in Module, p \in Obj :
            /\ call'[a][p].at = "idle" <=> call[a][p].at = "idle"
            /\ call'[a][p].at = "pooled" <=> call[a][p].at = "pooled"
  BY <1>1, <1>2 DEF Pending
<1>7. \A a, n, p : /\ Ordered(a, n, p)' => Ordered(a, n, p)
                   /\ Clear(a, n, p)' => Clear(a, n, p)
  BY <1>3, <1>5 DEF Ordered, Clear
<1>8. \A a, n, p, d : Word(a, n, p, d)' <=> Word(a, n, p, d)
  BY <1>3, WordUnchanged
<1>9. HostInv'
  <2>1. \A a \in Module, p \in Obj, d \in BOOLEAN :
          a \notin Hosts[p] /\ p \notin ToSet(waiting[a][d]) => p \notin ToSet(waiting'[a][d])
    BY <1>1, <1>4
  <2>2. QED
    BY <1>3, <1>6, <2>1 DEF HostInv, IInv
<1>10. CallInv'
  BY <1>2, <1>3, <1>6 DEF CallInv, IInv
<1>11. SelfInv'
  BY <1>3, <1>6 DEF SelfInv, IInv
<1>12. WaitInv'
  <2> SUFFICES ASSUME NEW a \in Module, NEW d \in BOOLEAN, NEW p \in Obj,
                      p \in ToSet(waiting'[a][d])
               PROVE  /\ async'[a]
                      /\ \/ p \in objPool'[a] <=> ~d
                         \/ Pending(a, p)'
                         \/ \A n \in Module : ~Ordered(a, n, p)'
    BY DEF WaitInv
  <2>1. CASE ~(a = m /\ p = o)
    BY <1>3, <1>4, <1>6, <1>7, <2>1 DEF WaitInv, IInv
  <2>2. CASE a = m /\ p = o /\ d = del
    BY <1>1, <1>3, <2>2
  <2>3. CASE a = m /\ p = o /\ d # del
    <3>1. d = ~del
      BY <2>3
    <3>2. p \in ToSet(waiting[m][~del])
      BY <1>4, <2>3, <3>1
    <3>3. \A n \in Module : ~Ordered(a, n, p)'
      BY <1>5, <2>3, <3>2 DEF Ordered
    <3>4. QED
      BY <1>1, <1>3, <2>3, <3>3
  <2>4. QED
    BY <2>1, <2>2, <2>3
<1>13. QueueInv'
  BY <1>3, <1>7 DEF QueueInv, IInv
<1>14. StaleInv'
  <2> SUFFICES ASSUME NEW a \in Module, NEW n \in Module, NEW p \in Obj,
                      a # n, Clear(a, n, p)', p \notin objPool[a]
               PROVE  \/ Pending(a, p)'
                      \/ p \in ToSet(waiting'[a][TRUE])
                      \/ Word(a, n, p, TRUE)'
    BY <1>3 DEF StaleInv
  <2>1. CASE a = m /\ p = o
    <3>1. del = TRUE
      BY <1>1, <2>1
    <3>2. QED
      BY <1>4, <2>1, <3>1
  <2>2. CASE ~(a = m /\ p = o)
    BY <1>4, <1>6, <1>7, <1>8, <2>2 DEF StaleInv, IInv
  <2>3. QED
    BY <2>1, <2>2
<1>15. FoundInv'
  <2> SUFFICES ASSUME NEW a \in Module, NEW n \in Module, NEW p \in Obj,
                      a # n, Clear(a, n, p)', p \in objPool[a], Hosts[p] = {a},
                      \/ n \in joined[a]
                      \/ call'[a][p].at = "noticed" /\ n \in call'[a][p].told
               PROVE  \/ Pending(a, p)'
                      \/ p \in ToSet(waiting'[a][FALSE])
                      \/ Word(a, n, p, FALSE)'
    BY <1>3 DEF FoundInv
  <2>1. CASE a = m /\ p = o
    <3>1. del = FALSE
      BY <1>1, <2>1
    <3>2. QED
      BY <1>4, <2>1, <3>1
  <2>2. CASE ~(a = m /\ p = o)
    <3>1. \/ n \in joined[a]
          \/ call[a][p].at = "noticed" /\ n \in call[a][p].told
      BY <1>2, <2>2
    <3>2. \/ Pending(a, p)
          \/ p \in ToSet(waiting[a][FALSE])
          \/ Word(a, n, p, FALSE)
      BY <1>7, <2>2, <3>1 DEF FoundInv, IInv
    <3>3. QED
      BY <1>4, <1>6, <1>8, <2>2, <3>2
  <2>3. QED
    BY <2>1, <2>2
<1>16. QED
  BY <1>9, <1>10, <1>11, <1>12, <1>13, <1>14, <1>15 DEF IInv

LEMMA InvRecord ==
    ASSUME IInv, TypeOK', NEW m \in Module, NEW o \in Obj, Record(m, o)
    PROVE  IInv'
<1>1. /\ call[m][o].at = "noticed" /\ m \in Hosts[o]
      /\ o \in objPool[m] <=> ~call[m][o].del
  BY DEF IInv, Record, HostInv, CallInv
<1>2. /\ \A a \in Module, p \in Obj : ~(a = m /\ p = o) => call'[a][p] = call[a][p]
      /\ call'[m][o].at = "idle"
  BY DEF IInv, Record, TypeOK, Idle
<1>3. UNCHANGED <<async, objPool, waiting, ops, catchType, servers, joined, net, history>>
  BY DEF Record
<1>4. \A a \in Module, p \in Obj :
        p \in localObj'[a] <=> IF a = m /\ p = o THEN ~call[m][o].del ELSE p \in localObj[a]
  BY DEF IInv, Record, TypeOK
<1>5. \A a \in Module, p \in Obj :
        /\ Pending(a, p)' <=> Pending(a, p)
        /\ call'[a][p].at = "noticed" => call[a][p].at = "noticed" /\ ~(a = m /\ p = o)
        /\ call'[a][p].at = "pooled" <=> call[a][p].at = "pooled"
        /\ a \notin Hosts[p] /\ call[a][p].at = "idle" => call'[a][p].at = "idle"
  BY <1>1, <1>2 DEF Pending
<1>6. \A a, n, p : /\ Ordered(a, n, p)' <=> Ordered(a, n, p)
                   /\ Clear(a, n, p)' <=> Clear(a, n, p)
  BY <1>3 DEF Ordered, Clear
<1>7. \A a, n, p, d : Word(a, n, p, d)' <=> Word(a, n, p, d)
  BY <1>3, WordUnchanged
<1>8. HostInv'
  <2>1. \A a \in Module, p \in Obj :
          a \notin Hosts[p] /\ p \notin localObj[a] => p \notin localObj'[a]
    BY <1>1, <1>4
  <2>2. QED
    BY <1>3, <1>5, <2>1 DEF HostInv, IInv
<1>9. CallInv'
  BY <1>1, <1>2, <1>3, <1>4 DEF CallInv, IInv
<1>10. SelfInv'
  BY <1>3, <1>5 DEF SelfInv, IInv
<1>11. WaitInv'
  BY <1>3, <1>5, <1>6 DEF WaitInv, IInv
<1>12. QueueInv'
  BY <1>3, <1>6 DEF QueueInv, IInv
<1>13. StaleInv'
  BY <1>3, <1>5, <1>6, <1>7 DEF StaleInv, IInv
<1>14. FoundInv'
  <2> SUFFICES ASSUME NEW a \in Module, NEW n \in Module, NEW p \in Obj,
                      a # n, Clear(a, n, p)', p \in objPool[a], Hosts[p] = {a},
                      \/ n \in joined[a]
                      \/ call'[a][p].at = "noticed" /\ n \in call'[a][p].told
               PROVE  \/ Pending(a, p)'
                      \/ p \in ToSet(waiting[a][FALSE])
                      \/ Word(a, n, p, FALSE)'
    BY <1>3 DEF FoundInv
  <2>1. \/ n \in joined[a]
        \/ call[a][p].at = "noticed" /\ n \in call[a][p].told
    BY <1>2, <1>5
  <2>2. QED
    BY <1>5, <1>6, <1>7, <2>1 DEF FoundInv, IInv
<1>15. QED
  BY <1>8, <1>9, <1>10, <1>11, <1>12, <1>13, <1>14 DEF IInv

LEMMA InvAddServer ==
    ASSUME IInv, TypeOK', NEW m \in Module, NEW n \in Module, m # n, AddServer(m, n)
    PROVE  IInv'
<1>1. \A a \in Module : /\ servers[a] \subseteq servers'[a]
                        /\ a \in servers'[a] <=> a \in servers[a]
  BY DEF IInv, AddServer, TypeOK
<1>2. UNCHANGED <<local, catchType, joined, net, history>>
  BY DEF AddServer
<1>3. HostInv'
  BY <1>1, <1>2 DEF HostInv, IInv
<1>4. /\ \A a, b, p, d : Word(a, b, p, d)' <=> Word(a, b, p, d)
      /\ \A a, p : Pending(a, p)' <=> Pending(a, p)
      /\ \A a, b, p : Ordered(a, b, p)' <=> Ordered(a, b, p)
      /\ \A a, b, p : Clear(a, b, p)' <=> Clear(a, b, p)
  BY <1>2, WordUnchanged DEF Pending, Ordered, Clear
<1>5. CallInv' /\ SelfInv'
  BY <1>2 DEF IInv, CallInv, SelfInv
<1>6. WaitInv' /\ QueueInv'
  BY <1>2, <1>4 DEF IInv, WaitInv, QueueInv
<1>7. StaleInv' /\ FoundInv'
  BY <1>2, <1>4 DEF IInv, StaleInv, FoundInv
<1>8. QED
  BY <1>3, <1>5, <1>6, <1>7 DEF IInv
LEMMA InvNoticeProcess ==
    ASSUME IInv, TypeOK', NEW m \in Module, NEW del \in BOOLEAN, NoticeProcess(m, del)
    PROVE  IInv'
<1>1. PICK k \in 1 .. Len(waiting[m][del]) :
        /\ Tell(m, [del |-> del, obj |-> waiting[m][del][k]])
        /\ overwritten' = Lost(m, servers[m], ToSet(SubSeq(waiting[m][del], 1, k)),
                               waiting[m][del][k])
        /\ waiting' = [waiting EXCEPT ![m][del] = SubSeq(@, k + 1, Len(@))]
        /\ call' = [call EXCEPT ![m] = [o \in Obj |->
             IF o \in ToSet(SubSeq(waiting[m][del], 1, k)) /\ @[o].at = "noticed"
             THEN [@[o] EXCEPT !.told = servers[m]] ELSE @[o]]]
        /\ UNCHANGED <<async, objPool, localObj, ops, catchType, servers, joined, queue,
                       disordered>>
  BY DEF NoticeProcess
<1>2. PICK last \in Obj, objs \in SUBSET Obj :
        /\ last = waiting[m][del][k] /\ objs = ToSet(SubSeq(waiting[m][del], 1, k))
        /\ last \in objs
        /\ ToSet(waiting[m][del]) = objs \cup ToSet(waiting'[m][del])
  <2> DEFINE w == waiting[m][del]
  <2>1. w \in Seq(Obj)
    BY DEF IInv, TypeOK
  <2>2. waiting'[m][del] = SubSeq(w, k + 1, Len(w))
    <3> DEFINE rest == SubSeq(w, k + 1, Len(w))
    <3>1. waiting' = [waiting EXCEPT ![m][del] = rest]
      BY <1>1
    <3> HIDE DEF rest
    <3>2. waiting'[m][del] = rest
      BY <3>1 DEF IInv, TypeOK
    <3>3. QED
      BY <3>2 DEF rest
  <2>3. /\ w[k] \in Obj /\ w[k] \in ToSet(SubSeq(w, 1, k))
        /\ ToSet(SubSeq(w, 1, k)) \in SUBSET Obj
        /\ ToSet(w) = ToSet(SubSeq(w, 1, k)) \cup ToSet(SubSeq(w, k + 1, Len(w)))
    BY <2>1, TakenSet
  <2> HIDE DEF w
  <2>4. \E last \in Obj, objs \in SUBSET Obj :
          /\ last = w[k] /\ objs = ToSet(SubSeq(w, 1, k))
          /\ last \in objs
          /\ ToSet(w) = objs \cup ToSet(waiting'[m][del])
    BY <2>2, <2>3
  <2>5. QED
    BY <2>4 DEF w
<1>3. \A p \in Obj : p \in objs => p \in ToSet(waiting[m][del])
  BY <1>2
<1>4. m \in Hosts[last]
  BY <1>2, <1>3 DEF HostInv, IInv
<1>5. UNCHANGED <<async, objPool, localObj, ops, catchType, servers, joined, queue,
                  disordered>>
  BY <1>1
<1>6. \A a \in Module, p \in Obj :
        /\ call'[a][p].at = call[a][p].at
        /\ call'[a][p].del = call[a][p].del
        /\ call'[a][p].told = IF a = m /\ p \in objs /\ call[a][p].at = "noticed"
                              THEN servers[m] ELSE call[a][p].told
  <2>1. \A a \in Module, p \in Obj :
          call'[a][p] = IF a = m /\ p \in objs /\ call[m][p].at = "noticed"
                        THEN [call[m][p] EXCEPT !.told = servers[m]] ELSE call[a][p]
    BY <1>1, <1>2 DEF IInv, TypeOK
  <2> DEFINE r(p) == [call[m][p] EXCEPT !.told = servers[m]]
  <2>2. \A p \in Obj : /\ r(p).at = call[m][p].at /\ r(p).del = call[m][p].del
                       /\ r(p).told = servers[m]
    BY CallFacts DEF IInv
  <2>3. \A a \in Module, p \in Obj :
          call'[a][p] = IF a = m /\ p \in objs /\ call[m][p].at = "noticed"
                        THEN r(p) ELSE call[a][p]
    BY <2>1
  <2> HIDE DEF r
  <2>4. QED
    BY <2>2, <2>3
<1>7. \A a \in Module, d \in BOOLEAN, p \in Obj :
        /\ p \in ToSet(waiting'[a][d]) => p \in ToSet(waiting[a][d])
        /\ p \in ToSet(waiting[a][d]) =>
             p \in ToSet(waiting'[a][d]) \/ (a = m /\ d = del /\ p \in objs)
  <2>1. \A a \in Module, d \in BOOLEAN :
          ~(a = m /\ d = del) => waiting'[a][d] = waiting[a][d]
    BY <1>1 DEF IInv, TypeOK
  <2>2. QED
    BY <1>2, <2>1
<1>8. /\ \A n \in Module : n \in servers[m] => Word(m, n, last, del)'
      /\ \A n \in Module, p \in Obj : n # m /\ n \notin servers[m] => Word(m, n, p, TRUE)'
      /\ \A a, n \in Module, p \in Obj, d \in BOOLEAN :
           ~(a = m /\ p = last) /\ Word(a, n, p, d) => Word(a, n, p, d)'
      /\ \A a, n \in Module : n \notin servers[a] => link'[a][n] = link[a][n]
      /\ \A a, n \in Module, p \in Obj :
           a \notin Hosts[p] /\ ~About(p, link[a][n]) => ~About(p, link'[a][n])
  <2>1. UNCHANGED <<queue, catchType, servers, joined>>
    BY <1>5
  <2>2. Tell(m, [del |-> del, obj |-> last])
    BY <1>1, <1>2
  <2>3. QED
    BY <1>4, <2>1, <2>2, TellEffect
<1>9. \A a \in Module, p \in Obj : Pending(a, p)' <=> Pending(a, p)
  BY <1>6 DEF Pending
<1>10. /\ \A a, n, p : Ordered(a, n, p)' <=> Ordered(a, n, p)
       /\ \A a, n, p : ~(a = m /\ p \in objs) => (Clear(a, n, p)' <=> Clear(a, n, p))
       /\ \A n, p : n \in servers[m] /\ p \in objs /\ p # last => ~Clear(m, n, p)'
  <2>1. servers[m] \in SUBSET Module
    BY DEF IInv, TypeOK
  <2>2. \A a, n, p : <<a, n, p>> \in overwritten' <=>
          IF a = m /\ n \in servers[m] /\ p = last THEN FALSE
          ELSE <<a, n, p>> \in overwritten \/ (a = m /\ n \in servers[m] /\ p \in objs)
    <3>1. overwritten' = Lost(m, servers[m], objs, last)
      BY <1>1, <1>2
    <3>2. QED
      BY <3>1 DEF Lost
  <2>3. \A a, n, p : Ordered(a, n, p)' <=> Ordered(a, n, p)
    BY <1>5 DEF Ordered
  <2>4. QED
    BY <1>2, <2>2, <2>3 DEF Clear
<1>11. \/ (last \in objPool[m] <=> ~del)
       \/ Pending(m, last)
       \/ \A n \in Module : ~Ordered(m, n, last)
  BY <1>2, <1>3 DEF WaitInv, IInv
<1>12. HostInv'
  BY <1>5, <1>6, <1>7, <1>8 DEF HostInv, IInv
<1>13. CallInv'
  BY <1>5, <1>6 DEF CallInv, IInv
<1>14. SelfInv'
  BY <1>5, <1>6 DEF SelfInv, IInv
<1>15. WaitInv'
  BY <1>5, <1>7, <1>9, <1>10 DEF WaitInv, IInv
<1>16. QueueInv'
  BY <1>5, <1>10 DEF QueueInv, IInv
<1>17. StaleInv'
  <2> SUFFICES ASSUME NEW a \in Module, NEW n \in Module, NEW p \in Obj,
                      a # n, Clear(a, n, p)', p \notin objPool[a], ~Pending(a, p)
               PROVE  \/ p \in ToSet(waiting'[a][TRUE])
                      \/ Word(a, n, p, TRUE)'
    BY <1>5, <1>9 DEF StaleInv
  <2>1. CASE a = m /\ p \in objs /\ n \notin servers[m]
    BY <1>8, <2>1
  <2>2. CASE a = m /\ p \in objs /\ n \in servers[m]
    <3>1. p = last
      BY <1>10, <2>2
    <3>2. Ordered(a, n, p)
      BY <1>10 DEF Clear
    <3>3. del = TRUE
      BY <1>11, <2>2, <3>1, <3>2
    <3>4. Word(m, n, last, TRUE)'
      BY <1>8, <2>2, <3>3
    <3>5. QED
      BY <2>2, <3>1, <3>4
  <2>3. CASE ~(a = m /\ p \in objs)
    <3>1. p \in ToSet(waiting[a][TRUE]) \/ Word(a, n, p, TRUE)
      BY <1>10, <2>3 DEF StaleInv, IInv
    <3>2. QED
      BY <1>2, <1>7, <1>8, <2>3, <3>1
  <2>4. QED
    BY <2>1, <2>2, <2>3
<1>18. FoundInv'
  <2> SUFFICES ASSUME NEW a \in Module, NEW n \in Module, NEW p \in Obj,
                      a # n, Clear(a, n, p)', p \in objPool[a], Hosts[p] = {a},
                      \/ n \in joined[a]
                      \/ call'[a][p].at = "noticed" /\ n \in call'[a][p].told,
                      ~Pending(a, p)
               PROVE  \/ p \in ToSet(waiting'[a][FALSE])
                      \/ Word(a, n, p, FALSE)'
    BY <1>5, <1>9 DEF FoundInv
  <2>1. CASE a = m /\ p \in objs
    <3>1. n \in servers[m]
      BY <1>6, <2>1 DEF HostInv, IInv
    <3>2. p = last
      BY <1>10, <2>1, <3>1
    <3>3. Ordered(a, n, p)
      BY <1>10 DEF Clear
    <3>4. del = FALSE
      BY <1>11, <2>1, <3>2, <3>3
    <3>5. Word(m, n, last, FALSE)'
      BY <1>8, <3>1, <3>4
    <3>6. QED
      BY <2>1, <3>2, <3>5
  <2>2. CASE ~(a = m /\ p \in objs)
    <3>1. \/ n \in joined[a]
          \/ call[a][p].at = "noticed" /\ n \in call[a][p].told
      BY <1>6, <2>2
    <3>2. p \in ToSet(waiting[a][FALSE]) \/ Word(a, n, p, FALSE)
      BY <1>10, <2>2, <3>1 DEF FoundInv, IInv
    <3>3. QED
      BY <1>2, <1>7, <1>8, <2>2, <3>2
  <2>3. QED
    BY <2>1, <2>2
<1>19. QED
  BY <1>12, <1>13, <1>14, <1>15, <1>16, <1>17, <1>18 DEF IInv

LEMMA InvJoinSubnet ==
    ASSUME IInv, TypeOK', NEW m \in Module, NEW n \in Module, JoinSubnet(m, n)
    PROVE  IInv'
<1>1. /\ n \in servers[m] /\ n # m
      /\ UNCHANGED <<local, catchType, servers, queue>>
      /\ disordered' = disordered \cup {<<m, n, o>> : o \in Overtaken(m, n)}
  BY DEF JoinSubnet, HostInv, IInv
<1>2. \A a, b \in Module : /\ b \in joined'[a] => b \in joined[a] \/ (a = m /\ b = n)
                           /\ joined'[a] \subseteq servers[a]
  <2>1. \A a \in Module : joined'[a] = IF a = m THEN joined[m] \cup {n} ELSE joined[a]
    BY DEF JoinSubnet, IInv, TypeOK
  <2>2. \A a \in Module : joined[a] \subseteq servers[a]
    BY DEF IInv, HostInv
  <2>3. QED
    BY <1>1, <2>1, <2>2
<1>3. /\ \A a, b \in Module : ~(a = m /\ b = n) => link'[a][b] = link[a][b]
      /\ \A a, b, p : ~(a = m /\ b = n /\ p \in localObj[m]) =>
            (<<a, b, p>> \in overwritten' <=> <<a, b, p>> \in overwritten)
      /\ \A p \in Obj : About(p, link'[m][n]) => p \in localObj[m] \/ About(p, link[m][n])
      /\ \A p \in Obj, d \in BOOLEAN :
            p \notin localObj[m] /\ Word(m, n, p, d) => Word(m, n, p, d)'
      /\ \A p \in Obj : /\ p \in localObj[m] /\ <<m, n, p>> \notin overwritten'
                        => Word(m, n, p, FALSE)'
  <2>1. CASE localObj[m] = {}
    <3>1. UNCHANGED <<link, overwritten>>
      BY <2>1 DEF JoinSubnet
    <3>2. \A a, b, p, d : Word(a, b, p, d)' <=> Word(a, b, p, d)
      BY <1>1, <3>1, WordUnchanged
    <3>3. QED
      BY <2>1, <3>1, <3>2
  <2>2. CASE localObj[m] # {}
    <3>1. PICK last \in localObj[m] :
            /\ link' = [link EXCEPT ![m][n] = Append(@, [del |-> FALSE, obj |-> last])]
            /\ overwritten' = Lost(m, {n}, localObj[m], last)
      BY <2>2 DEF JoinSubnet
    <3> DEFINE x == [del |-> FALSE, obj |-> last]
    <3>2. /\ x \in Notice /\ x.obj = last /\ x.del = FALSE
          /\ last \in Obj /\ link[m][n] \in Seq(Notice)
      BY DEF Notice, IInv, TypeOK
    <3> HIDE DEF x
    <3>3. /\ \A a, b \in Module : ~(a = m /\ b = n) => link'[a][b] = link[a][b]
          /\ link'[m][n] = Append(link[m][n], x)
      <4>1. link' = [link EXCEPT ![m][n] = Append(link[m][n], x)]
        BY <3>1 DEF x
      <4>2. link \in [Module -> [Module -> Seq(Notice)]]
        BY DEF IInv, TypeOK
      <4>3. QED
        BY <4>1, <4>2
    <3>4. \A p : About(p, Append(link[m][n], x)) <=> About(p, link[m][n]) \/ x.obj = p
      BY <3>2, AppendNotice
    <3>5. \A a, b, p : <<a, b, p>> \in overwritten' <=>
            IF a = m /\ b \in {n} /\ p = last THEN FALSE
            ELSE <<a, b, p>> \in overwritten \/ (a = m /\ b \in {n} /\ p \in localObj[m])
      BY <3>1 DEF Lost
    <3>6. \A p \in Obj : /\ p = last => Word(m, n, p, x.del)'
                         /\ \A d : p # last /\ Word(m, n, p, d) => Word(m, n, p, d)'
      <4> TAKE p \in Obj
      <4>1. UNCHANGED <<queue, catchType>>
        BY <1>1
      <4>2. /\ x.obj = p => Word(m, n, p, x.del)'
            /\ \A d : x.obj # p /\ Word(m, n, p, d) => Word(m, n, p, d)'
        BY <3>2, <3>3, <4>1, WordTold DEF IInv
      <4>3. QED
        BY <3>2, <4>2
    <3>7. \A a, b, p : ~(a = m /\ b = n /\ p \in localObj[m]) =>
            (<<a, b, p>> \in overwritten' <=> <<a, b, p>> \in overwritten)
      BY <3>5
    <3>8. \A p \in Obj : About(p, link'[m][n]) => p \in localObj[m] \/ About(p, link[m][n])
      BY <3>2, <3>3, <3>4
    <3>9. \A p \in Obj, d \in BOOLEAN :
            p \notin localObj[m] /\ Word(m, n, p, d) => Word(m, n, p, d)'
      BY <3>6
    <3>10. \A p \in Obj : /\ p \in localObj[m] /\ <<m, n, p>> \notin overwritten'
                          => Word(m, n, p, FALSE)'
      BY <3>2, <3>5, <3>6
    <3>11. QED
      BY <3>3, <3>7, <3>8, <3>9, <3>10
  <2>3. QED
    BY <2>1, <2>2
<1>4. \A a, b \in Module, p \in Obj, d \in BOOLEAN :
        ~(a = m /\ b = n) /\ Word(a, b, p, d) => Word(a, b, p, d)'
  BY <1>1, <1>3 DEF Word
<1>5. \A a, b, p : Ordered(a, b, p)' => Ordered(a, b, p)
  BY <1>1 DEF Ordered
<1>6. \A a, b, p : /\ Clear(a, b, p)' /\ ~(a = m /\ b = n /\ p \in localObj[m])
                   => Clear(a, b, p)
  BY <1>3, <1>5 DEF Clear
<1>7. \A p \in Obj : /\ Ordered(m, n, p)' /\ call[m][p].at = "noticed"
                     => \/ p \in ToSet(waiting[m][call[m][p].del])
                        \/ ~call[m][p].del /\ n \in call[m][p].told
  BY <1>1 DEF Ordered, Overtaken
<1>8. \A p \in Obj : \/ call[m][p].at = "idle" \/ call[m][p].at = "noticed"
                     \/ Pending(m, p)
  BY CallFacts DEF IInv, Steps, Pending
<1>9. \A a, p : Pending(a, p)' <=> Pending(a, p)
  BY <1>1 DEF Pending
<1>10. HostInv'
  <2>1. \A a, b \in Module, p \in Obj :
          a \notin Hosts[p] /\ ~About(p, link[a][b]) => ~About(p, link'[a][b])
    BY <1>3 DEF HostInv, IInv
  <2>2. \A a, b \in Module : b \notin servers[a] => link'[a][b] = link[a][b]
    BY <1>1, <1>3
  <2>3. QED
    BY <1>1, <1>2, <2>1, <2>2 DEF HostInv, IInv
<1>11. CallInv' /\ SelfInv'
  BY <1>1 DEF CallInv, SelfInv, IInv
<1>12. WaitInv' /\ QueueInv'
  BY <1>1, <1>5, <1>9 DEF WaitInv, QueueInv, IInv
<1>13. StaleInv'
  <2> SUFFICES ASSUME NEW a \in Module, NEW b \in Module, NEW p \in Obj,
                      a # b, Clear(a, b, p)', p \notin objPool[a], ~Pending(a, p)
               PROVE  \/ p \in ToSet(waiting[a][TRUE])
                      \/ Word(a, b, p, TRUE)'
    BY <1>1, <1>9 DEF StaleInv
  <2>1. CASE a = m /\ b = n /\ p \in localObj[m]
    <3>1. call[m][p].at # "idle" /\ call[m][p].del
      BY <2>1 DEF CallInv, IInv
    <3>2. p \in ToSet(waiting[m][call[m][p].del])
      BY <1>7, <1>8, <2>1, <3>1 DEF Clear
    <3>3. call[m][p].del = TRUE
      BY <3>1, CallFacts DEF IInv
    <3>4. QED
      BY <2>1, <3>2, <3>3
  <2>2. CASE ~(a = m /\ b = n /\ p \in localObj[m])
    BY <1>3, <1>4, <1>6, <2>2 DEF StaleInv, IInv
  <2>3. QED
    BY <2>1, <2>2
<1>14. FoundInv'
  <2> SUFFICES ASSUME NEW a \in Module, NEW b \in Module, NEW p \in Obj,
                      a # b, Clear(a, b, p)', p \in objPool[a], Hosts[p] = {a},
                      \/ b \in joined'[a]
                      \/ call[a][p].at = "noticed" /\ b \in call[a][p].told,
                      ~Pending(a, p)
               PROVE  \/ p \in ToSet(waiting[a][FALSE])
                      \/ Word(a, b, p, FALSE)'
    BY <1>1, <1>9 DEF FoundInv
  <2>1. CASE a = m /\ b = n /\ p \in localObj[m]
    BY <1>3, <2>1 DEF Clear
  <2>2. CASE a = m /\ b = n /\ p \notin localObj[m]
    <3>1. call[m][p].at = "noticed" /\ ~call[m][p].del
      BY <1>8, <2>2 DEF CallInv, IInv
    <3>2. call[m][p].del = FALSE
      BY <3>1, CallFacts DEF IInv
    <3>3. p \in ToSet(waiting[m][FALSE]) \/ n \in call[m][p].told
      BY <1>7, <2>2, <3>1, <3>2 DEF Clear
    <3>4. p \in ToSet(waiting[m][FALSE]) \/ Word(m, n, p, FALSE)
      BY <1>1, <1>6, <2>2, <3>1, <3>3 DEF FoundInv, IInv
    <3>5. QED
      BY <1>3, <2>2, <3>4
  <2>3. CASE ~(a = m /\ b = n)
    BY <1>2, <1>4, <1>6, <2>3 DEF FoundInv, IInv
  <2>4. QED
    BY <2>1, <2>2, <2>3
<1>15. QED
  BY <1>10, <1>11, <1>12, <1>13, <1>14 DEF IInv
LEMMA InvMultiQueueControl ==
    ASSUME IInv, TypeOK', NEW m \in Module, NEW n \in Module, MultiQueueControl(n, m)
    PROVE  IInv'
<1>1. PICK q \in Queues, h \in Notice :
        /\ h = Head(link[m][n]) /\ q = QueueOf(n, m)
        /\ link[m][n] # <<>>
        /\ \A p : About(p, link[m][n]) <=> h.obj = p \/ About(p, Tail(link[m][n]))
  <2>1. QueueOf(n, m) \in Queues /\ link[m][n] # <<>> /\ link[m][n] \in Seq(Notice)
    BY DEF QueueOf, Queues, MultiQueueControl, IInv, TypeOK
  <2>2. /\ Head(link[m][n]) \in Notice
        /\ \A p : About(p, link[m][n]) <=>
                    Head(link[m][n]).obj = p \/ About(p, Tail(link[m][n]))
    BY <2>1, TailNotice
  <2>3. QED
    BY <2>1, <2>2
<1>2. /\ UNCHANGED <<local, catchType, servers, joined, overwritten>>
      /\ disordered' = IF About(h.obj, queue[n][m][1 - q])
                       THEN disordered \cup {<<m, n, h.obj>>} ELSE disordered
  BY <1>1 DEF MultiQueueControl
<1>3. \A a, b \in Module :
        link'[a][b] = IF a = m /\ b = n THEN Tail(link[m][n]) ELSE link[a][b]
  <2> DEFINE rest == Tail(link[m][n])
  <2>1. link' = [link EXCEPT ![m][n] = rest]
    BY DEF MultiQueueControl
  <2>2. link \in [Module -> [Module -> Seq(Notice)]]
    BY DEF IInv, TypeOK
  <2> HIDE DEF rest
  <2>3. \A a, b \in Module : link'[a][b] = IF a = m /\ b = n THEN rest ELSE link[a][b]
    BY <2>1, <2>2
  <2>4. QED
    BY <2>3 DEF rest
<1>4. \A a, b \in Module, p \in Queues :
        queue'[b][a][p] = IF a = m /\ b = n /\ p = q THEN Append(queue[n][m][q], h)
                                                     ELSE queue[b][a][p]
  <2>1. queue' = [queue EXCEPT ![n][m][q] = Append(@, h)]
    BY <1>1 DEF MultiQueueControl
  <2> DEFINE s == Append(queue[n][m][q], h)
  <2>2. queue' = [queue EXCEPT ![n][m][q] = s]
    BY <2>1
  <2>3. queue \in [Module -> [Module -> [Queues -> Seq(Notice)]]]
    BY DEF IInv, TypeOK
  <2> HIDE DEF s
  <2>4. \A a, b \in Module, p \in Queues :
          queue'[b][a][p] = IF a = m /\ b = n /\ p = q THEN s ELSE queue[b][a][p]
    BY <2>2, <2>3
  <2>5. QED
    BY <2>4 DEF s
<1>5. \A p : About(p, Append(queue[n][m][q], h)) <=> About(p, queue[n][m][q]) \/ h.obj = p
  <2>1. queue[n][m][q] \in Seq(Notice)
    BY DEF IInv, TypeOK
  <2>2. QED
    BY <2>1, AppendNotice
<1>6. \A a, b \in Module, o \in Obj :
        /\ About(o, link'[a][b]) => About(o, link[a][b])
        /\ \A p \in Queues : About(o, queue'[b][a][p]) =>
             \/ About(o, queue[b][a][p])
             \/ a = m /\ b = n /\ p = q /\ o = h.obj
  BY <1>1, <1>3, <1>4, <1>5
<1>7. About(h.obj, link[m][n]) /\ n \in servers[m]
  BY <1>1 DEF IInv, HostInv
<1>8. \A a, b \in Module, o \in Obj, d \in BOOLEAN : Word(a, b, o, d) => Word(a, b, o, d)'
  <2> SUFFICES ASSUME NEW a \in Module, NEW b \in Module, NEW o \in Obj, NEW d \in BOOLEAN,
                      Word(a, b, o, d)
               PROVE  Word(a, b, o, d)'
    OBVIOUS
  <2>1. CASE a = m /\ b = n
    <3>1. /\ link'[m][n] = Tail(link[m][n]) /\ UNCHANGED catchType
          /\ \A p \in Queues : queue'[n][m][p] =
                IF p = q THEN Append(queue[n][m][q], Head(link[m][n])) ELSE queue[n][m][p]
      BY <1>1, <1>2, <1>3, <1>4
    <3>2. Word(m, n, o, d)
      BY <2>1
    <3>3. Word(m, n, o, d)'
      BY <1>1, <3>1, <3>2, WordReceived DEF IInv
    <3>4. QED
      BY <2>1, <3>3
  <2>2. CASE ~(a = m /\ b = n)
    BY <1>2, <1>3, <1>4, <2>2 DEF Word
  <2>3. QED
    BY <2>1, <2>2
<1>9. /\ \A a, b, o : Ordered(a, b, o)' => Ordered(a, b, o)
      /\ \A a, b, o : Clear(a, b, o)' => Clear(a, b, o)
      /\ \A a, o : Pending(a, o)' <=> Pending(a, o)
      /\ Ordered(m, n, h.obj)' => ~About(h.obj, queue[n][m][1 - q])
  BY <1>2 DEF Ordered, Clear, Pending
<1>10. HostInv'
  <2>1. \A a, b \in Module, o \in Obj : a \notin Hosts[o] =>
          /\ ~About(o, link'[a][b])
          /\ \A p \in Queues : ~About(o, queue'[b][a][p])
    BY <1>6, <1>7 DEF HostInv, IInv
  <2>2. \A a, b \in Module : b \notin servers[a] =>
          /\ link'[a][b] = link[a][b]
          /\ \A p \in Queues : queue'[b][a][p] = queue[b][a][p]
    BY <1>3, <1>4, <1>7
  <2>3. QED
    BY <1>2, <2>1, <2>2 DEF HostInv, IInv
<1>11. CallInv' /\ SelfInv'
  BY <1>2 DEF CallInv, SelfInv, IInv
<1>12. WaitInv'
  BY <1>2, <1>9 DEF WaitInv, IInv
<1>13. QueueInv'
  <2> SUFFICES ASSUME NEW a \in Module, NEW b \in Module, NEW o \in Obj,
                      Ordered(a, b, o)',
                      About(o, queue'[b][a][0]), About(o, queue'[b][a][1])
               PROVE  FALSE
    BY DEF QueueInv
  <2>1. ~About(o, queue[b][a][0]) \/ ~About(o, queue[b][a][1])
    BY <1>9 DEF QueueInv, IInv
  <2>2. a = m /\ b = n /\ o = h.obj
    BY <1>6, <2>1 DEF Queues
  <2>3. ~About(h.obj, queue[n][m][1 - q])
    BY <1>9, <2>2
  <2>4. CASE q = 0
    BY <1>6, <2>2, <2>3, <2>4 DEF Queues
  <2>5. CASE q = 1
    BY <1>6, <2>2, <2>3, <2>5 DEF Queues
  <2>6. QED
    BY <2>4, <2>5 DEF Queues
<1>14. StaleInv'
  BY <1>2, <1>8, <1>9 DEF StaleInv, IInv
<1>15. FoundInv'
  <2> SUFFICES ASSUME NEW a \in Module, NEW b \in Module, NEW o \in Obj,
                      a # b, Clear(a, b, o)', o \in objPool[a], Hosts[o] = {a},
                      \/ b \in joined[a]
                      \/ call[a][o].at = "noticed" /\ b \in call[a][o].told
               PROVE  \/ Pending(a, o)'
                      \/ o \in ToSet(waiting[a][FALSE])
                      \/ Word(a, b, o, FALSE)'
    BY <1>2 DEF FoundInv
  <2>1. \/ Pending(a, o)
        \/ o \in ToSet(waiting[a][FALSE])
        \/ Word(a, b, o, FALSE)
    BY <1>9 DEF FoundInv, IInv
  <2>2. QED
    BY <1>8, <1>9, <2>1
<1>16. QED
  BY <1>10, <1>11, <1>12, <1>13, <1>14, <1>15 DEF IInv

LEMMA InvOnMsgROCBind ==
    ASSUME IInv, TypeOK', NEW m \in Module, NEW n \in Module, NEW q \in Queues,
           OnMsgROCBind(n, m, q)
    PROVE  IInv'
<1>1. PICK h \in Notice :
        /\ h = Head(queue[n][m][q])
        /\ queue[n][m][q] # <<>>
        /\ \A p : About(p, queue[n][m][q]) <=> h.obj = p \/ About(p, Tail(queue[n][m][q]))
  <2>1. queue[n][m][q] # <<>> /\ queue[n][m][q] \in Seq(Notice)
    BY DEF OnMsgROCBind, IInv, TypeOK
  <2>2. /\ Head(queue[n][m][q]) \in Notice
        /\ \A p : About(p, queue[n][m][q]) <=>
                    Head(queue[n][m][q]).obj = p \/ About(p, Tail(queue[n][m][q]))
    BY <2>1, TailNotice
  <2>3. QED
    BY <2>1, <2>2
<1>2. UNCHANGED <<local, servers, joined, link, history>>
  BY DEF OnMsgROCBind
<1>3. \A a, b \in Module, p \in Queues :
        queue'[b][a][p] = IF a = m /\ b = n /\ p = q THEN Tail(queue[n][m][q])
                                                     ELSE queue[b][a][p]
  <2> DEFINE rest == Tail(queue[n][m][q])
  <2>1. queue' = [queue EXCEPT ![n][m][q] = rest]
    BY DEF OnMsgROCBind
  <2>2. queue \in [Module -> [Module -> [Queues -> Seq(Notice)]]]
    BY DEF IInv, TypeOK
  <2> HIDE DEF rest
  <2>3. \A a, b \in Module, p \in Queues :
          queue'[b][a][p] = IF a = m /\ b = n /\ p = q THEN rest ELSE queue[b][a][p]
    BY <2>1, <2>2
  <2>4. QED
    BY <2>3 DEF rest
<1>4. n \in servers[m] /\ m # n /\ h.obj \in Obj /\ m \in Hosts[h.obj]
  <2>1. h.obj \in Obj /\ About(h.obj, queue[n][m][q])
    BY <1>1 DEF Notice
  <2>2. n \in servers[m]
    BY <1>1 DEF HostInv, IInv
  <2>3. QED
    BY <2>1, <2>2 DEF HostInv, IInv
<1>5. \A b \in Module, o \in Obj :
        catchType'[b][o] =
            IF b = n /\ o = h.obj
            THEN IF h.del THEN IF catchType[n][o] = m THEN None ELSE catchType[n][o] ELSE m
            ELSE catchType[b][o]
  <2>1. catchType' = [catchType EXCEPT ![n] = Cached(@, m, h)]
    BY <1>1 DEF OnMsgROCBind
  <2>2. catchType \in [Module -> [Obj -> Module \cup {None}]]
    BY DEF IInv, TypeOK
  <2>3. CASE h.del
    <3>1. Cached(catchType[n], m, h)
            = [catchType[n] EXCEPT ![h.obj] = IF @ = m THEN None ELSE @]
      BY <2>3 DEF Cached, CacheDel
    <3>2. QED
      BY <1>4, <2>1, <2>2, <2>3, <3>1
  <2>4. CASE ~h.del
    <3>1. Cached(catchType[n], m, h) = [catchType[n] EXCEPT ![h.obj] = m]
      BY <2>4 DEF Cached, CacheSet
    <3>2. QED
      BY <1>4, <2>1, <2>2, <2>4, <3>1
  <2>5. QED
    BY <2>3, <2>4
<1>6. /\ \A a, b \in Module, o \in Obj :
           /\ ~(a = m /\ b = n) /\ catchType'[b][o] = a => catchType[b][o] = a
           /\ Hosts[o] = {a} /\ a # m => catchType'[b][o] = catchType[b][o]
      /\ \A o \in Obj : o # h.obj => catchType'[n][o] = catchType[n][o]
      /\ h.del => catchType'[n][h.obj] # m
      /\ ~h.del => catchType'[n][h.obj] = m
  BY <1>4, <1>5, ROCBindAssumption
<1>7. \A a, b \in Module, o \in Obj, p \in Queues :
        About(o, queue'[b][a][p]) => About(o, queue[b][a][p])
  BY <1>1, <1>3
<1>8. /\ \A a, b, o : Ordered(a, b, o)' <=> Ordered(a, b, o)
      /\ \A a, b, o : Clear(a, b, o)' <=> Clear(a, b, o)
      /\ \A a, o : Pending(a, o)' <=> Pending(a, o)
  BY <1>2 DEF Ordered, Clear, Pending
<1>9. \A o \in Obj, d \in BOOLEAN : Ordered(m, n, o) /\ Word(m, n, o, d) => Word(m, n, o, d)'
  <2> SUFFICES ASSUME NEW o \in Obj, NEW d \in BOOLEAN, Ordered(m, n, o), Word(m, n, o, d)
               PROVE  Word(m, n, o, d)'
    OBVIOUS
  <2>1. /\ link' = link /\ queue[n][m][q] # <<>>
        /\ \A p \in Queues : queue'[n][m][p] =
              IF p = q THEN Tail(queue[n][m][q]) ELSE queue[n][m][p]
    BY <1>1, <1>2, <1>3
  <2>2. /\ Head(queue[n][m][q]).obj # o => catchType'[n][o] = catchType[n][o]
        /\ Head(queue[n][m][q]) = [del |-> d, obj |-> o] => (catchType'[n][o] = m <=> ~d)
    BY <1>1, <1>6
  <2>3. QED
    BY <2>1, <2>2, WordHandled DEF IInv
<1>10. \A a, b \in Module, o \in Obj :
         ~(a = m /\ b = n) /\ Word(a, b, o, TRUE) => Word(a, b, o, TRUE)'
  <2> SUFFICES ASSUME NEW a \in Module, NEW b \in Module, NEW o \in Obj, ~(a = m /\ b = n)
               PROVE  Word(a, b, o, TRUE) => Word(a, b, o, TRUE)'
    OBVIOUS
  <2>1. /\ link'[a][b] = link[a][b]
        /\ \A p \in Queues : queue'[b][a][p] = queue[b][a][p]
        /\ catchType'[b][o] = a => catchType[b][o] = a
    BY <1>2, <1>3, <1>6
  <2>2. QED
    BY <2>1, WordSame
<1>11. \A a, b \in Module, o \in Obj :
         /\ ~(a = m /\ b = n) /\ Hosts[o] = {a} /\ a # b /\ Word(a, b, o, FALSE)
         => Word(a, b, o, FALSE)'
  <2> SUFFICES ASSUME NEW a \in Module, NEW b \in Module, NEW o \in Obj,
                      ~(a = m /\ b = n), Hosts[o] = {a}, Word(a, b, o, FALSE)
               PROVE  Word(a, b, o, FALSE)'
    OBVIOUS
  <2>1. /\ link'[a][b] = link[a][b]
        /\ \A p \in Queues : queue'[b][a][p] = queue[b][a][p]
    BY <1>2, <1>3
  <2>2. catchType'[b][o] = catchType[b][o]
    BY <1>5, <1>6
  <2>3. QED
    BY <2>1, <2>2, WordSame
<1>12. HostInv'
  <2>1. \A a, b \in Module : b \notin servers[a] =>
          /\ \A p \in Queues : queue'[b][a][p] = queue[b][a][p]
          /\ \A o \in Obj : catchType[b][o] # a => catchType'[b][o] # a
    BY <1>3, <1>4, <1>6
  <2>2. QED
    BY <1>2, <1>7, <2>1 DEF HostInv, IInv
<1>13. CallInv'
  BY <1>2 DEF CallInv, IInv
<1>14. SelfInv'
  <2>1. \A a \in Module, o \in Obj :
          /\ catchType'[a][o] = a => catchType[a][o] = a
          /\ Hosts[o] = {a} /\ catchType[a][o] = a => catchType'[a][o] = a
    BY <1>4, <1>5, <1>6
  <2>2. QED
    BY <1>2, <2>1 DEF SelfInv, IInv
<1>15. WaitInv'
  BY <1>2, <1>8 DEF WaitInv, IInv
<1>16. QueueInv'
  BY <1>7, <1>8 DEF QueueInv, IInv, Queues
<1>17. StaleInv'
  <2> SUFFICES ASSUME NEW a \in Module, NEW b \in Module, NEW o \in Obj,
                      a # b, Clear(a, b, o), o \notin objPool[a], ~Pending(a, o),
                      o \notin ToSet(waiting[a][TRUE])
               PROVE  Word(a, b, o, TRUE)'
    BY <1>2, <1>8 DEF StaleInv
  <2>1. Word(a, b, o, TRUE)
    BY DEF StaleInv, IInv
  <2>2. QED
    BY <1>9, <1>10, <2>1 DEF Clear
<1>18. FoundInv'
  <2> SUFFICES ASSUME NEW a \in Module, NEW b \in Module, NEW o \in Obj,
                      a # b, Clear(a, b, o), o \in objPool[a], Hosts[o] = {a},
                      \/ b \in joined[a]
                      \/ call[a][o].at = "noticed" /\ b \in call[a][o].told,
                      ~Pending(a, o), o \notin ToSet(waiting[a][FALSE])
               PROVE  Word(a, b, o, FALSE)'
    BY <1>2, <1>8 DEF FoundInv
  <2>1. Word(a, b, o, FALSE)
    BY DEF FoundInv, IInv
  <2>2. QED
    BY <1>9, <1>11, <2>1 DEF Clear
<1>19. QED
  BY <1>12, <1>13, <1>14, <1>15, <1>16, <1>17, <1>18 DEF IInv
-----------------------------------------------------------------------------
LEMMA InvInit == Init => IInv
<1> SUFFICES ASSUME Init
             PROVE  IInv
  OBVIOUS
<1>1. TypeOK
  BY TypeInit
<1>2. /\ \A m, n \in Module : link[m][n] = <<>>
      /\ \A m, n \in Module, q \in Queues : queue[n][m][q] = <<>>
      /\ \A m \in Module, o \in Obj : /\ catchType[m][o] = None
                                      /\ call[m][o].at = "idle"
      /\ \A m \in Module : /\ servers[m] = {} /\ joined[m] = {}
                           /\ objPool[m] = {} /\ localObj[m] = {}
      /\ \A m \in Module, del \in BOOLEAN, o \in Obj : o \notin ToSet(waiting[m][del])
  BY DEF Init, Idle, ToSet
<1>3. \A m \in Module, n \in Module, o \in Obj : Word(m, n, o, TRUE)
  BY <1>2, WordSilent, ROCBindAssumption
<1>4. HostInv
  BY <1>2, NothingAbout, ROCBindAssumption DEF HostInv
<1>5. CallInv /\ SelfInv /\ WaitInv
  BY <1>2, ROCBindAssumption DEF CallInv, SelfInv, WaitInv
<1>6. QueueInv
  BY <1>2, NothingAbout DEF QueueInv, Queues
<1>7. StaleInv /\ FoundInv
  BY <1>2, <1>3 DEF StaleInv, FoundInv
<1>8. QED
  BY <1>1, <1>4, <1>5, <1>6, <1>7 DEF IInv

LEMMA InvStep == IInv /\ [Next]_vars => IInv'
<1> SUFFICES ASSUME IInv, [Next]_vars
             PROVE  IInv'
  OBVIOUS
<1>1. TypeOK'
  BY TypeStep DEF IInv
<1>2. CASE UNCHANGED vars
  <2>1. /\ \A m, n, o, d : Word(m, n, o, d)' <=> Word(m, n, o, d)
        /\ \A m, o : Pending(m, o)' <=> Pending(m, o)
        /\ \A m, n, o : Ordered(m, n, o)' <=> Ordered(m, n, o)
        /\ \A m, n, o : Clear(m, n, o)' <=> Clear(m, n, o)
    BY <1>2, WordUnchanged DEF vars, Pending, Ordered, Clear
  <2>2. HostInv' /\ CallInv' /\ SelfInv'
    BY <1>2 DEF vars, IInv, HostInv, CallInv, SelfInv
  <2>3. WaitInv' /\ QueueInv'
    BY <1>2, <2>1 DEF vars, IInv, WaitInv, QueueInv
  <2>4. StaleInv' /\ FoundInv'
    BY <1>2, <2>1 DEF vars, IInv, StaleInv, FoundInv
  <2>5. QED
    BY <1>1, <2>2, <2>3, <2>4 DEF IInv
<1>3. ASSUME NEW m \in Module, NEW o \in Obj, RegObj(m, o) \/ DelObj(m, o)
      PROVE  IInv'
  <2>1. CASE RegObj(m, o)
    BY <1>1, <2>1, InvStart DEF RegObj
  <2>2. CASE DelObj(m, o)
    <3>1. m \in Hosts[o]
      BY <2>2 DEF DelObj, IInv, HostInv
    <3>2. QED
      BY <1>1, <2>2, <3>1, InvStart DEF DelObj
  <2>3. QED
    BY <1>3, <2>1, <2>2
<1>4. ASSUME NEW m \in Module, NEW o \in Obj, OnROCObj(m, o)
      PROVE  IInv'
  BY <1>1, <1>4, InvSetCache, InvNotify, InvEnqueue, InvRecord DEF OnROCObj
<1>5. ASSUME NEW m \in Module, NEW del \in BOOLEAN, NoticeProcess(m, del)
      PROVE  IInv'
  BY <1>1, <1>5, InvNoticeProcess
<1>6. ASSUME NEW m \in Module, NEW n \in Module, m # n, AddServer(m, n)
      PROVE  IInv'
  BY <1>1, <1>6, InvAddServer
<1>7. ASSUME NEW m \in Module, NEW n \in Module, JoinSubnet(m, n) \/ MultiQueueControl(n, m)
      PROVE  IInv'
  BY <1>1, <1>7, InvJoinSubnet, InvMultiQueueControl
<1>8. ASSUME NEW m \in Module, NEW n \in Module, NEW q \in Queues, OnMsgROCBind(n, m, q)
      PROVE  IInv'
  BY <1>1, <1>8, InvOnMsgROCBind
<1>9. QED
  BY <1>2, <1>3, <1>4, <1>5, <1>6, <1>7, <1>8 DEF Next, Application

LEMMA InvCorrect == Spec => []IInv
BY InvInit, InvStep, PTL DEF Spec

(* What n believes of o at m, when all that m said of it has arrived.       *)
LEMMA LastWord ==
    ASSUME IInv, NEW m \in Module, NEW n \in Module, NEW o \in Obj, Arrived(m, n, o)
    PROVE  /\ call[m][o].at = "idle" /\ ~Pending(m, o)
           /\ \A del \in BOOLEAN : o \notin ToSet(waiting[m][del])
           /\ \A del : Word(m, n, o, del) => (catchType[n][o] = m <=> ~del)
BY FinalAbout DEF Arrived, OnItsWay, Busy, Pending, Word

(* No module believes for good in an object that is gone: when all that the *)
(* host said of an object has arrived, in order and with the list's last    *)
(* name, a module that takes the host for it is right (Cache.Set and Del,   *)
(* OnROCObjAdd and OnROCObjDel, sendROCBindMsg, rocObjNoticeProcess,        *)
(* onServerJoinSubnet and onMsgROCBind, in every order of their steps).     *)
THEOREM NoticesAreCurrent == Spec => []NotStale
<1>1. IInv => NotStale
  <2> SUFFICES ASSUME IInv, NEW m \in Module, NEW n \in Module, NEW o \in Obj,
                      Settled(m, n, o), catchType[n][o] = m
               PROVE  o \in objPool[m]
    BY DEF NotStale
  <2>1. /\ Arrived(m, n, o) /\ Clear(m, n, o)
    BY DEF Settled, Arrived, Clear, Ordered
  <2>2. CASE m = n
    BY <2>1, <2>2, LastWord DEF IInv, SelfInv
  <2>3. CASE m # n
    <3>1. ~Word(m, n, o, TRUE)
      BY <2>1, LastWord
    <3>2. QED
      BY <2>1, <2>3, <3>1, LastWord DEF IInv, StaleInv
  <2>4. QED
    BY <2>2, <2>3
<1>2. QED
  BY <1>1, InvCorrect, PTL

(* A module that joined finds every object that one module hosts: what it   *)
(* was told before, when and after it joined adds up to what the host has   *)
(* (the order of objPool, the cache, the notice and localObj in OnROCObjAdd *)
(* against onServerJoinSubnet).                                             *)
THEOREM JoinedFind == Spec => []Found
<1>1. IInv => Found
  <2> SUFFICES ASSUME IInv, NEW m \in Module, NEW n \in Module, NEW o \in Obj,
                      Joined(n, m, o), Settled(m, n, o)
               PROVE  catchType[n][o] = m
    BY DEF Found
  <2>1. /\ Arrived(m, n, o) /\ Clear(m, n, o)
        /\ Hosts[o] = {m} /\ o \in objPool[m] /\ (n = m \/ n \in joined[m])
    BY DEF Settled, Arrived, Clear, Ordered, Joined
  <2>2. CASE n = m
    BY <2>1, <2>2, LastWord DEF IInv, SelfInv
  <2>3. CASE n # m
    <3>1. Word(m, n, o, FALSE)
      BY <2>1, <2>3, LastWord DEF IInv, FoundInv
    <3>2. QED
      BY <2>1, <3>1, LastWord
  <2>4. QED
    BY <2>2, <2>3
<1>2. QED
  BY <1>1, InvCorrect, PTL
=============================================================================
