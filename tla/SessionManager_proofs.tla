----------------------- MODULE SessionManager_proofs ------------------------
(***************************************************************************)
(* Theorems about SessionManager, for any set of modules, that is of       *)
(* commands that overlap, and any set of connections of the user: type     *)
(* correctness, that no session is kept without its UUID, and that what a  *)
(* command wrote stays in what is kept.                                    *)
(***************************************************************************)
EXTENDS SessionManager, TLAPS

-----------------------------------------------------------------------------
(* The inductive invariant, in six parts.                                  *)

Place == {"update", "find", "load", "complete", "login", "old", "mergeOld", "new",
          "mergeNew", "mergeKept", "set", "store", "write", "done"}

TypeInv ==
    /\ TypeOK
    /\ object = [o \in Object |-> object[o]]
    /\ pc \in [Module -> Place]

\* A session of no other user than this one.
IsOfUser(session) ==
    IsSession(session) /\ (IsVertify(session) => session["uuid"] = UUID)

UserInv == \A o \in Object : IsOfUser(object[o])

\* g has not taken up its session yet.
Begins(g) == pc[g] \in {"update", "find", "login"}

PlaceInv ==
    \A g \in Module :
        /\ pc[g] = "update" => job[g].op = "update" /\ s[g] = None
        /\ ~Begins(g) => s[g] # None
        /\ pc[g] \in {"complete", "mergeOld", "mergeNew", "mergeKept", "write"} =>
              local[g] # None

\* What is kept has the UUID, and so has what is about to be.
NamedInv ==
    /\ kept # None => IsVertify(object[kept])
    /\ \A g \in Module : pc[g] \in {"find", "load", "mergeKept", "store"} =>
          s[g] = None \/ IsVertify(object[s[g]])

\* The object that g may make is nobody's before.
FreshInv ==
    \A g \in Module : Begins(g) =>
        kept # g /\ \A h \in Module : s[h] # g /\ local[h] # g

\* The key g is in what is kept, in what is about to replace it, or in what this is
\* about to take over from.
Safe(g) ==
    /\ kept # None /\ HasKey(object[kept], g)
    /\ \A h \in Module :
        /\ pc[h] \in {"set", "store"} => HasKey(object[s[h]], g)
        /\ pc[h] \in {"mergeNew", "mergeKept"} =>
              HasKey(object[s[h]], g) \/ HasKey(object[local[h]], g)

SafeInv == \A g \in Module : pc[g] = "done" => g \in outdated \/ Safe(g)

IInv == TypeInv /\ UserInv /\ PlaceInv /\ NamedInv /\ FreshInv /\ SafeInv
-----------------------------------------------------------------------------
(* What the operations on sessions keep.                                   *)

\* A key is never taken away.
LEMMA FromMapKeys ==
    ASSUME NEW a, NEW b
    PROVE  DOMAIN FromMap(a, b) = DOMAIN a \cup DOMAIN b
BY DEF FromMap

LEMMA FromMapOfUser ==
    ASSUME NEW a, NEW b, IsOfUser(a), IsOfUser(b)
    PROVE  IsOfUser(FromMap(a, b))
BY DEF FromMap, IsOfUser, IsSession, IsVertify, HasKey

LEMMA AddKeys ==
    ASSUME NEW a, NEW b
    PROVE  DOMAIN OnlyAddKeyFromSession(a, b) = DOMAIN a \cup DOMAIN b
BY FromMapKeys DEF OnlyAddKeyFromSession

LEMMA AddOfUser ==
    ASSUME NEW a, NEW b, IsOfUser(a), IsOfUser(b)
    PROVE  IsOfUser(OnlyAddKeyFromSession(a, b))
BY FromMapOfUser DEF OnlyAddKeyFromSession

LEMMA SetKeys ==
    ASSUME NEW a, NEW k, NEW v
    PROVE  DOMAIN Set(a, k, v) = DOMAIN a \cup {k}
BY FromMapKeys DEF Set

LEMMA SetOfUser ==
    ASSUME NEW a, IsOfUser(a), NEW k \in Key, NEW v \in ValueOf(k),
           k = "uuid" => v = UUID
    PROVE  IsOfUser(Set(a, k, v))
<1>1. IsOfUser([x \in {k} |-> v])
  BY DEF IsOfUser, IsSession, IsVertify, HasKey
<1>2. QED
  BY <1>1, FromMapOfUser DEF Set

LEMMA NamedOfUser ==
    ASSUME NEW a, IsOfUser(a)
    PROVE  IsOfUser(Named(a)) /\ IsVertify(Named(a)) /\ DOMAIN a \subseteq DOMAIN Named(a)
<1>1. "uuid" \in Key /\ UUID \in ValueOf("uuid")
  BY UUIDAssumption DEF Key, ValueOf
<1>2. IsOfUser(Named(a))
  BY <1>1, SetOfUser DEF Named
<1>3. DOMAIN Named(a) = DOMAIN a \cup {"uuid"}
  BY SetKeys DEF Named
<1>4. QED
  BY <1>2, <1>3 DEF IsVertify, HasKey

LEMMA BindOfUser ==
    ASSUME NEW a, IsOfUser(a), NEW g \in Module
    PROVE  IsOfUser(SetBind(a, g)) /\ DOMAIN SetBind(a, g) = DOMAIN a \cup {g}
<1>1. g \in Key /\ g \in ValueOf(g) /\ g # "uuid"
  BY KeyAssumption DEF Key, ValueOf
<1>2. QED
  BY <1>1, SetOfUser, SetKeys DEF SetBind

LEMMA NewOfUser == IsOfUser(NewSession) /\ DOMAIN NewSession = {}
BY DEF NewSession, IsOfUser, IsSession, IsVertify, HasKey

LEMMA ClientOfUser ==
    ASSUME NEW c \in Conn
    PROVE  IsOfUser(Client(c))
<1>1. "conn" \in Key /\ c \in ValueOf("conn") /\ "conn" # "uuid"
  BY DEF Key, ValueOf
<1>2. QED
  BY <1>1, NewOfUser, SetOfUser DEF Client

\* The session that comes with a command; an update's has the UUID and the key.
LEMMA DataOfUser ==
    ASSUME TypeOK, NEW g \in Module
    PROVE  /\ IsOfUser(Data(g))
           /\ job[g].op = "update" => IsVertify(Data(g)) /\ HasKey(Data(g), g)
<1>1. job[g].conn \in Conn
  BY DEF TypeOK, Job
<1> DEFINE base == Client(job[g].conn)
<1>2. IsOfUser(base)
  BY <1>1, ClientOfUser
<1>3. Data(g) = IF job[g].op = "update" THEN SetBind(Named(base), g)
                ELSE IF job[g].verified THEN Named(base) ELSE base
  BY DEF Data
<1> HIDE DEF base
<1>4. IsOfUser(Named(base)) /\ IsVertify(Named(base))
  BY <1>2, NamedOfUser
<1>5. /\ IsOfUser(SetBind(Named(base), g))
      /\ DOMAIN SetBind(Named(base), g) = DOMAIN Named(base) \cup {g}
  BY <1>4, BindOfUser
<1>6. QED
  BY <1>2, <1>3, <1>4, <1>5 DEF IsVertify, HasKey
-----------------------------------------------------------------------------
(* The invariant holds initially.                                          *)

LEMMA InitObjects == Init => UserInv /\ object = [o \in Object |-> object[o]]
<1> SUFFICES ASSUME Init PROVE UserInv /\ object = [o \in Object |-> object[o]]
  OBVIOUS
<1>1. PICK first \in Conn :
         object = [o \in Object |->
            IF o \in Conn THEN Client(o)
            ELSE IF o = kept THEN Named(Client(first)) ELSE NewSession]
  BY DEF Init
<1>2. /\ IsOfUser(NewSession)
      /\ IsOfUser(Named(Client(first)))
      /\ \A o \in Conn : IsOfUser(Client(o))
  BY NewOfUser, ClientOfUser, NamedOfUser
<1>3. UserInv
  BY <1>1, <1>2 DEF UserInv
<1>4. QED
  BY <1>1, <1>3

LEMMA InitInv == Init => IInv
<1> SUFFICES ASSUME Init PROVE IInv
  OBVIOUS
<1>1. UserInv /\ object = [o \in Object |-> object[o]]
  BY InitObjects
<1>2. /\ job \in [Module -> Job]
      /\ pc \in [Module -> {"update", "login"}]
      /\ \A g \in Module : pc[g] = job[g].op
      /\ s = [g \in Module |-> None] /\ local = [g \in Module |-> None]
  BY DEF Init, Job
<1>3. TypeInv
  BY <1>1, <1>2 DEF Init, TypeInv, TypeOK, Place, Object, UserInv, IsOfUser
<1>4. PlaceInv /\ SafeInv
  BY <1>2 DEF PlaceInv, SafeInv, Begins
<1>5. FreshInv
  BY <1>2, ObjectAssumption DEF Init, FreshInv, Object
<1>6. NamedInv
  <2>1. ASSUME kept # None
        PROVE  IsVertify(object[kept])
    <3>1. kept = UUID /\ kept \in Object /\ kept \notin Conn
      BY <2>1, ObjectAssumption DEF Init, Object
    <3>2. PICK first \in Conn : object[kept] = Named(Client(first))
      BY <3>1 DEF Init
    <3>3. QED
      BY <3>2, ClientOfUser, NamedOfUser
  <2>2. QED
    BY <1>2, <2>1 DEF NamedInv
<1>7. QED
  BY <1>1, <1>3, <1>4, <1>5, <1>6 DEF IInv
-----------------------------------------------------------------------------
(* The objects: what is written into one has all that it had, except for   *)
(* the object that a goroutine makes.                                      *)

ObjectsGrow(g) ==
    /\ object' = [o \in Object |-> object'[o]]
    /\ UserInv'
    /\ \A o \in Object : (o = g => ~Begins(g)) => DOMAIN object[o] \subseteq DOMAIN object'[o]

LEMMA WriteGrows ==
    ASSUME TypeInv, UserInv, NEW g \in Module, NEW o \in Object, NEW session,
           Write(o, session), IsOfUser(session),
           (o = g => ~Begins(g)) => DOMAIN object[o] \subseteq DOMAIN session
    PROVE  ObjectsGrow(g) /\ object'[o] = session
<1>1. object = [p \in Object |-> object[p]] /\ object' = [object EXCEPT ![o] = session]
  BY DEF TypeInv, Write
<1>2. \A p \in Object : object'[p] = IF p = o THEN session ELSE object[p]
  BY <1>1
<1>3. UserInv'
  BY <1>2 DEF UserInv
<1>4. object' = [p \in Object |-> object'[p]]
  BY <1>1
<1>5. QED
  BY <1>2, <1>3, <1>4 DEF ObjectsGrow

LEMMA SameGrows ==
    ASSUME TypeInv, UserInv, NEW g \in Module, UNCHANGED object
    PROVE  ObjectsGrow(g)
BY DEF ObjectsGrow, TypeInv, UserInv

LEMMA MergeGrows ==
    ASSUME TypeInv, UserInv, NEW g \in Module, NEW o \in Object, NEW p \in Object,
           Write(o, OnlyAddKeyFromSession(object[o], object[p]))
    PROVE  ObjectsGrow(g) /\ DOMAIN object'[o] = DOMAIN object[o] \cup DOMAIN object[p]
<1> DEFINE session == OnlyAddKeyFromSession(object[o], object[p])
<1>1. IsOfUser(session)
  BY AddOfUser DEF UserInv
<1>2. DOMAIN session = DOMAIN object[o] \cup DOMAIN object[p]
  BY AddKeys
<1>3. Write(o, session)
  OBVIOUS
<1> HIDE DEF session
<1>4. QED
  BY <1>1, <1>2, <1>3, WriteGrows

LEMMA DataGrows ==
    ASSUME TypeInv, UserInv, NEW g \in Module, NEW o \in Object,
           Write(o, FromMap(object[o], Data(g)))
    PROVE  ObjectsGrow(g) /\ DOMAIN object'[o] = DOMAIN object[o] \cup DOMAIN Data(g)
<1> DEFINE session == FromMap(object[o], Data(g))
<1>1. IsOfUser(session)
  BY FromMapOfUser, DataOfUser DEF UserInv, TypeInv
<1>2. DOMAIN session = DOMAIN object[o] \cup DOMAIN Data(g)
  BY FromMapKeys
<1>3. Write(o, session)
  OBVIOUS
<1> HIDE DEF session
<1>4. QED
  BY <1>1, <1>2, <1>3, WriteGrows

LEMMA ObjectsStep ==
    ASSUME TypeInv, UserInv, PlaceInv, NEW g \in Module, Handles(g)
    PROVE  ObjectsGrow(g)
<1>1. CASE Connected(g)
  <2>1. \/ UNCHANGED object
        \/ Write(job[g].conn, FromMap(object[job[g].conn], Data(g)))
    BY <1>1 DEF Connected
  <2>2. job[g].conn \in Object
    BY DEF TypeInv, TypeOK, Job, Object
  <2>3. QED
    BY <2>1, <2>2, SameGrows, DataGrows
<1>2. CASE SessionOf(g)
  <2>1. UNCHANGED object \/ Write(g, FromMap(NewSession, Data(g)))
    BY <1>2 DEF SessionOf
  <2>2. IsOfUser(FromMap(NewSession, Data(g)))
    BY NewOfUser, FromMapOfUser, DataOfUser DEF TypeInv
  <2>3. g \in Object /\ Begins(g)
    BY <1>2 DEF SessionOf, At, Begins, Object
  <2>4. QED
    BY <2>1, <2>2, <2>3, SameGrows, WriteGrows
<1>3. CASE Complete(g)
  <2>1. s[g] \in Object /\ local[g] \in Object
    BY <1>3 DEF Complete, At, PlaceInv, Begins, TypeInv, TypeOK
  <2>2. QED
    BY <1>3, <2>1, MergeGrows DEF Complete
<1>4. CASE Merge(g)
  <2>1. s[g] \in Object /\ local[g] \in Object
    BY <1>4 DEF Merge, At, PlaceInv, Begins, TypeInv, TypeOK
  <2>2. QED
    BY <1>4, <2>1, MergeGrows DEF Merge
<1>5. CASE SetUUID(g)
  <2>1. s[g] \in Object /\ Write(s[g], Named(object[s[g]]))
    BY <1>5 DEF SetUUID, At, PlaceInv, Begins, TypeInv, TypeOK
  <2>2. IsOfUser(object[s[g]])
    BY <2>1 DEF UserInv
  <2>3. QED
    BY <2>1, <2>2, NamedOfUser, WriteGrows
<1>6. CASE WriteData(g)
  <2>1. local[g] \in Object
    BY <1>6 DEF WriteData, At, PlaceInv, Begins, TypeInv, TypeOK
  <2>2. \/ Write(local[g], FromMap(object[local[g]], Data(g)))
        \/ Write(local[g], SetBind(object[local[g]], g))
    BY <1>6 DEF WriteData
  <2>3. CASE Write(local[g], FromMap(object[local[g]], Data(g)))
    BY <2>1, <2>3, DataGrows
  <2>4. CASE Write(local[g], SetBind(object[local[g]], g))
    <3> DEFINE session == SetBind(object[local[g]], g)
    <3>1. IsOfUser(session) /\ DOMAIN object[local[g]] \subseteq DOMAIN session
      BY <2>1, BindOfUser DEF UserInv
    <3>2. Write(local[g], session)
      BY <2>4
    <3> HIDE DEF session
    <3>3. QED
      BY <2>1, <3>1, <3>2, WriteGrows
  <2>5. QED
    BY <2>2, <2>3, <2>4
<1>7. CASE Find(g) \/ Load(g) \/ Old(g) \/ New(g) \/ Store(g)
  BY <1>7, SameGrows DEF Find, Load, Old, New, Store
<1>8. QED
  BY <1>1, <1>2, <1>3, <1>4, <1>5, <1>6, <1>7 DEF Handles
-----------------------------------------------------------------------------
(* What else a step of a goroutine changes.                                *)

Moves(g) ==
    /\ UNCHANGED job
    /\ pool' \subseteq pool
    /\ outdated' \in {outdated, outdated \cup {g}}
    /\ pc' = [pc EXCEPT ![g] = pc'[g]] /\ pc'[g] \in Place
    /\ s' = [s EXCEPT ![g] = s'[g]] /\ s'[g] \in {s[g], kept, g, job[g].conn}
    /\ local' = [local EXCEPT ![g] = local'[g]]
    /\ local'[g] \in {local[g], kept, s[g], None}
    /\ kept' = kept \/ (kept' = s[g] /\ ~Begins(g))
    /\ Begins(g)' => Begins(g) /\ s'[g] # g

LEMMA HandlesMoves ==
    ASSUME TypeInv, NamedInv, PlaceInv, FreshInv, NEW g \in Module, Handles(g)
    PROVE  Moves(g)
<1>1. /\ \A h \in Module : pc[h] \in Place
      /\ pc = [h \in Module |-> pc[h]]
      /\ s = [h \in Module |-> s[h]]
      /\ local = [h \in Module |-> local[h]]
  BY DEF TypeInv, TypeOK
<1>2. job[g].conn \in Conn /\ job[g].conn # g
  BY ObjectAssumption DEF TypeInv, TypeOK, Job
<1>3. CASE Connected(g)
  BY <1>1, <1>2, <1>3 DEF Connected, At, Goto, Moves, Place, Begins, FreshInv
<1>4. CASE Find(g)
  BY <1>1, <1>4 DEF Find, At, Goto, Moves, Place, Begins
<1>5. CASE Load(g)
  <2>1. IsVertify(object[s[g]])
    BY <1>5 DEF Load, At, PlaceInv, Begins, NamedInv
  <2>2. QED
    BY <1>1, <1>5, <2>1 DEF Load, At, Goto, Moves, Place, Begins
<1>6. CASE Complete(g) \/ SetUUID(g)
  BY <1>1, <1>6 DEF Complete, SetUUID, At, Goto, Moves, Place, Begins
<1>7. CASE SessionOf(g) \/ Old(g) \/ New(g)
  BY <1>1, <1>7 DEF SessionOf, Old, New, At, Goto, Moves, Place, Begins
<1>8. CASE Merge(g)
  BY <1>1, <1>8 DEF Merge, At, Goto, Moves, Place, Begins
<1>9. CASE Store(g)
  BY <1>1, <1>9 DEF Store, At, Goto, Moves, Place, Begins
<1>10. CASE WriteData(g)
  BY <1>1, <1>10 DEF WriteData, At, Goto, Moves, Place, Begins
<1>11. QED
  BY <1>3, <1>4, <1>5, <1>6, <1>7, <1>8, <1>9, <1>10 DEF Handles

LEMMA TypeStep ==
    ASSUME TypeInv, NEW g \in Module, Moves(g), ObjectsGrow(g)
    PROVE  TypeInv'
<1>1. kept' \in Object \cup {None}
  BY DEF Moves, TypeInv, TypeOK
<1>2. s'[g] \in Object \cup {None} /\ local'[g] \in Object \cup {None}
  BY DEF Moves, TypeInv, TypeOK, Object, Job
<1>3. /\ pc' \in [Module -> Place]
      /\ s' \in [Module -> Object \cup {None}]
      /\ local' \in [Module -> Object \cup {None}]
  BY <1>2 DEF Moves, TypeInv, TypeOK
<1>4. \A o \in Object : IsSession(object'[o])
  BY DEF ObjectsGrow, UserInv, IsOfUser
<1>5. QED
  BY <1>1, <1>3, <1>4 DEF Moves, ObjectsGrow, TypeInv, TypeOK

LEMMA FreshStep ==
    ASSUME TypeInv, FreshInv, NEW g \in Module, Moves(g)
    PROVE  FreshInv'
<1> SUFFICES ASSUME NEW h \in Module, Begins(h)', NEW k \in Module
             PROVE  kept' # h /\ s'[k] # h /\ local'[k] # h
  BY DEF FreshInv
<1>1. Begins(h) /\ (h = g => s'[g] # g)
  BY DEF Moves, Begins, TypeInv
<1>2. kept # h /\ \A l \in Module : s[l] # h /\ local[l] # h
  BY <1>1 DEF FreshInv
<1>3. kept' # h
  BY <1>2 DEF Moves
<1>4. s'[g] # h
  BY <1>1, <1>2, ObjectAssumption DEF Moves, Object, TypeInv, TypeOK, Job
<1>5. local'[g] # h
  BY <1>2, ObjectAssumption DEF Moves, Object
<1>6. s'[k] \in {s[k], s'[g]} /\ local'[k] \in {local[k], local'[g]}
  BY DEF Moves, TypeInv, TypeOK
<1>7. QED
  BY <1>2, <1>3, <1>4, <1>5, <1>6

LEMMA PlaceStep ==
    ASSUME TypeInv, PlaceInv, NEW g \in Module, Handles(g), Moves(g)
    PROVE  PlaceInv'
<1> DEFINE Own ==
        /\ pc'[g] # "update"
        /\ ~Begins(g)' => s'[g] # None
        /\ pc'[g] \in {"complete", "mergeOld", "mergeNew", "mergeKept", "write"} =>
              local'[g] # None
<1>1. /\ pc' = [pc EXCEPT ![g] = pc'[g]] /\ pc \in [Module -> Place]
      /\ s' = [s EXCEPT ![g] = s'[g]] /\ s \in [Module -> Object \cup {None}]
      /\ local' = [local EXCEPT ![g] = local'[g]]
      /\ local \in [Module -> Object \cup {None}]
  BY DEF Moves, TypeInv, TypeOK
<1>2. Connected(g) => Own
  BY <1>1 DEF Connected, Goto, Begins
<1>3. Find(g) => Own
  BY <1>1, ObjectAssumption DEF Find, Goto, Begins, Object
<1>4. Load(g) => Own
  BY <1>1 DEF Load, At, Goto, PlaceInv, Begins
<1>5. SessionOf(g) => Own
  BY <1>1, ObjectAssumption DEF SessionOf, Goto, Begins, Object
<1>6. Old(g) \/ New(g) => Own
  BY <1>1 DEF Old, New, At, Goto, PlaceInv, Begins
<1>7. Complete(g) \/ SetUUID(g) \/ WriteData(g) => Own
  BY <1>1 DEF Complete, SetUUID, WriteData, At, Goto, PlaceInv, Begins
<1>8. Merge(g) \/ Store(g) => Own
  BY <1>1 DEF Merge, Store, At, Goto, PlaceInv, Begins
<1>9. Own
  BY <1>2, <1>3, <1>4, <1>5, <1>6, <1>7, <1>8 DEF Handles
<1> HIDE DEF Own
<1>10. ASSUME NEW h \in Module \ {g}
       PROVE  /\ pc'[h] = pc[h] /\ s'[h] = s[h] /\ local'[h] = local[h]
              /\ job' = job
  BY <1>1 DEF Moves
<1>11. QED
  BY <1>9, <1>10 DEF PlaceInv, Begins, Own
-----------------------------------------------------------------------------
(* What has the UUID, or a key, keeps it, and what replaces it has it too. *)

\* A session that anybody works on, or that is kept, has the keys that it had.
LEMMA KeysStay ==
    ASSUME TypeInv, FreshInv, NEW g \in Module, ObjectsGrow(g), NEW o \in Object,
           o = kept \/ \E h \in Module : o = s[h] \/ o = local[h], NEW k
    PROVE  HasKey(object[o], k) => HasKey(object'[o], k)
BY DEF FreshInv, ObjectsGrow, HasKey

LEMMA NamedStep ==
    ASSUME TypeInv, UserInv, PlaceInv, NamedInv, FreshInv, NEW g \in Module, Handles(g),
           Moves(g), ObjectsGrow(g)
    PROVE  NamedInv'
<1>1. /\ pc' = [pc EXCEPT ![g] = pc'[g]] /\ pc \in [Module -> Place]
      /\ s' = [s EXCEPT ![g] = s'[g]] /\ s \in [Module -> Object \cup {None}]
      /\ kept \in Object \cup {None}
  BY DEF Moves, TypeInv, TypeOK
<1>2. kept # None => IsVertify(object'[kept])
  BY <1>1, KeysStay DEF NamedInv, IsVertify
<1>3. ASSUME NEW h \in Module, s[h] # None, IsVertify(object[s[h]])
      PROVE  IsVertify(object'[s[h]])
  BY <1>1, <1>3, KeysStay DEF IsVertify
<1>4. kept' # None => IsVertify(object'[kept'])
  <2>1. CASE Load(g) \/ Store(g)
    BY <1>2, <2>1 DEF Load, Store
  <2>2. CASE ~(Load(g) \/ Store(g))
    <3>1. UNCHANGED kept
      BY <2>2 DEF Handles, Connected, Find, Complete, SessionOf, Old, New, Merge, SetUUID,
                  WriteData
    <3>2. QED
      BY <1>2, <3>1
  <2>3. QED
    BY <2>1, <2>2
<1> DEFINE Own == pc'[g] \in {"find", "load", "mergeKept", "store"} =>
                      s'[g] = None \/ IsVertify(object'[s'[g]])
<1>5. ASSUME Connected(g)
      PROVE  Own
  <2>1. CASE UNCHANGED s
    BY <1>1, <1>5, <2>1 DEF Connected, At, PlaceInv
  <2>2. CASE ~UNCHANGED s
    <3>1. s' = [s EXCEPT ![g] = job[g].conn]
          /\ Write(job[g].conn, FromMap(object[job[g].conn], Data(g)))
          /\ job[g].op = "update"
      BY <1>5, <2>2 DEF Connected, At, PlaceInv
    <3>2. job[g].conn \in Object /\ s'[g] = job[g].conn
      BY <1>1, <3>1 DEF TypeInv, TypeOK, Job, Object
    <3>3. /\ DOMAIN object'[job[g].conn] = DOMAIN object[job[g].conn] \cup DOMAIN Data(g)
          /\ IsVertify(Data(g))
      BY <3>1, <3>2, DataGrows, DataOfUser DEF TypeInv
    <3>4. QED
      BY <3>2, <3>3 DEF IsVertify, HasKey
  <2>3. QED
    BY <2>1, <2>2
<1>6. Find(g) => Own
  BY <1>1 DEF Find, At, Goto, NamedInv
<1>7. Load(g) \/ Complete(g) \/ SessionOf(g) \/ Old(g) \/ New(g) \/ WriteData(g) => Own
  BY <1>1 DEF Load, Complete, SessionOf, Old, New, WriteData, Goto
<1>8. Merge(g) \/ Store(g) => Own
  BY <1>1, <1>3 DEF Merge, Store, At, Goto, NamedInv
<1>9. ASSUME SetUUID(g)
      PROVE  Own
  <2>1. s[g] \in Object /\ s'[g] = s[g] /\ Write(s[g], Named(object[s[g]]))
    BY <1>1, <1>9 DEF SetUUID, At, PlaceInv, Begins
  <2>2. object'[s[g]] = Named(object[s[g]]) /\ IsOfUser(object[s[g]])
    BY <2>1 DEF Write, TypeInv, UserInv
  <2>3. QED
    BY <2>1, <2>2, NamedOfUser
<1>10. Own
  BY <1>5, <1>6, <1>7, <1>8, <1>9 DEF Handles
<1> HIDE DEF Own
<1>11. ASSUME NEW h \in Module \ {g},
              pc'[h] \in {"find", "load", "mergeKept", "store"}, s'[h] # None
       PROVE  IsVertify(object'[s'[h]])
  BY <1>1, <1>3, <1>11 DEF NamedInv
<1>12. QED
  BY <1>4, <1>10, <1>11 DEF NamedInv, Own

\* The part of Safe that is about one goroutine.
TakesOver(h, g) ==
    /\ pc[h] \in {"set", "store"} => HasKey(object[s[h]], g)
    /\ pc[h] \in {"mergeNew", "mergeKept"} =>
          HasKey(object[s[h]], g) \/ HasKey(object[local[h]], g)

LEMMA SafeKept ==
    ASSUME TypeInv, UserInv, PlaceInv, FreshInv, NEW g \in Module, Handles(g), Moves(g),
           ObjectsGrow(g), NEW k \in Module, Safe(k)
    PROVE  Safe(k)'
<1>1. /\ pc' = [pc EXCEPT ![g] = pc'[g]] /\ pc \in [Module -> Place]
      /\ s' = [s EXCEPT ![g] = s'[g]] /\ s \in [Module -> Object \cup {None}]
      /\ local' = [local EXCEPT ![g] = local'[g]]
      /\ local \in [Module -> Object \cup {None}]
      /\ kept \in Object
  BY DEF Moves, TypeInv, TypeOK, Safe
<1>2. HasKey(object'[kept], k)
  BY <1>1, KeysStay DEF Safe
<1>3. ASSUME NEW h \in Module, s[h] # None, HasKey(object[s[h]], k)
      PROVE  HasKey(object'[s[h]], k)
  BY <1>1, <1>3, KeysStay
<1>4. ASSUME NEW h \in Module, local[h] # None, HasKey(object[local[h]], k)
      PROVE  HasKey(object'[local[h]], k)
  BY <1>1, <1>4, KeysStay
<1>5. kept' # None /\ HasKey(object'[kept'], k)
  <2>1. ASSUME Store(g)
        PROVE  kept' # None /\ HasKey(object'[kept'], k)
    <3>1. pc[g] = "store" /\ s[g] # None /\ HasKey(object'[s[g]], k)
      BY <1>3, <2>1 DEF Store, At, Safe, PlaceInv, Begins
    <3>2. kept' = kept \/ kept' = s[g]
      BY <2>1 DEF Store
    <3>3. QED
      BY <1>2, <3>1, <3>2 DEF Safe
  <2>2. ASSUME ~Store(g)
        PROVE  kept' = kept
    BY <2>2 DEF Handles, Connected, Find, Load, Complete, SessionOf, Old, New, Merge,
                SetUUID, WriteData, Safe
  <2>3. QED
    BY <1>2, <2>1, <2>2 DEF Safe
<1> DEFINE Own == TakesOver(g, k)'
<1>6. ASSUME Find(g) \/ New(g)
      PROVE  Own
  <2>1. local'[g] = kept
    BY <1>1, <1>6 DEF Find, New
  <2>2. pc'[g] # "store" /\ (pc'[g] = "set" => s'[g] = kept)
    BY <1>1, <1>5, <1>6 DEF Find, New, Goto
  <2>3. QED
    BY <1>2, <2>1, <2>2 DEF TakesOver
<1>7. ASSUME Merge(g)
      PROVE  Own
  <2>1. s[g] \in Object /\ local[g] \in Object /\ s'[g] = s[g]
    BY <1>1, <1>7 DEF Merge, At, PlaceInv, Begins
  <2>2. DOMAIN object'[s[g]] = DOMAIN object[s[g]] \cup DOMAIN object[local[g]]
    BY <1>7, <2>1, MergeGrows DEF Merge, ObjectsGrow
  <2>3. pc[g] \in {"mergeNew", "mergeKept"} => HasKey(object'[s[g]], k)
    BY <2>2 DEF Safe, HasKey
  <2>4. pc[g] \in {"mergeNew", "mergeKept"} \/ pc'[g] = "new"
    BY <1>1, <1>7 DEF Merge, At, Goto
  <2>5. pc'[g] \in {"new", "set", "store"}
    BY <1>1, <1>7 DEF Merge, Goto
  <2>6. QED
    BY <2>1, <2>3, <2>4, <2>5 DEF TakesOver
<1>8. SetUUID(g) => Own
  BY <1>1, <1>3 DEF SetUUID, At, Goto, PlaceInv, Begins, Safe, TakesOver
<1>9. Connected(g) \/ Load(g) \/ Complete(g) \/ SessionOf(g) => Own
  BY <1>1 DEF Connected, Load, Complete, SessionOf, Goto, TakesOver
<1>10. Old(g) \/ Store(g) \/ WriteData(g) => Own
  BY <1>1 DEF Old, Store, WriteData, Goto, TakesOver
<1>11. Own
  BY <1>6, <1>7, <1>8, <1>9, <1>10 DEF Handles
<1> HIDE DEF Own
<1>12. ASSUME NEW h \in Module \ {g}
       PROVE  TakesOver(h, k)'
  <2>1. pc'[h] = pc[h] /\ s'[h] = s[h] /\ local'[h] = local[h]
    BY <1>1
  <2>2. pc[h] \in {"set", "store", "mergeNew", "mergeKept"} => s[h] # None
    BY DEF PlaceInv, Begins
  <2>3. pc[h] \in {"mergeNew", "mergeKept"} => local[h] # None
    BY DEF PlaceInv
  <2>4. TakesOver(h, k)
    BY DEF Safe, TakesOver
  <2>5. QED
    BY <1>3, <1>4, <2>1, <2>2, <2>3, <2>4 DEF TakesOver
<1>13. QED
  BY <1>5, <1>11, <1>12 DEF Safe, TakesOver, Own

LEMMA SafeWritten ==
    ASSUME TypeInv, UserInv, PlaceInv, FreshInv, NEW g \in Module, WriteData(g),
           Moves(g), g \notin outdated'
    PROVE  Safe(g)'
<1>1. /\ pc' = [pc EXCEPT ![g] = "done"] /\ pc \in [Module -> Place]
      /\ s' = s /\ local' = local /\ kept' = kept
  BY DEF WriteData, Goto, TypeInv
<1>2. local[g] # None /\ local[g] \in Object
  BY DEF WriteData, At, PlaceInv, TypeInv, TypeOK
<1>3. /\ kept = local[g]
      /\ \A h \in Module \ {g} : ~Replaces(h, local[g])
  BY DEF WriteData
<1>4. ObjectsGrow(g) /\ HasKey(object'[local[g]], g)
  <2>1. CASE job[g].op = "update"
    <3>1. Write(local[g], FromMap(object[local[g]], Data(g)))
      BY <2>1 DEF WriteData
    <3>2. QED
      BY <1>2, <2>1, <3>1, DataGrows, DataOfUser DEF TypeInv, HasKey
  <2>2. CASE job[g].op # "update"
    <3> DEFINE session == SetBind(object[local[g]], g)
    <3>1. IsOfUser(session) /\ DOMAIN session = DOMAIN object[local[g]] \cup {g}
      BY <1>2, BindOfUser DEF UserInv
    <3>2. Write(local[g], session)
      BY <2>2 DEF WriteData
    <3> HIDE DEF session
    <3>3. QED
      BY <1>2, <3>1, <3>2, WriteGrows DEF HasKey
  <2>3. QED
    BY <2>1, <2>2
<1>5. ASSUME NEW h \in Module \ {g}
      PROVE  TakesOver(h, g)'
  <2>1. pc'[h] = pc[h]
    BY <1>1
  <2>2. QED
    BY <1>1, <1>3, <1>4, <2>1 DEF Replaces, TakesOver
<1>6. TakesOver(g, g)'
  BY <1>1 DEF TakesOver
<1>7. QED
  BY <1>1, <1>2, <1>3, <1>4, <1>5, <1>6 DEF Safe, TakesOver

LEMMA SafeStep ==
    ASSUME TypeInv, UserInv, PlaceInv, FreshInv, SafeInv, NEW g \in Module, Handles(g),
           Moves(g), ObjectsGrow(g)
    PROVE  SafeInv'
<1> SUFFICES ASSUME NEW k \in Module, pc'[k] = "done", k \notin outdated'
             PROVE  Safe(k)'
  BY DEF SafeInv
<1>1. CASE pc[k] = "done"
  <2>1. Safe(k)
    BY <1>1 DEF SafeInv, Moves
  <2>2. QED
    BY <2>1, SafeKept
<1>2. CASE pc[k] # "done"
  <2>1. k = g
    BY <1>2 DEF Moves, TypeInv
  <2>2. WriteData(g)
    BY <2>1 DEF Handles, Connected, Find, Load, Complete, SessionOf, Old, New, Merge,
                SetUUID, Store, Goto, TypeInv
  <2>3. QED
    BY <2>1, <2>2, SafeWritten
<1>3. QED
  BY <1>1, <1>2
-----------------------------------------------------------------------------
LEMMA InvNext == IInv /\ [Next]_vars => IInv'
<1> SUFFICES ASSUME IInv, [Next]_vars PROVE IInv'
  OBVIOUS
<1>1. ASSUME NEW g \in Module, Handles(g)
      PROVE  IInv'
  <2>1. TypeInv /\ UserInv /\ PlaceInv /\ NamedInv /\ FreshInv /\ SafeInv
    BY DEF IInv
  <2>2. Moves(g) /\ ObjectsGrow(g)
    BY <1>1, <2>1, HandlesMoves, ObjectsStep
  <2>3. UserInv'
    BY <2>2 DEF ObjectsGrow
  <2>4. QED
    BY <1>1, <2>1, <2>2, <2>3, TypeStep, FreshStep, PlaceStep, NamedStep, SafeStep DEF IInv
<1>2. CASE UNCHANGED <<job, object, kept, pc, s, local, outdated>> /\ pool' \subseteq pool
  BY <1>2 DEF IInv, TypeInv, TypeOK, UserInv, PlaceInv, NamedInv, FreshInv, SafeInv,
              Safe, Begins
<1>3. CASE \E c \in Conn : ClientLeaves(c)
  BY <1>2, <1>3 DEF ClientLeaves
<1>4. CASE UNCHANGED vars
  BY <1>2, <1>4 DEF vars
<1>5. QED
  BY <1>1, <1>3, <1>4 DEF Next

LEMMA Invariant == Spec => []IInv
BY InitInv, InvNext, PTL DEF Spec

(* The objects stay tables of the right values, and a goroutine works on     *)
(* objects only (Session.set, SessionManager.store).                         *)
THEOREM TypeCorrect == Spec => []TypeOK
<1>1. IInv => TypeOK
  BY DEF IInv, TypeInv
<1>2. QED
  BY <1>1, Invariant, PTL

(* However the commands of a user overlap, what is kept under the UUID has   *)
(* it, and MustUpdateFromMap never panics for a session without one          *)
(* (onUpdateSession, UpdateSessionUUID).                                     *)
THEOREM NeverPanics == Spec => []NoPanic
<1>1. IInv => NoPanic
  <2> SUFFICES ASSUME IInv PROVE NoPanic
    OBVIOUS
  <2>1. kept # None => IsVertify(object[kept]) /\ object[kept]["uuid"] = UUID
    BY DEF IInv, TypeInv, TypeOK, NamedInv, UserInv, IsOfUser
  <2>2. QED
    BY <2>1 DEF IInv, TypeInv, PlaceInv, NoPanic, At, Begins, Place
<1>2. QED
  BY <1>1, Invariant, PTL

(* What a command wrote into the user's session stays in what is kept,       *)
(* however often this is replaced, unless the object had been replaced, or   *)
(* read by its successor, already (OnlyAddKeyFromSession before Store).      *)
THEOREM UpdatesAreKept == Spec => []KeepsUpdates
<1>1. IInv => KeepsUpdates
  BY DEF IInv, SafeInv, Safe, KeepsUpdates, Known, At
<1>2. QED
  BY <1>1, Invariant, PTL
=============================================================================
