----------------------------- MODULE Gate_proofs ----------------------------
(***************************************************************************)
(* For any number of clients, users and workers, and for connections and   *)
(* users in any relation: the tables of the gateway and of the workers     *)
(* keep their types, and a client that is connected is in the pool.        *)
(* Connections and users that log in on each other only are a group: no    *)
(* order of the steps lets a session cross its border.  So what a manager  *)
(* keeps for a user with connections of his own has his UUID, and the only *)
(* client of its users keeps its connection ID.  At the end, the names of  *)
(* the connections (UniqueID): no two of a process are the same, as Gate   *)
(* has it.                                                                 *)
(***************************************************************************)
EXTENDS Gate, UniqueID, TLAPS

-----------------------------------------------------------------------------
(* Sessions *)

SessionSet ==
    {s \in UNION {[D -> Conn \cup User \cup Module] : D \in SUBSET Key} : IsSession(s)}

(* A table is a session as soon as its keys and their values are. *)
LEMMA Tables ==
    ASSUME NEW D \in SUBSET Key, NEW f,
           f = [k \in D |-> f[k]], \A k \in D : f[k] \in ValueOf(k)
    PROVE  f \in SessionSet
<1>1. \A k \in D : f[k] \in Conn \cup User \cup Module
  BY DEF ValueOf, Key
<1>2. f \in [D -> Conn \cup User \cup Module] /\ DOMAIN f = D
  BY <1>1
<1>3. IsSession(f)
  BY <1>2 DEF IsSession
<1>4. QED
  BY <1>2, <1>3 DEF SessionSet

LEMMA SessionFields ==
    ASSUME NEW s \in SessionSet
    PROVE  /\ IsSession(s)
           /\ DOMAIN s \subseteq Key
           /\ HasKey(s, "conn") => s["conn"] \in Conn
           /\ HasKey(s, "uuid") => s["uuid"] \in User
  BY DEF SessionSet, IsSession, HasKey, ValueOf

LEMMA EmptySession == NewSession \in SessionSet /\ DOMAIN NewSession = {}
<1>1. DOMAIN NewSession = {} /\ NewSession = [k \in {} |-> NewSession[k]]
  BY DEF NewSession
<1>2. QED
  BY <1>1, Tables

(* The second table's values win, and no key is lost. *)
LEMMA FromMapFacts ==
    ASSUME NEW s \in SessionSet, NEW t \in SessionSet
    PROVE  /\ FromMap(s, t) \in SessionSet
           /\ DOMAIN FromMap(s, t) = DOMAIN s \cup DOMAIN t
           /\ \A k \in DOMAIN t : FromMap(s, t)[k] = t[k]
           /\ \A k \in DOMAIN s \ DOMAIN t : FromMap(s, t)[k] = s[k]
<1> DEFINE f == FromMap(s, t)
           D == DOMAIN s \cup DOMAIN t
<1>1. /\ DOMAIN f = D
      /\ f = [k \in D |-> f[k]]
      /\ \A k \in DOMAIN t : f[k] = t[k]
      /\ \A k \in DOMAIN s \ DOMAIN t : f[k] = s[k]
  BY DEF FromMap, HasKey
<1>2. IsSession(s) /\ IsSession(t)
  BY DEF SessionSet
<1>3. D \in SUBSET Key /\ \A k \in D : f[k] \in ValueOf(k)
  BY <1>1, <1>2 DEF IsSession
<1> HIDE DEF f, D
<1>4. f \in SessionSet
  BY <1>1, <1>3, Tables
<1>5. QED
  BY <1>1, <1>4 DEF f, D

LEMMA SetFacts ==
    ASSUME NEW s \in SessionSet, NEW k \in Key, NEW v \in ValueOf(k)
    PROVE  /\ Set(s, k, v) \in SessionSet
           /\ DOMAIN Set(s, k, v) = DOMAIN s \cup {k}
           /\ Set(s, k, v)[k] = v
           /\ \A x \in DOMAIN s \ {k} : Set(s, k, v)[x] = s[x]
<1> DEFINE t == [x \in {k} |-> v]
<1>1. DOMAIN t = {k} /\ t[k] = v /\ t = [x \in {k} |-> t[x]]
  OBVIOUS
<1>2. Set(s, k, v) = FromMap(s, t)
  BY DEF Set
<1> HIDE DEF t
<1>3. t \in SessionSet
  <2>1. {k} \in SUBSET Key /\ \A x \in {k} : t[x] \in ValueOf(x)
    BY <1>1
  <2>2. QED
    BY <1>1, <2>1, Tables
<1>4. /\ FromMap(s, t) \in SessionSet
      /\ DOMAIN FromMap(s, t) = DOMAIN s \cup DOMAIN t
      /\ \A x \in DOMAIN t : FromMap(s, t)[x] = t[x]
      /\ \A x \in DOMAIN s \ DOMAIN t : FromMap(s, t)[x] = s[x]
  BY <1>3, FromMapFacts
<1>5. QED
  BY <1>1, <1>2, <1>4

(* The session that is made for a user. *)
LEMMA NamedSession ==
    ASSUME NEW u \in User
    PROVE  /\ Set(NewSession, "uuid", u) \in SessionSet
           /\ IsVertify(Set(NewSession, "uuid", u))
           /\ Set(NewSession, "uuid", u)["uuid"] = u
<1>1. "uuid" \in Key /\ u \in ValueOf("uuid") /\ NewSession \in SessionSet
  BY EmptySession DEF Key, ValueOf
<1>2. /\ Set(NewSession, "uuid", u) \in SessionSet
      /\ DOMAIN Set(NewSession, "uuid", u) = DOMAIN NewSession \cup {"uuid"}
      /\ Set(NewSession, "uuid", u)["uuid"] = u
  BY <1>1, SetFacts
<1>3. QED
  BY <1>2 DEF IsVertify, HasKey

(* Who a session is of: its connection and its user, if it has them. *)
SameOwner(s, t) ==
    /\ HasKey(s, "conn") => HasKey(t, "conn") /\ t["conn"] = s["conn"]
    /\ IsVertify(s) => IsVertify(t) /\ t["uuid"] = s["uuid"]

(* What a session takes over from another leaves its own values alone. *)
LEMMA OnlyAddFacts ==
    ASSUME NEW s \in SessionSet, NEW dir \in SessionSet
    PROVE  /\ OnlyAddKeyFromSession(s, dir) \in SessionSet
           /\ SameOwner(s, OnlyAddKeyFromSession(s, dir))
<1>1. OnlyAddKeyFromSession(s, dir) = FromMap(dir, s)
  BY DEF OnlyAddKeyFromSession
<1>2. /\ FromMap(dir, s) \in SessionSet
      /\ DOMAIN FromMap(dir, s) = DOMAIN dir \cup DOMAIN s
      /\ \A k \in DOMAIN s : FromMap(dir, s)[k] = s[k]
  BY FromMapFacts
<1>3. QED
  BY <1>1, <1>2 DEF SameOwner, HasKey, IsVertify

(* Data that name a connection and a user make the session that is written theirs. *)
LEMMA WrittenFacts ==
    ASSUME NEW s \in SessionSet, NEW data \in SessionSet,
           HasKey(data, "conn"), IsVertify(data)
    PROVE  FromMap(s, data) \in SessionSet /\ SameOwner(data, FromMap(s, data))
<1>1. /\ FromMap(s, data) \in SessionSet
      /\ DOMAIN FromMap(s, data) = DOMAIN s \cup DOMAIN data
      /\ \A k \in DOMAIN data : FromMap(s, data)[k] = data[k]
  BY FromMapFacts
<1>2. QED
  BY <1>1 DEF SameOwner, HasKey, IsVertify

(* Binding a session to a module leaves who it is about alone. *)
LEMMA SetBindFacts ==
    ASSUME NEW s \in SessionSet, NEW m \in Module
    PROVE  /\ SetBind(s, m) \in SessionSet
           /\ SameOwner(s, SetBind(s, m)) /\ SameOwner(SetBind(s, m), s)
<1>1. m \in Key /\ m \in ValueOf(m) /\ m # "conn" /\ m # "uuid"
  BY KeyAssumption DEF Key, ValueOf
<1>2. /\ SetBind(s, m) \in SessionSet
      /\ DOMAIN SetBind(s, m) = DOMAIN s \cup {m}
      /\ \A x \in DOMAIN s \ {m} : SetBind(s, m)[x] = s[x]
  BY <1>1, SetFacts DEF SetBind
<1>3. QED
  BY <1>1, <1>2 DEF SameOwner, HasKey, IsVertify

(* The session gets the user and keeps its connection; of the others only the one *)
(* under its former UUID goes.                                                    *)
TakenOver(updated, table, u, s) ==
    /\ updated \in [User -> SessionSet]
    /\ IsVertify(updated[u]) /\ updated[u]["uuid"] = u
    /\ HasKey(s, "conn") => HasKey(updated[u], "conn") /\ updated[u]["conn"] = s["conn"]
    /\ \A v \in User \ {u} : updated[v] = NewSession \/ updated[v] = table[v]

LEMMA UpdateUUIDFacts ==
    ASSUME NEW table \in [User -> SessionSet], NEW u \in User, NEW s \in SessionSet
    PROVE  TakenOver(UpdateSessionUUID(table, u, s), table, u, s)
<1> DEFINE old == IF IsVertify(s) THEN table[s["uuid"]] ELSE NewSession
           first == OnlyAddKeyFromSession(s, old)
           merged == OnlyAddKeyFromSession(first, table[u])
           updated == UpdateSessionUUID(table, u, s)
<1>1. old \in SessionSet
  BY SessionFields, EmptySession DEF IsVertify
<1>2. updated = [v \in User |-> IF v = u THEN Set(merged, "uuid", u)
                               ELSE IF IsVertify(s) /\ s["uuid"] = v
                                    THEN NewSession ELSE table[v]]
  BY DEF UpdateSessionUUID
<1>3. first = FromMap(old, s) /\ merged = FromMap(table[u], first)
  BY DEF OnlyAddKeyFromSession
<1> HIDE DEF old, first, merged, updated
<1>4. /\ first \in SessionSet
      /\ DOMAIN first = DOMAIN old \cup DOMAIN s
      /\ \A k \in DOMAIN s : first[k] = s[k]
  BY <1>1, <1>3, FromMapFacts
<1>5. /\ merged \in SessionSet
      /\ DOMAIN merged = DOMAIN table[u] \cup DOMAIN first
      /\ \A k \in DOMAIN first : merged[k] = first[k]
  BY <1>3, <1>4, FromMapFacts
<1>6. /\ Set(merged, "uuid", u) \in SessionSet
      /\ DOMAIN Set(merged, "uuid", u) = DOMAIN merged \cup {"uuid"}
      /\ Set(merged, "uuid", u)["uuid"] = u
      /\ \A x \in DOMAIN merged \ {"uuid"} : Set(merged, "uuid", u)[x] = merged[x]
  <2>1. "uuid" \in Key /\ u \in ValueOf("uuid")
    BY DEF Key, ValueOf
  <2>2. QED
    BY <1>5, <2>1, SetFacts
<1>7. updated[u] = Set(merged, "uuid", u)
  BY <1>2
<1>8. updated \in [User -> SessionSet]
  BY <1>2, <1>6, EmptySession
<1>9. HasKey(s, "conn") => HasKey(updated[u], "conn") /\ updated[u]["conn"] = s["conn"]
  BY <1>4, <1>5, <1>6, <1>7 DEF HasKey
<1>10. IsVertify(updated[u]) /\ updated[u]["uuid"] = u
  BY <1>6, <1>7 DEF IsVertify, HasKey
<1>11. \A v \in User \ {u} : updated[v] = NewSession \/ updated[v] = table[v]
  BY <1>2
<1>12. QED
  BY <1>8, <1>9, <1>10, <1>11 DEF updated, TakenOver
-----------------------------------------------------------------------------
(* Commands *)

Command ==
    [type : {"SForwardFromGate"}, from : Conn, session : SessionSet]
        \cup [type : {"SUpdateSession"}, session : SessionSet]
        \cup [type : {"SForwardToClient", "SReqCloseConnect"}, conn : Conn]

Queues == [Module -> [Module -> Seq(Command)]]
In(q) == {x \in Command : \E m, n \in Module : \E i \in DOMAIN q[m][n] : q[m][n][i] = x}

LEMMA CommandFields ==
    ASSUME NEW x \in Command
    PROVE  /\ x.type \in {"SForwardFromGate", "SUpdateSession", "SForwardToClient",
                          "SReqCloseConnect"}
           /\ x.type = "SForwardFromGate" => x.from \in Conn /\ x.session \in SessionSet
           /\ x.type = "SUpdateSession" => x.session \in SessionSet
           /\ x.type \in {"SForwardToClient", "SReqCloseConnect"} => x.conn \in Conn
  BY DEF Command

LEMMA SequenceFacts ==
    ASSUME NEW S, NEW s \in Seq(S)
    PROVE  /\ \A e \in S : /\ Append(s, e) \in Seq(S)
                           /\ \A i \in DOMAIN Append(s, e) :
                                 \/ Append(s, e)[i] = e
                                 \/ i \in DOMAIN s /\ Append(s, e)[i] = s[i]
           /\ s # <<>> => /\ Tail(s) \in Seq(S)
                          /\ 1 \in DOMAIN s /\ Head(s) = s[1] /\ Head(s) \in S
                          /\ \A i \in DOMAIN Tail(s) :
                                i + 1 \in DOMAIN s /\ Tail(s)[i] = s[i + 1]
<1>1. ASSUME NEW e \in S
      PROVE  /\ Append(s, e) \in Seq(S)
             /\ \A i \in DOMAIN Append(s, e) :
                   \/ Append(s, e)[i] = e
                   \/ i \in DOMAIN s /\ Append(s, e)[i] = s[i]
  OBVIOUS
<1>2. ASSUME s # <<>>
      PROVE  /\ Tail(s) \in Seq(S)
             /\ 1 \in DOMAIN s /\ Head(s) = s[1] /\ Head(s) \in S
             /\ \A i \in DOMAIN Tail(s) :
                   i + 1 \in DOMAIN s /\ Tail(s)[i] = s[i + 1]
  <2>1. Tail(s) \in Seq(S) /\ Len(s) \in Nat /\ Len(s) # 0 /\ DOMAIN s = 1 .. Len(s)
    BY <1>2
  <2>2. Len(Tail(s)) = Len(s) - 1 /\ DOMAIN Tail(s) = 1 .. Len(s) - 1
    BY <1>2, <2>1
  <2>3. 1 \in DOMAIN s /\ Head(s) = s[1] /\ Head(s) \in S
    BY <1>2, <2>1
  <2>4. QED
    BY <1>2, <2>1, <2>2, <2>3
<1>3. QED
  BY <1>1, <1>2

(* A command more in one queue. *)
LEMMA Appended ==
    ASSUME NEW q \in Queues, NEW m \in Module, NEW n \in Module, NEW e \in Command
    PROVE  LET r == [q EXCEPT ![m][n] = Append(@, e)] IN
           r \in Queues /\ In(r) \subseteq In(q) \cup {e}
<1> DEFINE r == [q EXCEPT ![m][n] = Append(@, e)]
<1>1. /\ r \in Queues
      /\ \A x, y \in Module : r[x][y] = IF x = m /\ y = n THEN Append(q[m][n], e) ELSE q[x][y]
      /\ q[m][n] \in Seq(Command)
  BY DEF Queues
<1>2. \A i \in DOMAIN Append(q[m][n], e) :
         \/ Append(q[m][n], e)[i] = e
         \/ i \in DOMAIN q[m][n] /\ Append(q[m][n], e)[i] = q[m][n][i]
  BY <1>1, SequenceFacts
<1> HIDE DEF r
<1>3. ASSUME NEW x \in In(r) PROVE x \in In(q) \cup {e}
  <2>1. /\ x \in Command
        /\ \E a, b \in Module : \E i \in DOMAIN r[a][b] : r[a][b][i] = x
    BY <1>3 DEF In
  <2>2. PICK a \in Module, b \in Module : \E i \in DOMAIN r[a][b] : r[a][b][i] = x
    BY <2>1
  <2>3. x = e \/ \E i \in DOMAIN q[a][b] : q[a][b][i] = x
    BY <1>1, <1>2, <2>2
  <2>4. QED
    BY <2>1, <2>3 DEF In
<1>4. QED
  BY <1>1, <1>3 DEF r

(* The first command of a queue, which is taken from it. *)
LEMMA Received ==
    ASSUME queue \in Queues, NEW m \in Module, NEW n \in Module, NEW type,
           Receives(m, n, type)
    PROVE  /\ Taken(n, m) \in Queues
           /\ In(Taken(n, m)) \subseteq In(queue)
           /\ First(n, m) \in In(queue)
           /\ First(n, m).type = type
<1> DEFINE r == Taken(n, m)
           s == queue[n][m]
<1>1. s \in Seq(Command) /\ s # <<>>
  BY DEF Queues, Receives
<1>2. /\ Tail(s) \in Seq(Command)
      /\ 1 \in DOMAIN s /\ Head(s) = s[1] /\ Head(s) \in Command
      /\ \A i \in DOMAIN Tail(s) : i + 1 \in DOMAIN s /\ Tail(s)[i] = s[i + 1]
  BY <1>1, SequenceFacts
<1>3. /\ r \in Queues
      /\ \A x, y \in Module : r[x][y] = IF x = n /\ y = m THEN Tail(s) ELSE queue[x][y]
  BY <1>2 DEF Queues, Taken
<1>4. First(n, m) = s[1] /\ First(n, m).type = type /\ First(n, m) \in Command
  BY <1>2 DEF First, Receives
<1> HIDE DEF r
<1>5. ASSUME NEW x \in In(r) PROVE x \in In(queue)
  <2>1. /\ x \in Command
        /\ \E a, b \in Module : \E i \in DOMAIN r[a][b] : r[a][b][i] = x
    BY <1>5 DEF In
  <2>2. PICK a \in Module, b \in Module : \E i \in DOMAIN r[a][b] : r[a][b][i] = x
    BY <2>1
  <2>3. \E i \in DOMAIN queue[a][b] : queue[a][b][i] = x
    <3>1. CASE a = n /\ b = m
      <4>1. r[a][b] = Tail(s) /\ queue[a][b] = s
        BY <1>3, <3>1
      <4>2. PICK i \in DOMAIN Tail(s) : Tail(s)[i] = x
        BY <2>2, <4>1
      <4>3. i + 1 \in DOMAIN queue[a][b] /\ queue[a][b][i + 1] = x
        BY <1>2, <4>1, <4>2
      <4>4. QED
        BY <4>3
    <3>2. CASE ~(a = n /\ b = m)
      BY <1>3, <2>2, <3>2
    <3>3. QED
      BY <3>1, <3>2
  <2>4. QED
    BY <2>1, <2>3 DEF In
<1>6. First(n, m) \in In(queue)
  BY <1>2, <1>4 DEF In
<1>7. QED
  BY <1>3, <1>4, <1>5, <1>6 DEF r

(* A session that is synced adds updates with this session only. *)
LEMMA SyncedFacts ==
    ASSUME NEW q \in Queues, NEW m \in Module, NEW s \in SessionSet
    PROVE  /\ Synced(q, m, s) \in Queues
           /\ In(Synced(q, m, s)) \subseteq
                  In(q) \cup {[type |-> "SUpdateSession", session |-> s]}
<1> DEFINE r == Synced(q, m, s)
           e == [type |-> "SUpdateSession", session |-> s]
<1>1. e \in Command
  BY DEF Command
<1>2. \A x, y \in Module : q[x][y] \in Seq(Command)
  BY DEF Queues
<1>3. \A x, y \in Module : Append(q[x][y], e) \in Seq(Command)
  BY <1>1, <1>2, SequenceFacts
<1>4. \A x, y \in Module :
         r[x][y] = q[x][y] \/ r[x][y] = Append(q[x][y], e)
  BY DEF Synced, Queues
<1>5. r \in Queues
  <2>1. /\ r = [x \in Module |-> r[x]]
        /\ \A x \in Module : r[x] = [y \in Module |-> r[x][y]]
    BY DEF Synced, Queues
  <2> HIDE DEF r, e
  <2>2. QED
    BY <1>2, <1>3, <1>4, <2>1 DEF Queues
<1> HIDE DEF r, e
<1>6. ASSUME NEW x \in In(r) PROVE x \in In(q) \cup {e}
  <2>1. /\ x \in Command
        /\ \E a, b \in Module : \E i \in DOMAIN r[a][b] : r[a][b][i] = x
    BY <1>6 DEF In
  <2>2. PICK a \in Module, b \in Module : \E i \in DOMAIN r[a][b] : r[a][b][i] = x
    BY <2>1
  <2>3. \A i \in DOMAIN Append(q[a][b], e) :
           \/ Append(q[a][b], e)[i] = e
           \/ i \in DOMAIN q[a][b] /\ Append(q[a][b], e)[i] = q[a][b][i]
    BY <1>1, <1>2, SequenceFacts
  <2>4. x = e \/ \E i \in DOMAIN q[a][b] : q[a][b][i] = x
    BY <1>4, <2>2, <2>3
  <2>5. QED
    BY <2>1, <2>4 DEF In
<1>7. QED
  BY <1>5, <1>6 DEF r, e
-----------------------------------------------------------------------------
(* The types, and which keys the sessions have; nothing is assumed of the users. *)

Busy == [at : {"find", "load", "write"}, data : SessionSet, s : Conn \cup User]

TypeInv ==
    /\ phase \in [Conn -> {"new", "open", "ended", "closed"}]
    /\ sent \in [Conn -> Nat]
    /\ inbox \in [Conn -> Nat]
    /\ \A c \in Conn : inbox[c] <= sent[c] /\ sent[c] <= MaxSends[c]
    /\ \A c \in Conn : phase[c] = "new" => sent[c] = 0
    /\ terminated \subseteq Conn
    /\ pool \subseteq {c \in Conn : phase[c] # "new"}
    /\ object \in [Conn \cup User -> SessionSet]
    /\ DOMAIN kept \subseteq User
    /\ \A u \in DOMAIN kept : kept[u] \in Conn \cup DOMAIN kept
    /\ sessions \in [Worker -> [User -> SessionSet]]
    /\ queue \in Queues
    /\ handler \in Busy \cup {Idle}

\* A session of a user that has come from a client.
IsKnown(s) == HasKey(s, "conn") /\ IsVertify(s)

\* What onUpdateSession goes on with is a user's session, of a client that came or
\* one that is kept, as soon as it is there.
IsChosen(h) == h.at # "find" \/ h.s \in Conn
HandlerKnown ==
    handler # Idle =>
        /\ IsKnown(handler.data)
        /\ handler.s \in Conn => phase[handler.s] # "new"
        /\ handler.s \notin Conn =>
              IF handler.at = "find" THEN handler.s = handler.data["uuid"]
                                     ELSE handler.s \in DOMAIN kept
        /\ IsChosen(handler) => IsVertify(object[handler.s])

\* What the handlers read from a session is there: the client's connection, and
\* the UUID in what is kept or synced.  A worker keeps a session under its UUID.
KnownInv ==
    /\ \A c \in Conn : phase[c] # "new" => HasKey(object[c], "conn")
    /\ \A u \in DOMAIN kept :
          IsVertify(object[kept[u]]) /\ (kept[u] \in Conn => phase[kept[u]] # "new")
    /\ \A m \in Worker, u \in User : sessions[m][u] # NewSession =>
          IsKnown(sessions[m][u]) /\ sessions[m][u]["uuid"] = u
    /\ \A x \in In(queue) :
          /\ x.type = "SForwardFromGate" => HasKey(x.session, "conn")
          /\ x.type = "SUpdateSession" => IsKnown(x.session)
    /\ HandlerKnown

LEMMA HandlerFields ==
    ASSUME NEW h \in Busy
    PROVE  /\ h.at \in {"find", "load", "write"} /\ h.data \in SessionSet
           /\ h.s \in Conn \cup User
  BY DEF Busy

LEMMA TypeInvTypes == TypeInv => TypeOK
<1>1. SUFFICES ASSUME TypeInv PROVE TypeOK
  OBVIOUS
<1>2. \A c \in Conn : sent[c] \in 0 .. MaxSends[c] /\ inbox[c] \in 0 .. sent[c]
  BY <1>1, BoundAssumption DEF TypeInv
<1>3. /\ \A o \in Conn \cup User : IsSession(object[o])
      /\ \A m \in Worker, u \in User : IsSession(sessions[m][u])
  BY <1>1 DEF TypeInv, SessionSet
<1>4. \A m, n \in Module : \A i \in DOMAIN queue[m][n] :
         queue[m][n][i].type \in {"SForwardFromGate", "SUpdateSession",
                                  "SForwardToClient", "SReqCloseConnect"}
  <2>1. SUFFICES ASSUME NEW m \in Module, NEW n \in Module, NEW i \in DOMAIN queue[m][n]
                 PROVE  queue[m][n][i].type
                            \in {"SForwardFromGate", "SUpdateSession",
                                 "SForwardToClient", "SReqCloseConnect"}
    OBVIOUS
  <2>2. queue[m][n] \in Seq(Command)
    BY <1>1 DEF TypeInv, Queues
  <2>3. queue[m][n][i] \in Command
    BY <2>1, <2>2
  <2>4. QED
    BY <2>3, CommandFields
<1>5. handler = Idle \/ /\ handler.at \in {"find", "load", "write"}
                        /\ IsSession(handler.data)
                        /\ handler.s \in Conn \cup User
  BY <1>1, HandlerFields, SessionFields DEF TypeInv
<1>6. QED
  BY <1>1, <1>2, <1>3, <1>4, <1>5 DEF TypeInv, TypeOK

LEMMA KnownInit == Init => TypeInv /\ KnownInv
<1>1. SUFFICES ASSUME Init PROVE TypeInv /\ KnownInv
  OBVIOUS
<1>2. queue \in Queues /\ In(queue) = {}
  BY <1>1 DEF Init, Queues, In
<1>3. DOMAIN kept = {}
  BY <1>1, EmptySession DEF Init
<1>4. TypeInv
  BY <1>1, <1>2, <1>3, EmptySession, BoundAssumption DEF Init, TypeInv
<1>5. KnownInv
  BY <1>1, <1>2, <1>3, EmptySession DEF Init, KnownInv, HandlerKnown
<1>6. QED
  BY <1>4, <1>5

(* What came with a client's message, and the session the application gets for it: *)
(* what came, or the session kept under its UUID.                                  *)
LEMMA ForwardFacts ==
    ASSUME TypeInv, KnownInv, NEW m \in Worker, Receives(m, Gateway, "SForwardFromGate")
    PROVE  LET came == First(Gateway, m).session IN
           /\ Taken(Gateway, m) \in Queues /\ In(Taken(Gateway, m)) \subseteq In(queue)
           /\ First(Gateway, m) \in In(queue)
           /\ First(Gateway, m).type = "SForwardFromGate"
           /\ First(Gateway, m).from \in Conn
           /\ came \in SessionSet
           /\ SessionOf(m) \in SessionSet /\ HasKey(SessionOf(m), "conn")
           /\ \/ SessionOf(m) = came
              \/ /\ IsVertify(came) /\ came["uuid"] \in User
                 /\ SessionOf(m) = sessions[m][came["uuid"]]
                 /\ SessionOf(m) # NewSession
<1> DEFINE came == First(Gateway, m).session
<1>1. m \in Module /\ Gateway \in Module
  BY ModuleAssumption DEF Worker
<1>2. /\ Taken(Gateway, m) \in Queues /\ In(Taken(Gateway, m)) \subseteq In(queue)
      /\ First(Gateway, m) \in In(queue)
      /\ First(Gateway, m).type = "SForwardFromGate"
  BY <1>1, Received DEF TypeInv
<1>3. First(Gateway, m).from \in Conn /\ came \in SessionSet
  BY <1>2, CommandFields DEF In
<1>4. HasKey(came, "conn")
  BY <1>2 DEF KnownInv
<1>5. IsVertify(came) => came["uuid"] \in User
  BY <1>3, SessionFields DEF IsVertify
<1>6. IsVertify(came) => sessions[m][came["uuid"]] \in SessionSet
  BY <1>5 DEF TypeInv
<1>7. IsVertify(came) /\ sessions[m][came["uuid"]] # NewSession =>
         HasKey(sessions[m][came["uuid"]], "conn")
  BY <1>5 DEF KnownInv, IsKnown
<1>8. SessionOf(m) = IF IsVertify(came) /\ sessions[m][came["uuid"]] # NewSession
                     THEN sessions[m][came["uuid"]] ELSE came
  BY DEF SessionOf
<1>9. SessionOf(m) \in SessionSet /\ HasKey(SessionOf(m), "conn")
  BY <1>3, <1>4, <1>6, <1>7, <1>8
<1>10. QED
  BY <1>2, <1>3, <1>5, <1>8, <1>9

LEMMA UpdateFacts ==
    ASSUME TypeInv, KnownInv, NEW m \in Module, NEW n \in Module,
           Receives(m, n, "SUpdateSession")
    PROVE  /\ Taken(n, m) \in Queues /\ In(Taken(n, m)) \subseteq In(queue)
           /\ First(n, m) \in In(queue)
           /\ First(n, m).type = "SUpdateSession"
           /\ First(n, m).session \in SessionSet
           /\ IsKnown(First(n, m).session)
           /\ First(n, m).session["conn"] \in Conn
           /\ First(n, m).session["uuid"] \in User
<1>1. /\ Taken(n, m) \in Queues /\ In(Taken(n, m)) \subseteq In(queue)
      /\ First(n, m) \in In(queue)
      /\ First(n, m).type = "SUpdateSession"
  BY Received DEF TypeInv
<1>2. First(n, m).session \in SessionSet
  BY <1>1, CommandFields DEF In
<1>3. IsKnown(First(n, m).session)
  BY <1>1 DEF KnownInv
<1>4. QED
  BY <1>1, <1>2, <1>3, SessionFields DEF IsKnown, IsVertify

(* What is asked of the gateway: one command more, and no session changes. *)
LEMMA AskFacts ==
    ASSUME TypeInv, KnownInv, NEW m \in Worker, SendMsg(m) \/ CloseSessionConnect(m)
    PROVE  /\ UNCHANGED <<clientVars, sessionVars>>
           /\ queue' \in Queues
           /\ \A x \in In(queue') :
                 x \in In(queue) \/ x.type \in {"SForwardToClient", "SReqCloseConnect"}
<1>1. PICK type \in {"SForwardToClient", "SReqCloseConnect"} : Asks(m, type)
  BY DEF SendMsg, CloseSessionConnect
<1> DEFINE e == [type |-> type, conn |-> SessionOf(m)["conn"]]
           q == Taken(Gateway, m)
<1>2. /\ q \in Queues /\ In(q) \subseteq In(queue)
      /\ SessionOf(m)["conn"] \in Conn
  BY <1>1, ForwardFacts, SessionFields DEF Asks
<1>3. /\ queue' = [q EXCEPT ![m][Gateway] = Append(@, e)]
      /\ UNCHANGED <<clientVars, sessionVars>>
  BY <1>1 DEF Asks
<1>4. e \in Command /\ e.type = type /\ m \in Module /\ Gateway \in Module
  BY <1>2, ModuleAssumption DEF Command, Worker
<1> HIDE DEF e, q
<1>5. queue' \in Queues /\ In(queue') \subseteq In(q) \cup {e}
  BY <1>2, <1>3, <1>4, Appended
<1>6. QED
  BY <1>2, <1>3, <1>4, <1>5

(* A message of a client: it is dropped, or forwarded with the client's session. *)
LEMMA RecvFacts ==
    ASSUME TypeInv, KnownInv, NEW c \in Conn, OnRecvConnectMessage(c)
    PROVE  LET e == [type |-> "SForwardFromGate", from |-> c, session |-> object[c]] IN
           /\ phase[c] # "new" /\ object[c] \in SessionSet /\ e \in Command
           /\ queue' \in Queues /\ In(queue') \subseteq In(queue) \cup {e}
<1> DEFINE e == [type |-> "SForwardFromGate", from |-> c, session |-> object[c]]
<1>1. phase[c] # "new"
  <2>1. inbox[c] > 0 /\ inbox[c] \in Nat /\ sent[c] \in Nat /\ inbox[c] <= sent[c]
    BY DEF TypeInv, OnRecvConnectMessage
  <2>2. QED
    BY <2>1 DEF TypeInv
<1>2. object[c] \in SessionSet
  BY DEF TypeInv
<1>3. e \in Command
  BY <1>2 DEF Command
<1>4. UNCHANGED queue \/ \E m \in Route[c] : queue' = Enqueue(Gateway, m, e)
  BY DEF OnRecvConnectMessage
<1> HIDE DEF e
<1>5. ASSUME NEW m \in Route[c], queue' = Enqueue(Gateway, m, e)
      PROVE  queue' \in Queues /\ In(queue') \subseteq In(queue) \cup {e}
  <2>1. m \in Module /\ Gateway \in Module
    BY RouteAssumption, ModuleAssumption
  <2>2. QED
    BY <1>3, <1>5, <2>1, Appended DEF Enqueue, TypeInv
<1>6. UNCHANGED queue => queue' \in Queues /\ In(queue') \subseteq In(queue) \cup {e}
  BY DEF TypeInv
<1>7. QED
  BY <1>1, <1>2, <1>3, <1>4, <1>5, <1>6 DEF e

(* A client that comes: its session names it, and nobody yet. *)
LEMMA NewClientFacts ==
    ASSUME NEW c \in Conn
    PROVE  LET s == SetBind(Set(NewSession, "conn", c), Gateway) IN
           s \in SessionSet /\ HasKey(s, "conn") /\ s["conn"] = c /\ ~IsVertify(s)
<1> DEFINE r == Set(NewSession, "conn", c)
<1>1. "conn" \in Key /\ c \in ValueOf("conn") /\ NewSession \in SessionSet
  BY EmptySession DEF Key, ValueOf
<1>2. r \in SessionSet /\ DOMAIN r = DOMAIN NewSession \cup {"conn"} /\ r["conn"] = c
  BY <1>1, SetFacts
<1>3. HasKey(r, "conn") /\ ~IsVertify(r)
  BY <1>2, EmptySession DEF IsVertify, HasKey
<1> HIDE DEF r
<1>4. QED
  BY <1>2, <1>3, SetBindFacts, ModuleAssumption DEF r, SameOwner

(* The login: the session of the message is the user's now, and synced. *)
LEMMA LoginFacts ==
    ASSUME TypeInv, KnownInv, NEW m \in Worker, NEW u \in User, Login(m, u)
    PROVE  LET s == sessions'[m][u] IN
           /\ s \in SessionSet /\ IsKnown(s)
           /\ s["uuid"] = u /\ s["conn"] = SessionOf(m)["conn"]
           /\ sessions' \in [Worker -> [User -> SessionSet]]
           /\ \A n \in Worker, v \in User : n # m \/ v # u =>
                 sessions'[n][v] = NewSession \/ sessions'[n][v] = sessions[n][v]
           /\ queue' \in Queues
           /\ In(queue') \subseteq
                 In(queue) \cup {[type |-> "SUpdateSession", session |-> s]}
<1> DEFINE came == SessionOf(m)
           updated == UpdateSessionUUID(sessions[m], u, came)
           s == SetBind(updated[u], m)
<1>1. /\ Taken(Gateway, m) \in Queues /\ In(Taken(Gateway, m)) \subseteq In(queue)
      /\ came \in SessionSet /\ HasKey(came, "conn")
  BY ForwardFacts DEF Login
<1>2. sessions[m] \in [User -> SessionSet] /\ m \in Module
  BY DEF TypeInv, Worker
<1> HIDE DEF came
<1>3. /\ updated \in [User -> SessionSet]
      /\ IsVertify(updated[u]) /\ updated[u]["uuid"] = u
      /\ HasKey(updated[u], "conn") /\ updated[u]["conn"] = came["conn"]
      /\ \A v \in User \ {u} : updated[v] = NewSession \/ updated[v] = sessions[m][v]
  <2>1. TakenOver(updated, sessions[m], u, came)
    BY <1>1, <1>2, UpdateUUIDFacts
  <2>2. QED
    BY <1>1, <2>1 DEF TakenOver
<1>4. /\ sessions' = [sessions EXCEPT ![m] = [updated EXCEPT ![u] = s]]
      /\ queue' = Synced(Taken(Gateway, m), m, s)
  BY DEF Login, came
<1> HIDE DEF updated
<1>5. s \in SessionSet /\ SameOwner(updated[u], s)
  <2>1. updated[u] \in SessionSet
    BY <1>3
  <2>2. QED
    BY <1>2, <2>1, SetBindFacts
<1> HIDE DEF s
<1>6. IsKnown(s) /\ s["uuid"] = u /\ s["conn"] = came["conn"]
  BY <1>3, <1>5 DEF IsKnown, SameOwner
<1>7. /\ sessions' \in [Worker -> [User -> SessionSet]]
      /\ sessions'[m][u] = s
      /\ \A n \in Worker, v \in User : n # m \/ v # u =>
            sessions'[n][v] = IF n = m THEN updated[v] ELSE sessions[n][v]
  BY <1>3, <1>4, <1>5 DEF TypeInv
<1>8. \A n \in Worker, v \in User : n # m \/ v # u =>
         sessions'[n][v] = NewSession \/ sessions'[n][v] = sessions[n][v]
  BY <1>3, <1>7
<1>9. /\ queue' \in Queues
      /\ In(queue') \subseteq
            In(Taken(Gateway, m)) \cup {[type |-> "SUpdateSession", session |-> s]}
  BY <1>1, <1>2, <1>4, <1>5, SyncedFacts
<1>10. QED
  BY <1>1, <1>5, <1>6, <1>7, <1>8, <1>9 DEF came

(* An update at a worker: the session of its user has the data's connection. *)
LEMMA WorkerUpdateFacts ==
    ASSUME TypeInv, KnownInv, NEW m \in Worker, NEW n \in Module, OnUpdateSession(m, n)
    PROVE  LET data == First(n, m).session
               u == data["uuid"]
               s == sessions'[m][u] IN
           /\ u \in User /\ s \in SessionSet /\ IsKnown(s)
           /\ s["uuid"] = u /\ s["conn"] = data["conn"]
           /\ sessions' \in [Worker -> [User -> SessionSet]]
           /\ \A x \in Worker, v \in User :
                 x # m \/ v # u => sessions'[x][v] = sessions[x][v]
           /\ queue' \in Queues /\ In(queue') \subseteq In(queue)
           /\ First(n, m) \in In(queue) /\ First(n, m).type = "SUpdateSession"
<1> DEFINE data == First(n, m).session
           u == data["uuid"]
           s == FromMap(sessions[m][u], data)
<1>1. /\ queue' \in Queues /\ In(queue') \subseteq In(queue)
      /\ First(n, m) \in In(queue) /\ First(n, m).type = "SUpdateSession"
      /\ data \in SessionSet /\ IsKnown(data) /\ u \in User
  BY UpdateFacts DEF OnUpdateSession, Worker
<1>2. sessions' = [sessions EXCEPT ![m] = [sessions[m] EXCEPT ![u] = s]]
  BY DEF OnUpdateSession, MustUpdateFromMap
<1>3. sessions[m][u] \in SessionSet /\ sessions \in [Worker -> [User -> SessionSet]]
  BY <1>1 DEF TypeInv
<1> HIDE DEF data
<1>4. s \in SessionSet /\ SameOwner(data, s)
  BY <1>1, <1>3, WrittenFacts DEF IsKnown
<1>5. IsKnown(s) /\ s["uuid"] = data["uuid"] /\ s["conn"] = data["conn"]
  BY <1>1, <1>4 DEF IsKnown, SameOwner
<1> HIDE DEF s, u
<1>6. /\ sessions' \in [Worker -> [User -> SessionSet]]
      /\ \A x \in Worker, v \in User :
            sessions'[x][v] = IF x = m /\ v = u THEN s ELSE sessions[x][v]
  BY <1>1, <1>2, <1>3, <1>4
<1>7. QED
  BY <1>1, <1>4, <1>5, <1>6 DEF u, data
-----------------------------------------------------------------------------
(* The steps of onUpdateSession at the gateway: what each writes, and what of. *)

Written(o, s) ==
    /\ o \in Conn \cup User /\ s \in SessionSet
    /\ object' \in [Conn \cup User -> SessionSet]
    /\ object'[o] = s
    /\ \A x \in Conn \cup User : x # o => object'[x] = object[x]

LEMMA WriteFacts ==
    ASSUME TypeInv, NEW o \in Conn \cup User, NEW s \in SessionSet, Write(o, s)
    PROVE  Written(o, s)
  BY DEF TypeInv, Write, Written

LEMMA KeepFacts ==
    ASSUME NEW u, NEW o
    PROVE  /\ DOMAIN Keep(u, o) = DOMAIN kept \cup {u}
           /\ Keep(u, o)[u] = o
           /\ \A v \in DOMAIN kept \ {u} : Keep(u, o)[v] = kept[v]
  BY DEF Keep

(* Keeping one more session leaves the objects that are kept known. *)
LEMMA KeepTypes ==
    ASSUME DOMAIN kept \subseteq User, \A v \in DOMAIN kept : kept[v] \in Conn \cup DOMAIN kept,
           NEW u \in User, NEW o \in Conn \cup User,
           UNCHANGED kept \/ kept' = Keep(u, o), o \notin Conn => o \in DOMAIN kept'
    PROVE  /\ DOMAIN kept' \subseteq User
           /\ \A v \in DOMAIN kept' : kept'[v] \in Conn \cup DOMAIN kept'
<1>1. CASE UNCHANGED kept
  BY <1>1
<1>2. CASE kept' = Keep(u, o)
  <2>1. /\ DOMAIN Keep(u, o) = DOMAIN kept \cup {u}
        /\ Keep(u, o)[u] = o
        /\ \A v \in DOMAIN kept \ {u} : Keep(u, o)[v] = kept[v]
    BY KeepFacts
  <2>2. /\ DOMAIN kept' = DOMAIN kept \cup {u}
        /\ kept'[u] = o
        /\ \A v \in DOMAIN kept \ {u} : kept'[v] = kept[v]
    BY <1>2, <2>1
  <2>3. QED
    BY <2>2
<1>3. QED
  BY <1>1, <1>2

(* The client that the data name gets them. *)
ClientGets(data, c) ==
    /\ data \in SessionSet /\ IsKnown(data)
    /\ c = data["conn"] /\ c \in Conn /\ data["uuid"] \in User
    /\ handler' \in Busy
    /\ \/ /\ c \in pool
          /\ handler' = [at |-> "find", data |-> data, s |-> c]
          /\ Written(c, object'[c]) /\ SameOwner(data, object'[c])
       \/ /\ handler' = [at |-> "find", data |-> data, s |-> data["uuid"]]
          /\ UNCHANGED object

LEMMA ClientGetsFacts ==
    ASSUME TypeInv, KnownInv, NEW n \in Worker, OnUpdateClient(n)
    PROVE  /\ queue' \in Queues /\ In(queue') \subseteq In(queue)
           /\ First(n, Gateway) \in In(queue)
           /\ First(n, Gateway).type = "SUpdateSession"
           /\ ClientGets(First(n, Gateway).session, First(n, Gateway).session["conn"])
<1> DEFINE data == First(n, Gateway).session
           c == data["conn"]
           s == FromMap(object[c], data)
<1>1. /\ queue' \in Queues /\ In(queue') \subseteq In(queue)
      /\ First(n, Gateway) \in In(queue)
      /\ First(n, Gateway).type = "SUpdateSession"
      /\ data \in SessionSet /\ IsKnown(data)
      /\ c \in Conn /\ data["uuid"] \in User
  BY UpdateFacts, ModuleAssumption DEF OnUpdateClient, Starts, Worker
<1>2. \/ /\ c \in pool /\ Write(c, s)
         /\ handler' = [at |-> "find", data |-> data, s |-> c]
      \/ /\ handler' = [at |-> "find", data |-> data, s |-> data["uuid"]]
         /\ UNCHANGED object
  BY DEF OnUpdateClient
<1>3. object[c] \in SessionSet
  BY <1>1 DEF TypeInv
<1> HIDE DEF data, c
<1>4. s \in SessionSet /\ SameOwner(data, s)
  BY <1>1, <1>3, WrittenFacts DEF IsKnown
<1> HIDE DEF s
<1>5. Write(c, s) => Written(c, object'[c]) /\ SameOwner(data, object'[c])
  <2>1. Write(c, s) => Written(c, s)
    BY <1>1, <1>4, WriteFacts
  <2>2. Written(c, s) => object'[c] = s
    BY DEF Written
  <2>3. QED
    BY <1>4, <2>1, <2>2
<1>6. handler' \in Busy
  BY <1>1, <1>2 DEF Busy
<1>7. ClientGets(data, c)
  BY <1>1, <1>2, <1>5, <1>6 DEF ClientGets, c
<1>8. QED
  BY <1>1, <1>7 DEF data, c

(* The session to go on with: the client's, which takes over what is kept; a new one; *)
(* or what is kept.  It is kept for the user, if any is.                              *)
Found(u, s) ==
    /\ u \in User
    /\ handler' = [at |-> "load", data |-> handler.data, s |-> s] /\ handler' \in Busy
    /\ Written(s, object'[s]) /\ IsVertify(object'[s])
    /\ s \in Conn => phase[s] # "new"
    /\ s \notin Conn => s \in DOMAIN kept'
    /\ \/ UNCHANGED kept
       \/ kept' = Keep(u, s)
    /\ \/ s = handler.s /\ s \in Conn /\ SameOwner(object[s], object'[s])
       \/ s = u /\ u \notin DOMAIN kept /\ object'[s]["uuid"] = u /\ kept' = Keep(u, s)
       \/ u \in DOMAIN kept /\ s = kept[u] /\ object'[s] = object[s]

LEMMA FoundFacts ==
    ASSUME TypeInv, KnownInv, FindSession
    PROVE  \E s \in Conn \cup User : Found(handler.data["uuid"], s)
<1> DEFINE h == handler
           u == h.data["uuid"]
           s == IF u \in DOMAIN kept /\ h.s \notin Conn THEN kept[u] ELSE h.s
<1>1. h \in Busy /\ h # Idle /\ h.at = "find"
  BY DEF FindSession, TypeInv
<1>2. /\ h.data \in SessionSet /\ h.s \in Conn \cup User /\ IsKnown(h.data)
      /\ h.s \in Conn => phase[h.s] # "new" /\ IsVertify(object[h.s])
      /\ h.s \notin Conn => h.s = u
  BY <1>1, HandlerFields DEF KnownInv, HandlerKnown, IsChosen
<1>3. u \in User
  BY <1>2, SessionFields DEF IsKnown, IsVertify
<1>4. u \in DOMAIN kept => /\ kept[u] \in Conn \cup DOMAIN kept /\ kept[u] \in Conn \cup User
                           /\ IsVertify(object[kept[u]])
                           /\ kept[u] \in Conn => phase[kept[u]] # "new"
  BY DEF TypeInv, KnownInv
<1>5. object \in [Conn \cup User -> SessionSet]
  BY DEF TypeInv
<1>6. /\ handler' = [h EXCEPT !.at = "load", !.s = s]
      /\ \/ /\ u \in DOMAIN kept /\ h.s \in Conn
            /\ Write(s, OnlyAddKeyFromSession(object[s], object[kept[u]]))
            /\ kept' = Keep(u, s)
         \/ /\ u \notin DOMAIN kept /\ h.s \notin Conn
            /\ Write(s, Set(NewSession, "uuid", u))
            /\ kept' = Keep(u, s)
         \/ /\ (u \in DOMAIN kept) # (h.s \in Conn)
            /\ UNCHANGED <<object, kept>>
  BY DEF FindSession
<1>7. s \in Conn \cup User
  BY <1>2, <1>4
<1>8. handler' = [at |-> "load", data |-> h.data, s |-> s] /\ handler' \in Busy
  BY <1>1, <1>6, <1>7 DEF Busy
<1>9. CASE u \in DOMAIN kept /\ h.s \in Conn
  <2> DEFINE t == OnlyAddKeyFromSession(object[s], object[kept[u]])
  <2>1. s = h.s /\ Write(s, t) /\ kept' = Keep(u, s)
    BY <1>6, <1>9
  <2>2. object[s] \in SessionSet /\ object[kept[u]] \in SessionSet
    BY <1>4, <1>5, <1>7, <1>9
  <2> HIDE DEF s
  <2>3. t \in SessionSet /\ SameOwner(object[s], t)
    BY <2>2, OnlyAddFacts
  <2> HIDE DEF t
  <2>4. Written(s, t) /\ object'[s] = t
    BY <1>7, <2>1, <2>3, WriteFacts DEF Written
  <2>5. IsVertify(object'[s])
    BY <1>2, <1>9, <2>1, <2>3, <2>4 DEF SameOwner
  <2>6. Found(u, s)
    BY <1>2, <1>3, <1>8, <1>9, <2>1, <2>3, <2>4, <2>5 DEF Found
  <2>7. QED
    BY <1>7, <2>6
<1>10. CASE u \notin DOMAIN kept /\ h.s \notin Conn
  <2> DEFINE t == Set(NewSession, "uuid", u)
  <2>1. s = u /\ s \notin Conn /\ Write(s, t) /\ kept' = Keep(u, s)
    BY <1>2, <1>6, <1>10
  <2>2. t \in SessionSet /\ IsVertify(t) /\ t["uuid"] = u
    BY <1>3, NamedSession
  <2> HIDE DEF s, t
  <2>3. Written(s, t) /\ object'[s] = t
    BY <1>7, <2>1, <2>2, WriteFacts DEF Written
  <2>4. s \in DOMAIN kept'
    <3>1. DOMAIN Keep(u, s) = DOMAIN kept \cup {u}
      BY KeepFacts
    <3>2. QED
      BY <2>1, <3>1
  <2>5. Found(u, s)
    BY <1>3, <1>8, <1>10, <2>1, <2>2, <2>3, <2>4 DEF Found
  <2>6. QED
    BY <1>7, <2>5
<1>11. CASE (u \in DOMAIN kept) # (h.s \in Conn)
  <2>1. UNCHANGED <<object, kept>>
    BY <1>6, <1>11
  <2>2. \/ s = h.s /\ h.s \in Conn
        \/ u \in DOMAIN kept /\ s = kept[u]
    BY <1>11
  <2>3. Written(s, object'[s]) /\ SameOwner(object[s], object'[s])
    BY <1>5, <1>7, <2>1 DEF Written, SameOwner
  <2>4. /\ IsVertify(object'[s])
        /\ s \in Conn => phase[s] # "new"
        /\ s \notin Conn => s \in DOMAIN kept'
    BY <1>2, <1>4, <2>1, <2>2
  <2> HIDE DEF s
  <2>5. Found(u, s)
    BY <1>3, <1>8, <2>1, <2>2, <2>3, <2>4 DEF Found
  <2>6. QED
    BY <1>7, <2>5
<1>12. QED
  BY <1>6, <1>9, <1>10, <1>11

(* MustUpdateFromMap: what is kept under the UUID of the session, or this one, stays *)
(* whose it is.                                                                      *)
Loaded(u, target) ==
    /\ u = object[handler.s]["uuid"] /\ u \in User
    /\ handler' = [at |-> "write", data |-> handler.data, s |-> target] /\ handler' \in Busy
    /\ Written(target, object'[target]) /\ SameOwner(object[target], object'[target])
    /\ IsVertify(object[target])
    /\ target \in Conn => phase[target] # "new"
    /\ target \notin Conn => target \in DOMAIN kept
    /\ kept' = Keep(u, target)
    /\ target = handler.s \/ (u \in DOMAIN kept /\ target = kept[u])

LEMMA LoadedFacts ==
    ASSUME TypeInv, KnownInv, LoadOrStore
    PROVE  \E u, target : Loaded(u, target)
<1> DEFINE h == handler
           u == object[h.s]["uuid"]
           target == IF u \in DOMAIN kept THEN kept[u] ELSE h.s
           t == OnlyAddKeyFromSession(object[target], object[h.s])
<1>1. h \in Busy /\ h # Idle /\ h.at = "load"
  BY DEF LoadOrStore, TypeInv
<1>2. /\ h.data \in SessionSet /\ h.s \in Conn \cup User /\ IsKnown(h.data)
      /\ h.s \in Conn => phase[h.s] # "new"
      /\ h.s \notin Conn => h.s \in DOMAIN kept
      /\ IsVertify(object[h.s])
  BY <1>1, HandlerFields DEF KnownInv, HandlerKnown, IsChosen
<1>3. object \in [Conn \cup User -> SessionSet]
  BY DEF TypeInv
<1>4. object[h.s] \in SessionSet
  BY <1>2, <1>3
<1>5. u \in User
  BY <1>2, <1>4, SessionFields DEF IsVertify
<1>6. u \in DOMAIN kept => /\ kept[u] \in Conn \cup DOMAIN kept /\ kept[u] \in Conn \cup User
                           /\ IsVertify(object[kept[u]])
                           /\ kept[u] \in Conn => phase[kept[u]] # "new"
  BY DEF TypeInv, KnownInv
<1>7. /\ target \in Conn \cup User /\ IsVertify(object[target])
      /\ target \in Conn => phase[target] # "new"
      /\ target \notin Conn => target \in DOMAIN kept
      /\ target = h.s \/ (u \in DOMAIN kept /\ target = kept[u])
  BY <1>2, <1>6
<1>8. /\ handler' = [h EXCEPT !.at = "write", !.s = target]
      /\ Write(target, t) /\ kept' = Keep(u, target)
  BY DEF LoadOrStore
<1> HIDE DEF target
<1>9. t \in SessionSet /\ SameOwner(object[target], t)
  BY <1>3, <1>4, <1>7, OnlyAddFacts
<1> HIDE DEF t
<1>10. Written(target, t) /\ object'[target] = t
  BY <1>7, <1>8, <1>9, WriteFacts DEF Written
<1>11. handler' = [at |-> "write", data |-> h.data, s |-> target] /\ handler' \in Busy
  BY <1>1, <1>7, <1>8 DEF Busy
<1>12. Loaded(u, target)
  BY <1>5, <1>7, <1>8, <1>9, <1>10, <1>11 DEF Loaded
<1>13. QED
  BY <1>12

(* The data are written at last. *)
LEMMA WriteDataFacts ==
    ASSUME TypeInv, KnownInv, WriteData
    PROVE  /\ handler # Idle /\ handler \in Busy /\ IsChosen(handler)
           /\ IsKnown(handler.data)
           /\ Written(handler.s, object'[handler.s])
           /\ SameOwner(handler.data, object'[handler.s])
<1> DEFINE h == handler
           t == FromMap(object[h.s], h.data)
<1>1. h \in Busy /\ h # Idle /\ h.at = "write"
  BY DEF WriteData, TypeInv
<1>2. h.data \in SessionSet /\ h.s \in Conn \cup User /\ IsKnown(h.data)
  BY <1>1, HandlerFields DEF KnownInv, HandlerKnown
<1>3. object[h.s] \in SessionSet
  BY <1>2 DEF TypeInv
<1>4. t \in SessionSet /\ SameOwner(h.data, t)
  BY <1>2, <1>3, WrittenFacts DEF IsKnown
<1>5. Write(h.s, t)
  BY DEF WriteData
<1> HIDE DEF t
<1>6. Written(h.s, t) /\ object'[h.s] = t
  BY <1>2, <1>4, <1>5, WriteFacts DEF Written
<1>7. QED
  BY <1>1, <1>2, <1>4, <1>6 DEF IsChosen

(* The client is bound to who answers. *)
LEMMA BoundFacts ==
    ASSUME TypeInv, KnownInv, NEW n \in Worker, OnForwardToClient(n)
    PROVE  /\ queue' \in Queues /\ In(queue') \subseteq In(queue)
           /\ object' \in [Conn \cup User -> SessionSet]
           /\ \A o \in Conn \cup User :
                 SameOwner(object[o], object'[o]) /\ SameOwner(object'[o], object[o])
<1> DEFINE c == First(n, Gateway).conn
           s == SetBind(object[c], n)
<1>1. Receives(Gateway, n, "SForwardToClient") /\ n \in Module /\ Gateway \in Module
  BY ModuleAssumption DEF OnForwardToClient, Starts, Worker
<1>2. /\ queue' \in Queues /\ In(queue') \subseteq In(queue)
      /\ First(n, Gateway) \in In(queue)
      /\ First(n, Gateway).type = "SForwardToClient"
  BY <1>1, Received DEF OnForwardToClient, TypeInv
<1>3. c \in Conn
  BY <1>2, CommandFields DEF In
<1>4. object \in [Conn \cup User -> SessionSet] /\ object[c] \in SessionSet
  BY <1>3 DEF TypeInv
<1>5. Write(c, s) \/ UNCHANGED object
  BY DEF OnForwardToClient
<1> HIDE DEF c
<1>6. s \in SessionSet /\ SameOwner(object[c], s) /\ SameOwner(s, object[c])
  BY <1>1, <1>4, SetBindFacts
<1> HIDE DEF s
<1>7. \A t \in SessionSet : SameOwner(t, t)
  BY DEF SameOwner
<1>8. CASE Write(c, s)
  <2>1. Written(c, s)
    BY <1>3, <1>6, <1>8, WriteFacts
  <2>2. QED
    BY <1>2, <1>4, <1>6, <1>7, <2>1 DEF Written
<1>9. CASE UNCHANGED object
  BY <1>2, <1>4, <1>7, <1>9
<1>10. QED
  BY <1>5, <1>8, <1>9

-----------------------------------------------------------------------------
LEMMA TypeNext == TypeInv /\ KnownInv /\ [Next]_vars => TypeInv'
<1>1. SUFFICES ASSUME TypeInv, KnownInv, [Next]_vars PROVE TypeInv'
  OBVIOUS
<1>2. CASE UNCHANGED vars
  BY <1>1, <1>2 DEF vars, clientVars, sessionVars, TypeInv
<1>3. ASSUME NEW c \in Conn, AddTCPClient(c)
      PROVE  TypeInv'
  <2> DEFINE s == SetBind(Set(NewSession, "conn", c), Gateway)
  <2>1. s \in SessionSet
    BY NewClientFacts
  <2>2. object' = [object EXCEPT ![c] = s] /\ phase[c] = "new"
    BY <1>3 DEF AddTCPClient
  <2> HIDE DEF s
  <2>3. QED
    BY <1>1, <1>3, <2>1, <2>2 DEF TypeInv, AddTCPClient
<1>4. ASSUME NEW c \in Conn, ClientSends(c)
      PROVE  TypeInv'
  <2>1. /\ phase[c] = "open" /\ sent[c] < MaxSends[c] /\ MaxSends[c] \in Nat
        /\ sent \in [Conn -> Nat] /\ inbox \in [Conn -> Nat]
        /\ sent' = [sent EXCEPT ![c] = @ + 1] /\ inbox' = [inbox EXCEPT ![c] = @ + 1]
        /\ UNCHANGED <<phase, terminated, pool, sessionVars, queue>>
    BY <1>1, <1>4, BoundAssumption DEF TypeInv, ClientSends
  <2>2. /\ sent' \in [Conn -> Nat] /\ inbox' \in [Conn -> Nat]
        /\ \A d \in Conn : IF d = c THEN sent'[d] = sent[d] + 1 /\ inbox'[d] = inbox[d] + 1
                           ELSE sent'[d] = sent[d] /\ inbox'[d] = inbox[d]
    BY <2>1
  <2>3. \A d \in Conn : /\ inbox'[d] <= sent'[d] /\ sent'[d] <= MaxSends[d]
                        /\ phase[d] = "new" => sent'[d] = 0
    <3>1. SUFFICES ASSUME NEW d \in Conn
                   PROVE  /\ inbox'[d] <= sent'[d] /\ sent'[d] <= MaxSends[d]
                          /\ phase[d] = "new" => sent'[d] = 0
      OBVIOUS
    <3>2. inbox[d] <= sent[d] /\ sent[d] <= MaxSends[d] /\ (phase[d] = "new" => sent[d] = 0)
      BY <1>1 DEF TypeInv
    <3>3. inbox[d] \in Nat /\ sent[d] \in Nat
      BY <2>1
    <3>4. CASE d = c
      BY <2>1, <2>2, <3>2, <3>3, <3>4
    <3>5. CASE d # c
      BY <2>2, <3>2, <3>5
    <3>6. QED
      BY <3>4, <3>5
  <2>4. QED
    BY <1>1, <2>1, <2>2, <2>3 DEF TypeInv, sessionVars
<1>5. ASSUME NEW c \in Conn, ClientLeaves(c)
      PROVE  TypeInv'
  BY <1>1, <1>5 DEF TypeInv, ClientLeaves, Shutdown, sessionVars
<1>6. ASSUME NEW c \in Conn, OnRecvConnectMessage(c)
      PROVE  TypeInv'
  <2>1. /\ inbox' \in [Conn -> Nat]
        /\ \A d \in Conn : inbox'[d] <= inbox[d]
        /\ UNCHANGED <<sent, terminated, pool, object, kept, sessions, handler>>
    BY <1>1, <1>6 DEF TypeInv, OnRecvConnectMessage, sessionVars
  <2>2. \A d \in Conn : inbox'[d] <= sent'[d] /\ sent'[d] <= MaxSends[d]
    BY <1>1, <2>1, BoundAssumption DEF TypeInv
  <2>3. /\ phase' \in [Conn -> {"new", "open", "ended", "closed"}]
        /\ \A d \in Conn : phase'[d] = "new" <=> phase[d] = "new"
    BY <1>1, <1>6 DEF TypeInv, OnRecvConnectMessage, Shutdown
  <2>4. queue' \in Queues
    BY <1>1, <1>6, RecvFacts
  <2>5. QED
    BY <1>1, <2>1, <2>2, <2>3, <2>4 DEF TypeInv
<1>7. ASSUME NEW c \in Conn, OnConnectClose(c) \/ RangeRemove(c)
      PROVE  TypeInv'
  <2>1. /\ pool' \subseteq pool
        /\ terminated' \subseteq terminated \cup {c}
        /\ phase' \in [Conn -> {"new", "open", "ended", "closed"}]
        /\ \A d \in Conn : phase'[d] = "new" <=> phase[d] = "new"
        /\ UNCHANGED <<inbox, sent, object, kept, sessions, handler, queue>>
    BY <1>1, <1>7 DEF TypeInv, OnConnectClose, RangeRemove, Remove, Shutdown, sessionVars
  <2>2. QED
    BY <1>1, <2>1 DEF TypeInv
<1>8. ASSUME NEW m \in Worker, NEW u \in User, Login(m, u)
      PROVE  TypeInv'
  <2>1. sessions' \in [Worker -> [User -> SessionSet]] /\ queue' \in Queues
    BY <1>1, <1>8, LoginFacts
  <2>2. UNCHANGED <<clientVars, object, kept, handler>>
    BY <1>8 DEF Login
  <2>3. QED
    BY <1>1, <2>1, <2>2 DEF TypeInv, clientVars
<1>9. ASSUME NEW m \in Worker, SendMsg(m) \/ CloseSessionConnect(m)
      PROVE  TypeInv'
  <2>1. queue' \in Queues /\ UNCHANGED <<clientVars, sessionVars>>
    BY <1>1, <1>9, AskFacts
  <2>2. QED
    BY <1>1, <2>1 DEF TypeInv, clientVars, sessionVars
<1>10. ASSUME NEW m \in Worker, NEW n \in Module, OnUpdateSession(m, n)
       PROVE  TypeInv'
  <2>1. sessions' \in [Worker -> [User -> SessionSet]] /\ queue' \in Queues
    BY <1>1, <1>10, WorkerUpdateFacts
  <2>2. UNCHANGED <<clientVars, object, kept, handler>>
    BY <1>10 DEF OnUpdateSession
  <2>3. QED
    BY <1>1, <2>1, <2>2 DEF TypeInv, clientVars
<1>11. ASSUME NEW n \in Worker, OnUpdateClient(n)
       PROVE  TypeInv'
  <2>1. /\ queue' \in Queues
        /\ \E data, c : ClientGets(data, c)
        /\ UNCHANGED <<clientVars, kept, sessions>>
    BY <1>1, <1>11, ClientGetsFacts DEF OnUpdateClient
  <2>2. object' \in [Conn \cup User -> SessionSet] /\ handler' \in Busy
    BY <1>1, <2>1 DEF TypeInv, ClientGets, Written
  <2>3. QED
    BY <1>1, <2>1, <2>2 DEF TypeInv, clientVars
<1>12. CASE FindSession
  <2>1. PICK s \in Conn \cup User : Found(handler.data["uuid"], s)
    BY <1>1, <1>12, FoundFacts
  <2> DEFINE u == handler.data["uuid"]
  <2>2. /\ handler' \in Busy /\ u \in User
        /\ object' \in [Conn \cup User -> SessionSet]
        /\ UNCHANGED kept \/ kept' = Keep(u, s)
        /\ s \notin Conn => s \in DOMAIN kept'
    BY <2>1 DEF Found, Written
  <2>3. UNCHANGED <<clientVars, sessions, queue>>
    BY <1>12 DEF FindSession
  <2> HIDE DEF u
  <2>4. DOMAIN kept' \subseteq User /\ \A v \in DOMAIN kept' : kept'[v] \in Conn \cup DOMAIN kept'
    BY <1>1, <2>1, <2>2, KeepTypes DEF TypeInv
  <2>5. QED
    BY <1>1, <2>2, <2>3, <2>4 DEF TypeInv, clientVars
<1>13. CASE LoadOrStore
  <2>1. PICK u, target : Loaded(u, target)
    BY <1>1, <1>13, LoadedFacts
  <2>2. /\ handler' \in Busy /\ u \in User /\ target \in Conn \cup User
        /\ object' \in [Conn \cup User -> SessionSet]
        /\ kept' = Keep(u, target)
        /\ target \notin Conn => target \in DOMAIN kept
    BY <2>1 DEF Loaded, Written
  <2>3. UNCHANGED <<clientVars, sessions, queue>>
    BY <1>13 DEF LoadOrStore
  <2>4. target \notin Conn => target \in DOMAIN kept'
    BY <2>2, KeepFacts
  <2>5. DOMAIN kept' \subseteq User /\ \A v \in DOMAIN kept' : kept'[v] \in Conn \cup DOMAIN kept'
    BY <1>1, <2>2, <2>4, KeepTypes DEF TypeInv
  <2>6. QED
    BY <1>1, <2>2, <2>3, <2>5 DEF TypeInv, clientVars
<1>14. CASE WriteData
  <2>1. object' \in [Conn \cup User -> SessionSet]
    BY <1>1, <1>14, WriteDataFacts DEF Written
  <2>2. handler' = Idle /\ UNCHANGED <<clientVars, kept, sessions, queue>>
    BY <1>14 DEF WriteData
  <2>3. QED
    BY <1>1, <2>1, <2>2 DEF TypeInv, clientVars
<1>15. ASSUME NEW n \in Worker, OnReqCloseConnect(n)
       PROVE  TypeInv'
  <2>1. queue' \in Queues
    BY <1>1, <1>15, Received, ModuleAssumption DEF OnReqCloseConnect, Starts, TypeInv, Worker
  <2>2. QED
    BY <1>1, <1>15, <2>1 DEF TypeInv, OnReqCloseConnect, sessionVars
<1>16. ASSUME NEW n \in Worker, OnForwardToClient(n)
       PROVE  TypeInv'
  <2>1. queue' \in Queues /\ object' \in [Conn \cup User -> SessionSet]
    BY <1>1, <1>16, BoundFacts
  <2>2. UNCHANGED <<clientVars, kept, sessions, handler>>
    BY <1>16 DEF OnForwardToClient
  <2>3. QED
    BY <1>1, <2>1, <2>2 DEF TypeInv, clientVars
<1>17. QED
  BY <1>1, <1>2, <1>3, <1>4, <1>5, <1>6, <1>7, <1>8, <1>9, <1>10, <1>11, <1>12, <1>13,
     <1>14, <1>15, <1>16 DEF Next, RecvMsgThread, WorkerHandles, GatewayHandles
(* A step that writes no session: one that sends a command adds none with a session, *)
(* unless it is a client's message.                                                  *)
Quiet ==
    /\ UNCHANGED <<object, kept, sessions, handler>>
    /\ \A c \in Conn : phase'[c] = "new" <=> phase[c] = "new"
    /\ \A x \in In(queue') :
          x \in In(queue) \/ x.type \in {"SForwardToClient", "SReqCloseConnect"}

LEMMA QuietSteps ==
    ASSUME TypeInv, KnownInv,
           \/ UNCHANGED vars
           \/ \E c \in Conn : \/ ClientSends(c) \/ ClientLeaves(c)
                              \/ OnConnectClose(c) \/ RangeRemove(c)
           \/ \E m \in Worker : \/ SendMsg(m) \/ CloseSessionConnect(m)
                                \/ OnReqCloseConnect(m)
    PROVE  Quiet
<1>1. phase \in [Conn -> {"new", "open", "ended", "closed"}]
  BY DEF TypeInv
<1>2. ASSUME NEW c \in Conn,
             ClientSends(c) \/ ClientLeaves(c) \/ OnConnectClose(c) \/ RangeRemove(c)
      PROVE  Quiet
  BY <1>1, <1>2 DEF ClientSends, ClientLeaves, OnConnectClose, RangeRemove, Shutdown, Quiet,
                    sessionVars
<1>3. ASSUME NEW m \in Worker, SendMsg(m) \/ CloseSessionConnect(m)
      PROVE  Quiet
  BY <1>3, AskFacts DEF Quiet, clientVars, sessionVars
<1>4. ASSUME NEW m \in Worker, OnReqCloseConnect(m)
      PROVE  Quiet
  <2>1. In(queue') \subseteq In(queue)
    BY <1>4, Received, ModuleAssumption DEF OnReqCloseConnect, Starts, TypeInv, Worker
  <2>2. QED
    BY <1>4, <2>1 DEF OnReqCloseConnect, Quiet, sessionVars
<1>5. CASE UNCHANGED vars
  BY <1>5 DEF vars, clientVars, sessionVars, Quiet
<1>6. QED
  BY <1>2, <1>3, <1>4, <1>5

(* One object is written, and the handler goes on; nothing else changes. *)
LEMMA ClientStays ==
    ASSUME KnownInv, NEW o, NEW s, Written(o, s),
           o \in Conn /\ phase[o] # "new" => HasKey(s, "conn")
    PROVE  \A c \in Conn : phase[c] # "new" => HasKey(object'[c], "conn")
  BY DEF KnownInv, Written

(* A kept object that is written has a UUID then, and so has one that is kept anew. *)
LEMMA KeptStays ==
    ASSUME TypeInv, KnownInv, NEW o, NEW s, Written(o, s), IsVertify(s),
           o \in Conn => phase[o] # "new",
           NEW u, UNCHANGED kept \/ kept' = Keep(u, o)
    PROVE  \A v \in DOMAIN kept' :
              IsVertify(object'[kept'[v]]) /\ (kept'[v] \in Conn => phase[kept'[v]] # "new")
<1>1. /\ DOMAIN Keep(u, o) = DOMAIN kept \cup {u}
      /\ Keep(u, o)[u] = o
      /\ \A v \in DOMAIN kept \ {u} : Keep(u, o)[v] = kept[v]
  BY KeepFacts
<1>2. \A v \in DOMAIN kept' : kept'[v] = o \/ (v \in DOMAIN kept /\ kept'[v] = kept[v])
  BY <1>1
<1>3. \A v \in DOMAIN kept : /\ kept[v] \in Conn \cup User
                             /\ IsVertify(object[kept[v]])
                             /\ kept[v] \in Conn => phase[kept[v]] # "new"
  BY DEF TypeInv, KnownInv
<1>4. /\ object'[o] = s
      /\ \A x \in Conn \cup User : x # o => object'[x] = object[x]
  BY DEF Written
<1>5. SUFFICES ASSUME NEW v \in DOMAIN kept'
               PROVE  /\ IsVertify(object'[kept'[v]])
                      /\ kept'[v] \in Conn => phase[kept'[v]] # "new"
  OBVIOUS
<1>6. CASE kept'[v] = o
  BY <1>4, <1>6
<1>7. CASE kept'[v] # o
  BY <1>2, <1>3, <1>4, <1>7
<1>8. QED
  BY <1>6, <1>7

LEMMA KnownNext == TypeInv /\ KnownInv /\ [Next]_vars => TypeInv' /\ KnownInv'
<1>1. SUFFICES ASSUME TypeInv, KnownInv, [Next]_vars PROVE KnownInv'
  BY TypeNext
<1>2. object \in [Conn \cup User -> SessionSet]
  BY <1>1 DEF TypeInv
<1>3. \A u \in DOMAIN kept : kept[u] \in Conn \cup User
  BY <1>1 DEF TypeInv
<1>4. handler # Idle => handler \in Busy /\ handler.s \in Conn \cup User
  BY <1>1, HandlerFields DEF TypeInv
<1>5. CASE Quiet
  <2>1. HandlerKnown'
    BY <1>1, <1>4, <1>5 DEF KnownInv, HandlerKnown, IsChosen, Quiet
  <2>2. QED
    BY <1>1, <1>3, <1>5, <2>1 DEF KnownInv, Quiet
<1>6. ASSUME NEW c \in Conn, AddTCPClient(c)
      PROVE  KnownInv'
  <2> DEFINE s == SetBind(Set(NewSession, "conn", c), Gateway)
  <2>1. HasKey(s, "conn")
    BY NewClientFacts
  <2>2. /\ object' = [object EXCEPT ![c] = s] /\ phase[c] = "new"
        /\ phase' = [phase EXCEPT ![c] = "open"]
        /\ UNCHANGED <<kept, sessions, queue, handler>>
    BY <1>6 DEF AddTCPClient
  <2> HIDE DEF s
  <2>3. \A o \in Conn : phase'[o] # "new" => HasKey(object'[o], "conn")
    BY <1>1, <1>2, <2>1, <2>2 DEF KnownInv, TypeInv
  <2>4. \A u \in DOMAIN kept : /\ kept[u] # c /\ object'[kept[u]] = object[kept[u]]
                               /\ kept[u] \in Conn => phase'[kept[u]] = phase[kept[u]]
    BY <1>1, <1>2, <1>3, <2>2 DEF KnownInv, TypeInv
  <2>5. handler # Idle => /\ handler.s # c /\ object'[handler.s] = object[handler.s]
                          /\ handler.s \in Conn => phase'[handler.s] = phase[handler.s]
    BY <1>1, <1>2, <1>4, <2>2 DEF KnownInv, HandlerKnown, TypeInv
  <2>6. HandlerKnown'
    BY <1>1, <1>4, <2>2, <2>5 DEF KnownInv, HandlerKnown, IsChosen
  <2>7. QED
    BY <1>1, <2>2, <2>3, <2>4, <2>6 DEF KnownInv
<1>7. ASSUME NEW c \in Conn, OnRecvConnectMessage(c)
      PROVE  KnownInv'
  <2> DEFINE e == [type |-> "SForwardFromGate", from |-> c, session |-> object[c]]
  <2>1. phase[c] # "new" /\ In(queue') \subseteq In(queue) \cup {e}
    BY <1>1, <1>7, RecvFacts
  <2>2. HasKey(e.session, "conn") /\ e.type = "SForwardFromGate"
    BY <1>1, <2>1 DEF KnownInv
  <2> HIDE DEF e
  <2>3. \A x \in In(queue') : /\ x.type = "SForwardFromGate" => HasKey(x.session, "conn")
                              /\ x.type = "SUpdateSession" => IsKnown(x.session)
    BY <1>1, <2>1, <2>2 DEF KnownInv
  <2>4. /\ UNCHANGED <<object, kept, sessions, handler>>
        /\ \A d \in Conn : phase'[d] = "new" <=> phase[d] = "new"
    BY <1>1, <1>7 DEF TypeInv, OnRecvConnectMessage, Shutdown, sessionVars
  <2>5. HandlerKnown'
    BY <1>1, <1>4, <2>4 DEF KnownInv, HandlerKnown, IsChosen
  <2>6. QED
    BY <1>1, <1>3, <2>3, <2>4, <2>5 DEF KnownInv
<1>8. ASSUME NEW m \in Worker, NEW u \in User, Login(m, u)
      PROVE  KnownInv'
  <2> DEFINE s == sessions'[m][u]
             e == [type |-> "SUpdateSession", session |-> s]
  <2>1. /\ IsKnown(s) /\ s["uuid"] = u
        /\ \A n \in Worker, v \in User : n # m \/ v # u =>
              sessions'[n][v] = NewSession \/ sessions'[n][v] = sessions[n][v]
        /\ In(queue') \subseteq In(queue) \cup {e}
    BY <1>1, <1>8, LoginFacts
  <2>2. UNCHANGED <<clientVars, object, kept, handler>>
    BY <1>8 DEF Login
  <2>3. e.type = "SUpdateSession" /\ e.session = s
    OBVIOUS
  <2> HIDE DEF e
  <2>4. \A x \in In(queue') : /\ x.type = "SForwardFromGate" => HasKey(x.session, "conn")
                              /\ x.type = "SUpdateSession" => IsKnown(x.session)
    BY <1>1, <2>1, <2>3 DEF KnownInv
  <2>5. \A n \in Worker, v \in User : sessions'[n][v] # NewSession =>
           IsKnown(sessions'[n][v]) /\ sessions'[n][v]["uuid"] = v
    <3>1. SUFFICES ASSUME NEW n \in Worker, NEW v \in User, sessions'[n][v] # NewSession
                   PROVE  IsKnown(sessions'[n][v]) /\ sessions'[n][v]["uuid"] = v
      OBVIOUS
    <3>2. CASE n = m /\ v = u
      BY <2>1, <3>2
    <3>3. CASE ~(n = m /\ v = u)
      BY <1>1, <2>1, <3>1, <3>3 DEF KnownInv
    <3>4. QED
      BY <3>2, <3>3
  <2>6. HandlerKnown'
    BY <1>1, <1>4, <2>2 DEF KnownInv, HandlerKnown, IsChosen, clientVars
  <2>7. QED
    BY <1>1, <2>2, <2>4, <2>5, <2>6 DEF KnownInv, clientVars
<1>9. ASSUME NEW m \in Worker, NEW n \in Module, OnUpdateSession(m, n)
      PROVE  KnownInv'
  <2> DEFINE u == First(n, m).session["uuid"]
  <2>1. /\ u \in User /\ IsKnown(sessions'[m][u]) /\ sessions'[m][u]["uuid"] = u
        /\ \A x \in Worker, v \in User :
              x # m \/ v # u => sessions'[x][v] = sessions[x][v]
        /\ In(queue') \subseteq In(queue)
    BY <1>1, <1>9, WorkerUpdateFacts
  <2>2. UNCHANGED <<clientVars, object, kept, handler>>
    BY <1>9 DEF OnUpdateSession
  <2> HIDE DEF u
  <2>3. \A x \in Worker, v \in User : sessions'[x][v] # NewSession =>
           IsKnown(sessions'[x][v]) /\ sessions'[x][v]["uuid"] = v
    <3>1. SUFFICES ASSUME NEW x \in Worker, NEW v \in User, sessions'[x][v] # NewSession
                   PROVE  IsKnown(sessions'[x][v]) /\ sessions'[x][v]["uuid"] = v
      OBVIOUS
    <3>2. CASE x = m /\ v = u
      BY <2>1, <3>2
    <3>3. CASE ~(x = m /\ v = u)
      BY <1>1, <2>1, <3>1, <3>3 DEF KnownInv
    <3>4. QED
      BY <3>2, <3>3
  <2>4. HandlerKnown'
    BY <1>1, <1>4, <2>2 DEF KnownInv, HandlerKnown, IsChosen, clientVars
  <2>5. QED
    BY <1>1, <2>1, <2>2, <2>3, <2>4 DEF KnownInv, clientVars
<1>10. ASSUME NEW n \in Worker, OnUpdateClient(n)
       PROVE  KnownInv'
  <2>1. /\ In(queue') \subseteq In(queue)
        /\ \E data, c : ClientGets(data, c)
        /\ UNCHANGED <<clientVars, kept, sessions>>
    BY <1>1, <1>10, ClientGetsFacts DEF OnUpdateClient
  <2>2. PICK data, c : ClientGets(data, c)
    BY <2>1
  <2>3. IsKnown(data) /\ c \in Conn /\ data["uuid"] \in User
    BY <2>2 DEF ClientGets
  <2>4. CASE /\ c \in pool
             /\ handler' = [at |-> "find", data |-> data, s |-> c]
             /\ Written(c, object'[c]) /\ SameOwner(data, object'[c])
    <3>1. HasKey(object'[c], "conn") /\ IsVertify(object'[c]) /\ phase[c] # "new"
      BY <1>1, <2>3, <2>4 DEF SameOwner, IsKnown, TypeInv
    <3>2. \A o \in Conn : phase[o] # "new" => HasKey(object'[o], "conn")
      BY <1>1, <2>4, <3>1, ClientStays
    <3>3. \A u \in DOMAIN kept' :
             IsVertify(object'[kept'[u]]) /\ (kept'[u] \in Conn => phase[kept'[u]] # "new")
      BY <1>1, <2>1, <2>4, <3>1, KeptStays
    <3>4. HandlerKnown'
      BY <2>1, <2>3, <2>4, <3>1 DEF HandlerKnown, IsChosen, clientVars, Idle
    <3>5. QED
      BY <1>1, <2>1, <3>2, <3>3, <3>4 DEF KnownInv, clientVars
  <2>5. CASE /\ handler' = [at |-> "find", data |-> data, s |-> data["uuid"]]
             /\ UNCHANGED object
    <3>1. data["uuid"] \notin Conn
      BY <2>3, ObjectAssumption
    <3>2. HandlerKnown'
      BY <2>1, <2>3, <2>5, <3>1 DEF HandlerKnown, IsChosen, clientVars, Idle
    <3>3. QED
      BY <1>1, <2>1, <2>5, <3>2 DEF KnownInv, clientVars
  <2>6. QED
    BY <2>2, <2>4, <2>5 DEF ClientGets
<1>11. CASE FindSession
  <2>1. PICK s \in Conn \cup User : Found(handler.data["uuid"], s)
    BY <1>1, <1>11, FoundFacts
  <2> DEFINE u == handler.data["uuid"]
  <2>2. /\ u \in User /\ Written(s, object'[s]) /\ IsVertify(object'[s])
        /\ s \in Conn => phase[s] # "new"
        /\ s \notin Conn => s \in DOMAIN kept'
        /\ UNCHANGED kept \/ kept' = Keep(u, s)
        /\ handler' = [at |-> "load", data |-> handler.data, s |-> s]
    BY <2>1 DEF Found
  <2>3. s \in Conn => HasKey(object'[s], "conn")
    <3>1. \/ s \in Conn /\ SameOwner(object[s], object'[s])
          \/ s = u
          \/ object'[s] = object[s]
      BY <2>1 DEF Found
    <3>2. s \in Conn => s # u /\ HasKey(object[s], "conn")
      BY <1>1, <2>2, ObjectAssumption DEF KnownInv
    <3>3. QED
      BY <3>1, <3>2 DEF SameOwner
  <2>4. UNCHANGED <<clientVars, sessions, queue>> /\ handler # Idle
    BY <1>11 DEF FindSession
  <2>5. \A o \in Conn : phase[o] # "new" => HasKey(object'[o], "conn")
    BY <1>1, <2>2, <2>3, ClientStays
  <2> HIDE DEF u
  <2>6. \A v \in DOMAIN kept' :
           IsVertify(object'[kept'[v]]) /\ (kept'[v] \in Conn => phase[kept'[v]] # "new")
    BY <1>1, <2>2, KeptStays
  <2>7. HandlerKnown'
    BY <1>1, <2>2, <2>4 DEF KnownInv, HandlerKnown, IsChosen, clientVars
  <2>8. QED
    BY <1>1, <2>4, <2>5, <2>6, <2>7 DEF KnownInv, clientVars
<1>12. CASE LoadOrStore
  <2>1. PICK u, target : Loaded(u, target)
    BY <1>1, <1>12, LoadedFacts
  <2>2. /\ u \in User /\ Written(target, object'[target])
        /\ SameOwner(object[target], object'[target]) /\ IsVertify(object[target])
        /\ target \in Conn => phase[target] # "new"
        /\ target \notin Conn => target \in DOMAIN kept
        /\ kept' = Keep(u, target)
        /\ handler' = [at |-> "write", data |-> handler.data, s |-> target]
    BY <2>1 DEF Loaded
  <2>3. IsVertify(object'[target])
    BY <2>2 DEF SameOwner
  <2>4. target \in Conn => HasKey(object'[target], "conn")
    BY <1>1, <2>2 DEF SameOwner, KnownInv
  <2>5. UNCHANGED <<clientVars, sessions, queue>> /\ handler # Idle
    BY <1>12 DEF LoadOrStore
  <2>6. \A o \in Conn : phase[o] # "new" => HasKey(object'[o], "conn")
    BY <1>1, <2>2, <2>4, ClientStays
  <2>7. \A v \in DOMAIN kept' :
           IsVertify(object'[kept'[v]]) /\ (kept'[v] \in Conn => phase[kept'[v]] # "new")
    BY <1>1, <2>2, <2>3, KeptStays
  <2>8. target \notin Conn => target \in DOMAIN kept'
    BY <2>2, KeepFacts
  <2>9. HandlerKnown'
    BY <1>1, <2>2, <2>3, <2>5, <2>8 DEF KnownInv, HandlerKnown, IsChosen, clientVars
  <2>10. QED
    BY <1>1, <2>5, <2>6, <2>7, <2>9 DEF KnownInv, clientVars
<1>13. CASE WriteData
  <2> DEFINE o == handler.s
  <2>1. /\ Written(o, object'[o]) /\ SameOwner(handler.data, object'[o])
        /\ IsKnown(handler.data) /\ handler # Idle
    BY <1>1, <1>13, WriteDataFacts
  <2>2. HasKey(object'[o], "conn") /\ IsVertify(object'[o])
    BY <2>1 DEF SameOwner, IsKnown
  <2>3. o \in Conn => phase[o] # "new"
    BY <1>1, <2>1 DEF KnownInv, HandlerKnown
  <2>4. UNCHANGED <<clientVars, kept, sessions, queue>> /\ handler' = Idle
    BY <1>13 DEF WriteData
  <2> HIDE DEF o
  <2>5. \A c \in Conn : phase[c] # "new" => HasKey(object'[c], "conn")
    BY <1>1, <2>1, <2>2, ClientStays
  <2>6. \A v \in DOMAIN kept' :
           IsVertify(object'[kept'[v]]) /\ (kept'[v] \in Conn => phase[kept'[v]] # "new")
    BY <1>1, <2>1, <2>2, <2>3, <2>4, KeptStays
  <2>7. QED
    BY <1>1, <2>4, <2>5, <2>6 DEF KnownInv, HandlerKnown, clientVars
<1>14. ASSUME NEW n \in Worker, OnForwardToClient(n)
       PROVE  KnownInv'
  <2>1. /\ In(queue') \subseteq In(queue)
        /\ \A o \in Conn \cup User : SameOwner(object[o], object'[o])
    BY <1>1, <1>14, BoundFacts
  <2>2. UNCHANGED <<clientVars, kept, sessions, handler>>
    BY <1>14 DEF OnForwardToClient
  <2>3. \A o \in Conn \cup User : /\ HasKey(object[o], "conn") => HasKey(object'[o], "conn")
                                  /\ IsVertify(object[o]) => IsVertify(object'[o])
    BY <2>1 DEF SameOwner
  <2>4. HandlerKnown'
    BY <1>1, <1>4, <2>2, <2>3 DEF KnownInv, HandlerKnown, IsChosen, clientVars
  <2>5. QED
    BY <1>1, <1>3, <2>1, <2>2, <2>3, <2>4 DEF KnownInv, clientVars
<1>15. QED
  BY <1>1, <1>5, <1>6, <1>7, <1>8, <1>9, <1>10, <1>11, <1>12, <1>13, <1>14, QuietSteps
     DEF Next, RecvMsgThread, WorkerHandles, GatewayHandles

(* The sessions are tables of the right values at every module, whoever logs in *)
(* where and changes his connection, and the handlers find what they read.      *)
THEOREM TypeCorrect == Spec => []TypeOK
<1>1. TypeInv /\ KnownInv => TypeOK
  BY TypeInvTypes
<1>2. QED
  BY <1>1, KnownInit, KnownNext, PTL DEF Spec
-----------------------------------------------------------------------------
(* The pool: a connection leaves it only when its receiver is shut down with it, *)
(* although Remove goes by the connection ID of the session and not by the       *)
(* client.                                                                       *)

LEMMA PooledNext == TypeInv /\ OpenIsPooled /\ [Next]_vars => OpenIsPooled'
<1>1. SUFFICES ASSUME TypeInv, OpenIsPooled, [Next]_vars
               PROVE  OpenIsPooled'
  OBVIOUS
<1>2. CASE UNCHANGED <<phase, pool>>
  BY <1>1, <1>2 DEF OpenIsPooled
<1>3. ASSUME NEW c \in Conn, AddTCPClient(c)
      PROVE  OpenIsPooled'
  BY <1>1, <1>3 DEF OpenIsPooled, AddTCPClient, TypeInv
<1>4. ASSUME NEW c \in Conn, ClientLeaves(c) \/ OnRecvConnectMessage(c)
      PROVE  OpenIsPooled'
  <2>1. /\ pool' = pool
        /\ \A d \in Conn : phase'[d] = "open" => phase[d] = "open"
    BY <1>1, <1>4 DEF ClientLeaves, OnRecvConnectMessage, Shutdown, TypeInv
  <2>2. QED
    BY <1>1, <2>1 DEF OpenIsPooled
<1>5. ASSUME NEW c \in Conn, OnConnectClose(c) \/ RangeRemove(c)
      PROVE  OpenIsPooled'
  <2> DEFINE id == object[c]["conn"]
  <2>1. /\ pool' = pool \ {id}
        /\ \A d \in Conn : phase'[d] = "open" => phase[d] = "open" /\ d \notin pool \cap {id}
    BY <1>1, <1>5 DEF OnConnectClose, RangeRemove, Remove, Shutdown, TypeInv
  <2>2. QED
    BY <1>1, <2>1 DEF OpenIsPooled
<1>6. ASSUME NEW c \in Conn, ClientSends(c)
      PROVE  UNCHANGED <<phase, pool>>
  BY <1>6 DEF ClientSends
<1>7. ASSUME NEW m \in Worker, WorkerHandles(m)
      PROVE  UNCHANGED <<phase, pool>>
  BY <1>7 DEF WorkerHandles, Login, SendMsg, CloseSessionConnect, Asks, OnUpdateSession,
              clientVars
<1>8. ASSUME GatewayHandles
      PROVE  UNCHANGED <<phase, pool>>
  BY <1>8 DEF GatewayHandles, OnUpdateClient, FindSession, LoadOrStore, WriteData,
              OnReqCloseConnect, OnForwardToClient, clientVars
<1>9. CASE UNCHANGED vars
  BY <1>2, <1>9 DEF vars, clientVars
<1>10. QED
  BY <1>1, <1>2, <1>3, <1>4, <1>5, <1>6, <1>7, <1>8, <1>9 DEF Next, RecvMsgThread

(* As long as a client's receiver runs the pool finds it, so that messages and the *)
(* request to close it can reach it, whatever its session says.                    *)
THEOREM OpenStaysPooled == Spec => []OpenIsPooled
<1>1. Init => OpenIsPooled
  BY DEF Init, OpenIsPooled
<1>2. QED
  BY <1>1, KnownInit, KnownNext, PooledNext, PTL DEF Spec
-----------------------------------------------------------------------------
(* Groups: connections K and users U that log in on each other only, whoever else *)
(* shares connections and users outside.  No session joins the one side to the    *)
(* other, whatever the order of the logins, the updates and the closed clients.   *)

Closed(K, U) ==
    /\ K \subseteq Conn /\ U \subseteq User
    /\ \A c \in K : UserOf[c] \subseteq U
    /\ \A c \in Conn \ K : UserOf[c] \cap U = {}

Fits(s, K, U) == IsKnown(s) => (s["conn"] \in K <=> s["uuid"] \in U)

ClientInv(K, U) == \A c \in Conn : phase[c] # "new" =>
    (object[c]["conn"] \in K <=> c \in K) /\ Fits(object[c], K, U)

KeptInv(U) == \A v \in DOMAIN kept : object[kept[v]]["uuid"] \in U <=> v \in U

WorkerInv(K, U) == \A m \in Worker, u \in User : Fits(sessions[m][u], K, U)

CommandInv(K, U) == \A x \in In(queue) :
    /\ x.type = "SForwardFromGate" =>
          (x.session["conn"] \in K <=> x.from \in K) /\ Fits(x.session, K, U)
    /\ x.type = "SUpdateSession" => Fits(x.session, K, U)

HandlerInv(K, U) == handler # Idle =>
    /\ Fits(handler.data, K, U)
    /\ IsChosen(handler) =>
          (object[handler.s]["uuid"] \in U <=> handler.data["uuid"] \in U)

GroupInv(K, U) ==
    /\ ClientInv(K, U) /\ KeptInv(U) /\ HandlerInv(K, U)
    /\ WorkerInv(K, U) /\ CommandInv(K, U)

IInv ==
    /\ TypeInv /\ KnownInv
    /\ \A K \in SUBSET Conn, U \in SUBSET User : Closed(K, U) => GroupInv(K, U)

LEMMA GroupInit ==
    ASSUME Init, NEW K, NEW U
    PROVE  GroupInv(K, U)
<1>1. In(queue) = {} /\ DOMAIN kept = {}
  BY EmptySession DEF Init, In
<1>2. ~IsKnown(NewSession)
  BY EmptySession DEF IsKnown, HasKey
<1>3. QED
  BY <1>1, <1>2 DEF Init, GroupInv, ClientInv, KeptInv, HandlerInv, WorkerInv, CommandInv, Fits

(* The session that the application gets for a client's message is of the client's *)
(* side, and so is who logs in.                                                    *)
LEMMA LoginFits ==
    ASSUME TypeInv, KnownInv, NEW K, NEW U, Closed(K, U), GroupInv(K, U),
           NEW m \in Worker, NEW u \in User, Login(m, u)
    PROVE  Fits(sessions'[m][u], K, U)
<1> DEFINE came == First(Gateway, m).session
           c == First(Gateway, m).from
           got == SessionOf(m)
           s == sessions'[m][u]
<1>1. /\ First(Gateway, m) \in In(queue)
      /\ First(Gateway, m).type = "SForwardFromGate"
      /\ c \in Conn
      /\ \/ got = came
         \/ /\ IsVertify(came) /\ came["uuid"] \in User
            /\ got = sessions[m][came["uuid"]] /\ got # NewSession
  BY ForwardFacts DEF Login
<1>2. (came["conn"] \in K <=> c \in K) /\ Fits(came, K, U) /\ HasKey(came, "conn")
  BY <1>1 DEF GroupInv, CommandInv, KnownInv
<1>3. u \in UserOf[c]
  BY DEF Login
<1>4. IsKnown(s) /\ s["uuid"] = u /\ s["conn"] = got["conn"]
  BY LoginFacts
<1> HIDE DEF came, c, got, s
<1>5. got["conn"] \in K <=> c \in K
  <2>1. CASE got = came
    BY <1>2, <2>1
  <2>2. CASE /\ IsVertify(came) /\ came["uuid"] \in User
             /\ got = sessions[m][came["uuid"]] /\ got # NewSession
    <3>1. IsKnown(got) /\ got["uuid"] = came["uuid"] /\ Fits(got, K, U)
      BY <2>2 DEF KnownInv, GroupInv, WorkerInv
    <3>2. IsKnown(came)
      BY <1>2, <2>2 DEF IsKnown
    <3>3. QED
      BY <1>2, <3>1, <3>2 DEF Fits
  <2>3. QED
    BY <1>1, <2>1, <2>2
<1>6. c \in K <=> u \in U
  BY <1>1, <1>3 DEF Closed
<1>7. QED
  BY <1>4, <1>5, <1>6 DEF Fits, s

(* A written object: the sides of who it is of stay where they were. *)
LEMMA FitsWritten ==
    ASSUME TypeInv, KnownInv, NEW K, NEW U, GroupInv(K, U),
           NEW o, Written(o, object'[o]),
           o \in Conn => /\ Fits(object'[o], K, U)
                         /\ object'[o]["conn"] \in K <=> o \in K,
           \A v \in DOMAIN kept :
              kept[v] = o => (object'[o]["uuid"] \in U <=> object[o]["uuid"] \in U),
           NEW u, UNCHANGED kept \/ kept' = Keep(u, o),
           kept' = Keep(u, o) => (object'[o]["uuid"] \in U <=> u \in U),
           UNCHANGED phase
    PROVE  ClientInv(K, U)' /\ KeptInv(U)'
<1>1. \A x \in Conn \cup User : x # o => object'[x] = object[x]
  BY DEF Written
<1>2. ASSUME NEW c \in Conn, phase[c] # "new"
      PROVE  (object'[c]["conn"] \in K <=> c \in K) /\ Fits(object'[c], K, U)
  <2>1. CASE c = o
    BY <2>1
  <2>2. CASE c # o
    BY <1>1, <1>2, <2>2 DEF GroupInv, ClientInv
  <2>3. QED
    BY <2>1, <2>2
<1>3. ASSUME NEW v \in DOMAIN kept
      PROVE  object'[kept[v]]["uuid"] \in U <=> v \in U
  <2>1. kept[v] \in Conn \cup User /\ (object[kept[v]]["uuid"] \in U <=> v \in U)
    BY <1>3 DEF TypeInv, GroupInv, KeptInv
  <2>2. CASE kept[v] = o
    BY <1>3, <2>1, <2>2
  <2>3. CASE kept[v] # o
    BY <1>1, <2>1, <2>3
  <2>4. QED
    BY <2>2, <2>3
<1>4. KeptInv(U)'
  <2>1. CASE UNCHANGED kept
    BY <1>3, <2>1 DEF KeptInv
  <2>2. CASE kept' = Keep(u, o)
    <3>1. /\ DOMAIN Keep(u, o) = DOMAIN kept \cup {u}
          /\ Keep(u, o)[u] = o
          /\ \A v \in DOMAIN kept \ {u} : Keep(u, o)[v] = kept[v]
      BY KeepFacts
    <3>2. /\ DOMAIN kept' = DOMAIN kept \cup {u} /\ kept'[u] = o
          /\ \A v \in DOMAIN kept \ {u} : kept'[v] = kept[v]
      BY <2>2, <3>1
    <3>3. SUFFICES ASSUME NEW v \in DOMAIN kept'
                   PROVE  object'[kept'[v]]["uuid"] \in U <=> v \in U
      BY DEF KeptInv
    <3>4. CASE v = u
      BY <2>2, <3>2, <3>4
    <3>5. CASE v # u
      BY <1>3, <3>2, <3>5
    <3>6. QED
      BY <3>4, <3>5
  <2>3. QED
    BY <2>1, <2>2
<1>5. ClientInv(K, U)'
  BY <1>2 DEF ClientInv, Fits
<1>6. QED
  BY <1>4, <1>5

LEMMA GroupNext ==
    ASSUME TypeInv, KnownInv, NEW K, NEW U, Closed(K, U), GroupInv(K, U), [Next]_vars
    PROVE  GroupInv(K, U)'
<1>1. /\ ClientInv(K, U) /\ KeptInv(U) /\ HandlerInv(K, U)
      /\ WorkerInv(K, U) /\ CommandInv(K, U)
  BY DEF GroupInv
<1>2. /\ object \in [Conn \cup User -> SessionSet]
      /\ \A v \in DOMAIN kept : kept[v] \in Conn \cup DOMAIN kept
      /\ \A v \in DOMAIN kept : kept[v] \in Conn \cup User
  BY DEF TypeInv
<1>3. handler # Idle => handler \in Busy /\ handler.s \in Conn \cup User
  BY HandlerFields DEF TypeInv
<1>4. UNCHANGED sessions => WorkerInv(K, U)'
  BY <1>1 DEF WorkerInv, Fits
<1>5. In(queue') \subseteq In(queue) => CommandInv(K, U)'
  BY <1>1 DEF CommandInv, Fits
<1>6. CASE Quiet
  <2>1. CommandInv(K, U)'
    BY <1>1, <1>6 DEF CommandInv, Fits, Quiet
  <2>2. ClientInv(K, U)' /\ KeptInv(U)'
    BY <1>1, <1>6 DEF ClientInv, KeptInv, Fits, Quiet
  <2>3. HandlerInv(K, U)'
    BY <1>1, <1>6 DEF HandlerInv, IsChosen, Fits, Quiet
  <2>4. QED
    BY <1>4, <1>6, <2>1, <2>2, <2>3 DEF GroupInv, Quiet
<1>7. ASSUME NEW c \in Conn, AddTCPClient(c)
      PROVE  GroupInv(K, U)'
  <2> DEFINE s == SetBind(Set(NewSession, "conn", c), Gateway)
  <2>1. s["conn"] = c /\ ~IsVertify(s)
    BY NewClientFacts
  <2>2. /\ object' = [object EXCEPT ![c] = s] /\ phase[c] = "new"
        /\ phase' = [phase EXCEPT ![c] = "open"]
        /\ UNCHANGED <<kept, sessions, queue, handler>>
    BY <1>7 DEF AddTCPClient
  <2> HIDE DEF s
  <2>3. \A o \in Conn \cup User : object'[o] = IF o = c THEN s ELSE object[o]
    BY <1>2, <2>2
  <2>4. ClientInv(K, U)'
    <3>1. \A d \in Conn : d # c => phase'[d] = phase[d]
      BY <2>2 DEF TypeInv
    <3>2. SUFFICES ASSUME NEW d \in Conn, phase'[d] # "new"
                   PROVE  (object'[d]["conn"] \in K <=> d \in K) /\ Fits(object'[d], K, U)
      BY DEF ClientInv, Fits
    <3>3. CASE d = c
      BY <2>1, <2>3, <3>3 DEF Fits, IsKnown
    <3>4. CASE d # c
      BY <1>1, <2>3, <3>1, <3>2, <3>4 DEF ClientInv
    <3>5. QED
      BY <3>3, <3>4
  <2>5. \A v \in DOMAIN kept : object'[kept[v]] = object[kept[v]]
    BY <1>2, <2>2, <2>3 DEF KnownInv
  <2>6. handler # Idle => object'[handler.s] = object[handler.s]
    BY <1>3, <2>2, <2>3 DEF KnownInv, HandlerKnown
  <2>7. KeptInv(U)' /\ HandlerInv(K, U)'
    BY <1>1, <2>2, <2>5, <2>6 DEF KeptInv, HandlerInv, IsChosen, Fits
  <2>8. QED
    BY <1>4, <1>5, <2>2, <2>4, <2>7 DEF GroupInv
<1>8. ASSUME NEW c \in Conn, OnRecvConnectMessage(c)
      PROVE  GroupInv(K, U)'
  <2> DEFINE e == [type |-> "SForwardFromGate", from |-> c, session |-> object[c]]
  <2>1. phase[c] # "new" /\ In(queue') \subseteq In(queue) \cup {e}
    BY <1>8, RecvFacts
  <2>2. e.type = "SForwardFromGate" /\ e.from = c /\ e.session = object[c]
    OBVIOUS
  <2> HIDE DEF e
  <2>3. (object[c]["conn"] \in K <=> c \in K) /\ Fits(object[c], K, U)
    BY <1>1, <2>1 DEF ClientInv
  <2>4. CommandInv(K, U)'
    BY <1>1, <2>1, <2>2, <2>3 DEF CommandInv, Fits
  <2>5. /\ UNCHANGED <<object, kept, sessions, handler>>
        /\ \A d \in Conn : phase'[d] = "new" <=> phase[d] = "new"
    BY <1>8 DEF TypeInv, OnRecvConnectMessage, Shutdown, sessionVars
  <2>6. ClientInv(K, U)' /\ KeptInv(U)'
    BY <1>1, <2>5 DEF ClientInv, KeptInv, Fits
  <2>7. HandlerInv(K, U)'
    BY <1>1, <2>5 DEF HandlerInv, IsChosen, Fits
  <2>8. QED
    BY <1>4, <2>4, <2>5, <2>6, <2>7 DEF GroupInv
<1>9. ASSUME NEW m \in Worker, NEW u \in User, Login(m, u)
      PROVE  GroupInv(K, U)'
  <2> DEFINE s == sessions'[m][u]
             e == [type |-> "SUpdateSession", session |-> s]
  <2>1. /\ \A n \in Worker, v \in User : n # m \/ v # u =>
              sessions'[n][v] = NewSession \/ sessions'[n][v] = sessions[n][v]
        /\ In(queue') \subseteq In(queue) \cup {e}
    BY <1>9, LoginFacts
  <2>2. Fits(s, K, U) /\ Fits(NewSession, K, U)
    BY <1>9, LoginFits, EmptySession DEF Fits, IsKnown, HasKey
  <2>3. UNCHANGED <<clientVars, object, kept, handler>>
    BY <1>9 DEF Login
  <2>4. e.type = "SUpdateSession" /\ e.session = s
    OBVIOUS
  <2> HIDE DEF e
  <2>5. CommandInv(K, U)'
    BY <1>1, <2>1, <2>2, <2>4 DEF CommandInv, Fits
  <2>6. \A n \in Worker, v \in User : Fits(sessions'[n][v], K, U)
    <3>1. SUFFICES ASSUME NEW n \in Worker, NEW v \in User PROVE Fits(sessions'[n][v], K, U)
      OBVIOUS
    <3>2. CASE n = m /\ v = u
      BY <2>2, <3>2
    <3>3. CASE ~(n = m /\ v = u)
      BY <1>1, <2>1, <2>2, <3>3 DEF WorkerInv
    <3>4. QED
      BY <3>2, <3>3
  <2>7. WorkerInv(K, U)'
    BY <2>6 DEF WorkerInv, Fits
  <2>8. ClientInv(K, U)' /\ KeptInv(U)' /\ HandlerInv(K, U)'
    BY <1>1, <2>3 DEF ClientInv, KeptInv, HandlerInv, IsChosen, Fits, clientVars
  <2>9. QED
    BY <2>5, <2>7, <2>8 DEF GroupInv
<1>10. ASSUME NEW m \in Worker, NEW n \in Module, OnUpdateSession(m, n)
       PROVE  GroupInv(K, U)'
  <2> DEFINE data == First(n, m).session
             u == data["uuid"]
             s == sessions'[m][u]
  <2>1. /\ IsKnown(s) /\ s["uuid"] = data["uuid"] /\ s["conn"] = data["conn"]
        /\ \A x \in Worker, v \in User :
              x # m \/ v # u => sessions'[x][v] = sessions[x][v]
        /\ In(queue') \subseteq In(queue)
        /\ First(n, m) \in In(queue) /\ First(n, m).type = "SUpdateSession"
    BY <1>10, WorkerUpdateFacts
  <2>2. IsKnown(data) /\ Fits(data, K, U)
    BY <1>1, <2>1 DEF KnownInv, CommandInv
  <2>3. Fits(s, K, U)
    BY <2>1, <2>2 DEF Fits
  <2>4. UNCHANGED <<clientVars, object, kept, handler>>
    BY <1>10 DEF OnUpdateSession
  <2> HIDE DEF data, u
  <2>5. \A x \in Worker, v \in User : Fits(sessions'[x][v], K, U)
    <3>1. SUFFICES ASSUME NEW x \in Worker, NEW v \in User PROVE Fits(sessions'[x][v], K, U)
      OBVIOUS
    <3>2. CASE x = m /\ v = u
      BY <2>3, <3>2
    <3>3. CASE ~(x = m /\ v = u)
      BY <1>1, <2>1, <3>3 DEF WorkerInv
    <3>4. QED
      BY <3>2, <3>3
  <2>6. WorkerInv(K, U)'
    BY <2>5 DEF WorkerInv, Fits
  <2>7. ClientInv(K, U)' /\ KeptInv(U)' /\ HandlerInv(K, U)'
    BY <1>1, <2>4 DEF ClientInv, KeptInv, HandlerInv, IsChosen, Fits, clientVars
  <2>8. QED
    BY <1>5, <2>1, <2>6, <2>7 DEF GroupInv
<1>11. ASSUME NEW n \in Worker, OnUpdateClient(n)
       PROVE  GroupInv(K, U)'
  <2> DEFINE data == First(n, Gateway).session
             c == data["conn"]
             u == data["uuid"]
  <2>1. /\ In(queue') \subseteq In(queue)
        /\ First(n, Gateway) \in In(queue)
        /\ First(n, Gateway).type = "SUpdateSession"
        /\ ClientGets(data, c)
    BY <1>11, ClientGetsFacts
  <2>2. Fits(data, K, U) /\ IsKnown(data) /\ c \in Conn /\ u \in User
    BY <1>1, <2>1 DEF CommandInv, ClientGets
  <2>3. UNCHANGED <<clientVars, kept, sessions>>
    BY <1>11 DEF OnUpdateClient
  <2>4. c \in K <=> u \in U
    BY <2>2 DEF Fits
  <2>5. \/ /\ c \in pool
           /\ handler' = [at |-> "find", data |-> data, s |-> c]
           /\ Written(c, object'[c]) /\ SameOwner(data, object'[c])
        \/ /\ handler' = [at |-> "find", data |-> data, s |-> u]
           /\ UNCHANGED object
    BY <2>1 DEF ClientGets
  <2>6. HandlerInv(K, U)'
    <3>1. u \notin Conn
      BY <2>2, ObjectAssumption
    <3>2. SameOwner(data, object'[c]) => object'[c]["uuid"] = u
      BY <2>2 DEF SameOwner, IsKnown
    <3> HIDE DEF data, c, u
    <3>3. QED
      BY <2>2, <2>5, <3>1, <3>2 DEF HandlerInv, IsChosen, Fits, u
  <2>7. ClientInv(K, U)' /\ KeptInv(U)'
    <3>1. CASE UNCHANGED object
      BY <1>1, <2>3, <3>1 DEF ClientInv, KeptInv, Fits, clientVars
    <3>2. CASE c \in pool /\ Written(c, object'[c]) /\ SameOwner(data, object'[c])
      <4>1. /\ IsKnown(object'[c]) /\ object'[c]["conn"] = c /\ object'[c]["uuid"] = u
        BY <2>2, <3>2 DEF SameOwner, IsKnown
      <4>2. phase[c] # "new" /\ HasKey(object[c], "conn")
        BY <2>2, <3>2 DEF TypeInv, KnownInv
      <4>3. (object[c]["conn"] \in K <=> c \in K) /\ Fits(object[c], K, U)
        BY <1>1, <2>2, <4>2 DEF ClientInv
      <4> HIDE DEF data, c, u
      <4>4. Fits(object'[c], K, U)
        BY <2>4, <4>1 DEF Fits
      <4>5. \A v \in DOMAIN kept :
               kept[v] = c => (object'[c]["uuid"] \in U <=> object[c]["uuid"] \in U)
        BY <2>4, <4>1, <4>2, <4>3 DEF KnownInv, Fits, IsKnown
      <4>6. UNCHANGED kept /\ UNCHANGED phase
        BY <2>3 DEF clientVars
      <4>7. kept' = Keep(u, c) => (object'[c]["uuid"] \in U <=> u \in U)
        BY <4>1
      <4>8. QED
        BY <3>2, <4>1, <4>4, <4>5, <4>6, <4>7, FitsWritten
    <3>3. QED
      BY <2>5, <3>1, <3>2
  <2>8. QED
    BY <1>4, <1>5, <2>1, <2>3, <2>6, <2>7 DEF GroupInv
<1>12. CASE FindSession
  <2> DEFINE u == handler.data["uuid"]
  <2>1. PICK s \in Conn \cup User : Found(u, s)
    BY <1>12, FoundFacts
  <2>2. /\ u \in User /\ Written(s, object'[s])
        /\ s \in Conn => phase[s] # "new"
        /\ UNCHANGED kept \/ kept' = Keep(u, s)
        /\ handler' = [at |-> "load", data |-> handler.data, s |-> s]
        /\ \/ s = handler.s /\ s \in Conn /\ SameOwner(object[s], object'[s])
           \/ s = u /\ u \notin DOMAIN kept /\ object'[s]["uuid"] = u /\ kept' = Keep(u, s)
           \/ u \in DOMAIN kept /\ s = kept[u] /\ object'[s] = object[s]
    BY <2>1 DEF Found
  <2>3. UNCHANGED <<clientVars, sessions, queue>> /\ handler # Idle
    BY <1>12 DEF FindSession
  <2>4. Fits(handler.data, K, U) /\ u \notin Conn
    BY <1>1, <2>2, <2>3, ObjectAssumption DEF HandlerInv
  <2>5. s \in Conn => /\ HasKey(object[s], "conn") /\ Fits(object[s], K, U)
                      /\ object[s]["conn"] \in K <=> s \in K
    BY <1>1, <2>2 DEF KnownInv, ClientInv
  <2> HIDE DEF u
  <2>6. /\ object'[s]["uuid"] \in U <=> u \in U
        /\ s \in Conn => /\ Fits(object'[s], K, U)
                         /\ object'[s]["conn"] \in K <=> s \in K
        /\ \A v \in DOMAIN kept :
              kept[v] = s => (object'[s]["uuid"] \in U <=> object[s]["uuid"] \in U)
    <3>1. CASE s = handler.s /\ s \in Conn /\ SameOwner(object[s], object'[s])
      <4>1. IsChosen(handler)
        BY <3>1 DEF IsChosen
      <4>2. IsVertify(object[s]) /\ (object[s]["uuid"] \in U <=> u \in U)
        BY <1>1, <2>3, <3>1, <4>1 DEF KnownInv, HandlerKnown, HandlerInv, u
      <4>3. object'[s]["uuid"] = object[s]["uuid"] /\ object'[s]["conn"] = object[s]["conn"]
        BY <2>5, <3>1, <4>2 DEF SameOwner
      <4>4. QED
        BY <2>5, <3>1, <4>2, <4>3 DEF Fits, IsKnown
    <3>2. CASE s = u /\ u \notin DOMAIN kept /\ object'[s]["uuid"] = u
      <4>1. \A v \in DOMAIN kept : kept[v] # s
        BY <1>2, <2>4, <3>2
      <4>2. QED
        BY <2>4, <3>2, <4>1
    <3>3. CASE u \in DOMAIN kept /\ s = kept[u] /\ object'[s] = object[s]
      BY <1>1, <2>5, <3>3 DEF KeptInv
    <3>4. QED
      BY <2>2, <3>1, <3>2, <3>3
  <2>7. ClientInv(K, U)' /\ KeptInv(U)'
    BY <2>2, <2>3, <2>6, FitsWritten DEF clientVars
  <2>8. HandlerInv(K, U)'
    BY <2>2, <2>4, <2>6 DEF HandlerInv, IsChosen, Fits, u
  <2>9. QED
    BY <1>4, <1>5, <2>3, <2>7, <2>8 DEF GroupInv
<1>13. CASE LoadOrStore
  <2>1. PICK u, s : Loaded(u, s)
    BY <1>13, LoadedFacts
  <2>2. /\ u = object[handler.s]["uuid"] /\ u \in User
        /\ handler' = [at |-> "write", data |-> handler.data, s |-> s]
        /\ Written(s, object'[s]) /\ SameOwner(object[s], object'[s])
        /\ IsVertify(object[s])
        /\ s \in Conn => phase[s] # "new"
        /\ kept' = Keep(u, s)
        /\ s = handler.s \/ (u \in DOMAIN kept /\ s = kept[u])
    BY <2>1 DEF Loaded
  <2>3. UNCHANGED <<clientVars, sessions, queue>> /\ handler # Idle /\ handler.at = "load"
    BY <1>13 DEF LoadOrStore
  <2>4. Fits(handler.data, K, U) /\ (u \in U <=> handler.data["uuid"] \in U)
    BY <1>1, <2>2, <2>3 DEF HandlerInv, IsChosen
  <2>5. s \in Conn => /\ HasKey(object[s], "conn") /\ Fits(object[s], K, U)
                      /\ object[s]["conn"] \in K <=> s \in K
    BY <1>1, <2>2 DEF KnownInv, ClientInv
  <2>6. object[s]["uuid"] \in U <=> u \in U
    BY <1>1, <2>2 DEF KeptInv
  <2>7. /\ object'[s]["uuid"] = object[s]["uuid"]
        /\ s \in Conn => object'[s]["conn"] = object[s]["conn"] /\ IsKnown(object[s])
    BY <2>2, <2>5 DEF SameOwner, IsKnown
  <2>8. s \in Conn => Fits(object'[s], K, U) /\ (object'[s]["conn"] \in K <=> s \in K)
    BY <2>5, <2>7 DEF Fits
  <2>9. ClientInv(K, U)' /\ KeptInv(U)'
    BY <2>2, <2>3, <2>6, <2>7, <2>8, FitsWritten DEF clientVars
  <2>10. HandlerInv(K, U)'
    BY <2>2, <2>4, <2>6, <2>7 DEF HandlerInv, IsChosen, Fits
  <2>11. QED
    BY <1>4, <1>5, <2>3, <2>9, <2>10 DEF GroupInv
<1>14. CASE WriteData
  <2> DEFINE o == handler.s
             data == handler.data
  <2>1. /\ handler # Idle /\ IsChosen(handler) /\ IsKnown(data)
        /\ Written(o, object'[o]) /\ SameOwner(data, object'[o])
    BY <1>14, WriteDataFacts
  <2>2. UNCHANGED <<clientVars, kept, sessions, queue>> /\ handler' = Idle
    BY <1>14 DEF WriteData
  <2>3. /\ Fits(data, K, U) /\ (object[o]["uuid"] \in U <=> data["uuid"] \in U)
        /\ IsVertify(object[o])
    BY <1>1, <2>1 DEF HandlerInv, KnownInv, HandlerKnown
  <2>4. o \in Conn => /\ IsKnown(object[o]) /\ Fits(object[o], K, U)
                      /\ object[o]["conn"] \in K <=> o \in K
    BY <1>1, <2>1, <2>3 DEF KnownInv, HandlerKnown, ClientInv, IsKnown
  <2>5. /\ IsKnown(object'[o]) /\ object'[o]["conn"] = data["conn"]
        /\ object'[o]["uuid"] = data["uuid"]
    BY <2>1 DEF SameOwner, IsKnown
  <2> HIDE DEF o, data
  <2>6. /\ o \in Conn => Fits(object'[o], K, U) /\ (object'[o]["conn"] \in K <=> o \in K)
        /\ object'[o]["uuid"] \in U <=> object[o]["uuid"] \in U
    BY <2>1, <2>3, <2>4, <2>5 DEF Fits
  <2>7. kept' = Keep(data["uuid"], o) =>
           (object'[o]["uuid"] \in U <=> data["uuid"] \in U)
    BY <2>5
  <2>8. ClientInv(K, U)' /\ KeptInv(U)'
    BY <2>1, <2>2, <2>6, <2>7, FitsWritten DEF clientVars
  <2>9. HandlerInv(K, U)'
    BY <2>2 DEF HandlerInv
  <2>10. QED
    BY <1>4, <1>5, <2>2, <2>8, <2>9 DEF GroupInv
<1>15. ASSUME NEW n \in Worker, OnForwardToClient(n)
       PROVE  GroupInv(K, U)'
  <2>1. /\ In(queue') \subseteq In(queue)
        /\ \A o \in Conn \cup User :
              SameOwner(object[o], object'[o]) /\ SameOwner(object'[o], object[o])
    BY <1>15, BoundFacts
  <2>2. UNCHANGED <<clientVars, kept, sessions, handler>>
    BY <1>15 DEF OnForwardToClient
  <2>3. \A o \in Conn \cup User :
           /\ HasKey(object[o], "conn") => object'[o]["conn"] = object[o]["conn"]
           /\ IsVertify(object[o]) => object'[o]["uuid"] = object[o]["uuid"]
           /\ IsKnown(object[o]) <=> IsKnown(object'[o])
    BY <2>1 DEF SameOwner, IsKnown
  <2>4. \A o \in Conn \cup User : Fits(object[o], K, U) => Fits(object'[o], K, U)
    BY <2>3 DEF Fits, IsKnown
  <2>5. ClientInv(K, U)'
    <3>1. SUFFICES ASSUME NEW c \in Conn, phase[c] # "new"
                   PROVE  (object'[c]["conn"] \in K <=> c \in K) /\ Fits(object'[c], K, U)
      BY <2>2 DEF ClientInv, Fits, clientVars
    <3>2. HasKey(object[c], "conn")
      BY <3>1 DEF KnownInv
    <3>3. QED
      BY <1>1, <2>3, <2>4, <3>1, <3>2 DEF ClientInv
  <2>6. KeptInv(U)'
    BY <1>1, <1>2, <2>2, <2>3 DEF KeptInv, KnownInv
  <2>7. HandlerInv(K, U)'
    <3>1. handler # Idle /\ IsChosen(handler) =>
             object'[handler.s]["uuid"] = object[handler.s]["uuid"]
      BY <1>3, <2>3 DEF KnownInv, HandlerKnown
    <3>2. QED
      BY <1>1, <2>2, <3>1 DEF HandlerInv, IsChosen, Fits
  <2>8. QED
    BY <1>4, <1>5, <2>1, <2>2, <2>5, <2>6, <2>7 DEF GroupInv
<1>16. QED
  BY <1>6, <1>7, <1>8, <1>9, <1>10, <1>11, <1>12, <1>13, <1>14, <1>15, QuietSteps
     DEF Next, RecvMsgThread, WorkerHandles, GatewayHandles

LEMMA IInvInit == Init => IInv
  BY KnownInit, GroupInit DEF IInv

LEMMA IInvNext == IInv /\ [Next]_vars => IInv'
<1>1. SUFFICES ASSUME IInv, [Next]_vars PROVE IInv'
  OBVIOUS
<1>2. TypeInv /\ KnownInv /\ TypeInv' /\ KnownInv'
  BY <1>1, KnownNext DEF IInv
<1>3. ASSUME NEW K \in SUBSET Conn, NEW U \in SUBSET User, Closed(K, U)
      PROVE  GroupInv(K, U)'
  <2>1. GroupInv(K, U)
    BY <1>1, <1>3 DEF IInv
  <2>2. QED
    BY <1>1, <1>2, <1>3, <2>1, GroupNext
<1>4. \A K \in SUBSET Conn, U \in SUBSET User : Closed(K, U) => GroupInv(K, U)'
  BY <1>3
<1>5. QED
  BY <1>2, <1>4 DEF IInv, Closed

(* A user with connections of his own: what is kept for him has no other's UUID. *)
LEMMA SettledKeyed ==
    ASSUME IInv, NEW u \in DOMAIN kept, Settled(u)
    PROVE  object[kept[u]]["uuid"] = u
<1> DEFINE K == {c \in Conn : u \in UserOf[c]}
<1>1. u \in User /\ K \in SUBSET Conn /\ {u} \in SUBSET User
  BY DEF IInv, TypeInv
<1>2. Closed(K, {u})
  BY <1>1 DEF Closed, Settled
<1> HIDE DEF K
<1>3. GroupInv(K, {u})
  BY <1>1, <1>2 DEF IInv
<1>4. object[kept[u]]["uuid"] \in {u} <=> u \in {u}
  BY <1>3 DEF GroupInv, KeptInv
<1>5. QED
  BY <1>4

(* What a manager keeps under a UUID has this UUID: at every worker, whatever     *)
(* connections the users come by and leave, and at the gateway, for a user who    *)
(* has his connections to himself, whatever the other users and their connections *)
(* do between two steps of onUpdateSession.                                       *)
THEOREM KeyedCorrect == Spec => []Keyed
<1>1. IInv => Keyed
  <2>1. SUFFICES ASSUME IInv PROVE Keyed
    OBVIOUS
  <2>2. \A u \in DOMAIN kept : Settled(u) =>
           IsVertify(object[kept[u]]) /\ object[kept[u]]["uuid"] = u
    BY <2>1, SettledKeyed DEF IInv, KnownInv
  <2>3. \A m \in Worker, u \in User : sessions[m][u] # NewSession =>
           IsVertify(sessions[m][u]) /\ sessions[m][u]["uuid"] = u
    BY <2>1 DEF IInv, KnownInv, IsKnown
  <2>4. QED
    BY <2>2, <2>3 DEF Keyed
<1>2. QED
  BY <1>1, IInvInit, IInvNext, PTL DEF Spec
-----------------------------------------------------------------------------
(* The client of users without another connection: its session names it, so that *)
(* Remove takes it out of the pool when its receiver has ended.                   *)

OwnNamed == \A c \in Conn : Alone(c) /\ phase[c] # "new" => object[c]["conn"] = c
ClosedLeft == \A c \in Conn : Alone(c) /\ phase[c] = "closed" => c \notin pool

LEMMA AloneNamed == IInv => OwnNamed
<1>1. SUFFICES ASSUME IInv, NEW c \in Conn, Alone(c), phase[c] # "new"
               PROVE  object[c]["conn"] = c
  BY DEF OwnNamed
<1>2. Closed({c}, UserOf[c]) /\ {c} \in SUBSET Conn /\ UserOf[c] \in SUBSET User
  BY <1>1, UserAssumption DEF Closed, Alone
<1>3. GroupInv({c}, UserOf[c])
  BY <1>1, <1>2 DEF IInv
<1>4. object[c]["conn"] \in {c} <=> c \in {c}
  BY <1>1, <1>3 DEF GroupInv, ClientInv
<1>5. QED
  BY <1>4

LEMMA ClosedNext == IInv /\ ClosedLeft /\ [Next]_vars => ClosedLeft'
<1>1. SUFFICES ASSUME IInv, ClosedLeft, [Next]_vars, NEW c \in Conn, Alone(c),
                      phase'[c] = "closed"
               PROVE  c \notin pool'
  BY DEF ClosedLeft, Alone
<1>2. phase \in [Conn -> {"new", "open", "ended", "closed"}]
  BY <1>1 DEF IInv, TypeInv
<1>3. phase[c] = "closed" => c \notin pool
  BY <1>1 DEF ClosedLeft
<1>4. CASE UNCHANGED <<phase, pool>>
  BY <1>1, <1>3, <1>4
<1>5. ASSUME NEW d \in Conn, AddTCPClient(d)
      PROVE  c \notin pool'
  BY <1>1, <1>2, <1>3, <1>5 DEF AddTCPClient
<1>6. ASSUME NEW d \in Conn,
             \/ ClientSends(d) \/ ClientLeaves(d)
             \/ OnRecvConnectMessage(d) \/ RangeRemove(d)
      PROVE  c \notin pool'
  BY <1>1, <1>2, <1>3, <1>6 DEF ClientSends, ClientLeaves, OnRecvConnectMessage, RangeRemove,
                                Remove, Shutdown
<1>7. ASSUME NEW d \in Conn, OnConnectClose(d)
      PROVE  c \notin pool'
  <2>1. /\ phase[d] = "ended" /\ pool' = pool \ {object[d]["conn"]}
        /\ c = d \/ phase[c] = "closed"
    BY <1>1, <1>2, <1>7 DEF OnConnectClose, Remove, Shutdown
  <2>2. c = d => object[d]["conn"] = c
    BY <1>1, <2>1, AloneNamed DEF OwnNamed
  <2>3. QED
    BY <1>3, <2>1, <2>2
<1>8. ASSUME NEW m \in Worker, WorkerHandles(m)
      PROVE  UNCHANGED <<phase, pool>>
  BY <1>8 DEF WorkerHandles, Login, SendMsg, CloseSessionConnect, Asks, OnUpdateSession,
              clientVars
<1>9. ASSUME GatewayHandles
      PROVE  UNCHANGED <<phase, pool>>
  BY <1>9 DEF GatewayHandles, OnUpdateClient, FindSession, LoadOrStore, WriteData,
              OnReqCloseConnect, OnForwardToClient, clientVars
<1>10. CASE UNCHANGED vars
  BY <1>4, <1>10 DEF vars, clientVars
<1>11. QED
  BY <1>1, <1>4, <1>5, <1>6, <1>7, <1>8, <1>9, <1>10 DEF Next, RecvMsgThread

(* The session of a client whose users have no other names its connection as long  *)
(* as the client is known, and a client that is closed is not in the pool, with the *)
(* updates of the workers late and in the middle of onUpdateSession.                *)
THEOREM OwnID == Spec => []OwnConnID
<1>1. OwnNamed /\ ClosedLeft => OwnConnID
  BY DEF OwnNamed, ClosedLeft, OwnConnID
<1>2. Init => ClosedLeft
  BY DEF Init, ClosedLeft
<1>3. QED
  BY <1>1, <1>2, AloneNamed, IInvInit, IInvNext, ClosedNext, PTL DEF Spec
-----------------------------------------------------------------------------
(* The names of the connections: a client's TmpID is a number of GenUniqueID    *)
(* (connect/base.go:44), and AddTCPClient gives it once.  No number is made     *)
(* twice, for every width of the fields and whatever the clock does, and the    *)
(* last check of GenUniqueID is redundant.                                      *)

LEMMA TimesMonotone ==
    ASSUME NEW a \in Nat, NEW b \in Nat, NEW c \in Nat, a <= b
    PROVE  a * c <= b * c
<1> DEFINE d == b - a
<1>1. d \in Nat /\ b = a + d
  OBVIOUS
<1>2. d * c \in Nat
  BY <1>1
<1> HIDE DEF d
<1>3. b * c = a * c + d * c
  BY <1>1
<1>4. QED
  BY <1>2, <1>3

(* A number stays below the next value's numbers. *)
LEMMA FieldBound ==
    ASSUME NEW v \in Nat, NEW w \in Nat, NEW h \in Nat, h < w
    PROVE  v * w + h \in Nat /\ v * w + h < (v + 1) * w
<1> DEFINE b == v * w
<1>1. b \in Nat
  OBVIOUS
<1>2. (v + 1) * w = b + w
  OBVIOUS
<1> HIDE DEF b
<1>3. b + h \in Nat /\ b + h < b + w
  BY <1>1
<1>4. b + h \in Nat /\ b + h < (v + 1) * w
  BY <1>2, <1>3
<1>5. QED
  BY <1>4 DEF b

LEMMA FieldTypes ==
    /\ \A mid \in Nat, low \in Nat : subvalue(mid, low) \in Nat
    /\ clock \in Int => now \in 0 .. Seconds - 1
  BY WidthAssumption DEF subvalue, now

(* A later second, and a higher counter of the same one, make a higher value. *)
LEMMA NextValue ==
    ASSUME UIDTypeOK, MadeInv
    PROVE  CheckIsRedundant
<1>1. now > lastMidlevelID => subvalue(now, 0) > lastMidLowLevelID
  <2>1. SUFFICES ASSUME now > lastMidlevelID
                 PROVE  now * LowIDs > lastMidlevelID * LowIDs + lastLowlevelID
    BY FieldTypes, WidthAssumption DEF subvalue, MadeInv, UIDTypeOK
  <2>2. /\ now \in Nat
        /\ lastMidlevelID + 1 \in Nat
        /\ LowIDs \in Nat
        /\ lastLowlevelID \in 0 .. LowIDs - 1
        /\ lastMidlevelID + 1 <= now
    BY <2>1, FieldTypes, WidthAssumption DEF UIDTypeOK
  <2>3. (lastMidlevelID + 1) * LowIDs <= now * LowIDs
    BY <2>2, TimesMonotone
  <2>4. (lastMidlevelID + 1) * LowIDs = lastMidlevelID * LowIDs + LowIDs
    BY <2>2 DEF UIDTypeOK
  <2>5. lastMidlevelID * LowIDs \in Nat /\ now * LowIDs \in Nat
    BY <2>2 DEF UIDTypeOK
  <2>6. QED
    BY <2>2, <2>3, <2>4, <2>5
<1>2. subvalue(lastMidlevelID, lastLowlevelID + 1) > lastMidLowLevelID
  <2>1. lastMidlevelID * LowIDs \in Nat /\ lastLowlevelID \in Nat
    BY WidthAssumption DEF UIDTypeOK
  <2>2. QED
    BY <2>1 DEF subvalue, MadeInv
<1>3. QED
  BY <1>1, <1>2 DEF CheckIsRedundant

(* A step that gives a number keeps the invariant. *)
LEMMA GiveInv ==
    ASSUME UIDTypeOK, MadeInv,
           NEW h \in 0 .. HeightIDs - 1,
           NEW mid \in 0 .. Seconds - 1,
           NEW low \in 0 .. LowIDs - 1,
           subvalue(mid, low) > lastMidLowLevelID,
           Give(h, mid, low)
    PROVE  UIDTypeOK' /\ MadeInv'
<1> DEFINE value == subvalue(mid, low)
           base == value * HeightIDs
           id == base + h
           limit == (value + 1) * HeightIDs
<1>1. value \in Nat /\ HeightIDs \in Nat /\ h \in Nat /\ h < HeightIDs
  BY WidthAssumption, FieldTypes
<1>2. lastMidLowLevelID \in Nat /\ made \in Seq(Nat) /\ clock \in Int
  BY DEF UIDTypeOK
<1>3. /\ lastMidLowLevelID' = value
      /\ made' = Append(made, id)
      /\ lastMidlevelID' = mid
      /\ lastLowlevelID' = low
      /\ clock' = clock
  BY <1>1, <1>2 DEF Give
<1>4. base \in Nat /\ id \in Nat
  BY <1>1
<1>5. (lastMidLowLevelID + 1) * HeightIDs <= base
  <2>1. value > lastMidLowLevelID
    OBVIOUS
  <2> HIDE DEF value
  <2>2. lastMidLowLevelID + 1 \in Nat /\ lastMidLowLevelID + 1 <= value
    BY <1>1, <1>2, <2>1
  <2>3. QED
    BY <1>1, <2>2, TimesMonotone
<1>6. (lastMidLowLevelID + 1) * HeightIDs \in Nat
  BY <1>1, <1>2
<1>7. \A i \in DOMAIN made : made[i] \in Nat /\ made[i] < id
  <2> DEFINE last == (lastMidLowLevelID + 1) * HeightIDs
  <2>1. \A i \in DOMAIN made : made[i] < last
    BY DEF MadeInv
  <2>2. last \in Nat /\ last <= base
    BY <1>5, <1>6
  <2>3. base <= id
    BY <1>1, <1>4
  <2> HIDE DEF value, base, id, last
  <2>4. \A i \in DOMAIN made : made[i] \in Nat
    BY <1>2
  <2>5. QED
    BY <1>4, <2>1, <2>2, <2>3, <2>4
<1>8. limit \in Nat /\ id < limit
  BY <1>1, FieldBound
<1>9. limit = (lastMidLowLevelID' + 1) * HeightIDs
  <2> HIDE DEF value
  <2>1. QED
    BY <1>1, <1>3 DEF limit
<1> HIDE DEF value, base, id, limit
<1>10. /\ DOMAIN made' = 1 .. Len(made) + 1
       /\ made'[Len(made) + 1] = id
       /\ \A i \in DOMAIN made : made'[i] = made[i]
       /\ DOMAIN made = 1 .. Len(made)
       /\ Len(made) \in Nat
  BY <1>2, <1>3, <1>4
<1>11. UIDTypeOK'
  <2>1. made' \in Seq(Nat)
    BY <1>2, <1>3, <1>4
  <2>2. QED
    BY <1>1, <1>2, <1>3, <2>1 DEF UIDTypeOK
<1>12. Increasing'
  <2>1. SUFFICES ASSUME NEW i \in 1 .. Len(made) + 1,
                        NEW j \in 1 .. Len(made) + 1, i < j
                 PROVE  made'[i] < made'[j]
    BY <1>10 DEF Increasing
  <2>2. i \in DOMAIN made
    BY <1>10, <2>1
  <2>3. CASE j = Len(made) + 1
    BY <1>7, <1>10, <2>2, <2>3
  <2>4. CASE j # Len(made) + 1
    <3>1. j \in DOMAIN made
      BY <1>10, <2>4
    <3>2. QED
      BY <1>10, <2>1, <2>2, <3>1 DEF MadeInv, Increasing
  <2>5. QED
    BY <2>3, <2>4
<1>13. \A i \in DOMAIN made' : made'[i] < (lastMidLowLevelID' + 1) * HeightIDs
  <2>1. SUFFICES ASSUME NEW i \in DOMAIN made' PROVE made'[i] < limit
    BY <1>9
  <2>2. i \in 1 .. Len(made) + 1
    BY <1>10, <2>1
  <2>3. CASE i = Len(made) + 1
    BY <1>8, <1>10, <2>2, <2>3
  <2>4. CASE i # Len(made) + 1
    <3>1. i \in DOMAIN made
      BY <1>10, <2>2, <2>4
    <3>2. made'[i] \in Nat /\ made'[i] < id
      BY <1>7, <1>10, <3>1
    <3>3. QED
      BY <1>4, <1>8, <3>2
  <2>5. QED
    BY <2>3, <2>4
<1>14. lastMidLowLevelID' = subvalue(lastMidlevelID, lastLowlevelID)'
  BY <1>3 DEF value, subvalue
<1>15. QED
  BY <1>11, <1>12, <1>13, <1>14 DEF MadeInv

LEMMA InvInit == UIDInit => UIDTypeOK /\ MadeInv
<1>1. SUFFICES ASSUME UIDInit PROVE UIDTypeOK /\ MadeInv
  OBVIOUS
<1>2. /\ 0 \in 0 .. LowIDs - 1
      /\ 0 \in 0 .. Seconds - 1
      /\ subvalue(0, 0) = 0
  BY WidthAssumption DEF subvalue
<1>3. UIDTypeOK
  BY <1>1, <1>2, TimesAssumption DEF UIDInit, UIDTypeOK
<1>4. DOMAIN made = {}
  <2>1. made = <<>>
    BY <1>1 DEF UIDInit
  <2>2. QED
    BY <2>1
<1>5. Increasing
  BY <1>4 DEF Increasing
<1>6. lastMidLowLevelID = subvalue(lastMidlevelID, lastLowlevelID)
  BY <1>1, <1>2 DEF UIDInit
<1>7. QED
  BY <1>3, <1>4, <1>5, <1>6 DEF MadeInv

LEMMA InvNext == UIDTypeOK /\ MadeInv /\ [UIDNext]_uidVars => UIDTypeOK' /\ MadeInv'
<1>1. SUFFICES ASSUME UIDTypeOK, MadeInv, [UIDNext]_uidVars
               PROVE  UIDTypeOK' /\ MadeInv'
  OBVIOUS
<1>2. CASE UNCHANGED uidVars
  BY <1>1, <1>2 DEF uidVars, builder, UIDTypeOK, MadeInv, Increasing, subvalue
<1>3. ASSUME NEW t \in Times, SetClock(t)
      PROVE  UIDTypeOK' /\ MadeInv'
  BY <1>1, <1>3, TimesAssumption
     DEF SetClock, builder, UIDTypeOK, MadeInv, Increasing, subvalue
<1>4. ASSUME NEW h \in 0 .. HeightIDs - 1, NewSecond(h)
      PROVE  UIDTypeOK' /\ MadeInv'
  <2>1. now \in 0 .. Seconds - 1 /\ 0 \in 0 .. LowIDs - 1
    BY <1>1, FieldTypes, WidthAssumption DEF UIDTypeOK
  <2>2. subvalue(now, 0) > lastMidLowLevelID
    BY <1>1, <1>4, NextValue DEF NewSecond, CheckIsRedundant
  <2>3. Give(h, now, 0)
    BY <1>4 DEF NewSecond
  <2>4. QED
    BY <1>1, <2>1, <2>2, <2>3, GiveInv
<1>5. ASSUME NEW h \in 0 .. HeightIDs - 1, SameSecond(h)
      PROVE  UIDTypeOK' /\ MadeInv'
  <2>1. /\ lastMidlevelID \in 0 .. Seconds - 1
        /\ lastLowlevelID + 1 \in 0 .. LowIDs - 1
    BY <1>1, <1>5, WidthAssumption DEF UIDTypeOK, SameSecond
  <2>2. subvalue(lastMidlevelID, lastLowlevelID + 1) > lastMidLowLevelID
    BY <1>1, NextValue DEF CheckIsRedundant
  <2>3. Give(h, lastMidlevelID, lastLowlevelID + 1)
    BY <1>5 DEF SameSecond
  <2>4. QED
    BY <1>1, <2>1, <2>2, <2>3, GiveInv
<1>6. QED
  BY <1>1, <1>2, <1>3, <1>4, <1>5 DEF UIDNext, GenUniqueID

(* The fields stay in their ranges: the counter never leaves its 16 bits. *)
THEOREM UniqueIDTypes == UIDSpec => []UIDTypeOK
<1>1. QED
  BY InvInit, InvNext, PTL DEF UIDSpec

(* Each number is above all the numbers made before it. *)
THEOREM UniqueIDIncreasing == UIDSpec => []Increasing
<1>1. UIDTypeOK /\ MadeInv => Increasing
  BY DEF MadeInv
<1>2. QED
  BY <1>1, InvInit, InvNext, PTL DEF UIDSpec

(* The check for a repeated number never strikes. *)
THEOREM UniqueIDCheck == UIDSpec => []CheckIsRedundant
<1>1. UIDTypeOK /\ MadeInv => CheckIsRedundant
  BY NextValue
<1>2. QED
  BY <1>1, InvInit, InvNext, PTL DEF UIDSpec
=============================================================================
