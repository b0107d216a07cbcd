--------------------------- MODULE SessionManager --------------------------
(***************************************************************************)
(* session/manager.go under concurrency.  The commands of each module are   *)
(* handled by a goroutine of their own, so that several onUpdateSession     *)
(* (server/servercmd_handler.go) and logins of one user go on at once at a  *)
(* module, on Session objects that they share.  The manager is a sync.Map   *)
(* and so is a Session: a step is one access to the former, or one copy     *)
(* from or to the latter.  Gate takes each of these calls in one step.      *)
(*                                                                          *)
(* All commands are about one user, and no session changes its user: what   *)
(* UpdateSessionUUID deletes then, is not here.  The goroutine of module g  *)
(* handles one command: an update with a key g, or a client's message on    *)
(* which the application logs the user in and sets the key g.               *)
(***************************************************************************)
EXTENDS Session

CONSTANTS
    UUID, \* the user's UUID
    None  \* no object

ASSUME UUIDAssumption == UUID \in User

\* The objects: what is kept at first, Client.Session, what a goroutine makes.
Object == {UUID} \cup Conn \cup Module

ASSUME ObjectAssumption ==
    None \notin Object /\ UUID \notin Conn \cup Module /\ Conn \cap Module = {}

VARIABLES
    job,     \* job[g]: the command; verified says that the session which came
             \* with it had the UUID
    pool,    \* the connections whose clients are here
    object,  \* object[o]: the Session
    kept,    \* SessionManager.sessions under the UUID
    pc,      \* where the goroutine stands
    s,       \* the session it works on
    local,   \* the other one that it found
    outdated \* history: who wrote into an object that was replaced, or is about
             \* to be, by one that takes no more from it

vars == <<job, pool, object, kept, pc, s, local, outdated>>

\* An update comes with the UUID.
Job == {j \in [op : {"update", "login"}, conn : Conn, verified : BOOLEAN] :
          j.op = "update" => j.verified}

Client(c) == Set(NewSession, "conn", c)
Named(session) == Set(session, "uuid", UUID)

\* The Session of an SUpdateSession or of a client's message.
Data(g) == LET base == Client(job[g].conn)
           IN IF job[g].op = "update" THEN SetBind(Named(base), g)
              ELSE IF job[g].verified THEN Named(base) ELSE base

Init ==
    /\ job \in [Module -> Job]
    /\ pool = Conn
    /\ kept \in {UUID, None}
    /\ \E first \in Conn :
         object = [o \in Object |->
            IF o \in Conn THEN Client(o)
            ELSE IF o = kept THEN Named(Client(first)) ELSE NewSession]
    /\ pc = [g \in Module |-> job[g].op]
    /\ s = [g \in Module |-> None]
    /\ local = [g \in Module |-> None]
    /\ outdated = {}

At(g, place) == pc[g] = place
Goto(g, place) == pc' = [pc EXCEPT ![g] = place]
Write(o, session) == object' = [object EXCEPT ![o] = session]

\* A client's connection ends and leaves the pool.
ClientLeaves(c) ==
    /\ c \in pool
    /\ pool' = pool \ {c}
    /\ UNCHANGED <<job, object, kept, pc, s, local, outdated>>
-----------------------------------------------------------------------------
(* onUpdateSession. *)

\* The session of the client, if it is here, gets the data.
Connected(g) ==
    LET c == job[g].conn IN
    /\ At(g, "update")
    /\ Goto(g, "find")
    /\ \/ c \in pool /\ Write(c, FromMap(object[c], Data(g))) /\ s' = [s EXCEPT ![g] = c]
       \/ c \notin pool /\ UNCHANGED <<object, s>>
    /\ UNCHANGED <<job, pool, kept, local, outdated>>

\* What is kept is to be merged into the client's session, which replaces it, or
\* is gone on with; if there is neither, a new session gets the UUID.
Find(g) ==
    /\ At(g, "find")
    /\ local' = [local EXCEPT ![g] = kept]
    /\ s' = [s EXCEPT ![g] = IF @ # None THEN @ ELSE IF kept # None THEN kept ELSE g]
    /\ Goto(g, IF s'[g] = kept THEN "load"
               ELSE IF kept # None THEN "mergeKept"
               ELSE IF s[g] = None THEN "old" ELSE "load")
    /\ UNCHANGED <<job, pool, object, kept, outdated>>

\* MustUpdateFromMap: LoadOrStore, or a panic if the session has no UUID.
Load(g) ==
    /\ At(g, "load")
    /\ IF IsVertify(object[s[g]])
       THEN /\ kept' = IF kept = None THEN s[g] ELSE kept
            /\ local' = [local EXCEPT ![g] = kept']
            /\ Goto(g, IF kept' = s[g] THEN "write" ELSE "complete")
       ELSE Goto(g, "panic") /\ UNCHANGED <<kept, local>>
    /\ UNCHANGED <<job, pool, object, s, outdated>>

\* Another session was kept: it gets what it has not.
Complete(g) ==
    /\ At(g, "complete")
    /\ Write(local[g], OnlyAddKeyFromSession(object[local[g]], object[s[g]]))
    /\ Goto(g, "write")
    /\ UNCHANGED <<job, pool, kept, s, local, outdated>>
-----------------------------------------------------------------------------
\* onForwardFromGate: the session for the application, which logs in with it.
SessionOf(g) ==
    /\ At(g, "login")
    /\ IF job[g].verified /\ kept # None
       THEN s' = [s EXCEPT ![g] = kept] /\ UNCHANGED object
       ELSE s' = [s EXCEPT ![g] = g] /\ Write(g, FromMap(NewSession, Data(g)))
    /\ Goto(g, "old")
    /\ UNCHANGED <<job, pool, kept, local, outdated>>
-----------------------------------------------------------------------------
(* UpdateSessionUUID of s[g], which has the UUID or none. *)

\* The session kept under its old UUID.
Old(g) ==
    LET found == IF IsVertify(object[s[g]]) THEN kept ELSE None IN
    /\ At(g, "old")
    /\ local' = [local EXCEPT ![g] = found]
    /\ Goto(g, IF found \in {None, s[g]} THEN "new" ELSE "mergeOld")
    /\ UNCHANGED <<job, pool, object, kept, s, outdated>>

\* The session kept under its new UUID.
New(g) ==
    /\ At(g, "new")
    /\ local' = [local EXCEPT ![g] = kept]
    /\ Goto(g, IF kept \in {None, s[g]} THEN "set" ELSE "mergeNew")
    /\ UNCHANGED <<job, pool, object, kept, s, outdated>>

\* The three merges, the third of them of onUpdateSession.
Merge(g) ==
    /\ \/ At(g, "mergeOld") /\ Goto(g, "new")
       \/ At(g, "mergeNew") /\ Goto(g, "set")
       \/ At(g, "mergeKept") /\ Goto(g, "store")
    /\ Write(s[g], OnlyAddKeyFromSession(object[s[g]], object[local[g]]))
    /\ UNCHANGED <<job, pool, kept, s, local, outdated>>

\* Mutant: a session that is new is left without a UUID.
SetKnownUUID(g) ==
    /\ At(g, "set")
    /\ Goto(g, "store")
    /\ UNCHANGED <<job, pool, object, kept, s, local, outdated>>

SetUUID(g) ==
    /\ At(g, "set")
    /\ Write(s[g], Named(object[s[g]]))
    /\ Goto(g, "store")
    /\ UNCHANGED <<job, pool, kept, s, local, outdated>>

\* Store, which keeps no session without a UUID.
Store(g) ==
    /\ At(g, "store")
    /\ kept' = IF IsVertify(object[s[g]]) THEN s[g] ELSE kept
    /\ local' = [local EXCEPT ![g] = s[g]]
    /\ Goto(g, IF job[g].op = "update" THEN "load" ELSE "write")
    /\ UNCHANGED <<job, pool, object, s, outdated>>
-----------------------------------------------------------------------------
\* h is about to keep another object than o, and has read what it takes from
\* what was kept.
Replaces(h, o) ==
    /\ s[h] # o
    /\ \/ pc[h] \in {"set", "store"}
       \/ pc[h] \in {"mergeNew", "mergeKept"} /\ local[h] # o

\* The end of both: FromMap of the data, or the key that the login sets.
WriteData(g) ==
    LET o == local[g] IN
    /\ At(g, "write")
    /\ Write(o, IF job[g].op = "update" THEN FromMap(object[o], Data(g))
                                        ELSE SetBind(object[o], g))
    /\ outdated' = outdated \cup
          {h \in {g} : kept # o \/ \E other \in Module \ {g} : Replaces(other, o)}
    /\ Goto(g, "done")
    /\ UNCHANGED <<job, pool, kept, s, local>>

Handles(g) ==
    \/ Connected(g) \/ Find(g) \/ Load(g) \/ Complete(g)
    \/ SessionOf(g) \/ Old(g) \/ New(g) \/ Merge(g) \/ SetUUID(g) \/ Store(g)
    \/ WriteData(g)

Next == \/ \E g \in Module : Handles(g)
        \/ \E c \in Conn : ClientLeaves(c)

Spec == Init /\ [][Next]_vars
-----------------------------------------------------------------------------
\* The objects are tables of the right values (Session.set).
TypeOK ==
    /\ job \in [Module -> Job]
    /\ pool \subseteq Conn
    /\ \A o \in Object : IsSession(object[o])
    /\ kept \in Object \cup {None}
    /\ s \in [Module -> Object \cup {None}]
    /\ local \in [Module -> Object \cup {None}]
    /\ outdated \subseteq Module

\* However the commands of a user overlap, what is kept under the UUID has it, no
\* goroutine works on a session that it has not found or made, and
\* MustUpdateFromMap is never called with one without a UUID, at which it panics
\* (manager.go:71).
NoPanic ==
    /\ kept # None => IsVertify(object[kept]) /\ object[kept]["uuid"] = UUID
    /\ \A g \in Module :
         /\ ~ At(g, "panic")
         /\ pc[g] \notin {"update", "login", "find"} => s[g] # None
         /\ pc[g] \in {"complete", "mergeOld", "mergeNew", "mergeKept", "write"} =>
               local[g] # None

\* What a command wrote into the user's session stays in what is kept, through all
\* replacements by the sessions of other connections, which take over what they
\* have not; unless the object it wrote into had been replaced, or its successor
\* had read it, already (manager.go:112, servercmd_handler.go:97).
Known(g) == kept # None /\ HasKey(object[kept], g)
KeepsUpdates == \A g \in Module : At(g, "done") => Known(g) \/ g \in outdated

\* The same without an exception, which the steps of UpdateSessionUUID do not give
\* (manager.go:112): OnlyAddKeyFromSession copies once, and what is written into
\* the other object between the copy and Store is lost.
NothingLost == \A g \in Module : At(g, "done") => Known(g)
=============================================================================
