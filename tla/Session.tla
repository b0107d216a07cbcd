------------------------------ MODULE Session ------------------------------
(***************************************************************************)
(* session/session.go and session/manager.go: a Session is a table of keys *)
(* and values, of which each module a client deals with has a copy; a      *)
(* SessionManager is a module's table of sessions by UUID.  A Session is a *)
(* function here, on the keys it has; the strings are abstracted to        *)
(* members of the constants.                                               *)
(***************************************************************************)
CONSTANTS
    User,   \* the UUIDs of the users
    Conn,   \* the IDs of the clients' connections
    Module  \* the modules, each of a type of its own

\* SessionKeyConnectID, SessionKeyUUID and a key SessionKeyBindHead + type per
\* type of module, which is named by the module.
Key == {"conn", "uuid"} \cup Module
ASSUME KeyAssumption == Module \cap {"conn", "uuid"} = {}
ValueOf(k) == IF k = "conn" THEN Conn ELSE IF k = "uuid" THEN User ELSE {k}

IsSession(s) == DOMAIN s \subseteq Key /\ \A k \in DOMAIN s : s[k] \in ValueOf(k)
NewSession == [k \in {} |-> k]

HasKey(s, k) == k \in DOMAIN s
IsVertify(s) == HasKey(s, "uuid")

\* The value that m has of a key wins.
FromMap(s, m) == [k \in DOMAIN s \cup DOMAIN m |->
                    IF HasKey(m, k) THEN m[k] ELSE s[k]]

\* Only the keys that s has not are taken over from dir.
\* Mutant: nothing is taken over.
AddNothing(s, dir) == s

OnlyAddKeyFromSession(s, dir) ==
    FromMap(dir, s)

Set(s, k, v) == FromMap(s, [x \in {k} |-> v])

\* Mutant: the value is the connection, not the module.
BindConn(s, module) == Set(s, module, s["conn"])

SetBind(s, module) ==
    Set(s, module, module)

GetBindedList(s) == DOMAIN s \cap Module

(* UpdateSessionUUID on a manager whose objects are kept by value, NewSession *)
(* where there is none: s gets what the sessions of its old and of its new    *)
(* UUID have and it has not, takes the new one's place, and the old one goes. *)
(* That s may be one of the two makes no difference.                          *)
\* Mutant: only a session that has a UUID gets the new one.
UpdateOnlyVertified(sessions, uuid, s) ==
    [u \in User |-> IF u = uuid THEN IF IsVertify(s) THEN Set(s, "uuid", uuid) ELSE s
                   ELSE sessions[u]]

UpdateSessionUUID(sessions, uuid, s) ==
    LET Old(u) == IsVertify(s) /\ s["uuid"] = u
        before == IF IsVertify(s) THEN sessions[s["uuid"]] ELSE NewSession
        merged == OnlyAddKeyFromSession(
                      OnlyAddKeyFromSession(s, before), sessions[uuid])
    IN [u \in User |-> IF u = uuid THEN Set(merged, "uuid", uuid)
                       ELSE IF Old(u) THEN NewSession ELSE sessions[u]]

\* MustUpdateFromMap of the session that is kept under uuid.
MustUpdateFromMap(sessions, uuid, data) ==
    [sessions EXCEPT ![uuid] = FromMap(@, data)]
=============================================================================
