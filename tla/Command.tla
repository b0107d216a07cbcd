------------------------------ MODULE Command -------------------------------
(***************************************************************************)
(* servercomm/command_binary.go: the generated encoding of the messages    *)
(* between modules.  A message is a list of fields; what the generator     *)
(* writes for a field depends on its kind only, so that a schema stands    *)
(* for the three functions of a message (ReadMsg..., WriteMsg...,          *)
(* GetSize...).                                                            *)
(*                                                                         *)
(* A byte is a number below 256.  A string is a sequence of bytes.  What   *)
(* may be nil in Go is a sequence of at most one element here: Nil is <<>> *)
(* and a value is <<v>>.  Lengths and numbers stay below 2^24.             *)
(*                                                                         *)
(* Modules of different builds talk to each other, and a later build may   *)
(* have added fields at the end of a message: the parameter info is the    *)
(* ModuleInfo that a build knows, schema its message.                      *)
(***************************************************************************)
EXTENDS Naturals, FiniteSets, Sequences, SequencesExt

CONSTANT Stale   \* the byte that is left in a message's buffer by earlier ones

Nil == <<>>
Some(v) == <<v>>

Uint(w) == [kind |-> "uint", width |-> w]
Str == [kind |-> "string"]
Bool == [kind |-> "bool"]
Bytes == [kind |-> "bytes"]       \* []byte
Map == [kind |-> "map"]           \* map[string]string
Strs == [kind |-> "strings"]      \* []string
Info == [kind |-> "info"]         \* *ModuleInfo
Infos == [kind |-> "infos"]       \* []*ModuleInfo

ModuleInfo == <<Str, Str, Uint(4), Uint(8)>>
STimeTickCommand == <<Uint(4)>>
STestCommand == <<Uint(4), Str>>
SLoginCommand == <<Str, Str, Uint(8), Uint(4), Uint(8)>>
SLogoutCommand == <<>>
SSeverStartOKCommand == <<Str>>
SLoginRetCommand == <<Uint(4), Info>>
SStartRelyNotifyCommand == <<Infos>>
SStartMyNotifyCommand == <<Info>>
SNotifyAllInfo == <<Infos>>
SNotifySafelyQuit == <<Info>>
SUpdateSession == <<Str, Str, Str, Str, Map>>
SReqCloseConnect == <<Str, Str, Str>>
SForwardToModule == <<Str, Str, Uint(2), Bytes>>
ModuleMessage == <<Info, Uint(2), Bytes>>
SForwardToClient == <<Str, Str, Str, Uint(2), Bytes>>
SForwardFromGate == <<Str, Str, Str, Map, Uint(2), Bytes>>
ClientMessage == <<Info, Str, Uint(2), Bytes>>
SROCRequest == <<Str, Str, Uint(8), Str, Bytes, Bool>>
SROCResponse == <<Str, Str, Uint(8), Bytes, Str>>
SROCBind == <<Str, Bool, Str, Strs>>

(* The messages in the order of their numbers, and the numbers. *)
Names == <<"ModuleInfo", "STimeTickCommand", "STestCommand", "SLoginCommand",
    "SLogoutCommand", "SSeverStartOKCommand", "SLoginRetCommand",
    "SStartRelyNotifyCommand", "SStartMyNotifyCommand", "SNotifyAllInfo",
    "SNotifySafelyQuit", "SUpdateSession", "SReqCloseConnect",
    "SForwardToModule", "ModuleMessage", "SForwardToClient",
    "SForwardFromGate", "ClientMessage", "SROCRequest", "SROCResponse",
    "SROCBind">>
Schemas == <<ModuleInfo, STimeTickCommand, STestCommand, SLoginCommand,
    SLogoutCommand, SSeverStartOKCommand, SLoginRetCommand,
    SStartRelyNotifyCommand, SStartMyNotifyCommand, SNotifyAllInfo,
    SNotifySafelyQuit, SUpdateSession, SReqCloseConnect,
    SForwardToModule, ModuleMessage, SForwardToClient,
    SForwardFromGate, ClientMessage, SROCRequest, SROCResponse, SROCBind>>
FirstID == 36
GetMsgId(name) == FirstID - 1 + (CHOOSE i \in DOMAIN Names : Names[i] = name)
MsgIdToString(id) == Names[id - FirstID + 1]
SchemaOf(name) == Schemas[GetMsgId(name) - FirstID + 1]
-----------------------------------------------------------------------------
(* The size of a field and of an object, whose fields Size measures.       *)

Sum(s) ==
    LET upTo[i \in 0 .. Len(s)] == IF i = 0 THEN 0 ELSE upTo[i - 1] + s[i]
    IN upTo[Len(s)]
Elements(option) == IF option = Nil THEN <<>> ELSE option[1]
(* The entries of a map, in the order of a range over it: any. *)
Entries(option) ==
    IF option = Nil THEN <<>>
    ELSE LET keys == SetToSeq(DOMAIN option[1]) IN
         [i \in DOMAIN keys |-> <<keys[i], option[1][keys[i]]>>]

ObjSize(schema, obj, Size(_, _)) ==
    IF obj = Nil THEN 4
    ELSE 4 + Sum([i \in DOMAIN schema |-> Size(schema[i], obj[1][i])])

FlatSize(f, v) ==
    CASE f.kind = "uint" -> f.width
      [] f.kind = "bool" -> 1
      [] f.kind = "string" -> 4 + Len(v)
      [] f.kind = "bytes" -> 4 + Len(Elements(v))
      [] f.kind = "map" -> 4 + Sum([i \in DOMAIN Entries(v) |->
                    8 + Len(Entries(v)[i][1]) + Len(Entries(v)[i][2])])
      [] f.kind = "strings" -> 4 + Sum([i \in DOMAIN Elements(v) |->
                    4 + Len(Elements(v)[i])])

FieldSize(info, f, v) ==
    CASE f.kind = "info" -> ObjSize(info, v, FlatSize)
      [] f.kind = "infos" -> 4 + Sum([i \in DOMAIN Elements(v) |->
                                      ObjSize(info, Elements(v)[i], FlatSize)])
      [] OTHER -> FlatSize(f, v)

GetSize(info, schema, obj) ==
    ObjSize(schema, Some(obj), LAMBDA f, v : FieldSize(info, f, v))
-----------------------------------------------------------------------------
(* Writing: little endian numbers; the length of what is nil is -1.        *)

LittleEndian(width, n) ==
    [i \in 1 .. width |->
        CASE i = 1 -> n % 256
          [] i = 2 -> (n \div 256) % 256
          [] i = 3 -> n \div 65536
          [] OTHER -> 0]
NilLength == <<255, 255, 255, 255>>
LengthOf(option) ==
    IF option = Nil THEN NilLength ELSE LittleEndian(4, Len(Elements(option)))
WriteString(s) == LittleEndian(4, Len(s)) \o s

(* The loop of WriteMsgSROCBindByObj does not move its offset ("offset +=  *)
(* 0"): each string is written over the one before it.                     *)
Over(old, new) == new \o SubSeq(old, Len(new) + 1, Len(old))
WriteStrings(strings) ==
    FoldLeft(LAMBDA old, s : Over(old, WriteString(s)), <<>>, strings)

(* What is written is shorter than the size then; the rest of the object    *)
(* is what the buffer held.                                                 *)
WriteObj(schema, obj, size, Write(_, _)) ==
    IF obj = Nil THEN LittleEndian(4, 0)
    ELSE LET fields ==
                 FlattenSeq([i \in DOMAIN schema |-> Write(schema[i], obj[1][i])])
         IN LittleEndian(4, size - 4) \o fields
                \o [i \in 1 .. size - 4 - Len(fields) |-> Stale]

FlatWrite(f, v) ==
    CASE f.kind = "uint" -> LittleEndian(f.width, v)
      [] f.kind = "bool" -> IF v THEN <<1>> ELSE <<0>>
      [] f.kind = "string" -> WriteString(v)
      [] f.kind = "bytes" -> LengthOf(v) \o Elements(v)
      [] f.kind = "map" ->
            (IF v = Nil THEN NilLength ELSE LittleEndian(4, Len(Entries(v))))
            \o FlattenSeq([i \in DOMAIN Entries(v) |->
                    WriteString(Entries(v)[i][1]) \o WriteString(Entries(v)[i][2])])
      [] f.kind = "strings" -> LengthOf(v) \o WriteStrings(Elements(v))

WriteInfo(info, obj) ==
    WriteObj(info, obj, ObjSize(info, obj, FlatSize), FlatWrite)
FieldWrite(info, f, v) ==
    CASE f.kind = "info" -> WriteInfo(info, v)
      [] f.kind = "infos" -> LengthOf(v) \o FlattenSeq(
                [i \in DOMAIN Elements(v) |-> WriteInfo(info, Elements(v)[i])])
      [] OTHER -> FlatWrite(f, v)

WriteBinary(info, schema, obj) ==
    WriteObj(schema, Some(obj), GetSize(info, schema, obj),
             LAMBDA f, v : FieldWrite(info, f, v))
-----------------------------------------------------------------------------
(* Reading, from the data of an object.  at is an offset, from 0; a read    *)
(* returns the value and the next offset, and whether the function gives    *)
(* up (full = FALSE), so that the fields that follow keep their defaults.   *)

ReadUint(data, at, width) ==
    Sum([i \in 1 .. width |-> CASE i = 1 -> data[at + 1]
                               [] i = 2 -> 256 * data[at + 2]
                               [] i = 3 -> 65536 * data[at + 3]
                               [] OTHER -> 0])
IsNil(data, at) == SubSeq(data, at + 1, at + 4) = NilLength
ReadString(data, at) ==
    LET n == ReadUint(data, at, 4) IN
    IF at + 4 + n > Len(data) THEN <<>> ELSE SubSeq(data, at + 5, at + 4 + n)

Got(val, at) == [val |-> val, at |-> at, full |-> TRUE]

Default(f) == CASE f.kind = "uint" -> 0
                [] f.kind = "bool" -> FALSE
                [] OTHER -> <<>>

(* What must be left for a field to be looked at: the length of a string,  *)
(* of a slice or of an object.                                              *)
(* Mutant: two bytes more are asked for, as before the value in a map. *)
NeedsMore(f) ==
    CASE f.kind = "uint" -> f.width + 2
      [] f.kind = "bool" -> 1
      [] OTHER -> 4
Needs(f) ==
    CASE f.kind = "uint" -> f.width
      [] f.kind = "bool" -> 1
      [] OTHER -> 4

ReadFields(schema, data, Read(_, _, _)) ==
    FoldLeft(
        LAMBDA r, f :
            IF ~r.full \/ r.at + Needs(f) > Len(data)
            THEN [r EXCEPT !.full = FALSE, !.val = Append(@, Default(f))]
            ELSE LET x == Read(f, data, r.at) IN
                 [x EXCEPT !.val = Append(r.val, @)],
        Got(<<>>, 0), schema)

(* The object at the start of data; an empty one is taken for nil. *)
ReadObj(schema, data, Read(_, _, _)) ==
    LET size == ReadUint(data, 0, 4) IN
    IF Len(data) < 4 THEN Got(Nil, 0)
    ELSE IF size = 0 THEN Got(Nil, 4)
    ELSE IF 4 + size > Len(data)
         THEN Got(Some([i \in DOMAIN schema |-> Default(schema[i])]), 4)
    ELSE Got(Some(ReadFields(schema, SubSeq(data, 5, 4 + size), Read).val), 4 + size)

ReadBytes(data, at) ==
    LET n == ReadUint(data, at, 4) IN
    IF IsNil(data, at) THEN Got(Nil, at + 4)
    ELSE IF at + 4 + n > Len(data) THEN [Got(Nil, at + 4) EXCEPT !.full = FALSE]
    ELSE Got(Some(SubSeq(data, at + 5, at + 4 + n)), at + 4 + n)

(* The loop over the entries: its tests of the bound are weaker than what   *)
(* the next read takes, which only a message that was cut inside a map      *)
(* would show.                                                              *)
ReadEntry(data, r) ==
    LET key == ReadString(data, r.at)
        valueAt == r.at + 4 + Len(key)
        value == ReadString(data, valueAt) IN
    IF ~r.full \/ r.at > Len(data) \/ valueAt + 2 > Len(data)
    THEN [r EXCEPT !.full = FALSE]
    ELSE Got([k \in DOMAIN r.val \cup {key} |-> IF k = key THEN value ELSE r.val[k]],
             valueAt + 4 + Len(value))
ReadMap(data, at) ==
    LET n == ReadUint(data, at, 4)
        r == FoldLeft(LAMBDA x, i : ReadEntry(data, x),
                      Got([k \in {} |-> <<>>], at + 4), [i \in 1 .. n |-> i]) IN
    IF IsNil(data, at) THEN Got(Nil, at + 4) ELSE [r EXCEPT !.val = Some(@)]

(* "offset += 0" again: the same string, again and again. *)
ReadStrings(data, at) ==
    IF IsNil(data, at) THEN Got(Nil, at + 4)
    ELSE Got(Some([i \in 1 .. ReadUint(data, at, 4) |-> ReadString(data, at + 4)]),
             at + 4)

FlatRead(f, data, at) ==
    CASE f.kind = "uint" -> Got(ReadUint(data, at, f.width), at + f.width)
      [] f.kind = "bool" -> Got(data[at + 1] # 0, at + 1)
      [] f.kind = "string" -> Got(ReadString(data, at), at + 4 + Len(ReadString(data, at)))
      [] f.kind = "bytes" -> ReadBytes(data, at)
      [] f.kind = "map" -> ReadMap(data, at)
      [] f.kind = "strings" -> ReadStrings(data, at)

(* An object inside another one, behind at. *)
ReadInfo(info, data, at) ==
    LET r == ReadObj(info, SubSeq(data, at + 1, Len(data)), FlatRead) IN
    Got(r.val, at + r.at)
ReadInfos(info, data, at) ==
    LET r == FoldLeft(LAMBDA x, i : LET y == ReadInfo(info, data, x.at) IN
                                    Got(Append(x.val, y.val), y.at),
                      Got(<<>>, at + 4), [i \in 1 .. ReadUint(data, at, 4) |-> i]) IN
    IF IsNil(data, at) THEN Got(Nil, at + 4) ELSE Got(Some(r.val), r.at)
FieldRead(info, f, data, at) ==
    CASE f.kind = "info" -> ReadInfo(info, data, at)
      [] f.kind = "infos" -> ReadInfos(info, data, at)
      [] OTHER -> FlatRead(f, data, at)

(* ReadBinary fills the object that its caller made. *)
ReadBinary(info, schema, data) ==
    LET r == ReadObj(schema, data, LAMBDA f, d, at : FieldRead(info, f, d, at)) IN
    IF r.val = Nil THEN [i \in DOMAIN schema |-> Default(schema[i])] ELSE r.val[1]
=============================================================================
