-------------------------------- MODULE Wire --------------------------------
(***************************************************************************)
(* One direction of a connection as bytes: messages of Command are encoded *)
(* (msg.DefaultEncodeObj), written one after another to a stream that is   *)
(* read in pieces of any size (buffer.IOBuffer), cut into messages again   *)
(* (msg.DefaultCodec) and decoded by a module that may be of another build *)
(* than the sender.  What threads, the send buffer and closed connections  *)
(* do is TCPConn's.  The receive buffer is that of a client's connection,  *)
(* which grows; between modules it has 80 MiB from the start.              *)
(***************************************************************************)
EXTENDS Command

CONSTANTS
    Scripts,        \* the sequences of messages [name, obj] that may be sent
    Builds,         \* pairs: the fields that the sender and the receiver lack
    DefaultLength,  \* of the receive buffer
    MaxGrowth,      \* 16 in the code
    MessageMaxSize,
    Chunks          \* how many bytes a read returns if not all

ASSUME WireAssumption ==
    /\ DefaultLength \in Nat \ {0}
    /\ MaxGrowth \in Nat \ {0}
    /\ MessageMaxSize \in Nat
    /\ Chunks \subseteq Nat \ {0}
    /\ Builds \subseteq [sender : Nat, receiver : Nat]

VARIABLES
    build,      \* the builds of the two modules
    toSend,     \* the messages not sent yet, and what they are encoded to
    sent,       \* history: those of which something was written
    stream,     \* the bytes on their way
    buf,        \* the receive buffer: its content, and maxLength
    codec,      \* the state of DefaultCodec between two calls
    received    \* the messages that were cut out of the stream

vars == <<build, toSend, sent, stream, buf, codec, received>>

HeadSize == 6

(* What a build knows of a message: all but its last fields. *)
Known(schema, lacks) ==
    SubSeq(schema, 1, IF lacks > Len(schema) THEN 0 ELSE Len(schema) - lacks)

(* A message that is too large is replaced by one of length 0, of which     *)
(* nothing is written.                                                      *)
Body(m, lacks) ==
    WriteBinary(Known(ModuleInfo, lacks), Known(SchemaOf(m.name), lacks), m.obj)
DefaultEncodeObj(m, lacks) ==
    LET body == Body(m, lacks)
        totalLength == HeadSize + Len(body) IN
    IF totalLength >= MessageMaxSize THEN <<>>
    ELSE LittleEndian(4, totalLength) \o LittleEndian(2, GetMsgId(m.name)) \o body

(* A message is encoded by the goroutine that sends it. *)
Init ==
    /\ build \in Builds
    /\ \E script \in Scripts : toSend = [i \in DOMAIN script |->
            [msg |-> script[i], binary |-> DefaultEncodeObj(script[i], build.sender)]]
    /\ sent = <<>>
    /\ stream = <<>>
    /\ buf = [data |-> <<>>, maxLength |-> DefaultLength]
    /\ codec = [inMsg |-> FALSE, protoLen |-> 0, msgID |-> 0]
    /\ received = <<>>
-----------------------------------------------------------------------------
(* A message is written whole, behind those before it. *)
Send ==
    /\ toSend # <<>>
    /\ toSend' = Tail(toSend)
    /\ stream' = stream \o Head(toSend).binary
    /\ sent' = IF Head(toSend).binary = <<>> THEN sent
               ELSE Append(sent, Head(toSend).msg)
    /\ UNCHANGED <<build, buf, codec, received>>
-----------------------------------------------------------------------------
(* RangeMsgBinary's loop goes on while it can read a head or a body. *)
HeadReady == ~codec.inMsg /\ Len(buf.data) >= HeadSize
BodyReady == codec.inMsg /\ Len(buf.data) >= codec.protoLen

(* An empty buffer that has grown more than once gets its first length.     *)
(* Mutant: it does not. *)
NeverShrunk(b) == b.maxLength
Shrunk(b) ==
    IF b.data = <<>> /\ b.maxLength >= 2 * DefaultLength + 1
    THEN DefaultLength ELSE b.maxLength

(* A buffer that a read has filled is doubled, as long as it may grow.      *)
(* Mutants: the limit itself is excluded; there is none. *)
GrownBelow(length, full) ==
    IF full /\ 2 * length < MaxGrowth * DefaultLength THEN 2 * length ELSE length
GrownFreely(length, full) == IF full THEN 2 * length ELSE length
Grown(length, full) ==
    IF full /\ 2 * length <= MaxGrowth * DefaultLength THEN 2 * length ELSE length

(* n bytes are read behind the content, which was moved to the front.  A    *)
(* read of none is the deadline of 250 ms, or a buffer without room.        *)
ReadFromReader(n) ==
    LET length == Shrunk(buf)
        left == length - Len(buf.data) IN
    /\ ~HeadReady
    /\ ~BodyReady
    /\ n <= left
    /\ n <= Len(stream)
    /\ n = 0 => stream = <<>> \/ left = 0
    /\ buf' = [data |-> buf.data \o SubSeq(stream, 1, n),
               maxLength |-> Grown(length, n = left)]
    /\ stream' = SubSeq(stream, n + 1, Len(stream))
    /\ UNCHANGED <<build, toSend, sent, codec, received>>

Read ==
    \E n \in Chunks \cup {0, Len(stream), Shrunk(buf) - Len(buf.data)} :
        ReadFromReader(n)

Taken(n) == [buf EXCEPT !.data = SubSeq(@, n + 1, Len(@))]

(* readHead. *)
ReadHead ==
    /\ HeadReady
    /\ codec' = [inMsg |-> TRUE,
                 protoLen |-> ReadUint(buf.data, 0, 4) - HeadSize,
                 msgID |-> ReadUint(buf.data, 4, 2)]
    /\ buf' = Taken(HeadSize)
    /\ UNCHANGED <<build, toSend, sent, stream, received>>

(* The body is copied into a MessageBinary, which is handed on. *)
ReadBody ==
    /\ BodyReady
    /\ received' = Append(received,
            [id |-> codec.msgID, data |-> SubSeq(buf.data, 1, codec.protoLen)])
    /\ buf' = Taken(codec.protoLen)
    /\ codec' = [codec EXCEPT !.inMsg = FALSE]
    /\ UNCHANGED <<build, toSend, sent, stream>>

Receive == Read \/ ReadHead \/ ReadBody

Next == Send \/ Receive

Spec == Init /\ [][Next]_vars /\ WF_vars(Send) /\ WF_vars(Receive)
-----------------------------------------------------------------------------
TypeOK ==
    /\ build \in Builds
    /\ Len(stream) <= Len(sent) * MessageMaxSize
    /\ buf.maxLength \in DefaultLength .. MaxGrowth * DefaultLength
    /\ Len(buf.data) <= buf.maxLength
    /\ codec.inMsg \in BOOLEAN
    /\ codec.inMsg => codec.protoLen < MessageMaxSize
    /\ Len(received) <= Len(sent)

(* What the receiver has to make of an object of the sender: the fields     *)
(* that both know, and defaults.                                            *)
Shared(schema, vals) ==
    [i \in DOMAIN Known(schema, build.receiver) |->
        IF i \in DOMAIN Known(schema, build.sender)
        THEN vals[i] ELSE Default(schema[i])]
SharedInfo(option) ==
    IF option = Nil THEN Nil ELSE Some(Shared(ModuleInfo, option[1]))
Meant(f, v) ==
    CASE f.kind = "info" -> SharedInfo(v)
      [] f.kind = "infos" /\ v # Nil ->
            Some([i \in DOMAIN v[1] |-> SharedInfo(v[1][i])])
      [] f.kind = "strings" /\ v # Nil ->
            Some([i \in DOMAIN v[1] |-> Last(v[1])])
      [] OTHER -> v
MeantObj(m) ==
    LET schema == SchemaOf(m.name) IN
    Shared(schema, [i \in DOMAIN schema |-> Meant(schema[i], m.obj[i])])

(* What the handler of a message decodes, by the schema of its number. *)
Decoded(r) ==
    LET name == MsgIdToString(r.id) IN
    [name |-> name,
     obj |-> ReadBinary(Known(ModuleInfo, build.receiver),
                        Known(SchemaOf(name), build.receiver), r.data)]

AllRead == toSend = <<>> /\ stream = <<>> /\ buf.data = <<>> /\ ~codec.inMsg

(* However the stream is cut and whichever build the sender is, the module  *)
(* receives the messages in order, none twice and none left out, and reads  *)
(* in each the fields that both builds know, absent objects, slices and     *)
(* maps as absent and the empty ones as empty; but for a []string, of which *)
(* it finds the last element in every place (command_binary.go:2388,2419).  *)
Understood ==
    /\ AllRead => Len(received) = Len(sent)
    /\ \A i \in DOMAIN received :
            Decoded(received[i]) = [name |-> sent[i].name, obj |-> MeantObj(sent[i])]

(* All that is written arrives, up to the first message whose body does not *)
(* fit into the largest receive buffer, behind which the connection hears   *)
(* nothing any more (connect/define.go:41: a client's buffer grows to 4     *)
(* MiB, and a message may have 8).                                          *)
Limit == MaxGrowth * DefaultLength
TooLong == codec.inMsg /\ codec.protoLen > Limit
ArrivesIfFits == <>[](AllRead \/ TooLong)

(* Memory that a long message took is given back when everything was read   *)
(* (but for one doubling).                                                  *)
GivenBack == AllRead ~> buf.maxLength <= 2 * DefaultLength
=============================================================================
