------------------------------ MODULE ROCCall -------------------------------
(***************************************************************************)
(* server/rocserver.go: calls of remote objects.  A call looks its object  *)
(* up in the cache, takes a sequence number and is sent to the module that *)
(* the cache names; a call that wants an answer and finds no module is     *)
(* sent to all.  Each module executes the requests one after another in    *)
(* rocRequestProcess, and hands answers to the callers in                  *)
(* rocResponseProcess, through a channel of one place per call.            *)
(*                                                                         *)
(* Every module is a process, so that a panic of one of its goroutines     *)
(* ends the module.  A link stands for a connection and the message queue  *)
(* of its other end, both in order (TCPConn); connections neither begin    *)
(* nor end.  A module may have two to the same peer: when both dialled     *)
(* each other, the connection that lost stays open, in both pools, under   *)
(* a name that nobody looks up (Subnet).  Only a broadcast is sent over it *)
(* too, and its other end handles what it receives like any other message. *)
(***************************************************************************)
EXTENDS Naturals, FiniteSets, Sequences, SequencesExt

CONSTANTS
    Module,     \* the modules, each connected to each
    Obj,        \* the objects
    Call,       \* the calls that are made
    From,       \* From[c]: the module that calls
    Target,     \* Target[c]: the object called
    NeedReturn, \* NeedReturn[c]: ROCCallBlock, otherwise ROCCallNR
    Before,     \* Before[c]: the calls that its goroutine makes before c
    Host,       \* Host[o]: the only module that has o
    Second,     \* the pairs <<m, n>> such that m has a second connection to n
    MaxRebinds, \* how often the caches change meanwhile
    None

ASSUME ROCCallAssumption ==
    /\ From \in [Call -> Module]
    /\ Target \in [Call -> Obj]
    /\ NeedReturn \in [Call -> BOOLEAN]
    /\ Before \in [Call -> SUBSET Call]
    /\ Host \in [Obj -> Module]
    /\ Second \subseteq Module \X Module
    /\ MaxRebinds \in Nat
    /\ None \notin Module
    /\ IsFiniteSet(Call)
(* A goroutine runs in one module. *)
ASSUME BeforeAssumption == \A d \in Call : \A c \in Before[d] : From[c] = From[d]

VARIABLES
    objPool,   \* objPool[m]: the objects m has
    catchType, \* catchType[m, o]: the module m believes o to be at, or None
    rebinds,   \* changes of the caches so far
    call,      \* call[c]: where the calling goroutine stands
    location,  \* location[c]: its local variable moduleid
    seq,       \* seq[c]: the sequence number it took
    lastSeq,   \* lastSeq[m]: ROCServer.lastSeq
    blockChan, \* blockChan[m][s]: the answers in the channel of number s
    result,    \* result[c]: the answer with which c returned
    link,      \* link[k][m][n]: what m sent by the connection k to n, unhandled
    requests,  \* requests[m]: rocRequestChan
    responses, \* responses[m]: rocResponseChan
    agent,     \* agent[m]: the answer rocResponseProcess is writing
    down,      \* down[m]: the process of m panicked
    executed   \* executed[m]: history, the requests m executed

caller == <<call, location, seq, lastSeq, result>>
objects == <<objPool, catchType, rebinds>>
threads == <<requests, responses, agent>>
vars == <<objects, caller, blockChan, link, threads, down, executed>>

(* Only the entries of objects that the module calls matter. *)
Used == {<<From[c], Target[c]>> : c \in Call}

(* The connection that has the peer's name, and a second one to it. *)
Conn == {"named", "second"}
(* ServerPool.allSockets. *)
Pool(m) == {e \in Conn \X (Module \ {m}) : e[1] = "second" => <<m, e[2]>> \in Second}

(* The request of a call that goes by one connection; conn is not part of   *)
(* SROCRequest, but tells the copies of a broadcast apart.                  *)
Copy == [call : Call, conn : Conn]
CopyOf(req) == [call |-> req.call, conn |-> req.conn]

Seqs == 0 .. Cardinality(Call)
Request(c, k) == [type |-> "SROCRequest", call |-> c, conn |-> k, seq |-> seq[c]]
Response(c, m, s, err) ==
    [type |-> "SROCResponse", call |-> c, from |-> m, seq |-> s, err |-> err]
Message == [type : {"SROCRequest"}, call : Call, conn : Conn, seq : Seqs]
Answer == [type : {"SROCResponse"}, call : Call, from : Module, seq : Seqs,
           err : {"ErrUnknowObj", "error"}]
(* A channel of one place. *)
Channel == {<<>>} \cup {<<x>> : x \in Answer}

(* nil is neither a channel nor an answer. *)
ASSUME NoneAssumption == None \notin Channel \cup Answer

Init ==
    /\ objPool = [m \in Module |-> {o \in Obj : Host[o] = m}]
    /\ catchType \in [Used -> Module \cup {None}]
    /\ \A u \in Used :
            \/ catchType[u] = Host[u[2]]
            \/ catchType[u] = None /\ u[1] # Host[u[2]]
    /\ rebinds = 0
    /\ call = [c \in Call |-> "new"]
    /\ location = [c \in Call |-> None]
    /\ seq = [c \in Call |-> 0]
    /\ lastSeq = [m \in Module |-> 0]
    /\ blockChan = [m \in Module |-> [s \in Seqs |-> None]]
    /\ result = [c \in Call |-> None]
    /\ link = [k \in Conn |-> [m \in Module |-> [n \in Module |-> <<>>]]]
    /\ requests = [m \in Module |-> <<>>]
    /\ responses = [m \in Module |-> <<>>]
    /\ agent = [m \in Module |-> None]
    /\ down = [m \in Module |-> FALSE]
    /\ executed = [m \in Module |-> <<>>]
-----------------------------------------------------------------------------
(* ROCCallNR and ROCCallBlock.                                             *)

Ended == {"returned", "failed"}

(* Cache.Get. *)
Locate(c) ==
    LET m == From[c] IN
    /\ ~down[m]
    /\ call[c] = "new"
    /\ \A d \in Before[c] : call[d] \in Ended
    /\ call' = [call EXCEPT ![c] = "located"]
    /\ location' = [location EXCEPT ![c] = catchType[<<m, Target[c]>>]]
    /\ UNCHANGED <<objects, seq, lastSeq, result, blockChan, link, threads,
                   down, executed>>

(* newSeq, under seqMutex, and addBlockChan.  Mutant: lastSeq is not kept. *)
TakeSeqLost(c) ==
    LET m == From[c]
        s == lastSeq[m] + 1 IN
    /\ ~down[m]
    /\ call[c] = "located"
    /\ call' = [call EXCEPT ![c] = "numbered"]
    /\ seq' = [seq EXCEPT ![c] = s]
    /\ blockChan' = IF NeedReturn[c] THEN [blockChan EXCEPT ![m][s] = <<>>]
                                     ELSE blockChan
    /\ UNCHANGED <<objects, location, lastSeq, result, link, threads, down,
                   executed>>
TakeSeq(c) ==
    LET m == From[c]
        s == lastSeq[m] + 1 IN
    /\ ~down[m]
    /\ call[c] = "located"
    /\ call' = [call EXCEPT ![c] = "numbered"]
    /\ lastSeq' = [lastSeq EXCEPT ![m] = s]
    /\ seq' = [seq EXCEPT ![c] = s]
    /\ blockChan' = IF NeedReturn[c] THEN [blockChan EXCEPT ![m][s] = <<>>]
                                     ELSE blockChan
    /\ UNCHANGED <<objects, location, result, link, threads, down, executed>>

Sends(c) == ~down[From[c]] /\ call[c] = "numbered"
AfterSend(c) ==
    call' = [call EXCEPT ![c] = IF NeedReturn[c] THEN "waiting" ELSE "returned"]

(* The object is here: onMsgROCRequest of the caller's own goroutine. *)
CallLocal(c) ==
    /\ Sends(c)
    /\ location[c] = From[c]
    /\ requests' = [requests EXCEPT ![From[c]] = Append(@, Request(c, "named"))]
    /\ AfterSend(c)
    /\ UNCHANGED <<objects, location, seq, lastSeq, result, blockChan, link,
                   responses, agent, down, executed>>

CallRemote(c) ==
    LET m == From[c] IN
    /\ Sends(c)
    /\ location[c] \notin {m, None}
    /\ link' = [link EXCEPT !["named"][m][location[c]] =
                    Append(@, Request(c, "named"))]
    /\ AfterSend(c)
    /\ UNCHANGED <<objects, location, seq, lastSeq, result, blockChan, threads,
                   down, executed>>

(* BroadcastCmd: over every connection in the pool. *)
CallBroadcast(c) ==
    LET m == From[c] IN
    /\ Sends(c)
    /\ NeedReturn[c]
    /\ location[c] = None
    /\ link' = [k \in Conn |-> [link[k] EXCEPT ![m] =
            [n \in Module |-> IF <<k, n>> \in Pool(m) THEN Append(@[n], Request(c, k))
                                                     ELSE @[n]]]]
    /\ AfterSend(c)
    /\ UNCHANGED <<objects, location, seq, lastSeq, result, blockChan, threads,
                   down, executed>>

(* ROCCallNR returns an error. *)
CallFails(c) ==
    /\ Sends(c)
    /\ ~NeedReturn[c]
    /\ location[c] = None
    /\ call' = [call EXCEPT ![c] = "failed"]
    /\ UNCHANGED <<objects, location, seq, lastSeq, result, blockChan, link,
                   threads, down, executed>>

(* agent := <-ch. *)
Return(c) ==
    LET ch == blockChan[From[c]][seq[c]] IN
    /\ ~down[From[c]]
    /\ call[c] = "waiting"
    /\ ch # <<>>
    /\ call' = [call EXCEPT ![c] = "returned"]
    /\ result' = [result EXCEPT ![c] = Head(ch)]
    /\ blockChan' = [blockChan EXCEPT ![From[c]][seq[c]] = Tail(@)]
    /\ UNCHANGED <<objects, location, seq, lastSeq, link, threads, down,
                   executed>>
-----------------------------------------------------------------------------
(* The goroutine of the message queue: onMsgROCRequest, onMsgROCResponse.  *)
(* Mutant: the latest request is executed first.                           *)
OnRecvLatestFirst(k, m, n) ==
    /\ ~down[n]
    /\ link[k][m][n] # <<>>
    /\ link' = [link EXCEPT ![k][m][n] = Tail(@)]
    /\ LET msg == Head(link[k][m][n]) IN
       \/ /\ msg.type = "SROCRequest"
          /\ requests' = [requests EXCEPT ![n] = <<msg>> \o @]
          /\ UNCHANGED responses
       \/ /\ msg.type = "SROCResponse"
          /\ responses' = [responses EXCEPT ![n] = Append(@, msg)]
          /\ UNCHANGED requests
    /\ UNCHANGED <<objects, caller, blockChan, agent, down, executed>>
OnRecvSubnetMsg(k, m, n) ==
    /\ ~down[n]
    /\ link[k][m][n] # <<>>
    /\ link' = [link EXCEPT ![k][m][n] = Tail(@)]
    /\ LET msg == Head(link[k][m][n]) IN
       \/ /\ msg.type = "SROCRequest"
          /\ requests' = [requests EXCEPT ![n] = Append(@, msg)]
          /\ UNCHANGED responses
       \/ /\ msg.type = "SROCResponse"
          /\ responses' = [responses EXCEPT ![n] = Append(@, msg)]
          /\ UNCHANGED requests
    /\ UNCHANGED <<objects, caller, blockChan, agent, down, executed>>

(* rocRequestProcess: the object is called here, or is unknown here; only   *)
(* an error is ever sent back, since the nil error of a success panics, and *)
(* nothing is sent back inside a module.                                    *)
Takes(m, req) ==
    /\ ~down[m]
    /\ requests[m] # <<>>
    /\ req = Head(requests[m])
    /\ requests' = [requests EXCEPT ![m] = Tail(@)]

Answers(m, req, err) ==
    link' = IF NeedReturn[req.call] /\ From[req.call] # m
            THEN [link EXCEPT !["named"][m][From[req.call]] =
                    Append(@, Response(req.call, m, req.seq, err))]
            ELSE link

(* Mutant: an unknown object is not answered. *)
ExecuteUnknownSilent(m) ==
    \E req \in ToSet(requests[m]) :
        /\ Takes(m, req)
        /\ Target[req.call] \notin objPool[m]
        /\ UNCHANGED <<objects, caller, blockChan, link, responses, agent,
                       down, executed>>
ExecuteUnknown(m) ==
    \E req \in ToSet(requests[m]) :
        /\ Takes(m, req)
        /\ Target[req.call] \notin objPool[m]
        /\ Answers(m, req, "ErrUnknowObj")
        /\ UNCHANGED <<objects, caller, blockChan, responses, agent, down,
                       executed>>

(* Mutant: the request is not taken off the channel when its call fails.    *)
ExecuteErrorAgain(m) ==
    \E req \in ToSet(requests[m]) :
        /\ ~down[m]
        /\ req = Head(requests[m])
        /\ Target[req.call] \in objPool[m]
        /\ executed' = [executed EXCEPT ![m] = Append(@, CopyOf(req))]
        /\ Answers(m, req, "error")
        /\ UNCHANGED <<objects, caller, blockChan, threads, down>>

ExecuteError(m) ==
    \E req \in ToSet(requests[m]) :
        /\ Takes(m, req)
        /\ Target[req.call] \in objPool[m]
        /\ executed' = [executed EXCEPT ![m] = Append(@, CopyOf(req))]
        /\ Answers(m, req, "error")
        /\ UNCHANGED <<objects, caller, blockChan, responses, agent, down>>

ExecuteSuccess(m) ==
    \E req \in ToSet(requests[m]) :
        /\ Takes(m, req)
        /\ Target[req.call] \in objPool[m]
        /\ executed' = [executed EXCEPT ![m] = Append(@, CopyOf(req))]
        /\ down' = [down EXCEPT ![m] = NeedReturn[req.call] /\ From[req.call] # m]
        /\ UNCHANGED <<objects, caller, blockChan, link, responses, agent>>

(* rocResponseProcess takes an answer, of which the caller must be known,   *)
(* and writes it to the channel when that has room.                         *)
TakeResponse(m) ==
    /\ ~down[m]
    /\ agent[m] = None
    /\ responses[m] # <<>>
    /\ responses' = [responses EXCEPT ![m] = Tail(@)]
    /\ LET answer == Head(responses[m]) IN
       agent' = [agent EXCEPT ![m] =
            IF blockChan[m][answer.seq] = None THEN None ELSE answer]
    /\ UNCHANGED <<objects, caller, blockChan, link, requests, down, executed>>

(* Mutant: the channel takes any number of answers. *)
WriteResponseUnbounded(m) ==
    /\ ~down[m]
    /\ agent[m] # None
    /\ blockChan' = [blockChan EXCEPT ![m][agent[m].seq] = Append(@, agent[m])]
    /\ agent' = [agent EXCEPT ![m] = None]
    /\ UNCHANGED <<objects, caller, link, requests, responses, down, executed>>
WriteResponse(m) ==
    /\ ~down[m]
    /\ agent[m] # None
    /\ blockChan[m][agent[m].seq] = <<>>
    /\ blockChan' = [blockChan EXCEPT ![m][agent[m].seq] = <<agent[m]>>]
    /\ agent' = [agent EXCEPT ![m] = None]
    /\ UNCHANGED <<objects, caller, link, requests, responses, down, executed>>
-----------------------------------------------------------------------------
(* Notices of bindings arrive (ROCBind), and objects are deleted. *)
Rebind(m, o) ==
    /\ rebinds < MaxRebinds
    /\ ~down[m]
    /\ rebinds' = rebinds + 1
    /\ <<m, o>> \in Used
    /\ m # Host[o]
    /\ \E n \in {Host[o], None} : catchType' = [catchType EXCEPT ![<<m, o>>] = n]
    /\ UNCHANGED <<objPool, caller, blockChan, link, threads, down, executed>>

DelObj(m, o) ==
    /\ rebinds < MaxRebinds
    /\ ~down[m]
    /\ o \in objPool[m]
    /\ rebinds' = rebinds + 1
    /\ objPool' = [objPool EXCEPT ![m] = @ \ {o}]
    /\ catchType' = [catchType EXCEPT ![<<m, o>>] = None]
    /\ UNCHANGED <<caller, blockChan, link, threads, down, executed>>
-----------------------------------------------------------------------------
ROCCall(c) ==
    \/ Locate(c) \/ TakeSeq(c)
    \/ CallLocal(c) \/ CallRemote(c) \/ CallBroadcast(c) \/ CallFails(c)
    \/ Return(c)

RequestProcess(m) == ExecuteUnknown(m) \/ ExecuteError(m) \/ ExecuteSuccess(m)
ResponseProcess(m) == TakeResponse(m) \/ WriteResponse(m)

Next ==
    \/ \E c \in Call : ROCCall(c)
    \/ \E k \in Conn, m, n \in Module : OnRecvSubnetMsg(k, m, n)
    \/ \E m \in Module : RequestProcess(m) \/ ResponseProcess(m)
    \/ \E m \in Module, o \in Obj : Rebind(m, o) \/ DelObj(m, o)

Spec == Init /\ [][Next]_vars

(* A call that was begun goes on, and so does every goroutine that a module *)
(* keeps.                                                                   *)
Proceed ==
    \/ \E c \in Call : call[c] # "new" /\ ROCCall(c)
    \/ \E k \in Conn, m, n \in Module : OnRecvSubnetMsg(k, m, n)
    \/ \E m \in Module : RequestProcess(m) \/ ResponseProcess(m)

(* Calls and rebindings being bounded, every behaviour comes to a stop, so  *)
(* that it is enough that one of those goroutines that can run does.        *)
Fairness == WF_vars(Proceed)
FairSpec == Spec /\ Fairness
-----------------------------------------------------------------------------
TypeOK ==
    /\ objPool \in [Module -> SUBSET Obj]
    /\ catchType \in [Used -> Module \cup {None}]
    /\ rebinds \in 0 .. MaxRebinds
    /\ call \in [Call -> {"new", "located", "numbered", "waiting"} \cup Ended]
    /\ location \in [Call -> Module \cup {None}]
    /\ seq \in [Call -> Seqs]
    /\ lastSeq \in [Module -> Seqs]
    /\ blockChan \in [Module -> [Seqs -> Channel \cup {None}]]
    /\ result \in [Call -> Answer \cup {None}]
    /\ link \in [Conn -> [Module -> [Module -> Seq(Message \cup Answer)]]]
    /\ requests \in [Module -> Seq(Message)]
    /\ responses \in [Module -> Seq(Answer)]
    /\ agent \in [Module -> Answer \cup {None}]
    /\ down \in [Module -> BOOLEAN]
    /\ executed \in [Module -> Seq(Copy)]

(* A caller returns with the answer to its own call, although answers come  *)
(* in any order, twice, and after the call returned (newSeq, "unique in     *)
(* each module").                                                           *)
OwnAnswer == \A c \in Call : result[c] # None => result[c].call = c

(* What OwnAnswer needs to be inductive: a module has given out as many      *)
(* numbers as its calls took; two of its calls never have the same; each     *)
(* request and answer on its way, at its caller, or in a channel has the     *)
(* number of the call it belongs to; and a call that wants an answer has a   *)
(* channel, which is never taken away.                                       *)
Numbered(c) == call[c] \notin {"new", "located"}
Carries(msg) == Numbered(msg.call) /\ msg.seq = seq[msg.call]
CountInv ==
    \A m \in Module :
        lastSeq[m] = Cardinality({c \in Call : From[c] = m /\ Numbered(c)})
NumberInv ==
    /\ \A c \in Call : Numbered(c) => seq[c] \in 1 .. lastSeq[From[c]]
    /\ \A c, d \in Call :
            /\ Numbered(c) /\ Numbered(d)
            /\ From[c] = From[d] /\ seq[c] = seq[d]
            => c = d
WaitInv ==
    \A c \in Call :
        /\ call[c] = "waiting" => NeedReturn[c]
        /\ Numbered(c) /\ NeedReturn[c] => blockChan[From[c]][seq[c]] \in Channel
(* An answer at m to a call of m; what m sends to n by the connection k. *)
Own(x, m) == Carries(x) /\ From[x.call] = m /\ NeedReturn[x.call]
Sent(x, k, m, n) ==
    /\ Carries(x)
    /\ x.type = "SROCResponse" => Own(x, n) /\ x.from = m /\ k = "named"
LinkInv ==
    \A k \in Conn, m, n \in Module : \A i \in DOMAIN link[k][m][n] :
        Sent(link[k][m][n][i], k, m, n)
RequestInv ==
    \A m \in Module : \A i \in DOMAIN requests[m] : Carries(requests[m][i])
ResponseInv ==
    \A m \in Module : \A i \in DOMAIN responses[m] : Own(responses[m][i], m)
AgentInv ==
    \A m \in Module : agent[m] # None => Own(agent[m], m)
ChanInv ==
    \A m \in Module, s \in Seqs, x \in Answer :
        blockChan[m][s] = <<x>> => Own(x, m) /\ x.seq = s
CarryInv == LinkInv /\ RequestInv /\ ResponseInv /\ AgentInv /\ ChanInv

(* The requests that one goroutine sends by one connection are executed in  *)
(* the order in which it made the calls, whether its cache knew the object  *)
(* or not: the connection, the message queue of its other end and           *)
(* rocRequestChan keep the order.                                           *)
InOrder ==
    \A m \in Module : \A i, j \in DOMAIN executed[m] :
        /\ executed[m][i].call \in Before[executed[m][j].call]
        /\ executed[m][i].conn = executed[m][j].conn
        => i < j

(* A call is executed at most once in the whole subnet, however its         *)
(* object's location changes on the way, unless it is broadcast to the      *)
(* object's host by two connections, and then at most once for each of them *)
(* (ROCCallBlock, BroadcastCmd, rocRequestProcess).                         *)
ExecutedOnce ==
    \A m, n \in Module : \A i \in DOMAIN executed[m], j \in DOMAIN executed[n] :
        LET p == executed[m][i]
            q == executed[n][j] IN
        p.call = q.call =>
            /\ m = n
            /\ \/ i = j
               \/ /\ p.conn # q.conn
                  /\ location[p.call] = None
                  /\ <<From[p.call], m>> \in Second

(* What a caller is told is so, although a module may answer twice: the     *)
(* module whose answer it returns with executed the call if it reports the  *)
(* call's error, and has not, and never will, if it reports an unknown      *)
(* object.                                                                  *)
Ran(m, c) == \E i \in DOMAIN executed[m] : executed[m][i].call = c
AnswersAreTrue ==
    \A c \in Call : result[c] # None =>
        (result[c].err = "error" <=> Ran(result[c].from, c))

(* rocResponseProcess waits for good to write an answer to a call that      *)
(* returned with another one, and whose channel holds a third.              *)
Stuck(m) ==
    /\ agent[m] # None
    /\ call[agent[m].call] = "returned"
    /\ blockChan[m][agent[m].seq] # <<>>

(* A caller that waits for another module, which it knows, gets its answer  *)
(* if both stay up.  The answers to other calls prevent it only if one of   *)
(* these was broadcast by more than two connections.                        *)
RemoteReturns ==
    \A c \in Call :
        call[c] = "waiting" /\ location[c] \notin {From[c], None}
            ~> \/ call[c] = "returned"
               \/ \E m \in Module : m \in {From[c], location[c]} /\ down[m]
               \/ /\ Stuck(From[c])
                  /\ location[agent[From[c]].call] = None
                  /\ Cardinality(Pool(From[c])) > 2
=============================================================================
