------------------------------- MODULE MCWire -------------------------------
(***************************************************************************)
(* Instances of Wire for TLC: one or two objects of every message, chosen  *)
(* so that what may be nil is nil, empty and not, each followed by another *)
(* message.  The receive buffer is 16 bytes long and grows to 64, and a    *)
(* message may have 89: the proportions of a client's connection.          *)
(***************************************************************************)
EXTENDS Wire

s == <<115>>
t == <<116, 117>>
info == <<s, t, 7, 258>>

Objs == [
    ModuleInfo |-> {info},
    STimeTickCommand |-> {<<66051>>},
    STestCommand |-> {<<1, <<>>>>, <<1, t>>},
    SLoginCommand |-> {<<s, t, 5, 6, 7>>},
    SLogoutCommand |-> {<<>>},
    SSeverStartOKCommand |-> {<<s>>},
    SLoginRetCommand |-> {<<0, Nil>>, <<2, Some(info)>>},
    SStartRelyNotifyCommand |-> {<<Nil>>, <<Some(<<>>)>>},
    SStartMyNotifyCommand |-> {<<Nil>>, <<Some(info)>>},
    SNotifyAllInfo |-> {<<Some(<<Some(<<s, s, 1, 2>>), Nil>>)>>},
    SNotifySafelyQuit |-> {<<Some(info)>>},
    SUpdateSession |-> {<<s, t, s, <<>>, Nil>>, <<s, s, s, t, Some([k \in {} |-> s])>>,
                        <<s, s, s, s, Some([k \in {s, t} |-> k])>>},
    SReqCloseConnect |-> {<<s, t, <<>>>>},
    SForwardToModule |-> {<<s, t, 300, Nil>>, <<s, t, 3, Some(<<>>)>>},
    ModuleMessage |-> {<<Nil, 3, Some(s)>>, <<Some(info), 3, Nil>>},
    SForwardToClient |-> {<<s, t, s, 3, Some(t)>>},
    SForwardFromGate |-> {<<s, t, s, Some([k \in {s} |-> t]), 3, Some(s)>>,
                          <<s, s, s, Nil, 3, Nil>>},
    ClientMessage |-> {<<Some(info), s, 3, Some(t)>>, <<Nil, s, 3, Nil>>},
    SROCRequest |-> {<<s, t, 9, s, Some(t), TRUE>>, <<s, t, 9, s, Nil, FALSE>>},
    SROCResponse |-> {<<s, t, 9, Some(s), <<>>>>, <<s, t, 9, Nil, t>>},
    SROCBind |-> {<<s, FALSE, t, Some(<<t, s>>)>>, <<s, TRUE, t, Some(<<s>>)>>,
                  <<s, FALSE, t, Some(<<>>)>>}]

M(name, obj) == [name |-> name, obj |-> obj]
Tick == M("STimeTickCommand", <<1>>)

\* A message whose encoding has n bytes altogether.
Long(n) == M("SForwardToModule", <<<<>>, <<>>, 1, Some([i \in 1 .. n - 24 |-> 1])>>)

MCScripts ==
    UNION {{<<M(Names[i], o), Tick>> : o \in Objs[Names[i]]} : i \in DOMAIN Names}
    \cup {<<Long(n), Tick, Tick>> : n \in {69, 70, 71, 89, 90}}

MCBuilds == {[sender |-> 0, receiver |-> 0], [sender |-> 1, receiver |-> 0],
             [sender |-> 0, receiver |-> 1]}
=============================================================================
