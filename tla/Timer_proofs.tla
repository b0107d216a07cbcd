---------------------------- MODULE Timer_proofs ----------------------------
(***************************************************************************)
(* Theorems about Timer, for any set of timers, any limits and a channel   *)
(* of any size: type correctness, one callback at a time, one call for     *)
(* each tick, and one late callback at most.                               *)
(***************************************************************************)
EXTENDS Timer, TLAPS, FiniteSetTheorems, SequenceTheorems

-----------------------------------------------------------------------------
(* The inductive invariant, in four parts.                                 *)

\* What the channel holds.
Item == (Timers \ Engross) \cup {Nil}

\* A timer that waits has ticks left; who passes itself on does not engross its
\* goroutine, and who calls there does.  Select is begun last by RegTimer.
SelectInv ==
    \A t \in Timers :
        /\ reg[t] # "done" => select[t] = "none"
        /\ select[t] = "send" => t \notin Engross
        /\ select[t] = "call" => t \in Engross
        /\ select[t] = "wait" /\ Limit[t] # 0 => ticks[t] < Limit[t]

TypeInv ==
    /\ TypeOK
    /\ ticks \in [Timers -> Nat]
    /\ calls \in [Timers -> Nat]
    /\ channel \in Seq(Item)
    /\ SelectInv

\* One RegTimer has begun a goSelectTimer, if one did, and the channel was made.
OneLoop ==
    /\ \A l \in Timers : loop[l] # "none" => made
    /\ \A l, k \in Timers : loop[l] # "none" /\ loop[k] # "none" => l = k

\* The goSelectTimer that began a late callback looks at hasKilled before it waits
\* for another timer.
LateInv ==
    /\ late <= 1
    /\ late = 1 => ManagerKilled /\ \A l \in Timers : loop[l] # "wait"

CountInv == \A t \in Timers : calls[t] + Pending(t) = ticks[t]

IInv == TypeInv /\ OneLoop /\ LateInv /\ CountInv
-----------------------------------------------------------------------------
(* The invariant holds initially.                                          *)

LEMMA NoIndex ==
    ASSUME NEW t
    PROVE  Cardinality({i \in DOMAIN <<>> : <<>>[i] = t}) = 0
<1>1. {i \in DOMAIN <<>> : <<>>[i] = t} = {}
  OBVIOUS
<1>2. QED
  BY <1>1, FS_EmptySet

LEMMA InitInv == Init => IInv
<1> SUFFICES ASSUME Init PROVE IInv
  OBVIOUS
<1>1. TypeOK
  <2>1. \A t \in Timers : ticks[t] \in 0 .. (IF Limit[t] = 0 THEN MaxTicks ELSE Limit[t])
    BY LimitAssumption, SizeAssumption DEF Init
  <2>2. Len(channel) <= ChanSize /\ DOMAIN channel = {}
    BY SizeAssumption DEF Init
  <2>3. QED
    BY <2>1, <2>2 DEF Init, TypeOK
<1>2. TypeInv
  BY <1>1 DEF Init, TypeInv, SelectInv
<1>3. OneLoop /\ LateInv
  BY DEF Init, OneLoop, LateInv
<1>4. CountInv
  BY NoIndex DEF Init, CountInv, Pending
<1>5. QED
  BY <1>2, <1>3, <1>4 DEF IInv
-----------------------------------------------------------------------------
(* Type correctness.                                                       *)

LEMMA AgainType ==
    ASSUME TypeInv, NEW t \in Timers, NEW n, NEW killed
    PROVE  /\ Again(t, n, killed)
                \in [Timers -> {"none", "new", "wait", "send", "call", "done"}]
           /\ Again(t, n, killed)[t] \in {"wait", "done"}
           /\ Again(t, n, killed)[t] = "wait" /\ Limit[t] # 0 => ~(n >= Limit[t])
           /\ \A u \in Timers \ {t} : Again(t, n, killed)[u] = select[u]
BY DEF TypeInv, TypeOK, Again, IsStop

LEMMA AgainSelect ==
    ASSUME TypeInv, NEW t \in Timers, reg[t] = "done", NEW killed,
           select' = Again(t, ticks[t], killed), ticks' = ticks, reg' = reg
    PROVE  SelectInv'
<1>1. ticks[t] \in Nat /\ Limit[t] \in Nat
  BY LimitAssumption DEF TypeInv
<1>2. /\ select'[t] \in {"wait", "done"}
      /\ select'[t] = "wait" /\ Limit[t] # 0 => ~(ticks[t] >= Limit[t])
      /\ \A u \in Timers \ {t} : select'[u] = select[u]
  BY AgainType
<1>3. select'[t] = "wait" /\ Limit[t] # 0 => ticks[t] < Limit[t]
  BY <1>1, <1>2
<1>4. SelectInv
  BY DEF TypeInv
<1>5. QED
  BY <1>2, <1>3, <1>4 DEF SelectInv

LEMMA TypeReg ==
    ASSUME TypeInv, NEW t \in Timers, CheckChan(t) \/ RegTimer(t)
    PROVE  TypeInv'
<1>1. CASE CheckChan(t)
  BY <1>1 DEF TypeInv, TypeOK, SelectInv, CheckChan, managerVars
<1>2. CASE MakeChan(t)
  BY <1>2 DEF TypeInv, TypeOK, SelectInv, MakeChan
<1>3. CASE Start(t)
  BY <1>3 DEF TypeInv, TypeOK, SelectInv, Start, managerVars
<1>4. QED
  BY <1>1, <1>2, <1>3 DEF RegTimer

LEMMA TypeSelect ==
    ASSUME TypeInv, NEW t \in Timers, Select(t)
    PROVE  TypeInv'
<1>1. ticks[t] \in Nat /\ Limit[t] \in Nat
  BY LimitAssumption DEF TypeInv
<1>2. CASE BeginSelect(t)
  <2>1. select' = Again(t, ticks[t], hasKilled)
    BY <1>2 DEF BeginSelect
  <2>2. SelectInv'
    <3>1. reg[t] = "done" /\ ticks' = ticks /\ reg' = reg
      BY <1>2 DEF BeginSelect, TypeInv, SelectInv
    <3>2. QED
      BY <2>1, <3>1, AgainSelect
  <2>3. QED
    BY <1>2, <2>1, <2>2, AgainType DEF TypeInv, TypeOK, BeginSelect, managerVars
<1>3. CASE Tick(t)
  <2>1. /\ ticks' = [ticks EXCEPT ![t] = @ + 1]
        /\ Limit[t] = 0 => ticks[t] < MaxTicks
        /\ Limit[t] # 0 => ticks[t] < Limit[t]
    BY <1>3 DEF Tick, TypeInv, SelectInv
  <2>2. \A u \in Timers : ticks'[u] \in 0 .. (IF Limit[u] = 0 THEN MaxTicks ELSE Limit[u])
    BY <1>1, <2>1, SizeAssumption, LimitAssumption DEF TypeInv, TypeOK
  <2>3. ticks' \in [Timers -> Nat]
    BY <2>1 DEF TypeInv
  <2>4. /\ calls' \in [Timers -> Nat]
        /\ select' \in [Timers -> {"none", "new", "wait", "send", "call", "done"}]
    <3>1. calls' = [calls EXCEPT ![t] = @ + 1] \/ calls' = calls
      BY <1>3 DEF Tick, Called
    <3>2. PICK p \in {"call", "send"} : select' = [select EXCEPT ![t] = p]
      BY <1>3 DEF Tick
    <3>3. QED
      BY <3>1, <3>2 DEF TypeInv, TypeOK
  <2>5. /\ select'[t] = IF t \in Engross THEN "call" ELSE "send"
        /\ \A u \in Timers \ {t} : select'[u] = select[u] /\ ticks'[u] = ticks[u]
        /\ select[t] = "wait" /\ UNCHANGED reg
    BY <1>3, <2>1 DEF Tick, TypeInv, TypeOK
  <2>6. SelectInv'
    BY <2>5 DEF TypeInv, SelectInv
  <2>7. UNCHANGED <<reg, hasKilled, killer, made, channel, loop, running, stop, late>>
    BY <1>3 DEF Tick, managerVars
  <2>8. QED
    BY <2>2, <2>3, <2>4, <2>6, <2>7 DEF TypeInv, TypeOK
<1>4. CASE SendTimer(t)
  <2>1. /\ select' = Again(t, ticks[t], hasKilled)
        /\ channel' = Append(channel, t)
        /\ Len(channel) < ChanSize
        /\ t \in Item
    BY <1>4 DEF SendTimer, TypeInv, SelectInv, Item
  <2>2. SelectInv'
    <3>1. reg[t] = "done" /\ ticks' = ticks /\ reg' = reg
      BY <1>4 DEF SendTimer, TypeInv, SelectInv
    <3>2. QED
      BY <2>1, <3>1, AgainSelect
  <2>3. /\ channel' \in Seq(Item)
        /\ Len(channel') <= ChanSize
        /\ \A i \in DOMAIN channel' : channel'[i] \in Item
    BY <2>1, SizeAssumption DEF TypeInv
  <2>4. UNCHANGED <<reg, ticks, hasKilled, killer, made, loop, running, stop, calls,
                    late>>
    BY <1>4 DEF SendTimer
  <2>5. QED
    BY <2>1, <2>2, <2>3, <2>4, AgainType DEF TypeInv, TypeOK, Item
<1>5. CASE EndCallback(t)
  <2>1. select' = Again(t, ticks[t], hasKilled') /\ hasKilled' \subseteq Timers
    BY <1>5 DEF EndCallback, TypeInv, TypeOK
  <2>2. SelectInv'
    <3>1. reg[t] = "done" /\ ticks' = ticks /\ reg' = reg
      BY <1>5 DEF EndCallback, TypeInv, SelectInv
    <3>2. QED
      BY <2>1, <3>1, AgainSelect
  <2>3. QED
    BY <1>5, <2>1, <2>2, AgainType DEF TypeInv, TypeOK, EndCallback, managerVars
<1>6. QED
  BY <1>2, <1>3, <1>4, <1>5 DEF Select

LEMMA TypeKill ==
    ASSUME TypeInv, NEW t \in Timers, BeginKillTimer(t) \/ KillTimer(t)
    PROVE  TypeInv'
<1>1. CASE BeginKillTimer(t)
  BY <1>1 DEF TypeInv, TypeOK, SelectInv, BeginKillTimer, managerVars
<1>2. CASE KillTimer(t)
  <2>1. hasKilled' \subseteq Timers
    BY <1>2 DEF KillTimer, TypeInv, TypeOK
  <2>2. QED
    BY <1>2, <2>1 DEF TypeInv, TypeOK, SelectInv, KillTimer, managerVars
<1>3. QED
  BY <1>1, <1>2

LEMMA TypeLoop ==
    ASSUME TypeInv, NEW l \in Timers, GoSelectTimer(l)
    PROVE  TypeInv'
<1>1. CASE CheckKilled(l)
  BY <1>1 DEF TypeInv, TypeOK, SelectInv, CheckKilled, timerVars
<1>2. CASE TakeTimer(l)
  <2>1. /\ Head(channel) \in Item
        /\ channel' = Tail(channel)
        /\ channel' \in Seq(Item)
        /\ Len(channel') <= ChanSize
        /\ \A i \in DOMAIN channel' : channel'[i] \in Item
    <3>1. channel # <<>> /\ channel' = Tail(channel) /\ channel \in Seq(Item)
      BY <1>2 DEF TakeTimer, TypeInv
    <3>2. Head(channel) \in Item /\ channel' \in Seq(Item) /\ Len(channel') < Len(channel)
      BY <3>1, HeadTailProperties
    <3>3. Len(channel) <= ChanSize
      BY DEF TypeInv, TypeOK
    <3>4. QED
      BY <3>1, <3>2, <3>3, SizeAssumption
  <2>2. /\ running' \in [Timers -> Timers \cup {Nil}]
        /\ loop' \in [Timers -> {"none", "check", "wait", "call", "done"}]
    BY <1>2, <2>1 DEF TakeTimer, TypeInv, TypeOK, Item
  <2>3. calls' \in [Timers -> Nat] /\ late' \in Nat
    <3>1. CASE Head(channel) = Nil
      BY <1>2, <3>1 DEF TakeTimer, TypeInv, TypeOK
    <3>2. CASE Head(channel) # Nil
      <4>1. /\ calls' = [calls EXCEPT ![Head(channel)] = @ + 1]
            /\ late' = late + IF ManagerKilled THEN 1 ELSE 0
        BY <1>2, <3>2 DEF TakeTimer, Called
      <4>2. Head(channel) \in Timers
        BY <2>1, <3>2 DEF Item
      <4>3. calls' \in [Timers -> Nat]
        BY <4>1, <4>2 DEF TypeInv
      <4>4. late' = late \/ late' = late + 1
        BY <4>1 DEF TypeInv, TypeOK
      <4>5. QED
        BY <4>3, <4>4 DEF TypeInv, TypeOK
    <3>3. QED
      BY <3>1, <3>2
  <2>4. UNCHANGED <<reg, select, ticks, hasKilled, killer, made, stop>>
    BY <1>2 DEF TakeTimer, timerVars
  <2>5. QED
    BY <2>1, <2>2, <2>3, <2>4 DEF TypeInv, TypeOK, SelectInv, Item
<1>3. CASE EndCall(l)
  BY <1>3 DEF TypeInv, TypeOK, SelectInv, EndCall, timerVars
<1>4. QED
  BY <1>1, <1>2, <1>3 DEF GoSelectTimer

LEMMA TypeStop ==
    ASSUME TypeInv, BeginKillModule \/ KillRegister
    PROVE  TypeInv'
<1>1. Nil \in Item
  BY DEF Item
<1>2. \/ channel' = channel
      \/ channel' = Append(channel, Nil) /\ Len(channel) < ChanSize
  BY DEF BeginKillModule, KillRegister
<1>3. /\ channel' \in Seq(Item)
      /\ Len(channel') <= ChanSize
      /\ \A i \in DOMAIN channel' : channel'[i] \in Item
  <2>1. channel \in Seq(Item) /\ Len(channel) <= ChanSize
    BY DEF TypeInv, TypeOK
  <2>2. CASE channel' = channel
    BY <2>1, <2>2
  <2>3. CASE channel' = Append(channel, Nil) /\ Len(channel) < ChanSize
    BY <1>1, <2>1, <2>3, SizeAssumption
  <2>4. QED
    BY <1>2, <2>2, <2>3
<1>4. /\ stop' \in {"idle", "kill", "send", "stopped"}
      /\ UNCHANGED <<timerVars, made, loop, running, calls, late>>
  BY DEF BeginKillModule, KillRegister
<1>5. QED
  BY <1>3, <1>4 DEF TypeInv, TypeOK, SelectInv, Item, timerVars

LEMMA TypeNext == TypeInv /\ [Next]_vars => TypeInv'
<1> SUFFICES ASSUME TypeInv, [Next]_vars PROVE TypeInv'
  OBVIOUS
<1>1. CASE UNCHANGED vars
  BY <1>1 DEF TypeInv, TypeOK, SelectInv, vars, timerVars, managerVars
<1>2. CASE Next
  BY <1>2, TypeReg, TypeSelect, TypeKill, TypeLoop, TypeStop DEF Next
<1>3. QED
  BY <1>1, <1>2

(* Every variable of the timers keeps its type; in particular, the channel   *)
(* never holds more than it has room for, and no timer that engrosses its    *)
(* goroutine (RegTimer, Select).                                             *)
THEOREM TypeCorrect == Spec => []TypeOK
<1>1. Init => TypeInv
  BY InitInv DEF IInv
<1>2. TypeInv /\ [Next]_vars => TypeInv'
  BY TypeNext
<1>3. TypeInv => TypeOK
  BY DEF TypeInv
<1>4. QED
  BY <1>1, <1>2, <1>3, PTL DEF Spec
-----------------------------------------------------------------------------
(* There is one goSelectTimer: who makes the channel begins it, under the    *)
(* mutex, and nobody makes the channel again.                                *)

LEMMA LoopNext == TypeInv /\ OneLoop /\ [Next]_vars => OneLoop'
<1> SUFFICES ASSUME TypeInv, OneLoop, [Next]_vars PROVE OneLoop'
  OBVIOUS
<1>1. CASE UNCHANGED vars
  BY <1>1 DEF OneLoop, vars, managerVars
<1>2. ASSUME NEW t \in Timers, MakeChan(t)
      PROVE  OneLoop'
  <2>1. made'
    BY <1>2 DEF MakeChan
  <2>2. CASE made
    BY <1>2, <2>1, <2>2 DEF MakeChan, OneLoop
  <2>3. CASE ~made
    <3>1. \A l \in Timers : loop[l] = "none"
      BY <2>3 DEF OneLoop
    <3>2. loop' = [loop EXCEPT ![t] = "check"]
      BY <1>2, <2>3 DEF MakeChan
    <3>3. QED
      BY <2>1, <3>1, <3>2 DEF OneLoop, TypeInv, TypeOK
  <2>4. QED
    BY <2>2, <2>3
<1>3. ASSUME NEW l \in Timers, GoSelectTimer(l)
      PROVE  OneLoop'
  <2>1. /\ UNCHANGED made
        /\ loop[l] # "none"
        /\ \A k \in Timers \ {l} : loop'[k] = loop[k]
    BY <1>3 DEF GoSelectTimer, CheckKilled, TakeTimer, EndCall, TypeInv, TypeOK
  <2>2. QED
    BY <2>1 DEF OneLoop
<1>4. ASSUME NEW t \in Timers,
             \/ CheckChan(t) \/ Start(t) \/ Select(t)
             \/ BeginKillTimer(t) \/ KillTimer(t)
      PROVE  UNCHANGED <<made, loop>>
  BY <1>4 DEF CheckChan, Start, Select, BeginSelect, Tick, SendTimer, EndCallback,
              BeginKillTimer, KillTimer, managerVars
<1>5. BeginKillModule \/ KillRegister => UNCHANGED <<made, loop>>
  BY DEF BeginKillModule, KillRegister
<1>6. UNCHANGED <<made, loop>> => OneLoop'
  BY DEF OneLoop
<1>7. CASE Next
  BY <1>2, <1>3, <1>4, <1>5, <1>6, <1>7 DEF Next, RegTimer
<1>8. QED
  BY <1>1, <1>7

(* However the first timers are registered at once, callbacks that do not    *)
(* engross a goroutine never run at the same time (the second test of        *)
(* timeTriggerChan in RegTimer).                                             *)
THEOREM OneCallback == Spec => []OneAtATime
<1>1. Init => TypeInv /\ OneLoop
  BY InitInv DEF IInv
<1>2. TypeInv /\ OneLoop /\ [Next]_vars => (TypeInv /\ OneLoop)'
  BY TypeNext, LoopNext
<1>3. OneLoop => OneAtATime
  <2> SUFFICES ASSUME OneLoop PROVE OneAtATime
    OBVIOUS
  <2> DEFINE Calling == {l \in Timers : loop[l] = "call"}
  <2>1. CASE Calling = {}
    BY <2>1, FS_EmptySet DEF OneAtATime
  <2>2. ASSUME NEW l \in Calling
        PROVE  OneAtATime
    <3>1. Calling = {l}
      BY <2>2 DEF OneLoop
    <3>2. Cardinality(Calling) = 1
      BY <3>1, FS_Singleton
    <3>3. QED
      BY <3>2 DEF OneAtATime
  <2>3. QED
    BY <2>1, <2>2
<1>4. QED
  BY <1>1, <1>2, <1>3, PTL DEF Spec
-----------------------------------------------------------------------------
(* The late callback.                                                      *)

LEMMA LateNext == TypeInv /\ OneLoop /\ LateInv /\ [Next]_vars => LateInv'
<1> SUFFICES ASSUME TypeInv, OneLoop, LateInv, [Next]_vars PROVE LateInv'
  OBVIOUS
<1>1. CASE UNCHANGED vars
  BY <1>1 DEF LateInv, ManagerKilled, vars, managerVars
<1>2. ASSUME NEW t \in Timers, MakeChan(t)
      PROVE  LateInv'
  <2>1. UNCHANGED <<stop, late>> /\ \A l \in Timers : loop'[l] \in {loop[l], "check"}
    BY <1>2 DEF MakeChan, TypeInv, TypeOK
  <2>2. QED
    BY <2>1 DEF LateInv, ManagerKilled
<1>3. ASSUME NEW l \in Timers, CheckKilled(l)
      PROVE  LateInv'
  <2>1. UNCHANGED <<stop, late>>
    BY <1>3 DEF CheckKilled
  <2>2. \A k \in Timers : loop'[k] = IF k = l THEN IF ManagerKilled THEN "done" ELSE "wait"
                                              ELSE loop[k]
    BY <1>3 DEF CheckKilled, TypeInv, TypeOK
  <2>3. QED
    BY <2>1, <2>2 DEF LateInv, ManagerKilled
<1>4. ASSUME NEW l \in Timers, TakeTimer(l)
      PROVE  LateInv'
  <2>1. loop[l] = "wait" /\ UNCHANGED stop
    BY <1>4 DEF TakeTimer
  <2>2. late = 0
    BY <2>1 DEF LateInv, TypeInv, TypeOK
  <2>3. late' = 0 \/ (late' = 1 /\ ManagerKilled)
    <3>1. late' = late \/ late' = late + IF ManagerKilled THEN 1 ELSE 0
      BY <1>4 DEF TakeTimer
    <3>2. QED
      BY <2>2, <3>1
  <2>4. \A k \in Timers : loop'[k] # "wait"
    <3>1. \A k \in Timers \ {l} : loop[k] = "none"
      BY <2>1 DEF OneLoop
    <3>2. loop' = [loop EXCEPT ![l] = "check"] \/ loop' = [loop EXCEPT ![l] = "call"]
      BY <1>4 DEF TakeTimer
    <3>3. QED
      BY <3>1, <3>2 DEF TypeInv, TypeOK
  <2>5. QED
    BY <2>1, <2>3, <2>4 DEF LateInv, ManagerKilled
<1>5. ASSUME NEW l \in Timers, EndCall(l)
      PROVE  LateInv'
  <2>1. /\ UNCHANGED <<stop, late>>
        /\ \A k \in Timers : loop'[k] = IF k = l THEN "check" ELSE loop[k]
    BY <1>5 DEF EndCall, TypeInv, TypeOK
  <2>2. QED
    BY <2>1 DEF LateInv, ManagerKilled
<1>6. ASSUME NEW t \in Timers,
             \/ CheckChan(t) \/ Start(t) \/ Select(t)
             \/ BeginKillTimer(t) \/ KillTimer(t)
      PROVE  UNCHANGED <<loop, stop, late>>
  BY <1>6 DEF CheckChan, Start, Select, BeginSelect, Tick, SendTimer, EndCallback,
              BeginKillTimer, KillTimer, managerVars
<1>7. CASE BeginKillModule \/ KillRegister
  <2>1. UNCHANGED <<loop, late>> /\ (ManagerKilled => ManagerKilled')
    BY <1>7 DEF BeginKillModule, KillRegister, ManagerKilled
  <2>2. QED
    BY <2>1 DEF LateInv
<1>8. UNCHANGED <<loop, stop, late>> => LateInv'
  BY DEF LateInv, ManagerKilled
<1>9. CASE Next
  BY <1>2, <1>3, <1>4, <1>5, <1>6, <1>7, <1>8, <1>9 DEF Next, RegTimer, GoSelectTimer
<1>10. QED
  BY <1>1, <1>9

(* Once the manager is killed, goSelectTimer begins one callback more at     *)
(* most, whatever waits in the channel: it looks at hasKilled before it      *)
(* waits for the next timer (goSelectTimer, KillRegister).                   *)
THEOREM OneLateCallback == Spec => []OneLate
<1> DEFINE Inv == TypeInv /\ OneLoop /\ LateInv
<1>1. Init => Inv
  BY InitInv DEF IInv
<1>2. Inv /\ [Next]_vars => Inv'
  BY TypeNext, LoopNext, LateNext
<1>3. Inv => OneLate
  BY DEF LateInv, OneLate
<1>4. QED
  BY <1>1, <1>2, <1>3, PTL DEF Spec
-----------------------------------------------------------------------------
(* Every tick is a call: the timers that wait in the channel are counted.    *)

Places(c, t) == {i \in DOMAIN c : c[i] = t}

LEMMA PlacesFinite ==
    ASSUME NEW c \in Seq(Item), NEW t
    PROVE  IsFiniteSet(Places(c, t)) /\ Cardinality(Places(c, t)) \in Nat
<1>1. Places(c, t) \subseteq 1 .. Len(c)
  BY DEF Places
<1>2. IsFiniteSet(1 .. Len(c))
  BY FS_Interval
<1>3. QED
  BY <1>1, <1>2, FS_Subset, FS_CardinalityType

LEMMA PlacesAppend ==
    ASSUME NEW c \in Seq(Item), NEW x \in Item, NEW t
    PROVE  Cardinality(Places(Append(c, x), t))
             = Cardinality(Places(c, t)) + IF x = t THEN 1 ELSE 0
<1>1. /\ DOMAIN Append(c, x) = DOMAIN c \cup {Len(c) + 1}
      /\ \A i \in DOMAIN c : Append(c, x)[i] = c[i]
      /\ Append(c, x)[Len(c) + 1] = x
      /\ Len(c) + 1 \notin DOMAIN c
  BY AppendProperties
<1>2. CASE x = t
  <2>1. /\ Places(Append(c, x), t) = Places(c, t) \cup {Len(c) + 1}
        /\ Len(c) + 1 \notin Places(c, t)
    BY <1>1, <1>2 DEF Places
  <2>2. QED
    BY <1>2, <2>1, PlacesFinite, FS_AddElement
<1>3. CASE x # t
  <2>1. Places(Append(c, x), t) = Places(c, t)
    BY <1>1, <1>3 DEF Places
  <2>2. QED
    BY <1>3, <2>1, PlacesFinite
<1>4. QED
  BY <1>2, <1>3

(* The places of the tail are those of the sequence but its first, one down. *)
LEMMA PlacesTail ==
    ASSUME NEW c \in Seq(Item), c # <<>>, NEW t
    PROVE  Cardinality(Places(c, t))
             = Cardinality(Places(Tail(c), t)) + IF Head(c) = t THEN 1 ELSE 0
<1> DEFINE p == Places(Tail(c), t)
           q == Places(c, t) \ {1}
           f == [i \in p |-> i + 1]
<1>1. /\ Tail(c) \in Seq(Item)
      /\ Len(c) \in Nat \ {0}
      /\ DOMAIN c = 1 .. Len(c)
      /\ DOMAIN Tail(c) = 1 .. Len(c) - 1
      /\ \A i \in 1 .. Len(c) - 1 : Tail(c)[i] = c[i + 1]
      /\ Head(c) = c[1]
  OBVIOUS
<1>2. f \in Bijection(p, q)
  <2>1. \A i \in p : i \in Nat /\ i + 1 \in q
    BY <1>1 DEF Places
  <2>2. f \in [p -> q] /\ \A i, j \in p : f[i] = f[j] => i = j
    BY <2>1
  <2>3. ASSUME NEW j \in q
        PROVE  \E i \in p : f[i] = j
    <3>1. j - 1 \in p /\ (j - 1) + 1 = j
      BY <1>1, <2>3 DEF Places
    <3>2. QED
      BY <3>1
  <2>4. f \in Injection(p, q)
    BY <2>2 DEF Injection, IsInjective
  <2>5. f \in Surjection(p, q)
    BY <2>2, <2>3 DEF Surjection
  <2>6. QED
    BY <2>4, <2>5 DEF Bijection
<1>3. IsFiniteSet(p) /\ Cardinality(p) \in Nat
  BY <1>1, PlacesFinite
<1>4. Cardinality(q) = Cardinality(p) /\ IsFiniteSet(q)
  BY <1>2, <1>3, FS_Bijection DEF ExistsBijection
<1>5. CASE Head(c) = t
  <2>1. Places(c, t) = q \cup {1} /\ 1 \notin q
    BY <1>1, <1>5 DEF Places
  <2>2. Cardinality(Places(c, t)) = Cardinality(q) + 1
    BY <1>4, <2>1, FS_AddElement
  <2>3. QED
    BY <1>4, <1>5, <2>2
<1>6. CASE Head(c) # t
  <2>1. Places(c, t) = q
    BY <1>1, <1>6 DEF Places
  <2>2. Cardinality(Places(c, t)) = Cardinality(p)
    BY <1>4, <2>1
  <2>3. QED
    BY <1>3, <1>6, <2>2
<1>7. QED
  BY <1>5, <1>6

LEMMA PendingType ==
    ASSUME TypeInv, NEW t
    PROVE  Pending(t) \in Nat
<1>1. Cardinality(Places(channel, t)) \in Nat
  BY PlacesFinite DEF TypeInv
<1>2. CASE select[t] = "send"
  BY <1>1, <1>2 DEF Pending, Places
<1>3. CASE select[t] # "send"
  BY <1>1, <1>3 DEF Pending, Places
<1>4. QED
  BY <1>2, <1>3

(* The steps that leave the channel, the counters and who sends alone. *)
LEMMA CountSame ==
    ASSUME CountInv, UNCHANGED <<calls, ticks, channel>>,
           \A t \in Timers : select'[t] = "send" <=> select[t] = "send"
    PROVE  CountInv'
BY DEF CountInv, Pending

LEMMA CountTick ==
    ASSUME TypeInv, CountInv, NEW t \in Timers, Tick(t)
    PROVE  CountInv'
<1> SUFFICES ASSUME NEW u \in Timers
             PROVE  calls'[u] + Pending(u)' = ticks'[u]
  BY DEF CountInv
<1>1. UNCHANGED channel /\ select[t] = "wait"
  BY DEF Tick, managerVars
<1> DEFINE n == Cardinality({i \in DOMAIN channel : channel[i] = u})
<1>2. n \in Nat /\ calls[u] \in Nat /\ ticks[u] \in Nat
  BY PlacesFinite DEF TypeInv, Places
<1>3. calls[u] + (n + IF select[u] = "send" THEN 1 ELSE 0) = ticks[u]
  BY DEF CountInv, Pending
<1>4. Pending(u)' = n + IF select'[u] = "send" THEN 1 ELSE 0
  BY <1>1 DEF Pending
<1> HIDE DEF n
<1>5. CASE u # t
  <2>1. calls'[u] = calls[u] /\ ticks'[u] = ticks[u] /\ select'[u] = select[u]
    BY <1>5 DEF Tick, Called, TypeInv, TypeOK
  <2>2. QED
    BY <1>3, <1>4, <2>1
<1>6. CASE u = t
  <2>1. ticks'[t] = ticks[t] + 1
    BY DEF Tick, TypeInv
  <2>2. \/ calls'[t] = calls[t] + 1 /\ select'[t] = "call"
        \/ calls'[t] = calls[t] /\ select'[t] = "send"
    BY DEF Tick, Called, TypeInv, TypeOK
  <2>3. QED
    BY <1>1, <1>2, <1>3, <1>4, <1>6, <2>1, <2>2
<1>7. QED
  BY <1>5, <1>6

LEMMA CountSend ==
    ASSUME TypeInv, CountInv, NEW t \in Timers, SendTimer(t)
    PROVE  CountInv'
<1> SUFFICES ASSUME NEW u \in Timers
             PROVE  calls'[u] + Pending(u)' = ticks'[u]
  BY DEF CountInv
<1>1. /\ UNCHANGED <<calls, ticks>>
      /\ channel' = Append(channel, t)
      /\ select[t] = "send"
      /\ select' = Again(t, ticks[t], hasKilled)
      /\ t \in Item
      /\ channel \in Seq(Item)
  BY DEF SendTimer, TypeInv, SelectInv, Item
<1>2. Cardinality(Places(channel, u)) \in Nat
  BY <1>1, PlacesFinite
<1>3. Cardinality(Places(channel', u))
        = Cardinality(Places(channel, u)) + IF t = u THEN 1 ELSE 0
  BY <1>1, PlacesAppend
<1>4. /\ select'[t] # "send"
      /\ u # t => select'[u] = select[u]
  BY <1>1, AgainType
<1>5. Pending(u)' = Pending(u)
  <2>1. Pending(u) = Cardinality(Places(channel, u)) + IF select[u] = "send" THEN 1 ELSE 0
    BY DEF Pending, Places
  <2>2. Pending(u)' = Cardinality(Places(channel', u)) + IF select'[u] = "send" THEN 1 ELSE 0
    BY DEF Pending, Places
  <2>3. CASE u = t
    BY <1>1, <1>2, <1>3, <1>4, <2>1, <2>2, <2>3
  <2>4. CASE u # t
    BY <1>2, <1>3, <1>4, <2>1, <2>2, <2>4
  <2>5. QED
    BY <2>3, <2>4
<1>6. QED
  BY <1>1, <1>5 DEF CountInv

LEMMA CountTake ==
    ASSUME TypeInv, CountInv, NEW l \in Timers, TakeTimer(l)
    PROVE  CountInv'
<1> SUFFICES ASSUME NEW u \in Timers
             PROVE  calls'[u] + Pending(u)' = ticks'[u]
  BY DEF CountInv
<1> DEFINE t == Head(channel)
<1>1. /\ UNCHANGED <<ticks, select>>
      /\ channel' = Tail(channel)
      /\ channel # <<>>
      /\ channel \in Seq(Item)
      /\ Tail(channel) \in Seq(Item)
      /\ u # Nil
  BY NilAssumption DEF TakeTimer, timerVars, TypeInv
<1>2. /\ Cardinality(Places(channel', u)) \in Nat
      /\ calls[u] \in Nat
      /\ ticks[u] \in Nat
  BY <1>1, PlacesFinite DEF TypeInv
<1>3. Cardinality(Places(channel, u))
        = Cardinality(Places(channel', u)) + IF t = u THEN 1 ELSE 0
  BY <1>1, PlacesTail
<1>4. calls'[u] = calls[u] + IF t = u THEN 1 ELSE 0
  <2>1. CASE t = Nil
    BY <1>1, <1>2, <2>1 DEF TakeTimer
  <2>2. CASE t # Nil
    <3>1. calls' = [calls EXCEPT ![t] = @ + 1]
      BY <2>2 DEF TakeTimer, Called
    <3>2. QED
      BY <1>2, <3>1 DEF TypeInv
  <2>3. QED
    BY <2>1, <2>2
<1> HIDE DEF t
<1>5. Pending(u) = Pending(u)' + IF t = u THEN 1 ELSE 0
  <2>1. Pending(u) = Cardinality(Places(channel, u)) + IF select[u] = "send" THEN 1 ELSE 0
    BY DEF Pending, Places
  <2>2. Pending(u)' = Cardinality(Places(channel', u)) + IF select[u] = "send" THEN 1 ELSE 0
    BY <1>1 DEF Pending, Places
  <2>3. QED
    BY <1>2, <1>3, <2>1, <2>2
<1>6. Pending(u)' \in Nat /\ calls[u] + Pending(u) = ticks[u]
  <2>1. TypeInv'
    BY TypeLoop DEF GoSelectTimer
  <2>2. Pending(u)' = Cardinality(Places(channel', u)) + IF select[u] = "send" THEN 1 ELSE 0
    BY <1>1 DEF Pending, Places
  <2>3. QED
    BY <1>2, <2>2 DEF CountInv
<1>7. QED
  BY <1>1, <1>2, <1>4, <1>5, <1>6

LEMMA CountStop ==
    ASSUME TypeInv, CountInv, KillRegister
    PROVE  CountInv'
<1> SUFFICES ASSUME NEW t \in Timers
             PROVE  calls'[t] + Pending(t)' = ticks'[t]
  BY DEF CountInv
<1>1. UNCHANGED <<calls, ticks, select>>
  BY DEF KillRegister, timerVars
<1>2. Cardinality(Places(channel', t)) = Cardinality(Places(channel, t))
  <2>1. channel' = channel \/ channel' = Append(channel, Nil)
    BY DEF KillRegister
  <2>2. channel \in Seq(Item) /\ Nil \in Item /\ Nil # t
    BY NilAssumption DEF TypeInv, Item
  <2>3. Cardinality(Places(channel, t)) \in Nat
    BY <2>2, PlacesFinite
  <2>4. CASE channel' = Append(channel, Nil)
    BY <2>2, <2>3, <2>4, PlacesAppend
  <2>5. QED
    BY <2>1, <2>4
<1>3. Pending(t)' = Pending(t)
  BY <1>1, <1>2 DEF Pending, Places
<1>4. QED
  BY <1>1, <1>3 DEF CountInv

LEMMA CountNext == TypeInv /\ CountInv /\ [Next]_vars => CountInv'
<1> SUFFICES ASSUME TypeInv, CountInv, [Next]_vars PROVE CountInv'
  OBVIOUS
<1>1. CASE UNCHANGED vars
  BY <1>1, CountSame DEF vars, timerVars, managerVars
<1>2. ASSUME NEW t \in Timers, CheckChan(t) \/ MakeChan(t)
      PROVE  CountInv'
  BY <1>2, CountSame DEF CheckChan, MakeChan, managerVars
<1>3. ASSUME NEW t \in Timers, Start(t)
      PROVE  CountInv'
  <2>1. select[t] = "none" /\ select' = [select EXCEPT ![t] = "new"]
    BY <1>3 DEF Start, TypeInv, SelectInv
  <2>2. \A u \in Timers : select'[u] = "send" <=> select[u] = "send"
    BY <2>1 DEF TypeInv, TypeOK
  <2>3. UNCHANGED <<calls, ticks, channel>>
    BY <1>3 DEF Start, managerVars
  <2>4. QED
    BY <2>2, <2>3, CountSame
<1>4. ASSUME NEW t \in Timers, BeginSelect(t) \/ EndCallback(t)
      PROVE  CountInv'
  <2>1. /\ select[t] # "send"
        /\ UNCHANGED <<calls, ticks, channel>>
        /\ \E killed : select' = Again(t, ticks[t], killed)
    BY <1>4 DEF BeginSelect, EndCallback, managerVars
  <2>2. PICK killed : select' = Again(t, ticks[t], killed)
    BY <2>1
  <2>3. \A u \in Timers : select'[u] = "send" <=> select[u] = "send"
    BY <2>1, <2>2, AgainType
  <2>4. QED
    BY <2>1, <2>3, CountSame
<1>5. ASSUME NEW t \in Timers,
             BeginKillTimer(t) \/ KillTimer(t) \/ CheckKilled(t) \/ EndCall(t)
      PROVE  CountInv'
  BY <1>5, CountSame DEF BeginKillTimer, KillTimer, CheckKilled, EndCall, timerVars,
                         managerVars
<1>6. CASE BeginKillModule
  BY <1>6, CountSame DEF BeginKillModule, timerVars
<1>7. CASE Next
  BY <1>2, <1>3, <1>4, <1>5, <1>6, <1>7, CountTick, CountSend, CountTake, CountStop
     DEF Next, RegTimer, Select, GoSelectTimer
<1>8. QED
  BY <1>1, <1>7

(* Every tick is one call of the callback, begun or still to come, in the    *)
(* order of any goroutines; and a timer never ticks more often than its      *)
(* limit (Select, goSelectTimer).                                            *)
THEOREM EachTickIsCalled == Spec => []TicksAreCalls
<1>1. Init => TypeInv /\ CountInv
  BY InitInv DEF IInv
<1>2. TypeInv /\ CountInv /\ [Next]_vars => (TypeInv /\ CountInv)'
  BY TypeNext, CountNext
<1>3. TypeInv /\ CountInv => TicksAreCalls
  <2> SUFFICES ASSUME TypeInv, CountInv, NEW t \in Timers
               PROVE  Limit[t] # 0 => ticks[t] <= Limit[t]
    BY DEF TicksAreCalls, CountInv
  <2>1. ticks[t] \in 0 .. (IF Limit[t] = 0 THEN MaxTicks ELSE Limit[t])
    BY DEF TypeInv, TypeOK
  <2>2. QED
    BY <2>1, LimitAssumption
<1>4. QED
  BY <1>1, <1>2, <1>3, PTL DEF Spec
=============================================================================
