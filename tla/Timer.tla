-------------------------------- MODULE Timer -------------------------------
(***************************************************************************)
(* util/timer: a module's timers.  Each has a goroutine in Select, which    *)
(* holds the timer's mutex as long as it runs.  A timer that engrosses its  *)
(* goroutine runs the callback there; the others pass themselves through a  *)
(* channel to the manager's goSelectTimer, which runs one callback after    *)
(* another.  KillModule (module/module.go) ends that goroutine.             *)
(*                                                                          *)
(* killChan is not here but for being nil: killTimer runs under the mutex   *)
(* or in the callback, so that the loop of Select ends before it looks at   *)
(* the channel.  Nor is timerList: RegTimer appends the timer to a copy of  *)
(* the list, and KillRegister finds no timer in it.                         *)
(***************************************************************************)
EXTENDS Naturals, Sequences, FiniteSets

CONSTANTS
    Timers,
    Limit,    \* Limit[t]: limitTimes, 0 for none
    Engross,  \* the timers registered with engross
    Killed,   \* the timers for which the application may call KillTimer
    ChanSize, \* the size of timeTriggerChan
    MaxTicks, \* bound on the ticks of a timer without limit
    Nil       \* what KillRegister sends

ASSUME LimitAssumption == Limit \in [Timers -> Nat]
ASSUME EngrossAssumption == Engross \subseteq Timers
ASSUME KilledAssumption == Killed \subseteq Timers
ASSUME SizeAssumption == ChanSize \in Nat \ {0} /\ MaxTicks \in Nat
ASSUME NilAssumption == Nil \notin Timers

VARIABLES
    made,      \* timeTriggerChan is not nil
    reg,       \* reg[t]: where RegTimer stands
    select,    \* select[t]: where Select stands; "new" and "done" without mutex
    ticks,     \* ticks[t]: hasTriggerTimes
    hasKilled, \* the timers with hasKilled
    killer,    \* killer[t]: where a call of KillTimer stands
    channel,   \* timeTriggerChan
    loop,      \* loop[t]: where the goSelectTimer stands that t's RegTimer began
    running,   \* running[t]: the timer whose callback it runs
    stop,      \* where KillModule stands
    calls,     \* history: calls[t] begun of the callback
    late       \* history: callbacks that goSelectTimer began after hasKilled

timerVars == <<reg, select, ticks, hasKilled, killer>>
managerVars == <<made, channel, loop, running, stop>>
vars == <<timerVars, managerVars, calls, late>>

Init ==
    /\ made = FALSE
    /\ reg = [t \in Timers |-> "idle"]
    /\ select = [t \in Timers |-> "none"]
    /\ ticks = [t \in Timers |-> 0]
    /\ hasKilled = {}
    /\ killer = [t \in Timers |-> "idle"]
    /\ channel = <<>>
    /\ loop = [t \in Timers |-> "none"]
    /\ running = [t \in Timers |-> Nil]
    /\ stop = "idle"
    /\ calls = [t \in Timers |-> 0]
    /\ late = 0

\* TimerManager.hasKilled
ManagerKilled == stop \in {"send", "stopped"}

Called(t) == calls' = [calls EXCEPT ![t] = @ + 1]
-----------------------------------------------------------------------------
(* RegTimer, by any goroutines at once. *)

CheckChan(t) ==
    /\ reg[t] = "idle"
    /\ reg' = [reg EXCEPT ![t] = IF made THEN "start" ELSE "make"]
    /\ UNCHANGED <<select, ticks, hasKilled, killer, managerVars, calls, late>>

\* Mutant: the channel is not tested again under the mutex.
MakeUntested(t) ==
    /\ reg[t] = "make"
    /\ reg' = [reg EXCEPT ![t] = "start"]
    /\ made' = TRUE
    /\ loop' = [loop EXCEPT ![t] = "check"]
    /\ UNCHANGED <<select, ticks, hasKilled, killer, channel, running, stop, calls, late>>

\* Under timeTriggerChanMutex.
MakeChan(t) ==
    /\ reg[t] = "make"
    /\ reg' = [reg EXCEPT ![t] = "start"]
    /\ made' = TRUE
    /\ loop' = IF made THEN loop ELSE [loop EXCEPT ![t] = "check"]
    /\ UNCHANGED <<select, ticks, hasKilled, killer, channel, running, stop, calls, late>>

Start(t) ==
    /\ reg[t] = "start"
    /\ reg' = [reg EXCEPT ![t] = "done"]
    /\ select' = [select EXCEPT ![t] = "new"]
    /\ UNCHANGED <<ticks, hasKilled, killer, managerVars, calls, late>>

RegTimer(t) == MakeChan(t) \/ Start(t)
-----------------------------------------------------------------------------
(* The goroutine of a timer. *)

\* Mutant: one tick more than the limit.
StopsAfter(t, n, killed) == t \in killed \/ (Limit[t] # 0 /\ n > Limit[t])

IsStop(t, n, killed) ==
    t \in killed \/ (Limit[t] # 0 /\ n >= Limit[t])

\* The loop's test, with n ticks.
Again(t, n, killed) ==
    [select EXCEPT ![t] = IF IsStop(t, n, killed) THEN "done" ELSE "wait"]

\* Lock; killChan is made.
BeginSelect(t) ==
    /\ select[t] = "new"
    /\ select' = Again(t, ticks[t], hasKilled)
    /\ UNCHANGED <<reg, ticks, hasKilled, killer, managerVars, calls, late>>

Tick(t) ==
    /\ select[t] = "wait"
    /\ Limit[t] = 0 => ticks[t] < MaxTicks
    /\ ticks' = [ticks EXCEPT ![t] = @ + 1]
    /\ \/ t \in Engross /\ select' = [select EXCEPT ![t] = "call"] /\ Called(t)
       \/ t \notin Engross /\ select' = [select EXCEPT ![t] = "send"] /\ UNCHANGED calls
    /\ UNCHANGED <<reg, hasKilled, killer, managerVars, late>>

\* Mutant: a tick is dropped if the channel is full.
TrySendTimer(t) ==
    /\ select[t] = "send"
    /\ channel' = IF Len(channel) < ChanSize THEN Append(channel, t) ELSE channel
    /\ select' = Again(t, ticks[t], hasKilled)
    /\ UNCHANGED <<reg, ticks, hasKilled, killer, made, loop, running, stop, calls, late>>

SendTimer(t) ==
    /\ select[t] = "send"
    /\ Len(channel) < ChanSize
    /\ channel' = Append(channel, t)
    /\ select' = Again(t, ticks[t], hasKilled)
    /\ UNCHANGED <<reg, ticks, hasKilled, killer, made, loop, running, stop, calls, late>>

\* The callback returns whether to go on.
EndCallback(t) ==
    /\ select[t] = "call"
    /\ hasKilled' \in {hasKilled, hasKilled \cup {t}}
    /\ select' = Again(t, ticks[t], hasKilled')
    /\ UNCHANGED <<reg, ticks, killer, managerVars, calls, late>>

Select(t) == BeginSelect(t) \/ Tick(t) \/ SendTimer(t) \/ EndCallback(t)
-----------------------------------------------------------------------------
\* The application kills a timer.
BeginKillTimer(t) ==
    /\ t \in Killed
    /\ reg[t] = "done"
    /\ killer[t] = "idle"
    /\ killer' = [killer EXCEPT ![t] = "lock"]
    /\ UNCHANGED <<reg, select, ticks, hasKilled, managerVars, calls, late>>

\* The mutex is free before Select and after it; killChan is nil before it.
KillTimer(t) ==
    /\ killer[t] = "lock"
    /\ select[t] \in {"new", "done"}
    /\ hasKilled' = IF select[t] = "new" THEN hasKilled ELSE hasKilled \cup {t}
    /\ killer' = [killer EXCEPT ![t] = "done"]
    /\ UNCHANGED <<reg, select, ticks, managerVars, calls, late>>
-----------------------------------------------------------------------------
(* goSelectTimer. *)

\* Mutant: hasKilled is not looked at.
CheckNothing(l) ==
    /\ loop[l] = "check"
    /\ loop' = [loop EXCEPT ![l] = "wait"]
    /\ UNCHANGED <<timerVars, made, channel, running, stop, calls, late>>

CheckKilled(l) ==
    /\ loop[l] = "check"
    /\ loop' = [loop EXCEPT ![l] = IF ManagerKilled THEN "done" ELSE "wait"]
    /\ UNCHANGED <<timerVars, made, channel, running, stop, calls, late>>

TakeTimer(l) ==
    LET t == Head(channel) IN
    /\ loop[l] = "wait"
    /\ channel # <<>>
    /\ channel' = Tail(channel)
    /\ running' = [running EXCEPT ![l] = t]
    /\ \/ t = Nil /\ loop' = [loop EXCEPT ![l] = "check"] /\ UNCHANGED <<calls, late>>
       \/ /\ t # Nil
          /\ loop' = [loop EXCEPT ![l] = "call"]
          /\ Called(t)
          /\ late' = late + IF ManagerKilled THEN 1 ELSE 0
    /\ UNCHANGED <<timerVars, made, stop>>

\* What the callback returns is not looked at.
EndCall(l) ==
    /\ loop[l] = "call"
    /\ loop' = [loop EXCEPT ![l] = "check"]
    /\ running' = [running EXCEPT ![l] = Nil]
    /\ UNCHANGED <<timerVars, made, channel, stop, calls, late>>

GoSelectTimer(l) == CheckKilled(l) \/ TakeTimer(l) \/ EndCall(l)
-----------------------------------------------------------------------------
(* KillModule, of a module that has registered its own timer. *)

BeginKillModule ==
    /\ stop = "idle"
    /\ made
    /\ stop' = "kill"
    /\ UNCHANGED <<timerVars, made, channel, loop, running, calls, late>>

\* Mutant: the loop is woken up before it is told.
WakeFirst ==
    \/ /\ stop = "kill"
       /\ Len(channel) < ChanSize
       /\ channel' = Append(channel, Nil)
       /\ stop' = "told"
       /\ UNCHANGED <<timerVars, made, loop, running, calls, late>>
    \/ /\ stop = "told"
       /\ stop' = "stopped"
       /\ UNCHANGED <<timerVars, made, channel, loop, running, calls, late>>

\* hasKilled is set, then the loop is woken up.
KillRegister ==
    \/ /\ stop = "kill"
       /\ stop' = "send"
       /\ UNCHANGED <<timerVars, made, channel, loop, running, calls, late>>
    \/ /\ stop = "send"
       /\ Len(channel) < ChanSize
       /\ channel' = Append(channel, Nil)
       /\ stop' = "stopped"
       /\ UNCHANGED <<timerVars, made, loop, running, calls, late>>
-----------------------------------------------------------------------------
Next ==
    \/ \E t \in Timers :
          \/ CheckChan(t) \/ RegTimer(t) \/ Select(t)
          \/ BeginKillTimer(t) \/ KillTimer(t) \/ GoSelectTimer(t)
    \/ BeginKillModule \/ KillRegister

\* Goroutines that can run do, time goes on and callbacks return.  Nobody need
\* register or kill a timer, or stop the module.
Fairness ==
    /\ \A t \in Timers : /\ WF_vars(RegTimer(t)) /\ WF_vars(Select(t))
                         /\ WF_vars(KillTimer(t)) /\ WF_vars(GoSelectTimer(t))
    /\ WF_vars(KillRegister)

Spec == Init /\ [][Next]_vars /\ Fairness
-----------------------------------------------------------------------------
\* The channel holds timers that may be passed on and the Nil of KillRegister, no
\* more of them than it has room for (RegTimer, Select).
TypeOK ==
    /\ made \in BOOLEAN
    /\ reg \in [Timers -> {"idle", "make", "start", "done"}]
    /\ select \in [Timers -> {"none", "new", "wait", "send", "call", "done"}]
    /\ \A t \in Timers : ticks[t] \in 0..(IF Limit[t] = 0 THEN MaxTicks ELSE Limit[t])
    /\ hasKilled \subseteq Timers
    /\ killer \in [Timers -> {"idle", "lock", "done"}]
    /\ Len(channel) <= ChanSize
    /\ \A i \in DOMAIN channel : channel[i] \in (Timers \ Engross) \cup {Nil}
    /\ loop \in [Timers -> {"none", "check", "wait", "call", "done"}]
    /\ running \in [Timers -> Timers \cup {Nil}]
    /\ stop \in {"idle", "kill", "send", "stopped"}
    /\ late \in Nat

\* Callbacks that do not engross a goroutine never run at the same time, however
\* the first timers are registered at once (timer.go:90 warns of parallel
\* callbacks for the others only).
OneAtATime == Cardinality({l \in Timers : loop[l] = "call"}) <= 1

\* Every tick is one call of the callback, begun or still to come, and there are
\* no more ticks than limitTimes (timer.go:87).
Pending(t) ==
    Cardinality({i \in DOMAIN channel : channel[i] = t})
        + IF select[t] = "send" THEN 1 ELSE 0
TicksAreCalls ==
    \A t \in Timers : /\ calls[t] + Pending(t) = ticks[t]
                      /\ Limit[t] # 0 => ticks[t] <= Limit[t]

\* When the manager is killed, one callback at most is still begun by
\* goSelectTimer, whatever waits in the channel (timer.go:139).
OneLate == late <= 1

\* A timer with a limit is called so often, unless it is killed or the module
\* stops (timer.go:87).
Served ==
    \A t \in Timers : (reg[t] = "done" /\ Limit[t] # 0) ~>
        (calls[t] = Limit[t] \/ t \in hasKilled \/ ManagerKilled)

\* KillModule returns and the manager's goroutine ends, unless the channel is full
\* when that goroutine has ended: then the module never stops (timer.go:135).
Stops ==
    (stop = "kill") ~>
        \A l \in Timers : /\ loop[l] \in {"none", "done"}
                          /\ stop = "stopped" \/ Len(channel) = ChanSize

\* What timer.go:63 and :70 say (KillTimer closes the timer): a timer does not
\* tick after KillTimer has returned.
KillCloses == [][\A t \in Timers : killer[t] = "done" => ticks'[t] = ticks[t]]_vars

\* What timer.go:122 says (KillRegister closes all timers of the manager): no
\* callback is begun after it has returned, but for the late one.
AllClosed == [][stop = "stopped" /\ late = late' => calls' = calls]_vars
=============================================================================
