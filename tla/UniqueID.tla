------------------------------ MODULE UniqueID ------------------------------
(***************************************************************************)
(* util/uid: the numbers a process gives to its connections and requests.  *)
(* A number has three fields: the second it was made in, a counter of that *)
(* second, and a value of the caller (heightlevelID), which fills the      *)
(* lowest bits.  GenUniqueID holds a mutex, so each call is one step.  The *)
(* clock is the system's: it may be set, forwards and backwards.           *)
(***************************************************************************)
EXTENDS Integers, Sequences

CONSTANTS
    Seconds,    \* values of the mid field: 2^32
    LowIDs,     \* values of the low field: 2^16
    HeightIDs,  \* values of heightlevelID: 2^16
    Times,      \* what time.Now() may return, in seconds since 2018
    MaxIDs      \* how many numbers are made at most

ASSUME WidthAssumption == {Seconds, LowIDs, HeightIDs} \subseteq Nat \ {0}
ASSUME TimesAssumption == Times \subseteq Int /\ MaxIDs \in Nat

VARIABLES
    clock,             \* time.Now().Unix() - 1514736000
    lastLowlevelID,
    lastMidlevelID,
    lastMidLowLevelID,
    made               \* history: the numbers returned, in order

builder == <<lastLowlevelID, lastMidlevelID, lastMidLowLevelID>>
uidVars == <<clock, builder, made>>

UIDInit ==
    /\ clock \in Times
    /\ lastLowlevelID = 0
    /\ lastMidlevelID = 0
    /\ lastMidLowLevelID = 0
    /\ made = <<>>

SetClock(t) ==
    /\ clock' = t
    /\ UNCHANGED <<builder, made>>

now == clock % Seconds
subvalue(mid, low) == mid * LowIDs + low

(* Mutant of Give: the caller's value does not fit its field. *)
GiveNarrow(heightlevelID, mid, low) ==
    LET value == subvalue(mid, low) IN
    /\ lastMidlevelID' = mid
    /\ lastLowlevelID' = low
    /\ lastMidLowLevelID' = value
    /\ made' = Append(made, value * (HeightIDs - 1) + heightlevelID)
    /\ UNCHANGED clock

(* The last check of GenUniqueID: a number that is not above the last one   *)
(* is an error and is not returned, but its fields stay as they are.        *)
Give(heightlevelID, mid, low) ==
    LET value == subvalue(mid, low) IN
    /\ lastMidlevelID' = mid
    /\ lastLowlevelID' = low
    /\ IF value <= lastMidLowLevelID
       THEN UNCHANGED <<lastMidLowLevelID, made>>
       ELSE /\ lastMidLowLevelID' = value
            /\ made' = Append(made, value * HeightIDs + heightlevelID)
    /\ UNCHANGED clock

(* Mutants of NewSecond and SameSecond: the counter starts anew whenever    *)
(* the second is another one; the counter may leave its field.              *)
NewSecondAny(heightlevelID) ==
    /\ clock > 0
    /\ Len(made) < MaxIDs
    /\ now # lastMidlevelID
    /\ Give(heightlevelID, now, 0)
SameSecondUnlimited(heightlevelID) ==
    /\ clock > 0
    /\ Len(made) < MaxIDs
    /\ now <= lastMidlevelID
    /\ Give(heightlevelID, lastMidlevelID, lastLowlevelID + 1)

(* The clock passed the last second used. *)
NewSecond(heightlevelID) ==
    /\ clock > 0
    /\ Len(made) < MaxIDs
    /\ now > lastMidlevelID
    /\ Give(heightlevelID, now, 0)

(* It did not: the counter goes on, unless it is at its limit, which is an  *)
(* error and changes nothing.                                               *)
SameSecond(heightlevelID) ==
    /\ clock > 0
    /\ Len(made) < MaxIDs
    /\ now <= lastMidlevelID
    /\ lastLowlevelID # LowIDs - 1
    /\ Give(heightlevelID, lastMidlevelID, lastLowlevelID + 1)

GenUniqueID(heightlevelID) ==
    NewSecond(heightlevelID) \/ SameSecond(heightlevelID)

UIDNext ==
    \/ \E t \in Times : SetClock(t)
    \/ \E h \in 0 .. HeightIDs - 1 : GenUniqueID(h)

UIDSpec == UIDInit /\ [][UIDNext]_uidVars
-----------------------------------------------------------------------------
UIDTypeOK ==
    /\ clock \in Int
    /\ lastLowlevelID \in 0 .. LowIDs - 1
    /\ lastMidlevelID \in 0 .. Seconds - 1
    /\ lastMidLowLevelID \in Nat
    /\ made \in Seq(Nat)

(* No number is returned twice, whatever the clock does: every number is    *)
(* above all before it, although the caller's value fills its lowest bits.  *)
Increasing ==
    \A i, j \in DOMAIN made : i < j => made[i] < made[j]

(* The check for a repeated number never strikes: what NewSecond and        *)
(* SameSecond are about to make is above the last number.                   *)
CheckIsRedundant ==
    /\ now > lastMidlevelID => subvalue(now, 0) > lastMidLowLevelID
    /\ subvalue(lastMidlevelID, lastLowlevelID + 1) > lastMidLowLevelID

(* What the two need to be inductive: the last value is that of the fields, *)
(* and every number returned has at most it above its lowest bits.          *)
MadeInv ==
    /\ Increasing
    /\ lastMidLowLevelID = subvalue(lastMidlevelID, lastLowlevelID)
    /\ \A i \in DOMAIN made : made[i] < (lastMidLowLevelID + 1) * HeightIDs
=============================================================================
