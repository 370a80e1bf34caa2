--------------------------- MODULE LightLuxBuffer ---------------------------
(***************************************************************************)
(* LightLuxBuffer, a ring buffer that grows, driven as LightLuxManager and *)
(* BrightnessService do: UpdateLuxBuffer prunes and pushes on the sensor's *)
(* thread, ClearLuxData clears on the thread that switches the sensor off. *)
(* mBufferTime and mBufferData are one array of slots.                     *)
(***************************************************************************)
EXTENDS Integers, Sequences

CONSTANTS
    Luxes, Window, MaxTime, MaxCapacity, MemoryFails,   \* see LuxWindow
    InitialCapacity,    \* the argument of the constructor
    DefaultCapacity,    \* LUX_BUFFER_SIZE_DEFAULT
    Blank               \* what memory holds before it is written

Sample == [time : Int, lux : Luxes]

ASSUME BufferAssumption ==
    /\ Window \in Nat /\ MaxTime \in Nat
    /\ MaxCapacity \in Nat /\ InitialCapacity \in Nat
    /\ DefaultCapacity \in 1 .. MaxCapacity
    /\ MemoryFails \in BOOLEAN
ASSUME BlankAssumption == Blank \notin Sample

VARIABLES
    slots,      \* mBufferTime and mBufferData
    mCapacity, mStart, mEnd, mCount,
    now, due    \* see LuxWindow

vars == <<slots, mCapacity, mStart, mEnd, mCount, now, due>>

-----------------------------------------------------------------------------
OffsetOf(index) ==
    IF index + mStart >= mCapacity THEN index + mStart - mCapacity ELSE index + mStart

Reading(index) == slots[OffsetOf(index)]

Capacity(initial) ==
    IF initial = 0 \/ initial >= MaxCapacity THEN DefaultCapacity ELSE initial

Init ==
    /\ mCapacity = Capacity(InitialCapacity)
    /\ slots = [i \in 0 .. mCapacity - 1 |-> Blank]
    /\ mStart = 0 /\ mEnd = 0 /\ mCount = 0
    /\ now = 0 /\ due = FALSE

-----------------------------------------------------------------------------
Undated(t, u) == t                                                      \* mutant
Later(t, u) == IF t < u THEN u ELSE t

\* How many readings the loop of Prune drops: while the next one is not after horizon.
DropsEarlier(horizon, k) ==                                             \* mutant
    /\ k \in 0 .. mCount - 1
    /\ \A j \in 1 .. k : Reading(j).time < horizon
    /\ k < mCount - 1 => Reading(k + 1).time >= horizon
Drops(horizon, k) ==
    /\ k \in 0 .. mCount - 1
    /\ \A j \in 1 .. k : Reading(j).time <= horizon
    /\ k < mCount - 1 => Reading(k + 1).time > horizon

Prune ==
    /\ ~due /\ due' = TRUE
    /\ \E t \in now .. MaxTime :
        /\ now' = t
        /\ IF mCount = 0 THEN UNCHANGED <<slots, mStart, mCount>>
           ELSE \E k \in 0 .. mCount - 1 :
                /\ Drops(t - Window, k)
                /\ mStart' = OffsetOf(k)
                /\ mCount' = mCount - k
                /\ slots' = [slots EXCEPT ![mStart'].time = Later(@, t - Window)]
    /\ UNCHANGED <<mCapacity, mEnd>>

CopyFlat(newSize) ==                                                    \* mutant
    [i \in 0 .. newSize - 1 |-> IF i < mCapacity THEN slots[i] ELSE Blank]
CopyLuxBuffer(newSize) ==
    LET length == mCapacity - mStart IN
    [i \in 0 .. newSize - 1 |->
        IF i < length THEN slots[mStart + i]
        ELSE IF i < mCapacity THEN slots[i - length] ELSE Blank]

Write(buffer, next, capacity, sample) ==
    /\ slots' = [buffer EXCEPT ![next] = sample]
    /\ mCapacity' = capacity
    /\ mEnd' = IF next + 1 = capacity THEN 0 ELSE next + 1
    /\ mCount' = mCount + 1

Full == mCount = mCapacity
MayGrow == 2 * mCapacity <= MaxCapacity
Unallocated == \A i \in 0 .. mCapacity - 1 : slots[i] = Blank

Push ==
    /\ due /\ due' = FALSE
    /\ \/ /\ ~Full
          /\ \E lux \in Luxes :
                Write(slots, mEnd, mCapacity, [time |-> now, lux |-> lux])
          /\ UNCHANGED mStart
       \/ /\ Full /\ MayGrow
          /\ \E lux \in Luxes :
                Write(CopyLuxBuffer(2 * mCapacity), mCapacity, 2 * mCapacity,
                      [time |-> now, lux |-> lux])
          /\ mStart' = 0
       \/ /\ \/ Full /\ ~MayGrow
             \/ MemoryFails /\ (Full \/ Unallocated)
          /\ UNCHANGED <<slots, mCapacity, mStart, mEnd, mCount>>
    /\ UNCHANGED now

KeepEnd ==                                                              \* mutant
    /\ mStart' = 0 /\ mCount' = 0
    /\ UNCHANGED <<slots, mCapacity, mEnd, now, due>>

Clear ==
    /\ mStart' = 0 /\ mEnd' = 0 /\ mCount' = 0
    /\ UNCHANGED <<slots, mCapacity, now, due>>

Next == Prune \/ Push \/ Clear

Spec == Init /\ [][Next]_vars

-----------------------------------------------------------------------------
(* Properties. *)

\* The fields keep the ring in shape whatever grows or wraps around: mEnd is where the
\* next reading goes, and what lies between mStart and mEnd has been written.
TypeOK ==
    /\ mCapacity \in Nat \ {0} /\ mStart \in 0 .. mCapacity - 1
    /\ mCount \in 0 .. mCapacity
    /\ mEnd = OffsetOf(mCount)
    /\ slots \in [0 .. mCapacity - 1 -> Sample \cup {Blank}]
    /\ \A i \in 0 .. mCount - 1 : Reading(i) \in Sample
    /\ now \in Nat /\ due \in BOOLEAN

\* The readings the buffer stands for, as GetData and GetTime give them out.
Readings == [i \in 1 .. mCount |-> Reading(i - 1)]

\* GetNextBrightenTime and GetNextDarkenTime walk back through the times: they never
\* decrease, none is later than the clock, and after Prune none is before the window.
TimesInWindow ==
    /\ \A i, j \in 1 .. mCount : i <= j => Readings[i].time <= Readings[j].time
    /\ \A i \in 1 .. mCount :
        /\ Readings[i].time <= now
        /\ due => Readings[i].time >= now - Window

W == INSTANCE LuxWindow WITH samples <- Readings

\* Through wrap-around, growth and failed allocations the ring is the sequence of the
\* readings of the window.
IsLuxWindow == W!Spec
=============================================================================
