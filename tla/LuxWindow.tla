------------------------------ MODULE LuxWindow -----------------------------
(***************************************************************************)
(* What LightLuxManager needs of a LightLuxBuffer: the lux readings of the *)
(* last LIGHT_LUX_BUFFER_RANGE milliseconds, oldest first.  The oldest one *)
(* is kept as long as it is still the reading in force at the beginning of *)
(* the window, and is dated there.                                         *)
(***************************************************************************)
EXTENDS Integers, Sequences

CONSTANTS
    Luxes,          \* the readings of the sensor, after GetValidLux
    Window,         \* LIGHT_LUX_BUFFER_RANGE
    MaxTime,        \* bound: the clock
    MaxCapacity,    \* LUX_BUFFER_SIZE_MAX
    MemoryFails     \* new(std::nothrow) may return nullptr

VARIABLES
    samples,    \* the readings with their times, oldest first
    now,        \* the time of the reading being handled
    due         \* the buffer was pruned and the reading is yet to be pushed

vars == <<samples, now, due>>

Sample == [time : Int, lux : Luxes]

\* Where the window that begins at horizon begins in s: the last reading not after it.
InForce(s, horizon, k) ==
    /\ k \in 1 .. Len(s)
    /\ \A j \in 2 .. k : s[j].time <= horizon
    /\ k < Len(s) => s[k + 1].time > horizon

Later(t, u) == IF t < u THEN u ELSE t

Init == samples = << >> /\ now = 0 /\ due = FALSE

Prune ==
    /\ ~due /\ due' = TRUE
    /\ \E t \in now .. MaxTime :
        /\ now' = t
        /\ IF samples = << >> THEN UNCHANGED samples
           ELSE \E k \in 1 .. Len(samples) :
                /\ InForce(samples, t - Window, k)
                /\ samples' = [i \in 1 .. Len(samples) + 1 - k |->
                     IF i = 1 THEN [samples[k] EXCEPT !.time = Later(@, t - Window)]
                     ELSE samples[i + k - 1]]

\* A reading is lost only when there is no room or no memory for it.
Push ==
    /\ due /\ due' = FALSE
    /\ \/ \E lux \in Luxes : samples' = Append(samples, [time |-> now, lux |-> lux])
       \/ /\ MemoryFails \/ 2 * Len(samples) > MaxCapacity
          /\ UNCHANGED samples
    /\ UNCHANGED now

Clear == samples' = << >> /\ UNCHANGED <<now, due>>

Next == Prune \/ Push \/ Clear

Spec == Init /\ [][Next]_vars
=============================================================================
