----------------------- MODULE LightLuxBuffer_proofs ------------------------
(***************************************************************************)
(* Proofs that the ring of LightLuxBuffer is the sequence of LuxWindow,    *)
(* for any capacities, window and readings.                                *)
(***************************************************************************)
EXTENDS LightLuxBuffer, SequenceTheorems, TLAPS

-----------------------------------------------------------------------------
(* The ring. *)

Geometry ==
    /\ mCapacity \in Nat \ {0}
    /\ mStart \in 0 .. mCapacity - 1
    /\ mCount \in 0 .. mCapacity

\* Different readings lie in different slots, and the slots are within the arrays.
LEMMA OffsetProperties ==
    ASSUME Geometry
    PROVE  /\ \A i \in 0 .. mCapacity : OffsetOf(i) \in 0 .. mCapacity - 1
           /\ \A i, j \in 0 .. mCapacity - 1 : OffsetOf(i) = OffsetOf(j) => i = j
           /\ OffsetOf(0) = mStart
  BY DEF Geometry, OffsetOf

\* Dropping the k oldest readings renumbers the others.
LEMMA OffsetAfterDrop ==
    ASSUME Geometry, NEW k \in 0 .. mCapacity - 1,
           mStart' = OffsetOf(k), mCapacity' = mCapacity
    PROVE  \A i \in 0 .. mCapacity - k : OffsetOf(i)' = OffsetOf(i + k)
  BY DEF Geometry, OffsetOf

LEMMA TypeGeometry == TypeOK => Geometry
  BY DEF TypeOK, Geometry

\* Growing straightens the ring: every reading keeps its number.
LEMMA CopyKeepsReadings ==
    ASSUME TypeOK, Full
    PROVE  \A i \in 0 .. mCapacity - 1 : CopyLuxBuffer(2 * mCapacity)[i] = Reading(i)
  <1> SUFFICES ASSUME NEW i \in 0 .. mCapacity - 1
               PROVE  CopyLuxBuffer(2 * mCapacity)[i] = Reading(i)
    OBVIOUS
  <1> DEFINE length == mCapacity - mStart
  <1>1. mCapacity \in Nat \ {0} /\ mStart \in 0 .. mCapacity - 1
        /\ i \in 0 .. 2 * mCapacity - 1
    BY DEF TypeOK
  <1>2. CopyLuxBuffer(2 * mCapacity)[i] =
          IF i < length THEN slots[mStart + i] ELSE slots[i - length]
    BY <1>1 DEF CopyLuxBuffer
  <1>3. OffsetOf(i) = IF i < length THEN mStart + i ELSE i - length
    BY <1>1 DEF OffsetOf
  <1> QED
    BY <1>2, <1>3 DEF Reading

LEMMA LaterProperties ==
    ASSUME NEW t \in Int, NEW u \in Int
    PROVE  Later(t, u) \in Int /\ Later(t, u) >= t /\ Later(t, u) >= u
           /\ (Later(t, u) = t \/ Later(t, u) = u)
  BY DEF Later

-----------------------------------------------------------------------------
(* What one call does to the readings. *)

\* Prune keeps the readings from number k on, the first of them dated no earlier than
\* the horizon.
LEMMA PruneReadings ==
    ASSUME TypeOK, NEW horizon \in Int, NEW k \in 0 .. mCount - 1,
           mStart' = OffsetOf(k), mCount' = mCount - k,
           slots' = [slots EXCEPT ![mStart'].time = Later(@, horizon)],
           UNCHANGED <<mCapacity, mEnd>>
    PROVE  /\ Geometry'
           /\ mEnd' = OffsetOf(mCount)'
           /\ slots' \in [0 .. mCapacity' - 1 -> Sample \cup {Blank}]
           /\ Reading(0)' = [Reading(k) EXCEPT !.time = Later(@, horizon)]
           /\ \A i \in 1 .. mCount' - 1 : Reading(i)' = Reading(i + k)
           /\ \A i \in 0 .. mCount' - 1 : Reading(i)' \in Sample
  <1>1. Geometry /\ k \in 0 .. mCapacity - 1 /\ mCount \in Nat /\ mCapacity \in Nat
    BY TypeGeometry DEF TypeOK
  <1>2. \A i \in 0 .. mCapacity - k : OffsetOf(i)' = OffsetOf(i + k)
    BY <1>1, OffsetAfterDrop
  <1>3. Geometry'
    BY <1>1, OffsetProperties DEF Geometry
  <1>4. OffsetOf(mCount)' = OffsetOf(mCount - k + k)
    BY <1>1 DEF OffsetOf, Geometry
  <1>5. mCount - k + k = mCount
    BY <1>1
  <1>6. mEnd' = OffsetOf(mCount)'
    BY <1>4, <1>5 DEF TypeOK
  <1>7. Reading(k) \in Sample /\ OffsetOf(k) \in 0 .. mCapacity - 1
    BY <1>1, OffsetProperties DEF TypeOK
  <1>8. slots'[OffsetOf(k)] = [Reading(k) EXCEPT !.time = Later(@, horizon)]
    BY <1>7 DEF TypeOK, Reading
  <1>9. slots'[OffsetOf(k)] \in Sample
    <2>1. Later(Reading(k).time, horizon) \in Int
      BY <1>7, LaterProperties DEF Sample
    <2> QED
      BY <1>7, <1>8, <2>1 DEF Sample
  <1>10. \A j \in 0 .. mCapacity - 1 : j # OffsetOf(k) => slots'[j] = slots[j]
    BY DEF TypeOK
  <1>11. Reading(0)' = slots'[OffsetOf(k)]
    BY <1>1, <1>2 DEF Reading
  <1>12. ASSUME NEW i \in 1 .. mCount' - 1 PROVE Reading(i)' = Reading(i + k)
    <2>1. i + k \in 0 .. mCapacity - 1 /\ i + k # k /\ i \in 0 .. mCapacity - k
      BY <1>1 DEF Geometry
    <2>2. OffsetOf(i + k) # OffsetOf(k) /\ OffsetOf(i + k) \in 0 .. mCapacity - 1
      BY <1>1, <2>1, OffsetProperties
    <2> QED
      BY <1>2, <1>10, <2>1, <2>2 DEF Reading
  <1>13. \A i \in 1 .. mCount' - 1 : Reading(i)' \in Sample
    <2> SUFFICES ASSUME NEW i \in 1 .. mCount' - 1 PROVE Reading(i)' \in Sample
      OBVIOUS
    <2>1. i + k \in 0 .. mCount - 1
      BY <1>1
    <2> QED
      BY <1>12, <2>1 DEF TypeOK
  <1>14. slots' \in [0 .. mCapacity' - 1 -> Sample \cup {Blank}]
    BY <1>9, <1>10 DEF TypeOK
  <1>15. \A i \in 0 .. mCount' - 1 : Reading(i)' \in Sample
    BY <1>1, <1>9, <1>11, <1>13
  <1> QED
    BY <1>3, <1>6, <1>8, <1>11, <1>12, <1>14, <1>15

\* Push puts the new reading behind the others, with or without growing.
LEMMA PushReadings ==
    ASSUME TypeOK, NEW sample \in Sample, NEW n \in Nat, n = mCount,
           \/ ~Full /\ Write(slots, mEnd, mCapacity, sample) /\ UNCHANGED mStart
           \/ /\ Full /\ mStart' = 0
              /\ Write(CopyLuxBuffer(2 * mCapacity), mCapacity, 2 * mCapacity, sample)
    PROVE  /\ Geometry'
           /\ mEnd' = OffsetOf(mCount)'
           /\ slots' \in [0 .. mCapacity' - 1 -> Sample \cup {Blank}]
           /\ mCount' = n + 1
           /\ Reading(n)' = sample
           /\ \A i \in 0 .. n - 1 : Reading(i)' = Reading(i)
  <1>1. Geometry /\ mCapacity \in Nat \ {0} /\ n \in 0 .. mCapacity
    BY TypeGeometry DEF TypeOK
  <1>2. CASE ~Full /\ Write(slots, mEnd, mCapacity, sample) /\ UNCHANGED mStart
    <2>1. n < mCapacity
      BY <1>1, <1>2 DEF Full
    <2>2. mEnd = OffsetOf(n) /\ mEnd \in 0 .. mCapacity - 1
      BY <1>1, OffsetProperties DEF TypeOK
    <2>3. /\ slots' = [slots EXCEPT ![mEnd] = sample] /\ mCapacity' = mCapacity
          /\ mStart' = mStart /\ mCount' = n + 1
          /\ mEnd' = IF mEnd + 1 = mCapacity THEN 0 ELSE mEnd + 1
      BY <1>2 DEF Write
    <2>4. Geometry'
      BY <1>1, <2>1, <2>3 DEF Geometry
    <2>5. \A i \in 0 .. mCapacity : OffsetOf(i)' = OffsetOf(i)
      BY <2>3 DEF OffsetOf
    <2>6. OffsetOf(mCount)' = OffsetOf(n + 1)
      BY <1>1, <2>1, <2>3, <2>5 DEF OffsetOf
    <2>7. OffsetOf(n + 1) = IF OffsetOf(n) + 1 = mCapacity THEN 0 ELSE OffsetOf(n) + 1
      BY <1>1, <2>1 DEF OffsetOf, Geometry
    <2>8. slots' \in [0 .. mCapacity' - 1 -> Sample \cup {Blank}]
      BY <2>3 DEF TypeOK
    <2>9. slots'[mEnd] = sample
      BY <2>2, <2>3 DEF TypeOK
    <2>10. Reading(n)' = sample
      BY <1>1, <2>2, <2>5, <2>9 DEF Reading
    <2>11. ASSUME NEW i \in 0 .. n - 1 PROVE Reading(i)' = Reading(i)
      <3>1. i \in 0 .. mCapacity - 1 /\ n \in 0 .. mCapacity - 1 /\ i # n
        BY <1>1, <2>1
      <3>2. OffsetOf(i) # mEnd /\ OffsetOf(i) \in 0 .. mCapacity - 1
        BY <1>1, <2>2, <3>1, OffsetProperties
      <3> QED
        BY <2>3, <2>5, <3>1, <3>2 DEF Reading, TypeOK
    <2> QED
      BY <2>2, <2>3, <2>4, <2>6, <2>7, <2>8, <2>10, <2>11
  <1>3. CASE /\ Full /\ mStart' = 0
             /\ Write(CopyLuxBuffer(2 * mCapacity), mCapacity, 2 * mCapacity, sample)
    <2> DEFINE copy == CopyLuxBuffer(2 * mCapacity)
    <2>1. n = mCapacity
      BY <1>3 DEF Full
    <2>2. /\ slots' = [copy EXCEPT ![n] = sample] /\ mCapacity' = 2 * n
          /\ mStart' = 0 /\ mCount' = n + 1
          /\ mEnd' = IF n + 1 = 2 * n THEN 0 ELSE n + 1
      BY <1>3, <2>1 DEF Write
    <2>3. Geometry'
      BY <1>1, <2>1, <2>2 DEF Geometry
    <2>4. \A i \in 0 .. 2 * n - 1 : OffsetOf(i)' = i
      BY <1>1, <2>1, <2>2 DEF OffsetOf
    <2>5. mEnd' = OffsetOf(mCount)'
      BY <1>1, <2>1, <2>2 DEF OffsetOf
    <2>6. \A i \in 0 .. n - 1 : copy[i] = Reading(i) /\ Reading(i) \in Sample
      BY <1>3, <2>1, CopyKeepsReadings DEF TypeOK
    <2>7. \A i \in 0 .. 2 * n - 1 : i >= n => copy[i] = Blank
      BY <1>1, <2>1 DEF CopyLuxBuffer, Geometry
    <2>8. copy \in [0 .. 2 * n - 1 -> Sample \cup {Blank}]
      <3>1. copy = [i \in 0 .. 2 * n - 1 |-> copy[i]]
        BY <2>1 DEF CopyLuxBuffer
      <3>2. \A i \in 0 .. 2 * n - 1 : copy[i] \in Sample \cup {Blank}
        BY <2>6, <2>7
      <3> HIDE DEF copy
      <3> QED
        BY <3>1, <3>2
    <2>9. n \in 0 .. 2 * n - 1
      BY <1>1, <2>1
    <2> HIDE DEF copy
    <2>10. slots' \in [0 .. mCapacity' - 1 -> Sample \cup {Blank}]
      BY <2>2, <2>8
    <2>11. slots'[n] = sample /\ \A i \in 0 .. n - 1 : slots'[i] = copy[i]
      BY <2>2, <2>8, <2>9
    <2>12. Reading(n)' = sample
      BY <2>4, <2>9, <2>11 DEF Reading
    <2>13. \A i \in 0 .. n - 1 : Reading(i)' = Reading(i)
      BY <2>4, <2>6, <2>11 DEF Reading
    <2> QED
      BY <2>2, <2>3, <2>5, <2>10, <2>12, <2>13
  <1> QED
    BY <1>2, <1>3

-----------------------------------------------------------------------------
(* Type correctness. *)

LEMMA InitTyped == Init => TypeOK
  <1> SUFFICES ASSUME Init PROVE TypeOK
    OBVIOUS
  <1>1. mCapacity \in Nat \ {0}
    BY BufferAssumption DEF Init, Capacity
  <1>2. slots \in [0 .. mCapacity - 1 -> Sample \cup {Blank}]
    BY DEF Init
  <1>3. mStart = 0 /\ mEnd = 0 /\ mCount = 0 /\ now = 0 /\ due = FALSE
    BY DEF Init
  <1>4. mEnd = OffsetOf(mCount)
    BY <1>1, <1>3 DEF OffsetOf
  <1>5. \A i \in 0 .. mCount - 1 : Reading(i) \in Sample
    BY <1>3
  <1>6. mStart \in 0 .. mCapacity - 1 /\ mCount \in 0 .. mCapacity /\ now \in Nat
    BY <1>1, <1>3
  <1>7. due \in BOOLEAN
    BY Zenon DEF Init
  <1> QED
    BY <1>1, <1>2, <1>4, <1>5, <1>6, <1>7 DEF TypeOK

LEMMA StepTyped == TypeOK /\ [Next]_vars => TypeOK'
  <1> SUFFICES ASSUME TypeOK, [Next]_vars PROVE TypeOK'
    OBVIOUS
  <1>1. CASE Prune
    <2>1. PICK t \in now .. MaxTime :
            /\ now' = t
            /\ IF mCount = 0 THEN UNCHANGED <<slots, mStart, mCount>>
               ELSE \E k \in 0 .. mCount - 1 :
                    /\ Drops(t - Window, k)
                    /\ mStart' = OffsetOf(k)
                    /\ mCount' = mCount - k
                    /\ slots' = [slots EXCEPT ![mStart'].time = Later(@, t - Window)]
      BY <1>1 DEF Prune
    <2>2. t - Window \in Int /\ now' \in Nat /\ due' \in BOOLEAN
          /\ UNCHANGED <<mCapacity, mEnd>>
      BY <1>1, <2>1, BufferAssumption DEF Prune, TypeOK
    <2>3. CASE mCount = 0
      BY <2>1, <2>2, <2>3 DEF TypeOK, OffsetOf, Reading
    <2>4. CASE mCount # 0
      <3>1. PICK k \in 0 .. mCount - 1 :
              /\ mStart' = OffsetOf(k) /\ mCount' = mCount - k
              /\ slots' = [slots EXCEPT ![mStart'].time = Later(@, t - Window)]
        BY <2>1, <2>4
      <3> QED
        BY <2>2, <3>1, PruneReadings DEF TypeOK, Geometry
    <2> QED
      BY <2>3, <2>4
  <1>2. CASE Push
    <2>1. due' \in BOOLEAN /\ now' \in Nat
      BY <1>2 DEF Push, TypeOK
    <2>2. CASE UNCHANGED <<slots, mCapacity, mStart, mEnd, mCount>>
      BY <2>1, <2>2 DEF TypeOK, OffsetOf, Reading
    <2>3. CASE ~UNCHANGED <<slots, mCapacity, mStart, mEnd, mCount>>
      <3>1. PICK lux \in Luxes :
              LET sample == [time |-> now, lux |-> lux] IN
              \/ ~Full /\ Write(slots, mEnd, mCapacity, sample) /\ UNCHANGED mStart
              \/ /\ Full /\ mStart' = 0
                 /\ Write(CopyLuxBuffer(2 * mCapacity), mCapacity, 2 * mCapacity, sample)
        BY <1>2, <2>3 DEF Push
      <3>2. [time |-> now, lux |-> lux] \in Sample /\ mCount \in Nat
        BY DEF TypeOK, Sample
      <3>3. PICK sample \in Sample : sample = [time |-> now, lux |-> lux]
        BY <3>2
      <3>4. PICK n \in Nat : n = mCount
        BY <3>2
      <3>5. /\ Geometry'
            /\ mEnd' = OffsetOf(mCount)'
            /\ slots' \in [0 .. mCapacity' - 1 -> Sample \cup {Blank}]
            /\ mCount' = n + 1
            /\ Reading(n)' = sample
            /\ \A i \in 0 .. n - 1 : Reading(i)' = Reading(i)
        BY <3>1, <3>3, <3>4, PushReadings
      <3>6. \A i \in 0 .. n - 1 : Reading(i)' \in Sample
        BY <3>4, <3>5 DEF TypeOK
      <3>7. \A i \in 0 .. mCount' - 1 : Reading(i)' \in Sample
        BY <3>5, <3>6
      <3> QED
        BY <2>1, <3>5, <3>7 DEF TypeOK, Geometry
    <2> QED
      BY <2>2, <2>3
  <1>3. CASE Clear
    BY <1>3 DEF Clear, TypeOK, OffsetOf
  <1>4. CASE UNCHANGED vars
    BY <1>4 DEF vars, TypeOK, OffsetOf, Reading
  <1> QED
    BY <1>1, <1>2, <1>3, <1>4 DEF Next

\* The ring keeps its shape: no reading is lost, read before it is written or read from
\* outside the arrays.
THEOREM RingKeepsShape == Spec => []TypeOK
  BY InitTyped, StepTyped, PTL DEF Spec

-----------------------------------------------------------------------------
(* The times. *)

LEMMA InitTimes == Init => TimesInWindow
  BY DEF Init, TimesInWindow, Readings

LEMMA ReadingsProperties ==
    ASSUME TypeOK
    PROVE  /\ Readings \in Seq(Sample)
           /\ Len(Readings) = mCount /\ mCount \in Nat
           /\ \A i \in 1 .. mCount : Readings[i] = Reading(i - 1) /\ Readings[i] \in Sample
  <1>1. mCount \in Nat /\ \A i \in 1 .. mCount : Reading(i - 1) \in Sample
    BY DEF TypeOK
  <1>2. \A i \in 1 .. mCount : Readings[i] = Reading(i - 1)
    BY DEF Readings
  <1>3. Readings \in Seq(Sample) /\ Len(Readings) = mCount
    BY <1>1, IsASeq DEF Readings
  <1> QED
    BY <1>1, <1>2, <1>3

LEMMA StepTimes == TypeOK /\ TypeOK' /\ TimesInWindow /\ [Next]_vars => TimesInWindow'
  <1> SUFFICES ASSUME TypeOK, TypeOK', TimesInWindow, [Next]_vars PROVE TimesInWindow'
    OBVIOUS
  <1>0. /\ mCount \in Nat /\ now \in Nat /\ mCount' \in Nat
        /\ \A i \in 1 .. mCount : /\ Readings[i] = Reading(i - 1)
                                  /\ Readings[i].time \in Int /\ Readings[i].time <= now
    BY ReadingsProperties DEF TypeOK, TimesInWindow, Sample
  <1>00. \A i \in 1 .. mCount' : Readings'[i] = Reading(i - 1)'
    BY DEF Readings
  <1>1. CASE Prune
    <2>1. PICK t \in now .. MaxTime :
            /\ now' = t
            /\ IF mCount = 0 THEN UNCHANGED <<slots, mStart, mCount>>
               ELSE \E k \in 0 .. mCount - 1 :
                    /\ Drops(t - Window, k)
                    /\ mStart' = OffsetOf(k)
                    /\ mCount' = mCount - k
                    /\ slots' = [slots EXCEPT ![mStart'].time = Later(@, t - Window)]
      BY <1>1 DEF Prune
    <2> DEFINE horizon == t - Window
    <2>2. horizon \in Int /\ horizon <= t /\ t \in Nat /\ t >= now
          /\ UNCHANGED <<mCapacity, mEnd>>
      BY <1>0, <1>1, <2>1, BufferAssumption DEF Prune
    <2>3. CASE mCount = 0
      BY <2>1, <2>3 DEF TimesInWindow
    <2>4. CASE mCount # 0
      <3>1. PICK k \in 0 .. mCount - 1 :
              /\ Drops(horizon, k)
              /\ mStart' = OffsetOf(k) /\ mCount' = mCount - k
              /\ slots' = [slots EXCEPT ![mStart'].time = Later(@, horizon)]
        BY <2>1, <2>4
      <3>2. /\ Reading(0)' = [Reading(k) EXCEPT !.time = Later(@, horizon)]
            /\ \A i \in 1 .. mCount' - 1 : Reading(i)' = Reading(i + k)
        BY <2>2, <3>1, PruneReadings
      <3>3. Readings'[1] = [Readings[k + 1] EXCEPT !.time = Later(@, horizon)]
        BY <1>0, <1>00, <3>1, <3>2
      <3>4. ASSUME NEW i \in 2 .. mCount' PROVE Readings'[i] = Readings[i + k]
        <4>1. i - 1 \in 1 .. mCount' - 1 /\ i + k \in 1 .. mCount /\ i \in 1 .. mCount'
              /\ i - 1 + k = i + k - 1
          BY <1>0, <3>1
        <4> QED
          BY <1>0, <1>00, <3>2, <4>1
      <3>5. \A i \in 2 .. mCount' : Readings[i + k].time > horizon
        <4>1. \A i \in 2 .. mCount' : i + k \in k + 2 .. mCount
          BY <1>0, <3>1
        <4>2. k + 1 < mCount => Readings[k + 2].time > horizon
          <5>1. k < mCount - 1 => Reading(k + 1).time > horizon
            BY <3>1 DEF Drops
          <5>2. k + 1 < mCount => k + 2 \in 1 .. mCount /\ k + 2 - 1 = k + 1
            BY <1>0, <3>1
          <5> QED
            BY <1>0, <3>1, <5>1, <5>2
        <4>3. \A j \in k + 2 .. mCount : Readings[k + 2].time <= Readings[j].time
          BY <1>0, <3>1 DEF TimesInWindow
        <4> QED
          BY <1>0, <2>2, <3>1, <4>1, <4>2, <4>3
      <3>6. k + 1 \in 1 .. mCount /\ 1 \in 1 .. mCount'
        BY <1>0, <3>1
      <3>7. /\ Readings'[1].time = Later(Readings[k + 1].time, horizon)
            /\ Readings[k + 1].time \in Int /\ Readings[k + 1].time <= now
        <4>1. Readings[k + 1] \in Sample
          BY <3>6, ReadingsProperties
        <4> QED
          BY <1>0, <3>3, <3>6, <4>1 DEF Sample
      <3>8. /\ Readings'[1].time \in Int /\ Readings'[1].time >= horizon
            /\ Readings'[1].time <= t
            /\ Readings'[1].time = Readings[k + 1].time \/ Readings'[1].time = horizon
        BY <1>0, <2>2, <3>7, LaterProperties
      <3>9. \A i \in 2 .. mCount' : Readings'[1].time <= Readings'[i].time
        <4> SUFFICES ASSUME NEW i \in 2 .. mCount'
                     PROVE  Readings'[1].time <= Readings'[i].time
          OBVIOUS
        <4>1. i + k \in 1 .. mCount /\ k + 1 <= i + k
          BY <1>0, <3>1
        <4>2. Readings[k + 1].time <= Readings[i + k].time
          BY <3>6, <4>1 DEF TimesInWindow
        <4>3. Readings[i + k].time > horizon /\ Readings[i + k].time \in Int
          BY <1>0, <3>5, <4>1
        <4> QED
          BY <2>2, <3>4, <3>8, <4>2, <4>3
      <3>10. ASSUME NEW i \in 1 .. mCount', NEW j \in 1 .. mCount', i <= j
             PROVE  Readings'[i].time <= Readings'[j].time
        <4>1. CASE i = 1 /\ j = 1
          BY <3>8, <4>1
        <4>2. CASE i = 1 /\ j # 1
          BY <3>9, <4>2
        <4>3. CASE i # 1
          <5>1. /\ i \in 2 .. mCount' /\ j \in 2 .. mCount'
                /\ i + k \in 1 .. mCount /\ j + k \in 1 .. mCount /\ i + k <= j + k
            BY <1>0, <3>1, <3>10, <4>3
          <5> QED
            BY <3>4, <5>1 DEF TimesInWindow
        <4> QED
          BY <4>1, <4>2, <4>3
      <3>11. ASSUME NEW i \in 1 .. mCount'
             PROVE  Readings'[i].time <= t /\ Readings'[i].time >= horizon
        <4>1. CASE i = 1
          BY <3>8, <4>1
        <4>2. CASE i # 1
          <5>1. i \in 2 .. mCount' /\ i + k \in 1 .. mCount
            BY <1>0, <3>1, <4>2
          <5>2. Readings[i + k].time <= now /\ Readings[i + k].time > horizon
                /\ Readings[i + k].time \in Int
            BY <1>0, <3>5, <5>1
          <5> QED
            BY <1>0, <2>2, <3>4, <5>1, <5>2
        <4> QED
          BY <4>1, <4>2
      <3> QED
        BY <2>1, <3>10, <3>11 DEF TimesInWindow
    <2> QED
      BY <2>3, <2>4
  <1>2. CASE Push
    <2>1. now' = now /\ due' = FALSE
      BY <1>2 DEF Push
    <2>2. CASE UNCHANGED <<slots, mCapacity, mStart, mEnd, mCount>>
      <3>1. Readings' = Readings
        BY <2>2 DEF Readings, Reading, OffsetOf
      <3> QED
        BY <2>1, <2>2, <3>1 DEF TimesInWindow
    <2>3. CASE ~UNCHANGED <<slots, mCapacity, mStart, mEnd, mCount>>
      <3>1. PICK lux \in Luxes :
              LET sample == [time |-> now, lux |-> lux] IN
              \/ ~Full /\ Write(slots, mEnd, mCapacity, sample) /\ UNCHANGED mStart
              \/ /\ Full /\ mStart' = 0
                 /\ Write(CopyLuxBuffer(2 * mCapacity), mCapacity, 2 * mCapacity, sample)
        BY <1>2, <2>3 DEF Push
      <3>2. [time |-> now, lux |-> lux] \in Sample
        BY <1>0 DEF Sample
      <3>3. PICK sample \in Sample : sample = [time |-> now, lux |-> lux]
        BY <3>2
      <3>4. PICK n \in Nat : n = mCount
        BY <1>0
      <3>5. /\ mCount' = n + 1
            /\ Reading(n)' = sample
            /\ \A i \in 0 .. n - 1 : Reading(i)' = Reading(i)
        BY <3>1, <3>3, <3>4, PushReadings
      <3>6. Readings'[n + 1].time = now
        BY <1>00, <3>3, <3>5
      <3>7. ASSUME NEW i \in 1 .. n PROVE Readings'[i] = Readings[i]
        <4>1. i \in 1 .. mCount /\ i \in 1 .. mCount' /\ i - 1 \in 0 .. n - 1
          BY <3>4, <3>5
        <4> QED
          BY <1>0, <1>00, <3>5, <4>1
      <3>8. ASSUME NEW i \in 1 .. n + 1 PROVE Readings'[i].time <= now
        BY <1>0, <3>4, <3>6, <3>7
      <3>9. ASSUME NEW i \in 1 .. n + 1, NEW j \in 1 .. n + 1, i <= j
            PROVE  Readings'[i].time <= Readings'[j].time
        <4>1. CASE j = n + 1
          BY <3>6, <3>8, <4>1
        <4>2. CASE j # n + 1
          <5>1. i \in 1 .. n /\ j \in 1 .. n
            BY <3>9, <4>2
          <5> QED
            BY <3>4, <3>7, <3>9, <5>1 DEF TimesInWindow
        <4> QED
          BY <4>1, <4>2
      <3> QED
        BY <2>1, <3>5, <3>8, <3>9 DEF TimesInWindow
    <2> QED
      BY <2>2, <2>3
  <1>3. CASE Clear
    BY <1>3 DEF Clear, TimesInWindow
  <1>4. CASE UNCHANGED vars
    <2>1. Readings' = Readings
      BY <1>4 DEF vars, Readings, Reading, OffsetOf
    <2> QED
      BY <1>4, <2>1 DEF vars, TimesInWindow
  <1> QED
    BY <1>1, <1>2, <1>3, <1>4 DEF Next

\* The times the debouncing walks through never decrease, and lie within the window.
THEOREM TimesStayInWindow == Spec => []TimesInWindow
  <1>1. TypeOK /\ [Next]_vars => TypeOK'
    BY StepTyped
  <1> QED
    BY <1>1, InitTyped, InitTimes, StepTimes, PTL DEF Spec

-----------------------------------------------------------------------------
(* The ring implements the sequence: W!X stands for X of LuxWindow at Readings. *)

LEMMA NoReadings == TypeOK /\ mCount = 0 => Readings = << >>
  <1> SUFFICES ASSUME TypeOK, mCount = 0 PROVE Readings = << >>
    OBVIOUS
  <1>1. Readings \in Seq(Sample) /\ Len(Readings) = 0
    BY ReadingsProperties
  <1> QED
    BY <1>1, EmptySeq

LEMMA InitRefines == Init => W!Init
  <1> SUFFICES ASSUME Init PROVE W!Init
    OBVIOUS
  <1>1. Readings = << >>
    BY InitTyped, NoReadings DEF Init
  <1> QED
    BY <1>1 DEF Init, W!Init

\* The number of readings Prune drops is where the window begins in the sequence.
LEMMA PruneRefines == TypeOK /\ TypeOK' /\ Prune => W!Prune
  <1> SUFFICES ASSUME TypeOK, TypeOK', Prune PROVE W!Prune
    OBVIOUS
  <1>1. PICK t \in now .. MaxTime :
          /\ now' = t
          /\ IF mCount = 0 THEN UNCHANGED <<slots, mStart, mCount>>
             ELSE \E k \in 0 .. mCount - 1 :
                  /\ Drops(t - Window, k)
                  /\ mStart' = OffsetOf(k)
                  /\ mCount' = mCount - k
                  /\ slots' = [slots EXCEPT ![mStart'].time = Later(@, t - Window)]
    BY DEF Prune
  <1> DEFINE horizon == t - Window
  <1>2. horizon \in Int /\ ~due /\ due' = TRUE /\ UNCHANGED <<mCapacity, mEnd>>
    BY BufferAssumption DEF Prune, TypeOK
  <1>3. /\ Len(Readings) = mCount /\ mCount \in Nat
        /\ \A i \in 1 .. mCount : Readings[i] = Reading(i - 1) /\ Readings[i] \in Sample
    BY ReadingsProperties
  <1>4. CASE mCount = 0
    <2>1. Readings = << >> /\ Readings' = << >>
      BY <1>1, <1>4, NoReadings DEF Readings, Reading, OffsetOf
    <2> QED
      BY <1>1, <1>2, <2>1 DEF W!Prune
  <1>5. CASE mCount # 0
    <2>1. PICK k \in 0 .. mCount - 1 :
            /\ Drops(horizon, k)
            /\ mStart' = OffsetOf(k) /\ mCount' = mCount - k
            /\ slots' = [slots EXCEPT ![mStart'].time = Later(@, horizon)]
      BY <1>1, <1>5
    <2>2. /\ Reading(0)' = [Reading(k) EXCEPT !.time = Later(@, horizon)]
          /\ \A i \in 1 .. mCount' - 1 : Reading(i)' = Reading(i + k)
      BY <1>2, <2>1, PruneReadings
    <2>3. k + 1 \in 1 .. Len(Readings) /\ Len(Readings) + 1 - (k + 1) = mCount'
          /\ 1 \in 1 .. mCount'
      BY <1>3, <2>1
    <2>4. W!InForce(Readings, horizon, k + 1)
      <3>1. \A j \in 2 .. k + 1 : Readings[j].time <= horizon
        <4> SUFFICES ASSUME NEW j \in 2 .. k + 1 PROVE Readings[j].time <= horizon
          OBVIOUS
        <4>1. j \in 1 .. mCount /\ j - 1 \in 1 .. k
          BY <1>3, <2>1
        <4> QED
          BY <1>3, <2>1, <4>1 DEF Drops
      <3>2. k + 1 < mCount => Readings[k + 2].time > horizon
        <4>1. k < mCount - 1 => Reading(k + 1).time > horizon
          BY <2>1 DEF Drops
        <4>2. k + 1 < mCount => k + 2 \in 1 .. mCount /\ k + 2 - 1 = k + 1
          BY <1>3, <2>1
        <4> QED
          BY <1>3, <2>1, <4>1, <4>2
      <3>3. k + 1 + 1 = k + 2
        BY <2>1
      <3> QED
        BY <1>3, <2>3, <3>1, <3>2, <3>3 DEF W!InForce
    <2> DEFINE first == [Readings[k + 1] EXCEPT !.time = W!Later(@, horizon)]
    <2>5. Readings' = [i \in 1 .. mCount' |-> IF i = 1 THEN first
                                              ELSE Readings[i + (k + 1) - 1]]
      <3>1. Readings' = [i \in 1 .. mCount' |-> Reading(i - 1)']
        BY DEF Readings
      <3>2. Reading(0)' = first
        <4>1. Reading(k) = Readings[k + 1]
          BY <1>3, <2>3, <2>1
        <4> QED
          BY <2>2, <4>1 DEF Later, W!Later
      <3>3. ASSUME NEW i \in 1 .. mCount', i # 1
            PROVE  Reading(i - 1)' = Readings[i + (k + 1) - 1]
        <4>1. i - 1 \in 1 .. mCount' - 1 /\ i + (k + 1) - 1 \in 1 .. mCount
              /\ i + (k + 1) - 1 - 1 = i - 1 + k
          BY <1>3, <2>1, <3>3
        <4> QED
          BY <1>3, <2>2, <4>1
      <3> HIDE DEF first
      <3> QED
        BY <3>1, <3>2, <3>3
    <2>6. Readings # << >>
      BY <1>3, <1>5, EmptySeq
    <2>7. \E m \in 1 .. Len(Readings) :
            /\ W!InForce(Readings, horizon, m)
            /\ Readings' = [i \in 1 .. Len(Readings) + 1 - m |->
                 IF i = 1 THEN [Readings[m] EXCEPT !.time = W!Later(@, horizon)]
                 ELSE Readings[i + m - 1]]
      BY <2>3, <2>4, <2>5
    <2> QED
      BY <1>1, <1>2, <2>6, <2>7 DEF W!Prune
  <1> QED
    BY <1>4, <1>5

LEMMA PushRefines == TypeOK /\ TypeOK' /\ Push => W!Push
  <1> SUFFICES ASSUME TypeOK, TypeOK', Push PROVE W!Push
    OBVIOUS
  <1>1. due /\ due' = FALSE /\ UNCHANGED now
    BY DEF Push
  <1>2. /\ Readings \in Seq(Sample) /\ Len(Readings) = mCount /\ mCount \in Nat
        /\ \A i \in 1 .. mCount : Readings[i] = Reading(i - 1) /\ Readings[i] \in Sample
    BY ReadingsProperties
  <1>3. CASE UNCHANGED <<slots, mCapacity, mStart, mEnd, mCount>>
    <2>1. Readings' = Readings
      BY <1>3 DEF Readings, Reading, OffsetOf
    <2>2. MemoryFails \/ (Full /\ ~MayGrow)
      BY <1>2, <1>3 DEF Push, Write
    <2>3. MemoryFails \/ 2 * Len(Readings) > MaxCapacity
      BY <1>2, <2>2, BufferAssumption DEF Full, MayGrow
    <2> QED
      BY <1>1, <2>1, <2>3 DEF W!Push
  <1>4. CASE ~UNCHANGED <<slots, mCapacity, mStart, mEnd, mCount>>
    <2>1. PICK lux \in Luxes :
            LET sample == [time |-> now, lux |-> lux] IN
            \/ ~Full /\ Write(slots, mEnd, mCapacity, sample) /\ UNCHANGED mStart
            \/ /\ Full /\ mStart' = 0
               /\ Write(CopyLuxBuffer(2 * mCapacity), mCapacity, 2 * mCapacity, sample)
      BY <1>4 DEF Push
    <2>2. [time |-> now, lux |-> lux] \in Sample
      BY DEF TypeOK, Sample
    <2>3. PICK sample \in Sample : sample = [time |-> now, lux |-> lux]
      BY <2>2
    <2>4. PICK n \in Nat : n = mCount
      BY <1>2
    <2>5. /\ mCount' = n + 1
          /\ Reading(n)' = sample
          /\ \A i \in 0 .. n - 1 : Reading(i)' = Reading(i)
      BY <2>1, <2>3, <2>4, PushReadings
    <2>6. /\ Readings' \in Seq(Sample) /\ Len(Readings)' = n + 1
          /\ \A i \in 1 .. n + 1 : Readings'[i] = Reading(i - 1)'
      <3>1. \A i \in 0 .. mCount' - 1 : Reading(i)' \in Sample
        BY DEF TypeOK
      <3>2. \A i \in 1 .. n + 1 : Reading(i - 1)' \in Sample
        BY <2>5, <3>1
      <3>3. Readings' = [i \in 1 .. n + 1 |-> Reading(i - 1)']
        BY <2>5 DEF Readings
      <3> QED
        BY <3>2, <3>3
    <2>7. /\ Append(Readings, sample) \in Seq(Sample)
          /\ Len(Append(Readings, sample)) = n + 1
          /\ \A i \in 1 .. n : Append(Readings, sample)[i] = Readings[i]
          /\ Append(Readings, sample)[n + 1] = sample
      BY <1>2, <2>4, AppendProperties
    <2>8. ASSUME NEW i \in 1 .. n + 1 PROVE Readings'[i] = Append(Readings, sample)[i]
      <3>1. CASE i = n + 1
        BY <2>5, <2>6, <2>7, <3>1
      <3>2. CASE i # n + 1
        <4>1. i \in 1 .. n /\ i \in 1 .. mCount /\ i - 1 \in 0 .. n - 1
          BY <2>4, <3>2
        <4> QED
          BY <1>2, <2>5, <2>6, <2>7, <4>1
      <3> QED
        BY <3>1, <3>2
    <2>9. Readings' = Append(Readings, sample)
      <3>1. Len(Readings') = n + 1
        BY <2>6
      <3> QED
        BY <2>6, <2>7, <2>8, <3>1, SeqEqual
    <2> QED
      BY <1>1, <2>3, <2>9 DEF W!Push
  <1> QED
    BY <1>3, <1>4

LEMMA ClearRefines == TypeOK' /\ Clear => W!Clear
  <1> SUFFICES ASSUME TypeOK', Clear PROVE W!Clear
    OBVIOUS
  <1>1. mCount' = 0 /\ UNCHANGED <<now, due>>
    BY DEF Clear
  <1>2. Readings' = << >>
    BY <1>1 DEF Readings
  <1> QED
    BY <1>1, <1>2 DEF W!Clear

LEMMA StepRefines == TypeOK /\ TypeOK' /\ [Next]_vars => [W!Next]_W!vars
  <1> SUFFICES ASSUME TypeOK, TypeOK', [Next]_vars PROVE [W!Next]_W!vars
    OBVIOUS
  <1>1. CASE Prune
    BY <1>1, PruneRefines DEF W!Next
  <1>2. CASE Push
    BY <1>2, PushRefines DEF W!Next
  <1>3. CASE Clear
    BY <1>3, ClearRefines DEF W!Next
  <1>4. CASE UNCHANGED vars
    <2>1. Readings' = Readings
      BY <1>4 DEF vars, Readings, Reading, OffsetOf
    <2> QED
      BY <1>4, <2>1 DEF vars, W!vars
  <1> QED
    BY <1>1, <1>2, <1>3, <1>4 DEF Next

\* The ring buffer, wrapping around, growing and failing to grow, implements the window
\* of readings that LightLuxManager reasons about.
THEOREM RingImplementsWindow == Spec => IsLuxWindow
  <1>1. TypeOK /\ [Next]_vars => TypeOK'
    BY StepTyped
  <1> QED
    BY <1>1, InitTyped, InitRefines, StepRefines, PTL DEF Spec, IsLuxWindow, W!Spec
=============================================================================
