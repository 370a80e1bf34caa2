---------------------- MODULE BrightnessDimming_proofs ----------------------
(***************************************************************************)
(* Proofs about BrightnessDimming, for any range, duration and word size,  *)
(* when the threads that update the brightness and the queue that runs the *)
(* ramp take turns.                                                        *)
(***************************************************************************)
EXTENDS BrightnessDimming, TLAPS

USE DimmingAssumption

-----------------------------------------------------------------------------
(* The arithmetic of StartDimming. *)

LEMMA DivisionBounds ==
    ASSUME NEW a \in Nat, NEW b \in Nat \ {0}
    PROVE  /\ a \div b \in Nat
           /\ (a \div b) * b <= a
           /\ a < (a \div b) * b + b
           /\ a \div b <= a
  OBVIOUS

LEMMA SmallRemainder ==
    ASSUME NEW a \in Nat, a < Modulus PROVE a % Modulus = a
  OBVIOUS

LEMMA SizeBounds ==
    ASSUME NEW change \in -MaxLevel .. MaxLevel, change # 0,
           NEW steps \in 1 .. AtLeastOne(MaxSteps)
    PROVE  /\ Abs(change) \in 1 .. MaxLevel
           /\ StrideSize(change, steps) \in 1 .. MaxLevel
           /\ steps \in Nat \ {0} /\ steps <= MaxSteps + 1
  <1>1. Abs(change) \in 1 .. MaxLevel
    BY DEF Abs
  <1>2. steps \in Nat \ {0} /\ steps <= MaxSteps + 1
    BY DEF AtLeastOne
  <1>3. Abs(change) \div steps \in Nat /\ Abs(change) \div steps <= Abs(change)
    BY <1>1, <1>2, DivisionBounds
  <1> QED
    BY <1>1, <1>2, <1>3 DEF StrideSize, AtLeastOne

\* All the steps together never lead beyond the target, also when the duration asks for
\* more steps than there are levels and the unsigned subtraction wraps around.
LEMMA TotalStepsBound ==
    ASSUME NEW change \in -MaxLevel .. MaxLevel, change # 0,
           NEW steps \in 1 .. AtLeastOne(MaxSteps)
    PROVE  /\ TotalSteps(change, steps) \in Nat
           /\ TotalSteps(change, steps) < Modulus - 1
           /\ TotalSteps(change, steps) * StrideSize(change, steps) <= Abs(change)
  <1> DEFINE a == Abs(change)
             q == StrideSize(change, steps)
             t == TotalSteps(change, steps)
  <1>1. a \in 1 .. MaxLevel /\ q \in 1 .. MaxLevel /\ steps \in Nat \ {0}
        /\ steps <= MaxSteps + 1
    BY SizeBounds
  <1>2. CASE steps = 1
    <2>1. a \div steps = a
      BY <1>1, <1>2
    <2>2. q = a /\ t = 1
      BY <1>1, <1>2, <2>1 DEF StrideSize, AtLeastOne, TotalSteps
    <2> QED
      BY <1>1, <2>2
  <1>3. CASE steps > 1 /\ a < steps
    <2>1. a \div steps = 0
      BY <1>1, <1>3
    <2>2. q = 1
      BY <2>1 DEF StrideSize, AtLeastOne
    <2>3. (a - q * steps) % Modulus = Modulus + a - steps
      BY <1>1, <1>3, <2>2
    <2>4. (Modulus + a - steps) \div 1 = Modulus + a - steps
      BY <1>1
    <2>5. (Modulus + a - steps + steps) % Modulus = a
      BY <1>1
    <2>6. t = a
      BY <1>1, <1>3, <2>2, <2>3, <2>4, <2>5 DEF TotalSteps
    <2> QED
      BY <1>1, <2>2, <2>6
  <1>4. CASE steps > 1 /\ a >= steps
    <2> DEFINE r == a - q * steps
               k == r \div q
    <2>1. a \div steps \in Nat /\ (a \div steps) * steps <= a /\ a \div steps >= 1
      BY <1>1, <1>4, DivisionBounds
    <2>2. q = a \div steps
      BY <2>1 DEF StrideSize, AtLeastOne
    <2>3. q * steps \in Nat /\ q * steps <= a /\ r \in Nat /\ r <= a
      BY <1>1, <2>1, <2>2
    <2>4. r % Modulus = r
      BY <1>1, <2>3, SmallRemainder
    <2>5. k \in Nat /\ k * q <= r /\ k <= r
      <3>1. r \in Nat /\ q \in Nat \ {0}
        BY <1>1, <2>3
      <3> HIDE DEF r, q
      <3> QED
        BY <3>1, DivisionBounds
    <2>6. k + steps < Modulus /\ k + steps \in Nat
      BY <1>1, <2>3, <2>5
    <2>7. t = k + steps
      <3>1. (k + steps) % Modulus = k + steps
        BY <2>6, SmallRemainder
      <3>2. t = (((a - q * steps) % Modulus) \div q + steps) % Modulus
        BY <1>4 DEF TotalSteps
      <3> QED
        BY <2>4, <3>1, <3>2
    <2>8. t * q = k * q + steps * q
      BY <1>1, <2>5, <2>7
    <2>9. k + steps < Modulus - 1
      BY <1>1, <2>3, <2>5, <1>4
    <2> QED
      BY <1>1, <2>3, <2>5, <2>6, <2>7, <2>8, <2>9
  <1> QED
    BY <1>1, <1>2, <1>3, <1>4

-----------------------------------------------------------------------------
(* Type correctness. *)

LEMMA IdleTyped ==
    /\ 0 \in Levels /\ 0 \in Words /\ 0 \in -MaxLevel .. MaxLevel
    /\ \A v \in Levels : v \in Words
    /\ IdleStep \in [pc : {"idle", "changed", "write", "end"}, value : Words,
                    last : BOOLEAN]
    /\ IdleUpdate \in [pc : {"idle", "cancel", "start", "raise", "submit"},
                       kind : {"stop", "set", "ramp"}, from : Levels,
                       to : Levels, steps : 0 .. MaxSteps]
  <1>1. 0 \in Levels /\ 0 \in Words /\ 0 \in -MaxLevel .. MaxLevel /\ 0 \in 0 .. MaxSteps
        /\ \A v \in Levels : v \in Words
    BY DEF Levels, Words
  <1> QED
    BY <1>1 DEF IdleStep, IdleUpdate

LEMMA InitTyped == Init => TypeOK
  <1>1. 0 \in 0 .. MaxTasks
    OBVIOUS
  <1> QED
    BY <1>1, IdleTyped DEF Init, TypeOK

LEMMA StrideTyped ==
    ASSUME NEW change \in -MaxLevel .. MaxLevel, change # 0,
           NEW steps \in 1 .. AtLeastOne(MaxSteps)
    PROVE  /\ Stride(change, steps) \in -MaxLevel .. MaxLevel
           /\ TotalSteps(change, steps) \in Words
  BY SizeBounds, TotalStepsBound DEF Stride, Words

LEMMA StepTyped == TypeOK /\ [Next]_vars => TypeOK'
  <1> SUFFICES ASSUME TypeOK, [Next]_vars PROVE TypeOK'
    OBVIOUS
  <1> USE DEF TypeOK, rampVars
  <1>1. ASSUME NEW c \in Callers, NEW to \in Levels, NEW ramp \in BOOLEAN,
               NEW from \in Levels, NEW steps \in 0 .. MaxSteps,
               UpdateBrightness(c, to, ramp, from, steps)
        PROVE  TypeOK'
    BY <1>1 DEF UpdateBrightness, Begin
  <1>2. ASSUME NEW c \in Callers, StopDimming(c) PROVE TypeOK'
    BY <1>2, IdleTyped DEF StopDimming, Begin
  <1>3. ASSUME NEW c \in Callers, Run(c) PROVE TypeOK'
    <2>1. CASE CancelTask(c)
      BY <2>1 DEF CancelTask, Return, Goto, IdleUpdate, Levels
    <2>2. CASE SetBrightness(c)
      BY <2>2 DEF SetBrightness, Return, IdleUpdate, Levels, Words
    <2>3. CASE StartDimming(c)
      <3> DEFINE u == update[c]
                 steps == AtLeastOne(u.steps)
                 change == u.to - u.from
      <3>1. u.to \in Levels /\ u.from \in Levels /\ u.steps \in 0 .. MaxSteps
        OBVIOUS
      <3>2. change \in -MaxLevel .. MaxLevel /\ steps \in 1 .. AtLeastOne(MaxSteps)
            /\ steps \in Words /\ u.from \in Words
        BY <3>1 DEF Levels, AtLeastOne, Words
      <3>3. update' \in [Callers -> [pc : {"idle", "cancel", "start", "raise", "submit"},
                               kind : {"stop", "set", "ramp"}, from : Levels,
                               to : Levels, steps : 0 .. MaxSteps]]
        BY <2>3 DEF StartDimming, Return, Goto, IdleUpdate, Levels
      <3>4. /\ mToBrightness' \in Levels /\ mCurrentBrightness' \in Words
            /\ mTotalSteps' \in Words /\ mCurrentStep' \in Words
            /\ mStride' \in -MaxLevel .. MaxLevel
        <4>1. CASE mDimming
          BY <2>3, <4>1 DEF StartDimming
        <4>2. CASE ~mDimming /\ change = 0
          BY <2>3, <4>2, <3>1, <3>2 DEF StartDimming
        <4>3. CASE ~mDimming /\ change # 0
          <5>1. /\ mToBrightness' = u.to /\ mCurrentBrightness' = u.from
                /\ mTotalSteps' = TotalSteps(change, steps)
                /\ mStride' = Stride(change, steps) /\ mCurrentStep' = 0
            BY <2>3, <4>3 DEF StartDimming
          <5> QED
            BY <5>1, <4>3, <3>1, <3>2, StrideTyped DEF Words
        <4> QED
          BY <4>1, <4>2, <4>3
      <3> QED
        BY <2>3, <3>3, <3>4 DEF StartDimming
    <2>4. CASE RaiseDimming(c)
      BY <2>4 DEF RaiseDimming, Goto
    <2>5. CASE SubmitFirst(c)
      BY <2>5 DEF SubmitFirst, Submit, Return, IdleUpdate, Levels, Tasks
    <2> QED
      BY <1>3, <2>1, <2>2, <2>3, <2>4, <2>5 DEF Run
  <1>4. ASSUME NEW n \in Tasks, NextStep(n) PROVE TypeOK'
    <2>1. Step.value \in Words /\ Step \in [pc : {"changed"}, value : Words, last : BOOLEAN]
      <3>1. (mCurrentBrightness + mStride) % Modulus \in Words
        BY DEF Words
      <3>2. mToBrightness \in Words
        BY DEF Levels, Words
      <3> QED
        BY <3>1, <3>2 DEF Step
    <2>2. (mCurrentStep + 1) % Modulus \in Words
      BY DEF Words
    <2> QED
      BY <1>4, <2>1, <2>2 DEF NextStep
  <1>5. CASE Queue
    <2>1. CASE OnChanged
      BY <2>1 DEF OnChanged
    <2>2. CASE WriteStep
      BY <2>2 DEF WriteStep
    <2>3. CASE EndStep
      <3>1. tasks' \subseteq Tasks /\ handle' \in 0 .. MaxTasks
        <4>1. CASE step.last
          BY <2>3, <4>1 DEF EndStep
        <4>2. CASE ~step.last
          <5>1. PICK n \in Tasks : tasks' = tasks \cup {n} /\ handle' = n
            BY <2>3, <4>2 DEF EndStep, Submit
          <5> QED
            BY <5>1 DEF Tasks
        <4> QED
          BY <4>1, <4>2
      <3>2. mDimming' \in BOOLEAN
        BY <2>3 DEF EndStep
      <3>3. step' = IdleStep /\ UNCHANGED <<rampVars, update, panel, wanted>>
        BY <2>3 DEF EndStep
      <3> QED
        BY <3>1, <3>2, <3>3, IdleTyped
    <2> QED
      BY <1>5, <2>1, <2>2, <2>3 DEF Queue
  <1>6. CASE UNCHANGED vars
    BY <1>6 DEF vars
  <1> QED
    BY <1>1, <1>2, <1>3, <1>4, <1>5, <1>6 DEF Next

\* The atomics stay within uint32_t and the levels, however the threads interleave.
THEOREM TypeCorrect == Spec => []TypeOK
  BY InitTyped, StepTyped, PTL DEF Spec

-----------------------------------------------------------------------------
(* The range of the panel. *)

OneCaller == \A c, d \in Callers : c = d

\* What is left of the ramp is at least what the remaining steps will cover.
RampOK ==
    /\ mCurrentBrightness \in Levels
    /\ mTotalSteps < Modulus - 1
    /\ mCurrentStep <= mTotalSteps
    /\ mStride # 0
    /\ mStride > 0 =>
          (mTotalSteps - mCurrentStep) * mStride <= mToBrightness - mCurrentBrightness
    /\ mStride < 0 =>
          (mTotalSteps - mCurrentStep) * (-mStride) <= mCurrentBrightness - mToBrightness

Ramping == (mDimming /\ ~step.last) \/ \E c \in Callers : At(c, "raise")

RangeInv ==
    /\ Ramping => RampOK
    /\ panel \in Levels
    /\ step.value \in Levels
    /\ step # IdleStep => \A c \in Callers : At(c, "idle")

LEMMA InitRange == Init => RangeInv
  <1> SUFFICES ASSUME Init PROVE RangeInv
    OBVIOUS
  <1>1. ~mDimming /\ (\A c \in Callers : update[c].pc = "idle")
    BY DEF Init, IdleUpdate
  <1>2. ~Ramping
    BY <1>1 DEF Ramping, At
  <1>3. step = IdleStep /\ IdleStep.value = 0 /\ 0 \in Levels
    BY IdleTyped DEF Init, IdleStep
  <1> QED
    BY <1>2, <1>3 DEF Init, RangeInv

\* StartDimming leaves a ramp whose steps do not overshoot.
LEMMA StartGivesRamp ==
    ASSUME TypeOK, NEW c \in Callers, StartDimming(c), ~mDimming,
           update[c].to # update[c].from
    PROVE  RampOK'
  <1> DEFINE u == update[c]
             steps == AtLeastOne(u.steps)
             change == u.to - u.from
             size == StrideSize(change, steps)
             total == TotalSteps(change, steps)
  <1>1. u.to \in Levels /\ u.from \in Levels /\ u.steps \in 0 .. MaxSteps
    BY DEF TypeOK
  <1>2. change \in -MaxLevel .. MaxLevel /\ steps \in 1 .. AtLeastOne(MaxSteps)
        /\ change # 0
    BY <1>1 DEF Levels, AtLeastOne
  <1>3. size \in 1 .. MaxLevel
    BY <1>2, SizeBounds
  <1>4. total \in Nat /\ total < Modulus - 1 /\ total * size <= Abs(change)
    BY <1>2, TotalStepsBound
  <1>5. /\ mToBrightness' = u.to /\ mCurrentBrightness' = u.from
        /\ mTotalSteps' = total /\ mCurrentStep' = 0
        /\ mStride' = IF change < 0 THEN -size ELSE size
    BY <1>2 DEF StartDimming, Stride
  <1>6. (total - 0) * size <= Abs(change)
    BY <1>3, <1>4
  <1>7. CASE change < 0
    <2>1. mStride' = -size /\ -(-size) = size /\ Abs(change) = u.from - u.to
      BY <1>1, <1>2, <1>3, <1>5, <1>7 DEF Abs, Levels
    <2> QED
      BY <1>1, <1>3, <1>4, <1>5, <1>6, <2>1 DEF RampOK
  <1>8. CASE change > 0
    <2>1. mStride' = size /\ Abs(change) = u.to - u.from
      BY <1>1, <1>2, <1>3, <1>5, <1>8 DEF Abs, Levels
    <2> QED
      BY <1>1, <1>3, <1>4, <1>5, <1>6, <2>1 DEF RampOK
  <1> QED
    BY <1>2, <1>7, <1>8

\* One more step of such a ramp is a level, and what is left still covers the rest.
LEMMA NextGivesRamp ==
    ASSUME TypeOK, RampOK
    PROVE  /\ Step.value \in Levels
           /\ (mCurrentStep + 1) % Modulus = mCurrentStep + 1
           /\ ~Step.last =>
                /\ Step.value = mCurrentBrightness + mStride
                /\ mCurrentStep + 1 <= mTotalSteps
                /\ mStride > 0 =>
                     (mTotalSteps - (mCurrentStep + 1)) * mStride
                        <= mToBrightness - Step.value
                /\ mStride < 0 =>
                     (mTotalSteps - (mCurrentStep + 1)) * (-mStride)
                        <= Step.value - mToBrightness
  <1> DEFINE next == mCurrentBrightness + mStride
             left == mTotalSteps - mCurrentStep
  <1>1. /\ mToBrightness \in Levels /\ mCurrentBrightness \in Levels
        /\ mStride \in Int /\ mStride # 0
        /\ mTotalSteps \in Nat /\ mCurrentStep \in Nat /\ left \in Nat
    BY DEF TypeOK, RampOK, Levels, Words
  <1>2. (mCurrentStep + 1) % Modulus = mCurrentStep + 1
    BY <1>1, SmallRemainder DEF RampOK
  <1>3. CASE mCurrentStep + 1 > mTotalSteps
    <2>1. Step.value = mToBrightness /\ Step.last
      BY <1>1, <1>3 DEF Step
    <2> QED
      BY <1>1, <1>2, <2>1
  <1>4. CASE mCurrentStep + 1 <= mTotalSteps
    <2>1. left - 1 \in Nat /\ left - 1 = mTotalSteps - (mCurrentStep + 1)
      BY <1>1, <1>4
    <2>2. CASE mStride > 0
      <3>1. (left - 1) * mStride = left * mStride - mStride /\ (left - 1) * mStride >= 0
        BY <1>1, <2>1, <2>2
      <3>2. left * mStride <= mToBrightness - mCurrentBrightness
        BY <2>2 DEF RampOK
      <3>3. (left - 1) * mStride <= mToBrightness - next
        BY <1>1, <3>1, <3>2 DEF Levels
      <3>4. next \in Levels
        BY <1>1, <2>2, <3>1, <3>3 DEF Levels
      <3>5. next % Modulus = next
        BY <3>4, SmallRemainder DEF Levels
      <3>6. Step.value = next \/ (Step.value = mToBrightness /\ Step.last)
        BY <3>5 DEF Step
      <3> QED
        BY <1>1, <1>2, <1>4, <2>1, <2>2, <3>3, <3>4, <3>6
    <2>3. CASE mStride < 0
      <3>1. (left - 1) * (-mStride) = left * (-mStride) + mStride
            /\ (left - 1) * (-mStride) >= 0
        BY <1>1, <2>1, <2>3
      <3>2. left * (-mStride) <= mCurrentBrightness - mToBrightness
        BY <2>3 DEF RampOK
      <3>3. (left - 1) * (-mStride) <= next - mToBrightness
        BY <1>1, <3>1, <3>2 DEF Levels
      <3>4. next \in Levels
        BY <1>1, <2>3, <3>1, <3>3 DEF Levels
      <3>5. next % Modulus = next
        BY <3>4, SmallRemainder DEF Levels
      <3>6. Step.value = next \/ (Step.value = mToBrightness /\ Step.last)
        BY <3>5 DEF Step
      <3> QED
        BY <1>1, <1>2, <1>4, <2>1, <2>3, <3>3, <3>4, <3>6
    <2> QED
      BY <1>1, <2>2, <2>3
  <1> QED
    BY <1>1, <1>3, <1>4

\* A step that leaves the ramp and mQueue alone, and neither raises mDimming nor sends a
\* caller to "raise", keeps the invariant.
LEMMA CallerStep ==
    ASSUME TypeOK, RangeInv, OneCaller, NEW c \in Callers, step = IdleStep,
           UNCHANGED <<rampVars, step>>, mDimming' => mDimming,
           update'[c].pc # "raise", panel' \in Levels
    PROVE  RangeInv'
  <1>1. \A d \in Callers : ~At(d, "raise")'
    BY DEF OneCaller, At
  <1>2. Ramping' => Ramping
    BY <1>1 DEF Ramping
  <1>3. RampOK => RampOK'
    BY DEF RampOK, rampVars
  <1> QED
    BY <1>2, <1>3 DEF RangeInv

LEMMA StepRange ==
    ASSUME StepAlone, OneCaller
    PROVE  TypeOK /\ RangeInv /\ [Next]_vars => RangeInv'
  <1> SUFFICES ASSUME TypeOK, RangeInv, [Next]_vars PROVE RangeInv'
    OBVIOUS
  <1> USE DEF CallersMayRun
  <1>1. ASSUME NEW c \in Callers, NEW to \in Levels, NEW ramp \in BOOLEAN,
               NEW from \in Levels, NEW steps \in 0 .. MaxSteps,
               UpdateBrightness(c, to, ramp, from, steps)
        PROVE  RangeInv'
    <2>1. update'[c].pc # "raise"
      BY <1>1 DEF UpdateBrightness, Begin, TypeOK
    <2> QED
      BY <1>1, <2>1, CallerStep DEF UpdateBrightness, Begin, RangeInv, rampVars
  <1>2. ASSUME NEW c \in Callers, StopDimming(c) PROVE RangeInv'
    <2>1. update'[c].pc # "raise"
      BY <1>2 DEF StopDimming, Begin, TypeOK, IdleUpdate
    <2> QED
      BY <1>2, <2>1, CallerStep DEF StopDimming, Begin, RangeInv
  <1>3. ASSUME NEW c \in Callers, Run(c) PROVE RangeInv'
    <2>1. CASE CancelTask(c)
      <3>1. update'[c].pc # "raise"
        BY <2>1 DEF CancelTask, Return, Goto, IdleUpdate, TypeOK
      <3> QED
        BY <2>1, <3>1, CallerStep DEF CancelTask, RangeInv
    <2>2. CASE SetBrightness(c)
      <3>1. update'[c].pc # "raise" /\ panel' \in Levels
        BY <2>2 DEF SetBrightness, Return, IdleUpdate, TypeOK
      <3> QED
        BY <2>2, <3>1, CallerStep DEF SetBrightness
    <2>3. CASE StartDimming(c)
      <3>0. /\ step = IdleStep /\ step' = IdleStep /\ mDimming' = mDimming
            /\ panel' = panel
        BY <2>3 DEF StartDimming
      <3>1. CASE mDimming
        <4>1. UNCHANGED rampVars /\ update'[c].pc # "raise"
          BY <2>3, <3>1 DEF StartDimming, Return, IdleUpdate, TypeOK
        <4> QED
          BY <3>0, <4>1, CallerStep DEF RangeInv
      <3>2. CASE ~mDimming /\ update[c].to = update[c].from
        <4>1. update'[c].pc # "raise"
          BY <2>3, <3>2 DEF StartDimming, Return, IdleUpdate, TypeOK, Levels
        <4>2. ~Ramping'
          BY <3>0, <3>2, <4>1 DEF Ramping, OneCaller, At
        <4> QED
          BY <3>0, <4>2 DEF RangeInv
      <3>3. CASE ~mDimming /\ update[c].to # update[c].from
        BY <2>3, <3>0, <3>3, StartGivesRamp DEF RangeInv
      <3> QED
        BY <3>1, <3>2, <3>3
    <2>4. CASE RaiseDimming(c)
      <3>1. step = IdleStep /\ ~step.last /\ step' = step /\ panel' = panel
        BY <2>4 DEF RaiseDimming, IdleStep
      <3>2. RampOK
        BY <2>4 DEF RaiseDimming, RangeInv, Ramping
      <3>3. RampOK'
        BY <2>4, <3>2 DEF RaiseDimming, RampOK, rampVars
      <3> QED
        BY <3>1, <3>3 DEF RangeInv
    <2>5. CASE SubmitFirst(c)
      <3>1. update'[c].pc # "raise"
        BY <2>5 DEF SubmitFirst, Return, IdleUpdate, TypeOK
      <3> QED
        BY <2>5, <3>1, CallerStep DEF SubmitFirst, RangeInv
    <2> QED
      BY <1>3, <2>1, <2>2, <2>3, <2>4, <2>5 DEF Run
  <1>4. ASSUME NEW n \in Tasks, NextStep(n) PROVE RangeInv'
    <2>1. /\ step = IdleStep /\ panel' = panel /\ UNCHANGED <<update, mDimming>>
          /\ \A c \in Callers : At(c, "idle")
      BY <1>4 DEF NextStep
    <2>2. \A c \in Callers : At(c, "idle")' /\ ~At(c, "raise")'
      BY <2>1 DEF At
    <2>3. CASE ~mDimming
      <3>1. step' = IdleStep
        BY <1>4, <2>3 DEF NextStep
      <3> QED
        BY <2>1, <2>2, <2>3, <3>1 DEF RangeInv, Ramping
    <2>4. CASE mDimming
      <3>1. RampOK
        BY <2>1, <2>4 DEF RangeInv, Ramping, IdleStep
      <3>2. /\ mCurrentStep' = (mCurrentStep + 1) % Modulus /\ step' = Step
            /\ mCurrentBrightness' = Step.value
            /\ UNCHANGED <<mToBrightness, mTotalSteps, mStride>>
        BY <1>4, <2>4 DEF NextStep
      <3>3. ~step'.last => RampOK'
        <4>1. SUFFICES ASSUME ~Step.last PROVE RampOK'
          BY <3>2
        <4>2. /\ mCurrentStep' = mCurrentStep + 1 /\ mCurrentStep' <= mTotalSteps'
              /\ mCurrentBrightness' \in Levels
          BY <3>1, <3>2, <4>1, NextGivesRamp
        <4>3. /\ mStride' > 0 => (mTotalSteps' - mCurrentStep') * mStride'
                                    <= mToBrightness' - mCurrentBrightness'
              /\ mStride' < 0 => (mTotalSteps' - mCurrentStep') * (-mStride')
                                    <= mCurrentBrightness' - mToBrightness'
          BY <3>1, <3>2, <4>1, <4>2, NextGivesRamp
        <4> QED
          BY <3>1, <3>2, <4>2, <4>3 DEF RampOK
      <3>4. step'.value \in Levels
        BY <3>1, <3>2, NextGivesRamp
      <3> QED
        BY <2>1, <2>2, <3>3, <3>4 DEF RangeInv, Ramping
    <2> QED
      BY <2>3, <2>4
  <1>5. CASE Queue
    <2>1. step.pc # "idle"
      BY <1>5 DEF Queue, OnChanged, WriteStep, EndStep
    <2>2. step # IdleStep
      BY <2>1 DEF IdleStep
    <2>3. \A c \in Callers : At(c, "idle")' /\ ~At(c, "raise")'
      BY <1>5, <2>2 DEF RangeInv, Queue, OnChanged, WriteStep, EndStep, At
    <2>4. UNCHANGED rampVars
      BY <1>5 DEF Queue, OnChanged, WriteStep, EndStep
    <2>5. RampOK => RampOK'
      BY <2>4 DEF RampOK, rampVars
    <2>6. CASE OnChanged \/ WriteStep
      <3>1. /\ step'.value = step.value /\ step'.last = step.last
            /\ mDimming' = mDimming /\ panel' \in Levels
        BY <2>6 DEF OnChanged, WriteStep, RangeInv, TypeOK
      <3> QED
        BY <2>3, <2>5, <3>1 DEF RangeInv, Ramping
    <2>7. CASE EndStep
      <3>1. /\ step' = IdleStep /\ panel' = panel /\ IdleStep.value = 0 /\ 0 \in Levels
            /\ mDimming' => mDimming /\ ~step.last
        BY <2>7, IdleTyped DEF EndStep, IdleStep
      <3> QED
        BY <2>3, <2>5, <3>1 DEF RangeInv, Ramping
    <2> QED
      BY <1>5, <2>6, <2>7 DEF Queue
  <1>6. CASE UNCHANGED vars
    BY <1>6 DEF vars, rampVars, RangeInv, Ramping, RampOK, At
  <1> QED
    BY <1>1, <1>2, <1>3, <1>4, <1>5, <1>6 DEF Next

\* When one thread at a time updates the brightness and takes turns with NextStep, the
\* panel never gets a value that wrapped around.
THEOREM PanelStaysInRange == StepAlone /\ OneCaller /\ Spec => []PanelInRange
  <1> SUFFICES ASSUME StepAlone, OneCaller PROVE Spec => []PanelInRange
    OBVIOUS
  <1>1. TypeOK /\ RangeInv /\ [Next]_vars => RangeInv'
    BY StepRange
  <1>2. RangeInv => PanelInRange
    BY DEF RangeInv, PanelInRange
  <1> QED
    BY <1>1, <1>2, InitRange, TypeCorrect, PTL DEF Spec

\* Under the same conditions no step of a ramp leads past its target or away from it.
THEOREM RampsApproach == StepAlone /\ OneCaller /\ Spec => RampApproaches
  <1> SUFFICES ASSUME StepAlone, OneCaller PROVE Spec => RampApproaches
    OBVIOUS
  <1>1. TypeOK /\ RangeInv /\ [Next]_vars => RangeInv'
    BY StepRange
  <1>2. TypeOK /\ RangeInv /\ [Next]_vars =>
          [mDimming /\ mCurrentStep' = mCurrentStep + 1
           => Toward(mToBrightness, mCurrentBrightness, mCurrentBrightness')]_vars
    <2> SUFFICES ASSUME TypeOK, RangeInv, Next, mDimming,
                        mCurrentStep' = mCurrentStep + 1
                 PROVE  Toward(mToBrightness, mCurrentBrightness, mCurrentBrightness')
      OBVIOUS
    <2>1. mCurrentStep \in Nat
      BY DEF TypeOK, Words
    <2>2. \E n \in Tasks : NextStep(n)
      <3>1. mCurrentStep' # mCurrentStep /\ mDimming
        BY <2>1
      <3>2. \A c \in Callers : ~StopDimming(c) /\ ~Run(c)
        BY <3>1 DEF StopDimming, Begin, Run, CancelTask, SetBrightness, StartDimming,
           RaiseDimming, SubmitFirst, rampVars
      <3>3. \A c \in Callers, to \in Levels, ramp \in BOOLEAN, from \in Levels,
               steps \in 0 .. MaxSteps : ~UpdateBrightness(c, to, ramp, from, steps)
        BY <3>1 DEF UpdateBrightness, Begin, rampVars
      <3>4. ~Queue
        BY <3>1 DEF Queue, OnChanged, WriteStep, EndStep, rampVars
      <3> QED
        BY <3>2, <3>3, <3>4 DEF Next
    <2>3. PICK n \in Tasks : NextStep(n)
      BY <2>2
    <2>4. mCurrentBrightness' = Step.value /\ step = IdleStep
      BY <2>3 DEF NextStep
    <2>5. RampOK
      BY <2>4 DEF RangeInv, Ramping, IdleStep
    <2>6. /\ mToBrightness \in Levels /\ mCurrentBrightness \in Levels
          /\ mStride \in Int /\ mStride # 0 /\ Step.value \in Levels
          /\ mTotalSteps \in Nat /\ mTotalSteps - mCurrentStep \in Nat
      BY <2>1, <2>5, NextGivesRamp DEF TypeOK, RampOK, Words
    <2>7. CASE Step.last
      BY <2>4, <2>6, <2>7 DEF Step, Toward, Levels
    <2>8. CASE ~Step.last
      <3>1. Step.value = mCurrentBrightness + mStride /\ mCurrentStep + 1 <= mTotalSteps
        BY <2>5, <2>8, NextGivesRamp
      <3>2. mTotalSteps - (mCurrentStep + 1) \in Nat
        BY <2>1, <2>6, <3>1
      <3>3. CASE mStride > 0
        <4>1. (mTotalSteps - (mCurrentStep + 1)) * mStride <= mToBrightness - Step.value
          BY <2>5, <2>8, <3>3, NextGivesRamp
        <4>2. (mTotalSteps - (mCurrentStep + 1)) * mStride >= 0
          BY <2>6, <3>2, <3>3
        <4> QED
          BY <2>4, <2>6, <3>1, <3>3, <4>1, <4>2 DEF Toward, Levels
      <3>4. CASE mStride < 0
        <4>1. (mTotalSteps - (mCurrentStep + 1)) * (-mStride) <= Step.value - mToBrightness
          BY <2>5, <2>8, <3>4, NextGivesRamp
        <4>2. (mTotalSteps - (mCurrentStep + 1)) * (-mStride) >= 0
          BY <2>6, <3>2, <3>4
        <4> QED
          BY <2>4, <2>6, <3>1, <3>4, <4>1, <4>2 DEF Toward, Levels
      <3> QED
        BY <2>6, <3>3, <3>4
    <2> QED
      BY <2>7, <2>8
  <1> QED
    BY <1>1, <1>2, InitRange, TypeCorrect, PTL DEF Spec, RampApproaches

-----------------------------------------------------------------------------
(* The brightness that was asked for last. *)

AllIdle == \A c \in Callers : At(c, "idle")

\* Whoever changes the brightness works for what was asked for last: the caller until it has set
\* it or raised mDimming, then the ramp, whose last step is the target.
SettleInv ==
    /\ step # IdleStep => mDimming
    /\ mDimming => mToBrightness = wanted
    /\ mDimming /\ step = IdleStep /\ AllIdle => tasks # {}
    /\ step.pc \in {"changed", "write"} /\ step.last => step.value = mToBrightness
    /\ step.pc = "end" /\ step.last => panel = mToBrightness
    /\ AllIdle /\ ~mDimming /\ wanted # None => panel = wanted
    /\ \A c \in Callers :
           LET u == update[c] IN
           /\ u.pc \in {"cancel", "start", "raise"} => ~mDimming
           /\ u.pc = "submit" => mDimming
           /\ u.pc = "start" => u.kind # "stop"
           /\ u.pc \in {"raise", "submit"} => u.kind = "ramp" /\ mToBrightness = u.to
           /\ u.pc # "idle" => wanted = IF u.kind = "stop" THEN None ELSE u.to
           /\ u.pc \in {"cancel", "start"} /\ u.kind = "ramp" => u.from = panel

LEMMA InitSettle == Init => SettleInv
  BY DEF Init, SettleInv, AllIdle, At, IdleUpdate, IdleStep

LEMMA SettleStep ==
    ASSUME StepAlone, OneCaller, FromPanel
    PROVE  TypeOK /\ RangeInv /\ SettleInv /\ [Next]_vars => SettleInv'
  <1> SUFFICES ASSUME TypeOK, RangeInv, SettleInv, [Next]_vars PROVE SettleInv'
    OBVIOUS
  <1> USE DEF CallersMayRun
  <1>a. ASSUME NEW c \in Callers, NEW call, step = IdleStep, Begin(c, call), At(c, "idle"),
               call.kind # "stop" \/ mDimming,
               call \in [pc : {"idle"}, kind : {"stop", "set", "ramp"}, from : Levels,
                         to : Levels, steps : 0 .. MaxSteps],
               call.kind = "ramp" => call.from = panel,
               wanted' = IF call.kind = "stop" THEN None ELSE call.to
        PROVE  SettleInv'
    <2>1. /\ ~mDimming' /\ step' = IdleStep /\ panel' = panel
          /\ update'[c] = [call EXCEPT !.pc = IF mDimming THEN "cancel" ELSE "start"]
      BY <1>a DEF Begin, TypeOK
    <2>2. /\ update'[c].pc = IF mDimming THEN "cancel" ELSE "start"
          /\ update'[c].kind = call.kind /\ update'[c].from = call.from
          /\ update'[c].to = call.to
      BY <1>a, <2>1
    <2>3. ~AllIdle' /\ step.pc = "idle"
      BY <1>a, <2>2 DEF AllIdle, At, IdleStep
    <2> QED
      BY <1>a, <2>1, <2>2, <2>3 DEF SettleInv, OneCaller
  <1>1. ASSUME NEW c \in Callers, NEW to \in Levels, NEW ramp \in BOOLEAN,
               NEW from \in Levels, NEW steps \in 0 .. MaxSteps,
               UpdateBrightness(c, to, ramp, from, steps)
        PROVE  SettleInv'
    <2> DEFINE call == [pc |-> "idle", kind |-> IF ramp THEN "ramp" ELSE "set",
                        from |-> from, to |-> to, steps |-> steps]
    <2>1. /\ Begin(c, call) /\ At(c, "idle") /\ step = IdleStep
          /\ wanted' = to /\ from = panel
      BY <1>1 DEF UpdateBrightness, Begin
    <2>2. call \in [pc : {"idle"}, kind : {"stop", "set", "ramp"}, from : Levels,
                    to : Levels, steps : 0 .. MaxSteps]
      OBVIOUS
    <2>3. call.kind # "stop" /\ call.from = panel /\ call.to = wanted'
      BY <2>1
    <2> HIDE DEF call
    <2> QED
      BY <1>a, <2>1, <2>2, <2>3
  <1>2. ASSUME NEW c \in Callers, StopDimming(c) PROVE SettleInv'
    <2>1. /\ Begin(c, IdleUpdate) /\ At(c, "idle") /\ step = IdleStep /\ mDimming
          /\ wanted' = None
      BY <1>2 DEF StopDimming, Begin
    <2>2. /\ IdleUpdate \in [pc : {"idle"}, kind : {"stop", "set", "ramp"}, from : Levels,
                             to : Levels, steps : 0 .. MaxSteps]
          /\ IdleUpdate.kind = "stop"
      BY DEF IdleUpdate, Levels
    <2> QED
      BY <1>a, <2>1, <2>2
  <1>3. ASSUME NEW c \in Callers, Run(c) PROVE SettleInv'
    <2>0. step = IdleStep /\ step' = IdleStep /\ step.pc = "idle" /\ ~AllIdle /\ UNCHANGED wanted
      BY <1>3 DEF Run, CancelTask, SetBrightness, StartDimming, RaiseDimming, SubmitFirst, AllIdle,
         At, IdleStep
    <2>b. ASSUME Return(c) PROVE update'[c].pc = "idle" /\ AllIdle'
      BY <2>b DEF Return, IdleUpdate, TypeOK, AllIdle, OneCaller, At
    <2>c. ASSUME NEW pc \in {"start", "raise", "submit"}, Goto(c, pc)
          PROVE  /\ update'[c].pc = pc /\ update'[c].kind = update[c].kind
                 /\ update'[c].to = update[c].to /\ update'[c].from = update[c].from
                 /\ ~AllIdle'
      BY <2>c DEF Goto, TypeOK, AllIdle, At
    <2>1. CASE CancelTask(c)
      <3>1. At(c, "cancel") /\ UNCHANGED <<mDimming, rampVars, panel>>
        BY <2>1 DEF CancelTask
      <3>2. CASE update[c].kind = "stop"
        BY <2>0, <2>1, <2>b, <3>1, <3>2 DEF CancelTask, SettleInv, OneCaller, At, rampVars
      <3>3. CASE update[c].kind # "stop"
        BY <2>0, <2>1, <2>c, <3>1, <3>3 DEF CancelTask, SettleInv, OneCaller, At, rampVars
      <3> QED
        BY <3>2, <3>3
    <2>2. CASE SetBrightness(c)
      <3>1. /\ At(c, "start") /\ update[c].kind = "set" /\ panel' = update[c].to
            /\ UNCHANGED <<mDimming, rampVars>> /\ Return(c)
        BY <2>2 DEF SetBrightness
      <3> QED
        BY <2>0, <2>b, <3>1 DEF SettleInv, OneCaller, At, rampVars
    <2>3. CASE StartDimming(c)
      <3>1. /\ At(c, "start") /\ update[c].kind = "ramp" /\ ~mDimming
            /\ UNCHANGED <<mDimming, panel>>
        BY <2>3 DEF StartDimming, SettleInv, At
      <3>2. wanted = update[c].to /\ update[c].from = panel
        BY <3>1 DEF SettleInv, At
      <3>3. mToBrightness' = update[c].to
        BY <2>3, <3>1 DEF StartDimming
      <3>4. CASE update[c].to - update[c].from = 0
        <4>1. Return(c) /\ update[c].to = update[c].from
          BY <2>3, <3>1, <3>4 DEF StartDimming, TypeOK, Levels
        <4> QED
          BY <2>0, <2>b, <3>1, <3>2, <4>1 DEF SettleInv, OneCaller
      <3>5. CASE update[c].to - update[c].from # 0
        <4>1. Goto(c, "raise")
          BY <2>3, <3>1, <3>5 DEF StartDimming
        <4> QED
          BY <2>0, <2>c, <3>1, <3>2, <3>3, <4>1 DEF SettleInv, OneCaller
      <3> QED
        BY <3>4, <3>5
    <2>4. CASE RaiseDimming(c)
      <3>1. At(c, "raise") /\ mDimming' /\ Goto(c, "submit") /\ UNCHANGED <<rampVars, panel>>
        BY <2>4 DEF RaiseDimming
      <3> QED
        BY <2>0, <2>c, <3>1 DEF SettleInv, OneCaller, At, rampVars
    <2>5. CASE SubmitFirst(c)
      <3>1. At(c, "submit") /\ Return(c) /\ UNCHANGED <<mDimming, rampVars, panel>>
        BY <2>5 DEF SubmitFirst
      <3>2. tasks' # {}
        BY <2>5 DEF SubmitFirst, Submit
      <3>3. mDimming
        BY <3>1 DEF SettleInv, At
      <3> QED
        BY <2>0, <2>b, <3>1, <3>2, <3>3 DEF SettleInv, OneCaller, rampVars
    <2> QED
      BY <1>3, <2>1, <2>2, <2>3, <2>4, <2>5 DEF Run
  <1>4. ASSUME NEW n \in Tasks, NextStep(n) PROVE SettleInv'
    <2>1. /\ step = IdleStep /\ AllIdle
          /\ UNCHANGED <<mDimming, mToBrightness, update, panel, wanted>>
      BY <1>4 DEF NextStep, AllIdle
    <2>2. AllIdle' /\ \A c \in Callers : update'[c].pc = "idle"
      BY <2>1 DEF AllIdle, At
    <2>3. CASE ~mDimming
      <3>1. step' = step
        BY <1>4, <2>3 DEF NextStep
      <3> QED
        BY <2>1, <2>2, <2>3, <3>1 DEF SettleInv, IdleStep
    <2>4. CASE mDimming
      <3>1. step' = Step
        BY <1>4, <2>4 DEF NextStep
      <3>2. Step.pc = "changed" /\ (Step.last => Step.value = mToBrightness)
        BY DEF Step
      <3>3. step' # IdleStep
        BY <3>1, <3>2 DEF IdleStep
      <3> QED
        BY <2>1, <2>2, <2>4, <3>1, <3>2, <3>3 DEF SettleInv
    <2> QED
      BY <2>3, <2>4
  <1>5. CASE Queue
    <2>1. step # IdleStep /\ mDimming /\ step.pc \in {"changed", "write", "end"}
      BY <1>5 DEF Queue, OnChanged, WriteStep, EndStep, IdleStep, SettleInv
    <2>2. /\ UNCHANGED <<rampVars, update, wanted>>
          /\ AllIdle' /\ \A c \in Callers : update'[c].pc = "idle"
      BY <1>5, <2>1 DEF RangeInv, Queue, OnChanged, WriteStep, EndStep, At, AllIdle
    <2>3. CASE OnChanged \/ WriteStep
      <3>1. /\ step'.pc \in {"write", "end"} /\ step'.value = step.value
            /\ step'.last = step.last /\ mDimming' = mDimming
            /\ step'.pc = "end" => panel' = step.value
            /\ step.pc \in {"changed", "write"}
        BY <2>1, <2>3 DEF OnChanged, WriteStep, TypeOK
      <3>2. step' # IdleStep
        BY <3>1 DEF IdleStep
      <3> QED
        BY <2>1, <2>2, <3>1, <3>2 DEF SettleInv, rampVars
    <2>4. CASE EndStep
      <3>1. /\ step.pc = "end" /\ step' = IdleStep /\ panel' = panel
            /\ IF step.last THEN mDimming' = FALSE ELSE tasks' # {} /\ mDimming' = mDimming
        BY <2>4 DEF EndStep, Submit
      <3> QED
        BY <2>1, <2>2, <3>1 DEF SettleInv, rampVars, IdleStep
    <2> QED
      BY <1>5, <2>3, <2>4 DEF Queue
  <1>6. CASE UNCHANGED vars
    BY <1>6 DEF vars, rampVars, SettleInv, AllIdle, At
  <1> QED
    BY <1>1, <1>2, <1>3, <1>4, <1>5, <1>6 DEF Next

\* UpdateBrightness: under the same conditions, and when a ramp starts from the brightness the panel
\* has, nothing is left running only when the panel has what was asked for last.
THEOREM SettlesOnLast == StepAlone /\ OneCaller /\ FromPanel /\ Spec => []SettlesOnWanted
  <1> SUFFICES ASSUME StepAlone, OneCaller, FromPanel PROVE Spec => []SettlesOnWanted
    OBVIOUS
  <1>1. TypeOK /\ RangeInv /\ [Next]_vars => RangeInv'
    BY StepRange
  <1>2. TypeOK /\ RangeInv /\ SettleInv /\ [Next]_vars => SettleInv'
    BY SettleStep
  <1>3. SettleInv => SettlesOnWanted
    BY DEF SettleInv, SettlesOnWanted, Quiet, AllIdle
  <1> QED
    BY <1>1, <1>2, <1>3, InitRange, InitSettle, TypeCorrect, PTL DEF Spec
=============================================================================
