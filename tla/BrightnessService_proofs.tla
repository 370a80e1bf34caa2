---------------------- MODULE BrightnessService_proofs ----------------------
(***************************************************************************)
(* Proofs about BrightnessService: whatever numbers clients ask for, the   *)
(* service stores and shows levels of their scales; boosts and waits end   *)
(* with their tasks; at rest the panel shows what the mode                 *)
(* calls for, and the user's brightness comes back.  Each invariant builds *)
(* on the ones before it: Typed, TimerInv, PanelInv, UserInv.              *)
(***************************************************************************)
EXTENDS BrightnessService, SequenceTheorems, TLAPS

-----------------------------------------------------------------------------
(* The two scales. *)

\* What \div leaves is the whole number next below the fraction, and the only one.
LEMMA DivBounds ==
    ASSUME NEW n \in Nat, NEW d \in Nat \ {0}
    PROVE  n \div d \in Nat /\ d * (n \div d) <= n /\ n < d * (n \div d) + d
  BY SMT

LEMMA DivUnique ==
    ASSUME NEW n \in Nat, NEW d \in Nat \ {0}, NEW q \in Nat, d * q <= n, n < d * q + d
    PROVE  n \div d = q
  BY SMT

LEMMA Multiply ==
    ASSUME NEW a \in Nat, NEW b \in Nat, NEW c \in Nat, a <= b
    PROVE  a * c \in Nat /\ b * c \in Nat /\ a * c <= b * c
  BY SMT

\* The point q of 0 .. b that is nearest to x * b / a.
LEMMA NearestPoint ==
    ASSUME NEW a \in Nat \ {0}, NEW b \in Nat, NEW x \in 0 .. a, NEW q,
           q = (2 * x * b + a) \div (2 * a)
    PROVE  q \in 0 .. b /\ 2 * (a * q) <= 2 * (x * b) + a /\ 2 * (x * b) < 2 * (a * q) + a
  <1>1. x * b \in Nat /\ a * b \in Nat /\ x * b <= a * b
    BY Multiply
  <1>2. 2 * x * b = 2 * (x * b)
    BY SMT
  <1>3. q \in Nat /\ (2 * a) * q <= 2 * (x * b) + a /\ 2 * (x * b) + a < (2 * a) * q + 2 * a
    <2> DEFINE n == 2 * (x * b) + a
    <2>1. n \in Nat /\ 2 * a \in Nat \ {0} /\ q = n \div (2 * a)
      BY <1>1, <1>2
    <2> HIDE DEF n
    <2>2. q \in Nat /\ (2 * a) * q <= n /\ n < (2 * a) * q + 2 * a
      BY <2>1, DivBounds, Zenon
    <2> QED
      BY <2>2 DEF n
  <1>4. a * q \in Nat /\ (2 * a) * q = 2 * (a * q)
    BY <1>3, SMT
  <1>5. q <= b
    <2>1. CASE q >= b + 1
      <3>1. (b + 1) * a <= q * a
        BY <1>3, <2>1, Multiply
      <3>2. (b + 1) * a = a * b + a /\ q * a = a * q
        BY <1>3, SMT
      <3> QED
        BY <1>1, <1>3, <1>4, <3>1, <3>2
    <2> QED
      BY <1>3, <2>1
  <1> QED
    BY <1>1, <1>3, <1>4, <1>5

\* From the coarser scale to the finer one and back leads to where it started.
LEMMA RoundTrip ==
    ASSUME NEW a \in Nat \ {0}, NEW b \in Nat, a <= b, NEW x \in 0 .. a, NEW q,
           q = (2 * x * b + a) \div (2 * a)
    PROVE  (2 * q * a + b) \div (2 * b) = x
  <1>1. q \in 0 .. b /\ 2 * (a * q) <= 2 * (x * b) + a /\ 2 * (x * b) < 2 * (a * q) + a
    BY NearestPoint
  <1>2. x * b \in Nat /\ a * q \in Nat
    BY <1>1, Multiply
  <1>3. 2 * q * a = 2 * (a * q) /\ (2 * b) * x = 2 * (x * b)
    BY <1>1, SMT
  <1>4. CASE a < b
    <2>1. (2 * b) * x <= 2 * q * a + b /\ 2 * q * a + b < (2 * b) * x + 2 * b
      BY <1>1, <1>2, <1>3, <1>4
    <2> QED
      BY <1>2, <1>3, <2>1, DivUnique
  <1>5. CASE a = b
    <2>1. (2 * a) * x <= 2 * x * b + a /\ 2 * x * b + a < (2 * a) * x + 2 * a
      BY <1>2, <1>5, SMT
    <2>2. 2 * x * b + a \in Nat
      BY <1>2, SMT
    <2>3. q = x
      BY <2>1, <2>2, DivUnique
    <2> QED
      BY <2>3, <1>5
  <1> QED
    BY <1>4, <1>5

LEMMA Scales ==
    /\ MaxMapping \in Nat /\ MaxLevel \in Nat
    /\ 2 <= MaxMapping /\ MaxMapping <= MaxLevel /\ MinBrightness \in 1 .. MaxMapping
    /\ Mapping \subseteq Levels /\ Levels \subseteq Nat /\ None \notin Nat
  BY LevelAssumption DEF Mapping, Levels, None

LEMMA InScaleTyped ==
    ASSUME NEW v \in Int, NEW top \in Nat \ {0}
    PROVE  InScale(v, top) \in 1 .. top /\ (v \in 1 .. top => InScale(v, top) = v)
  BY DEF InScale, Lesser, Greater

LEMMA RescaledTyped ==
    ASSUME NEW from \in Nat \ {0, 1}, NEW to \in Nat \ {0}, NEW v \in 1 .. from
    PROVE  Rescaled(v, from, to) \in 1 .. to
  <1> DEFINE a == from - 1
             b == to - 1
             x == v - 1
             q == (2 * x * b + a) \div (2 * a)
  <1>1. a \in Nat \ {0} /\ b \in Nat /\ x \in 0 .. a
    OBVIOUS
  <1>2. q \in 0 .. b
    <2> HIDE DEF a, b, x
    <2> QED
      BY <1>1, NearestPoint
  <1>3. Rescaled(v, from, to) = 1 + q
    BY DEF Rescaled
  <1> HIDE DEF q
  <1> QED
    BY <1>2, <1>3

\* To the finer scale and back: no level of the coarser one is lost.
LEMMA RescaledBack ==
    ASSUME NEW from \in Nat \ {0, 1}, NEW to \in Nat \ {0}, from <= to, NEW v \in 1 .. from
    PROVE  Rescaled(Rescaled(v, from, to), to, from) = v
  <1> DEFINE a == from - 1
             b == to - 1
             x == v - 1
             q == (2 * x * b + a) \div (2 * a)
  <1>1. a \in Nat \ {0} /\ b \in Nat /\ a <= b /\ x \in 0 .. a
    OBVIOUS
  <1>2. q \in 0 .. b /\ (2 * q * a + b) \div (2 * b) = x
    <2> HIDE DEF a, b, x
    <2> QED
      BY <1>1, NearestPoint, RoundTrip
  <1>3. Rescaled(v, from, to) = 1 + q
    BY DEF Rescaled
  <1>4. Rescaled(1 + q, to, from) = 1 + (2 * ((1 + q) - 1) * a + b) \div (2 * b)
    BY DEF Rescaled
  <1> HIDE DEF q
  <1>5. (1 + q) - 1 = q
    BY <1>2
  <1>6. Rescaled(1 + q, to, from) = 1 + (2 * q * a + b) \div (2 * b)
    BY <1>4, <1>5
  <1> QED
    BY <1>2, <1>3, <1>6

LEMMA LevelsTyped ==
    ASSUME NEW level \in Int
    PROVE  GetMappingBrightnessLevel(level) \in Mapping /\ GetOrigBrightnessLevel(level) \in Levels
  <1>1. /\ MaxLevel \in Nat \ {0, 1} /\ MaxMapping \in Nat \ {0, 1}
        /\ MinBrightness \in 1 .. MaxMapping
    BY Scales
  <1>2. InScale(level, MaxLevel) \in 1 .. MaxLevel /\ InScale(level, MaxMapping) \in 1 .. MaxMapping
    BY <1>1, InScaleTyped
  <1>3. Rescaled(InScale(level, MaxLevel), MaxLevel, MaxMapping) \in 1 .. MaxMapping
    BY <1>1, <1>2, RescaledTyped
  <1>4. Rescaled(InScale(level, MaxMapping), MaxMapping, MaxLevel) \in 1 .. MaxLevel
    BY <1>1, <1>2, RescaledTyped
  <1>5. GetMappingBrightnessLevel(level) \in Mapping
    BY <1>1, <1>3 DEF GetMappingBrightnessLevel, Mapping, Greater
  <1> QED
    BY <1>4, <1>5 DEF GetOrigBrightnessLevel, Levels

LEMMA MappingOfOrig ==
    ASSUME NEW level \in Mapping
    PROVE  GetMappingBrightnessLevel(GetOrigBrightnessLevel(level)) = level
  <1>1. level \in Int /\ InScale(level, MaxMapping) = level
    BY Scales, InScaleTyped DEF Mapping
  <1>2. GetOrigBrightnessLevel(level) = Rescaled(level, MaxMapping, MaxLevel)
    BY <1>1 DEF GetOrigBrightnessLevel
  <1>3. GetOrigBrightnessLevel(level) \in 1 .. MaxLevel
    BY <1>1, LevelsTyped DEF Levels
  <1>4. InScale(GetOrigBrightnessLevel(level), MaxLevel) = GetOrigBrightnessLevel(level)
    BY <1>3, Scales, InScaleTyped
  <1>5. Rescaled(Rescaled(level, MaxMapping, MaxLevel), MaxLevel, MaxMapping) = level
    BY Scales, RescaledBack DEF Mapping
  <1> QED
    BY <1>2, <1>4, <1>5, Scales DEF GetMappingBrightnessLevel, Greater, Mapping

\* Brought into its scale, a number is a level, and a level stays what it is.
LEMMA SafeTyped ==
    ASSUME NEW value \in Int
    PROVE  /\ GetSafeBrightness(value) \in Levels
           /\ value \in Levels => GetSafeBrightness(value) = value
           /\ GetSafeBrightness(GetSafeBrightness(value)) = GetSafeBrightness(value)
  <1>1. MaxLevel \in Nat \ {0}
    BY Scales
  <1>2. \A v \in Int : GetSafeBrightness(v) \in Levels /\ (v \in Levels => GetSafeBrightness(v) = v)
    BY <1>1, InScaleTyped DEF GetSafeBrightness, Levels
  <1>3. Levels \subseteq Int
    BY Scales
  <1> QED
    BY <1>2, <1>3

LEMMA ShownSafe ==
    ASSUME NEW value \in Int, NEW discount
    PROVE  ShownUnder(GetSafeBrightness(value), discount) = ShownUnder(value, discount)
  BY SafeTyped DEF ShownUnder

\* What the panel shows is a level of its scale; without a discount it shows what a ramp ended at.
LEMMA ShownTyped ==
    ASSUME NEW value \in Int, NEW discount \in 1 .. 100
    PROVE  ShownUnder(value, discount) \in Mapping
  <1>1. GetSafeBrightness(value) \in Nat
    BY Scales, InScaleTyped DEF GetSafeBrightness
  <1>2. GetSafeBrightness(value) * discount \in Nat
    BY <1>1, Multiply
  <1>3. (GetSafeBrightness(value) * discount) \div 100 \in Int
    BY <1>2, DivBounds
  <1> QED
    BY <1>3, LevelsTyped DEF ShownUnder

LEMMA ShownOfOrig ==
    ASSUME NEW level \in Mapping
    PROVE  ShownUnder(GetOrigBrightnessLevel(level), 100) = level
  <1> DEFINE orig == GetOrigBrightnessLevel(level)
  <1>1. orig \in Levels
    BY Scales, LevelsTyped DEF Mapping
  <1>2. GetMappingBrightnessLevel(orig) = level
    BY MappingOfOrig
  <1> HIDE DEF orig
  <1>3. GetSafeBrightness(orig) = orig
    BY <1>1, Scales, InScaleTyped DEF GetSafeBrightness, Levels
  <1>4. (orig * 100) \div 100 = orig
    BY <1>1, Scales DEF Levels
  <1>5. ShownUnder(orig, 100) = level
    BY <1>2, <1>3, <1>4 DEF ShownUnder
  <1> QED
    BY <1>5 DEF orig

-----------------------------------------------------------------------------
(* Type correctness. *)

\* Every level may be stored; numbers that are none only where a controller stores them.
LEMMA StoredTyped ==
    /\ Levels \subseteq Stored /\ Stored \subseteq Nat /\ "service" \in Writers
    /\ "dark" \in Unsteady => Stored = Nat /\ "controller" \in Writers
    /\ "dark" \notin Unsteady => Stored = Levels /\ Writers = {"service"}
  BY Scales DEF Stored, Writers

LEMMA ValuesTyped ==
    /\ Values \subseteq Nat /\ SensorLevels \subseteq Nat
    /\ \A value \in Values : GetSafeBrightness(value) \in Nat
  <1>1. Values \subseteq Nat /\ SensorLevels \subseteq Nat
    BY LevelAssumption DEF SensorLevels
  <1>2. ASSUME NEW value \in Values PROVE GetSafeBrightness(value) \in Nat
    <2>1. value \in Int
      BY <1>1
    <2> QED
      BY <2>1, SafeTyped, Scales
  <1> QED
    BY <1>1, <1>2

Entry == [value : Stored, by : Writers]

\* TypeOK in parts: what the panel is given, the flags, the levels.
OutputTyped ==
    /\ panel \in Stored
    /\ writes \in Seq(Entry) /\ Len(writes) <= MaxWrites
    /\ ramp \in [at : Stored, to : Mapping] \union {NoRamp}
FlagsTyped ==
    /\ mState \in {"OFF", "ON", "DIM", "DOZE"}
    /\ mIsSleepStatus \in BOOLEAN /\ mIsBrightnessOverridden \in BOOLEAN
    /\ mIsBrightnessBoosted \in BOOLEAN /\ boostTask \in BOOLEAN /\ onDue \in BOOLEAN
    /\ mWaitForFirstLux \in BOOLEAN /\ mIsDisplayOnWhenFirstLuxReport \in BOOLEAN
    /\ ~(mIsBrightnessOverridden /\ mIsBrightnessBoosted)
SensorTyped ==
    /\ mIsAutoBrightnessEnabled \in BOOLEAN /\ mIsLightSensorEnabled \in BOOLEAN
    /\ isFirstLux \in BOOLEAN
    /\ mIsLightSensorEnabled => mIsAutoBrightnessEnabled
NumbersTyped ==
    /\ setting \in Stored /\ mCachedSettingBrightness \in Nat /\ mBrightnessLevel \in Nat
    /\ mOverriddenBrightness \in Nat /\ mBeforeOverriddenBrightness \in Stored
    /\ mBrightnessTarget \in Nat /\ firstLuxTask \in Nat \union {None}
    /\ user \in Levels \union {None}
    /\ mDiscount \in Discounts \union {100}

LEMMA TypeParts == TypeOK <=> OutputTyped /\ FlagsTyped /\ SensorTyped /\ NumbersTyped
  BY DEF TypeOK, OutputTyped, FlagsTyped, SensorTyped, NumbersTyped, Entry

LEMMA DiscountTyped == ASSUME NumbersTyped PROVE mDiscount \in 1 .. 100
  BY LevelAssumption DEF NumbersTyped

LEMMA SubmitTyped ==
    ASSUME OutputTyped, NEW value \in Stored, NEW by \in Writers, SubmitWrite(value, by)
    PROVE  writes' \in Seq(Entry) /\ Len(writes') <= MaxWrites
  <1>1. [value |-> value, by |-> by] \in Entry
    BY DEF Entry
  <1> QED
    BY <1>1, LevelAssumption DEF OutputTyped, SubmitWrite

LEMMA RemoveTyped ==
    ASSUME NEW S, NEW seq \in Seq(S), NEW i \in 1 .. Len(seq)
    PROVE  RemoveAt(seq, i) \in Seq(S) /\ Len(RemoveAt(seq, i)) = Len(seq) - 1
  <1> DEFINE before == SubSeq(seq, 1, i - 1)
             after == SubSeq(seq, i + 1, Len(seq))
  <1>1. before \in Seq(S) /\ Len(before) = i - 1
    OBVIOUS
  <1>2. after \in Seq(S) /\ Len(after) = Len(seq) - i
    OBVIOUS
  <1>3. RemoveAt(seq, i) = before \o after
    BY DEF RemoveAt
  <1> HIDE DEF before, after
  <1>4. before \o after \in Seq(S) /\ Len(before \o after) = Len(seq) - 1
    BY <1>1, <1>2
  <1> QED
    BY <1>3, <1>4

LEMMA UpdateTyped ==
    ASSUME OutputTyped, NumbersTyped, NEW value \in Int, NEW shown \in Mapping,
           NEW gradual \in BOOLEAN, NEW save \in BOOLEAN,
           UpdateBrightness(value, shown, gradual, save)
    PROVE  OutputTyped' /\ mWaitForFirstLux' = FALSE
  <1>1. mWaitForFirstLux' = FALSE
    BY DEF UpdateBrightness
  <1>2. CASE gradual
    <2>1. UNCHANGED <<panel, writes>>
      BY <1>2 DEF UpdateBrightness
    <2>2. ramp' = NoRamp \/ ramp' = [at |-> setting, to |-> shown]
      BY <1>2 DEF UpdateBrightness, StartDimming
    <2>3. ramp' \in [at : Stored, to : Mapping] \union {NoRamp}
      BY <2>2 DEF NumbersTyped
    <2> QED
      BY <1>1, <2>1, <2>3 DEF OutputTyped
  <1>3. CASE ~gradual
    <2>1. ramp' = NoRamp /\ panel' = shown
      BY <1>3 DEF UpdateBrightness, StopDimming
    <2>2. GetSafeBrightness(value) \in Stored /\ "service" \in Writers
      BY SafeTyped, StoredTyped
    <2>3. SubmitWrite(GetSafeBrightness(value), "service") \/ writes' = writes
      BY <1>3 DEF UpdateBrightness
    <2>4. writes' \in Seq(Entry) /\ Len(writes') <= MaxWrites
      BY <2>2, <2>3, SubmitTyped DEF OutputTyped
    <2> QED
      BY <1>1, <2>1, <2>4, Scales, StoredTyped DEF OutputTyped
  <1> QED
    BY <1>2, <1>3

\* The same for a value shown under the discount in force.
LEMMA UpdateValueTyped ==
    ASSUME OutputTyped, NumbersTyped, NEW value \in Nat, NEW gradual, NEW save,
           gradual \in BOOLEAN, save \in BOOLEAN, Update(value, gradual, save)
    PROVE  OutputTyped' /\ mWaitForFirstLux' = FALSE
  <1>1. value \in Int /\ Shown(value) \in Mapping
    BY ShownTyped, DiscountTyped DEF Shown
  <1> QED
    BY <1>1, UpdateTyped DEF Update

LEMMA ChosenTyped ==
    ASSUME NumbersTyped, NEW value \in Nat, NEW gradual \in BOOLEAN, Chosen(value, gradual)
    PROVE  user' \in Levels
  <1>1. GetSafeBrightness(value) \in Levels
    BY SafeTyped
  <1>2. Shown(value) \in Mapping
    BY ShownTyped, DiscountTyped DEF Shown
  <1>3. Shown(value) \in Levels /\ Shown(value) \in Int
    <2>1. Mapping \subseteq Levels /\ Mapping \subseteq Int
      BY Scales DEF Mapping, Levels
    <2> QED
      BY <1>2, <2>1
  <1>4. GetOrigBrightnessLevel(Shown(value)) \in Levels
    BY <1>3, LevelsTyped
  <1> QED
    BY <1>1, <1>3, <1>4 DEF Chosen, NumbersTyped

LEMMA KeepsChosenTyped ==
    ASSUME NumbersTyped, KeepsChosen
    PROVE  user' \in Levels \union {None}
  BY DEF KeepsChosen, NumbersTyped

\* An override, if it is made at all, gets a level and keeps the setting.
LEMMA OverridesTyped ==
    ASSUME OutputTyped, FlagsTyped, NumbersTyped, NEW value \in Nat, NEW gradual \in BOOLEAN,
           Overrides(value, gradual)
    PROVE  /\ OutputTyped' /\ mWaitForFirstLux' = FALSE
           /\ mIsBrightnessOverridden' = TRUE
           /\ mOverriddenBrightness' \in Nat /\ mBeforeOverriddenBrightness' \in Stored
  <1>1. Update(value, gradual, FALSE)
    BY DEF Overrides
  <1>2. OutputTyped' /\ mWaitForFirstLux' = FALSE
    BY <1>1, UpdateValueTyped
  <1> QED
    BY <1>2 DEF Overrides, NumbersTyped

LEMMA RestoreTyped ==
    ASSUME OutputTyped, FlagsTyped, NumbersTyped, NEW gradual \in BOOLEAN,
           RestoreBrightnessTo(gradual)
    PROVE  /\ OutputTyped' /\ mWaitForFirstLux' = FALSE
           /\ mIsBrightnessOverridden' = FALSE
           /\ UNCHANGED <<mOverriddenBrightness, mBeforeOverriddenBrightness>>
  <1>1. Update(mBeforeOverriddenBrightness, gradual, TRUE)
    BY DEF RestoreBrightnessTo
  <1>2. OutputTyped' /\ mWaitForFirstLux' = FALSE
    BY <1>1, UpdateValueTyped, StoredTyped DEF NumbersTyped
  <1> QED
    BY <1>2 DEF RestoreBrightnessTo

LEMMA NoUpdateTyped ==
    ASSUME OutputTyped, NoUpdate
    PROVE  OutputTyped' /\ mWaitForFirstLux' = mWaitForFirstLux
  BY DEF OutputTyped, NoUpdate, output

LEMMA EnterSleepTyped == ASSUME NumbersTyped PROVE EnterSleepBrightness \in Nat
  <1>1. setting \in Nat
    BY StoredTyped DEF NumbersTyped
  <1> QED
    BY <1>1, LevelAssumption DEF EnterSleepBrightness, Greater, Lesser

LEMMA AutoTyped ==
    ASSUME SensorTyped, NEW enable \in BOOLEAN, mIsLightSensorEnabled' = enable,
           isFirstLux' = (isFirstLux \/ (~enable /\ mIsLightSensorEnabled)),
           mIsAutoBrightnessEnabled' \in BOOLEAN, enable => mIsAutoBrightnessEnabled'
    PROVE  SensorTyped'
  <1>1. isFirstLux' \in BOOLEAN
    BY Zenon
  <1> QED
    BY <1>1 DEF SensorTyped

\* What SetDisplayState does to the modes and to the panel, in each of its four cases.
LEMMA StateTyped ==
    ASSUME OutputTyped, FlagsTyped, NumbersTyped, NEW s \in {"OFF", "ON", "DIM", "DOZE"},
           SetDisplayState(s)
    PROVE  /\ OutputTyped' /\ mWaitForFirstLux' \in BOOLEAN
           /\ mIsSleepStatus' \in BOOLEAN /\ mIsBrightnessOverridden' \in BOOLEAN
           /\ mIsBrightnessBoosted' = mIsBrightnessBoosted
           /\ mIsBrightnessBoosted => mIsBrightnessOverridden' = FALSE
           /\ mOverriddenBrightness' \in Nat /\ mBeforeOverriddenBrightness' \in Stored
  <1> USE DEF NotOverridden
  <1>1. mIsBrightnessBoosted' = mIsBrightnessBoosted
    BY DEF SetDisplayState
  <1>2. CASE s = "OFF"
    <2>1. LeaveScreen
      BY <1>2 DEF SetDisplayState
    <2>2. mIsBrightnessOverridden' \in BOOLEAN
      <3>1. mIsBrightnessOverridden' = (mIsBrightnessOverridden /\ ~mIsSleepStatus)
        BY <2>1 DEF LeaveScreen
      <3> QED
        BY <3>1, Zenon
    <2>3. mIsBrightnessOverridden' => mIsBrightnessOverridden
      BY <2>1 DEF LeaveScreen
    <2> QED
      BY <1>1, <2>1, <2>2, <2>3
      DEF LeaveScreen, StopDimming, FlagsTyped, NumbersTyped, OutputTyped
  <1>3. CASE s = "DIM"
    <2>1. SetSleepBrightness
      BY <1>3 DEF SetDisplayState
    <2>2. CASE NotOverridden /\ NoUpdate
      BY <1>1, <2>1, <2>2, NoUpdateTyped DEF SetSleepBrightness, FlagsTyped, NumbersTyped
    <2>3. CASE /\ ~mIsBrightnessBoosted /\ mIsSleepStatus' = TRUE
               /\ Overrides(EnterSleepBrightness, TRUE)
      BY <1>1, <2>3, EnterSleepTyped, OverridesTyped
    <2> QED
      BY <2>1, <2>2, <2>3 DEF SetSleepBrightness
  <1>4. CASE s = "ON"
    <2>1. WakeScreen
      BY <1>4 DEF SetDisplayState
    <2>2. CASE NotOverridden /\ NoUpdate
      BY <1>1, <2>1, <2>2, NoUpdateTyped DEF WakeScreen, FlagsTyped, NumbersTyped
    <2>3. CASE RestoreBrightnessTo(FALSE)
      BY <1>1, <2>1, <2>3, RestoreTyped DEF WakeScreen, NumbersTyped
    <2> QED
      BY <2>1, <2>2, <2>3 DEF WakeScreen
  <1>5. CASE s = "DOZE"
    <2>1. UNCHANGED mIsSleepStatus /\ NotOverridden /\ NoUpdate
      BY <1>5 DEF SetDisplayState
    <2> QED
      BY <1>1, <2>1, NoUpdateTyped DEF FlagsTyped, NumbersTyped
  <1> QED
    BY <1>2, <1>3, <1>4, <1>5

Typed == OutputTyped /\ FlagsTyped /\ SensorTyped /\ NumbersTyped

LEMMA ScreenOnTyped ==
    ASSUME NumbersTyped, NEW isUpdateTarget
    PROVE  ScreenOnBrightness(isUpdateTarget) \in Nat
  BY Scales, StoredTyped DEF NumbersTyped, ScreenOnBrightness

\* On its way from one level to another a ramp leaves neither scale.
LEMMA RampLevelTyped ==
    ASSUME NEW at \in Stored, NEW to \in Mapping, NEW level \in (at + 1 .. to) \union (to .. at - 1)
    PROVE  level \in Stored
  <1>1. at \in Nat /\ to \in 1 .. MaxLevel
    BY Scales, StoredTyped DEF Levels
  <1>2. level \in Nat /\ level >= 1
    BY <1>1
  <1>3. at \in Levels => level \in Levels
    BY <1>1, <1>2, Scales DEF Levels
  <1> QED
    BY <1>2, <1>3, StoredTyped

\* A number asked for, as it came or brought into its scale, taken or refused.
LEMMA SetTyped ==
    ASSUME Typed, NEW value \in Nat, NEW gradual \in BOOLEAN, NEW continuous \in BOOLEAN,
           SetBrightness(value, gradual, continuous),
           UNCHANGED <<mState, auto, lux, timers, mDiscount, onDue>>
    PROVE  Typed'
  <1> USE DEF Typed, auto, lux, saved, timers
  <1>1. (~continuous) \in BOOLEAN
    BY Zenon
  <1>2. OutputTyped' /\ mWaitForFirstLux' = FALSE
    BY <1>1, UpdateValueTyped DEF SetBrightness
  <1>3. user' \in Levels
    BY ChosenTyped DEF SetBrightness
  <1>4. NumbersTyped'
    BY <1>3 DEF SetBrightness, NumbersTyped
  <1>5. FlagsTyped'
    BY <1>2 DEF SetBrightness, FlagsTyped
  <1>6. SensorTyped'
    BY DEF SensorTyped
  <1> QED
    BY <1>2, <1>4, <1>5, <1>6

LEMMA CannotSetTyped ==
    ASSUME Typed, NEW value \in Nat, NEW controllerSets,
           CannotSetBrightness(value, controllerSets), OutputTyped',
           UNCHANGED <<mState, auto, lux, timers, mDiscount, onDue>>
    PROVE  Typed'
  <1> USE DEF Typed, modes, auto, lux, saved, timers
  <1>1. user' \in Levels \union {None}
    BY SafeTyped DEF CannotSetBrightness, NumbersTyped
  <1>2. NumbersTyped'
    BY <1>1 DEF CannotSetBrightness, NumbersTyped
  <1>3. FlagsTyped'
    BY DEF CannotSetBrightness, FlagsTyped
  <1>4. SensorTyped'
    BY DEF SensorTyped
  <1> QED
    BY <1>2, <1>3, <1>4

LEMMA InitTyped == Init => Typed
  <1> SUFFICES ASSUME Init PROVE Typed
    OBVIOUS
  <1>1. setting \in Levels /\ mDiscount = 100
    BY ValuesTyped, SafeTyped DEF Init
  <1>2. setting \in Stored /\ setting \in Nat
    BY <1>1, Scales, StoredTyped
  <1>3. panel \in Mapping
    BY <1>1, <1>2, ShownTyped DEF Init, Shown
  <1>4. OutputTyped
    BY <1>3, Scales, StoredTyped, LevelAssumption DEF Init, OutputTyped
  <1> QED
    BY <1>1, <1>2, <1>4 DEF Init, Typed, FlagsTyped, SensorTyped, NumbersTyped

LEMMA StepTyped == Typed /\ [Next]_vars => Typed'
  <1> SUFFICES ASSUME Typed, [Next]_vars PROVE Typed'
    OBVIOUS
  <1> USE DEF Typed, modes, auto, lux, saved, timers
  <1>1. ASSUME NEW s \in {"OFF", "ON", "DIM", "DOZE"}, SetDisplayState(s) PROVE Typed'
    <2>1. SensorTyped'
      <3> DEFINE enable == IsScreenOnState(s) /\ mIsAutoBrightnessEnabled
      <3>1. enable \in BOOLEAN
        BY Zenon
      <3>2. enable => mIsAutoBrightnessEnabled
        OBVIOUS
      <3>3. StateChangedSetAutoBrightness(enable)
        BY <1>1 DEF SetDisplayState
      <3> HIDE DEF enable
      <3> QED
        BY <3>1, <3>2, <3>3, AutoTyped DEF StateChangedSetAutoBrightness, SensorTyped
    <2>2. NumbersTyped'
      BY <1>1, StateTyped, KeepsChosenTyped DEF SetDisplayState, NumbersTyped
    <2>3. onDue' \in BOOLEAN
      <3>1. \/ onDue' \in {TRUE, "delayedOff" \notin Unsteady}
            \/ onDue' = (onDue /\ IsScreenOnState(s))
        BY <1>1 DEF SetDisplayState
      <3> QED
        BY <3>1, Zenon
    <2>4. mIsDisplayOnWhenFirstLuxReport' \in BOOLEAN
      <3>1. mIsDisplayOnWhenFirstLuxReport' = (s = "ON" \/ mIsDisplayOnWhenFirstLuxReport)
        BY <1>1 DEF SetDisplayState
      <3> QED
        BY <3>1, Zenon
    <2>5. mState' = s /\ UNCHANGED boostTask
      BY <1>1 DEF SetDisplayState
    <2> QED
      BY <1>1, <2>1, <2>2, <2>3, <2>4, <2>5, StateTyped DEF FlagsTyped
  <1>2. ASSUME NEW value \in Values, NEW continuous \in BOOLEAN,
               SetBrightnessInner(value, continuous)
        PROVE  Typed'
    <2> DEFINE safe == GetSafeBrightness(value)
    <2>1. safe \in Nat /\ UNCHANGED <<mState, auto, lux, timers, mDiscount, onDue>>
      BY <1>2, ValuesTyped DEF SetBrightnessInner
    <2>2. CASE SetBrightness(safe, FALSE, continuous)
      <3> HIDE DEF safe
      <3> QED
        BY <2>1, <2>2, SetTyped
    <2>3. CASE CannotSetBrightness(safe, FALSE) /\ UNCHANGED <<panel, writes>>
      <3> HIDE DEF safe
      <3>1. OutputTyped'
        BY <2>3 DEF CannotSetBrightness, OutputTyped
      <3> QED
        BY <2>1, <2>3, <3>1, CannotSetTyped
    <2> QED
      BY <1>2, <2>2, <2>3 DEF SetBrightnessInner
  <1>2a. ASSUME NEW value \in Values, NEW gradual \in BOOLEAN, AdjustBrightnessInner(value, gradual)
         PROVE  Typed'
    <2>1. value \in Nat /\ UNCHANGED <<mState, auto, lux, timers, mDiscount, onDue>>
      BY <1>2a, ValuesTyped DEF AdjustBrightnessInner
    <2>2. CASE SetBrightness(value, gradual, FALSE)
      BY <2>1, <2>2, SetTyped
    <2>3. CASE /\ CannotSetBrightness(value, ControllerSets(gradual))
               /\ ControllerSetBrightness(value, gradual)
      <3>1. UNCHANGED ramp
        BY <2>3 DEF CannotSetBrightness
      <3>2. CASE ControllerSets(gradual)
        <4>0. panel' = GetSafeBrightness(value) /\ SubmitWrite(value, "controller")
          BY <2>3, <3>2 DEF ControllerSetBrightness
        <4>1. panel' \in Stored
          <5>1. value \in Int
            BY <2>1
          <5>2. GetSafeBrightness(value) \in Levels
            BY <5>1, SafeTyped
          <5> QED
            BY <4>0, <5>2, StoredTyped
        <4>2. "dark" \in Unsteady
          BY <1>2a, <3>2 DEF AdjustBrightnessInner, Requested, Steady, ControllerSets
        <4>3. value \in Stored /\ "controller" \in Writers
          BY <2>1, <4>2, StoredTyped
        <4>4. writes' \in Seq(Entry) /\ Len(writes') <= MaxWrites
          BY <4>0, <4>3, SubmitTyped
        <4>5. OutputTyped'
          BY <3>1, <4>1, <4>4 DEF OutputTyped
        <4> QED
          BY <2>1, <2>3, <4>5, CannotSetTyped
      <3>3. CASE ~ControllerSets(gradual)
        <4>1. OutputTyped'
          BY <2>3, <3>1, <3>3 DEF ControllerSetBrightness, OutputTyped
        <4> QED
          BY <2>1, <2>3, <4>1, CannotSetTyped
      <3> QED
        BY <3>2, <3>3
    <2> QED
      BY <1>2a, <2>2, <2>3 DEF AdjustBrightnessInner
  <1>2b. CASE OnFoldStatusChanged
    <2>1. OutputTyped' /\ mWaitForFirstLux' = FALSE
      <3>1. setting \in Nat
        BY StoredTyped DEF NumbersTyped
      <3> QED
        BY <1>2b, <3>1, UpdateValueTyped DEF OnFoldStatusChanged
    <2> USE DEF OnFoldStatusChanged
    <2>2. user' \in Levels \union {None}
      BY <1>2b, KeepsChosenTyped
    <2>3. NumbersTyped'
      BY <1>2b, <2>2 DEF NumbersTyped
    <2>4. FlagsTyped'
      BY <1>2b, <2>1 DEF FlagsTyped
    <2>5. SensorTyped'
      BY <1>2b DEF SensorTyped
    <2> QED
      BY <2>1, <2>3, <2>4, <2>5
  <1>3. CASE SetScreenOnBrightness
    <2> DEFINE value == ScreenOnBrightness(TRUE)
               mine == ~mIsBrightnessBoosted /\ ~mIsBrightnessOverridden
    <2>1. SensorTyped'
      BY <1>3 DEF SetScreenOnBrightness, SensorTyped
    <2>2. mine \in BOOLEAN
      BY Zenon
    <2>3. CASE WaitsForFirstLux
      <3>1. OutputTyped'
        BY <1>3, <2>3 DEF SetScreenOnBrightness, output, OutputTyped
      <3>2. NumbersTyped'
        BY <1>3, <2>3 DEF SetScreenOnBrightness, NumbersTyped
      <3>3. FlagsTyped'
        BY <1>3, <2>3 DEF SetScreenOnBrightness, FlagsTyped
      <3> QED
        BY <2>1, <3>1, <3>2, <3>3
    <2>4. CASE ~WaitsForFirstLux
      <3>1. value \in Nat
        BY ScreenOnTyped
      <3>2. Update(value, FALSE, mine)
        BY <1>3, <2>4 DEF SetScreenOnBrightness
      <3>3. OutputTyped' /\ mWaitForFirstLux' = FALSE
        <4> HIDE DEF value, mine
        <4> QED
          BY <2>2, <3>1, <3>2, UpdateValueTyped
      <3>4. user' \in Levels \union {None}
        <4>1. Chosen(value, FALSE) \/ KeepsChosen
          BY <1>3, <2>4 DEF SetScreenOnBrightness
        <4> HIDE DEF value
        <4> QED
          BY <3>1, <4>1, ChosenTyped, KeepsChosenTyped
      <3>5. UNCHANGED firstLuxTask
        BY <1>3, <2>4 DEF SetScreenOnBrightness
      <3>6. NumbersTyped'
        BY <1>3, <3>4, <3>5 DEF SetScreenOnBrightness, NumbersTyped
      <3>7. FlagsTyped'
        BY <1>3, <3>3 DEF SetScreenOnBrightness, FlagsTyped
      <3> QED
        BY <2>1, <3>3, <3>6, <3>7
    <2> QED
      BY <2>3, <2>4
  <1>4. CASE FirstLuxTimeout
    <2>1. OutputTyped' /\ mWaitForFirstLux' = FALSE
      BY <1>4, Scales, UpdateValueTyped DEF FirstLuxTimeout, NumbersTyped
    <2> USE DEF FirstLuxTimeout
    <2>2. user' \in Levels \union {None}
      BY <1>4, KeepsChosenTyped
    <2>3. NumbersTyped'
      BY <1>4, <2>1, <2>2 DEF NumbersTyped
    <2>4. FlagsTyped'
      BY <1>4, <2>1, <2>2 DEF FlagsTyped
    <2>5. SensorTyped'
      BY <1>4 DEF SensorTyped
    <2> QED
      BY <2>1, <2>3, <2>4, <2>5
  <1>5. CASE ClearOffset
    <2> USE DEF ClearOffset
    <2>1. user' \in Levels \union {None}
      BY <1>5, KeepsChosenTyped
    <2>2. NumbersTyped'
      BY <1>5, <2>1 DEF NumbersTyped
    <2>3. FlagsTyped'
      BY <1>5, <2>1 DEF FlagsTyped
    <2>4. SensorTyped'
      BY <1>5 DEF SensorTyped
    <2>5. OutputTyped'
      BY <1>5 DEF StopDimming, OutputTyped
    <2> QED
      BY <2>2, <2>3, <2>4, <2>5
  <1>6. ASSUME NEW discount \in Discounts, DiscountBrightness(discount) PROVE Typed'
    <2> DEFINE value == ScreenOnBrightness(FALSE)
    <2>1. value \in Nat
      BY ScreenOnTyped
    <2>2. value \in Int /\ discount \in 1 .. 100
      <3>1. discount \in 1 .. 100
        BY LevelAssumption
      <3> HIDE DEF value
      <3> QED
        BY <2>1, <3>1
    <2>3. UpdateBrightness(value, ShownUnder(value, discount), FALSE, FALSE)
      BY <1>6 DEF DiscountBrightness
    <2>4. OutputTyped' /\ mWaitForFirstLux' = FALSE
      <3> HIDE DEF value
      <3>1. ShownUnder(value, discount) \in Mapping
        BY <2>2, ShownTyped
      <3> QED
        BY <2>2, <2>3, <3>1, UpdateTyped
    <2> USE DEF DiscountBrightness
    <2>5. user' \in Levels \union {None}
      BY <1>6, KeepsChosenTyped
    <2>6. NumbersTyped'
      BY <1>6, <2>4, <2>5 DEF NumbersTyped
    <2>7. FlagsTyped'
      BY <1>6, <2>4, <2>5 DEF FlagsTyped
    <2>8. SensorTyped'
      BY <1>6 DEF SensorTyped
    <2> QED
      BY <2>4, <2>6, <2>7, <2>8
  <1>7. ASSUME NEW value \in Values, NEW gradual \in BOOLEAN, OverrideBrightness(value, gradual)
        PROVE  Typed'
    <2>1. value \in Nat
      BY ValuesTyped
    <2>2. ~mIsBrightnessBoosted
      BY <1>7 DEF OverrideBrightness, CanOverrideBrightness
    <2>3. /\ OutputTyped' /\ mWaitForFirstLux' = FALSE
          /\ mIsBrightnessOverridden' = TRUE
          /\ mOverriddenBrightness' \in Nat /\ mBeforeOverriddenBrightness' \in Stored
      BY <1>7, <2>1, OverridesTyped DEF OverrideBrightness
    <2> USE DEF OverrideBrightness
    <2>4. user' \in Levels \union {None}
      BY <1>7, KeepsChosenTyped
    <2>5. NumbersTyped'
      BY <1>7, <2>2, <2>3, <2>4 DEF NumbersTyped
    <2>6. FlagsTyped'
      BY <1>7, <2>2, <2>3, <2>4 DEF FlagsTyped
    <2>7. SensorTyped'
      BY <1>7 DEF SensorTyped
    <2> QED
      BY <2>3, <2>5, <2>6, <2>7
  <1>8. ASSUME NEW gradual \in BOOLEAN, RestoreBrightness(gradual) PROVE Typed'
    <2>2. IF user = None THEN UNCHANGED user ELSE Chosen(user, gradual)
      BY <1>8 DEF RestoreBrightness
    <2>3. user' \in Levels \union {None}
      BY <2>2, Scales, ChosenTyped DEF NumbersTyped
    <2>4. /\ OutputTyped' /\ mWaitForFirstLux' = FALSE
          /\ mIsBrightnessOverridden' = FALSE
          /\ UNCHANGED <<mOverriddenBrightness, mBeforeOverriddenBrightness>>
      BY <1>8, RestoreTyped DEF RestoreBrightness
    <2>5. NumbersTyped'
      BY <1>8, <2>3, <2>4 DEF RestoreBrightness, NumbersTyped
    <2>6. FlagsTyped'
      BY <1>8, <2>4 DEF RestoreBrightness, FlagsTyped
    <2>7. SensorTyped'
      BY <1>8 DEF RestoreBrightness, SensorTyped
    <2> QED
      BY <2>4, <2>5, <2>6, <2>7
  <1>9. CASE BoostBrightness
    <2>1. ~mIsBrightnessOverridden
      BY <1>9 DEF BoostBrightness, CanBoostBrightness
    <2>2. MaxLevel \in Nat
      BY Scales
    <2>3. OutputTyped' /\ mWaitForFirstLux' \in BOOLEAN
      BY <1>9, <2>2, UpdateValueTyped, NoUpdateTyped DEF BoostBrightness, FlagsTyped
    <2> USE DEF BoostBrightness, NotBoosted
    <2>4. user' \in Levels \union {None}
      BY <1>9, KeepsChosenTyped
    <2>5. NumbersTyped'
      BY <1>9, <2>1, <2>3, <2>4 DEF NumbersTyped
    <2>6. FlagsTyped'
      BY <1>9, <2>1, <2>3, <2>4 DEF FlagsTyped
    <2>7. SensorTyped'
      BY <1>9 DEF SensorTyped
    <2> QED
      BY <2>3, <2>5, <2>6, <2>7
  <1>10. CASE CancelBoostBrightness
    <2>1. OutputTyped' /\ mWaitForFirstLux' = FALSE
      BY <1>10, UpdateValueTyped DEF CancelBoostBrightness, BeforeBoost, NumbersTyped
    <2> QED
      <3> USE DEF CancelBoostBrightness, NotBoosted
      <3>1. NumbersTyped'
        BY <1>10 DEF NumbersTyped
      <3>2. FlagsTyped'
        BY <1>10, <2>1 DEF FlagsTyped
      <3>3. SensorTyped'
        BY <1>10 DEF SensorTyped
      <3> QED
        BY <2>1, <3>1, <3>2, <3>3
  <1>11. ASSUME NEW enable \in BOOLEAN, AutoAdjustBrightness(enable) PROVE Typed'
    <2>1. SensorTyped'
      BY <1>11, AutoTyped DEF AutoAdjustBrightness
    <2>2. NumbersTyped' /\ FlagsTyped'
      BY <1>11 DEF AutoAdjustBrightness, NumbersTyped, FlagsTyped
    <2>3. OutputTyped'
      BY <1>11 DEF AutoAdjustBrightness, output, OutputTyped
    <2> QED
      BY <2>1, <2>2, <2>3
  <1>12. ASSUME NEW level \in SensorLevels, ProcessLightLux(level) PROVE Typed'
    <2> DEFINE fast == isFirstLux /\ mIsDisplayOnWhenFirstLuxReport
    <2>1. level \in Nat /\ (~fast) \in BOOLEAN
      BY ValuesTyped, Zenon
    <2>2. SensorTyped'
      BY <1>12 DEF ProcessLightLux, SensorTyped
    <2>3. CASE level # mBrightnessLevel \/ isFirstLux
      <3>1. Update(level, ~fast, TRUE) /\ Chosen(level, ~fast)
        BY <1>12, <2>3 DEF ProcessLightLux
      <3>2. OutputTyped' /\ mWaitForFirstLux' = FALSE /\ user' \in Levels \union {None}
        <4> HIDE DEF fast
        <4> QED
          BY <2>1, <3>1, UpdateValueTyped, ChosenTyped
      <3>3. mIsDisplayOnWhenFirstLuxReport' \in BOOLEAN
        <4>1. mIsDisplayOnWhenFirstLuxReport' = (mIsDisplayOnWhenFirstLuxReport /\ ~fast)
          BY <1>12, <2>3 DEF ProcessLightLux
        <4> QED
          BY <4>1, Zenon
      <3>4. FlagsTyped'
        BY <1>12, <3>2, <3>3 DEF ProcessLightLux, FlagsTyped
      <3>5. NumbersTyped'
        BY <1>12, <2>1, <2>3, <3>2 DEF ProcessLightLux, CancelFirstLux, NumbersTyped
      <3> QED
        BY <2>2, <3>2, <3>4, <3>5
    <2>4. CASE ~(level # mBrightnessLevel \/ isFirstLux)
      BY <1>12, <2>2, <2>4 DEF ProcessLightLux, output, OutputTyped, NumbersTyped, FlagsTyped
    <2> QED
      BY <2>3, <2>4
  <1>13. CASE RampStep
    <2>0. ramp \in [at : Stored, to : Mapping]
      BY <1>13 DEF RampStep, OutputTyped
    <2>1. PICK level \in (ramp.at + 1 .. ramp.to) \union (ramp.to .. ramp.at - 1) :
              /\ panel' = level
              /\ ramp' = IF level = ramp.to THEN NoRamp ELSE [ramp EXCEPT !.at = level]
              /\ IF mIsSleepStatus THEN UNCHANGED writes
                 ELSE SubmitWrite(GetOrigBrightnessLevel(level), "service")
      BY <1>13 DEF RampStep
    <2>2. level \in Stored /\ GetOrigBrightnessLevel(level) \in Stored /\ "service" \in Writers
      <3>1. level \in Stored
        BY <2>0, RampLevelTyped
      <3>2. level \in Int
        BY <3>1, StoredTyped
      <3> QED
        BY <3>1, <3>2, LevelsTyped, StoredTyped
    <2>3. writes' \in Seq(Entry) /\ Len(writes') <= MaxWrites
      BY <2>1, <2>2, SubmitTyped DEF OutputTyped
    <2>4. ramp' \in [at : Stored, to : Mapping] \union {NoRamp}
      BY <2>0, <2>1, <2>2
    <2> QED
      BY <1>13, <2>1, <2>2, <2>3, <2>4 DEF RampStep, OutputTyped, NumbersTyped, FlagsTyped, SensorTyped
  <1>14. CASE WriteSetting
    <2>1. PICK i \in DOMAIN writes :
              /\ setting' = writes[i].value /\ writes' = RemoveAt(writes, i)
              /\ IF writes[i].by = "service"
                 THEN mBrightnessLevel' = setting' /\ mCachedSettingBrightness' = setting'
                 ELSE UNCHANGED <<mBrightnessLevel, mCachedSettingBrightness>>
      BY <1>14 DEF WriteSetting
    <2>2. i \in 1 .. Len(writes) /\ Len(writes) \in Nat /\ writes[i] \in Entry
      BY DEF OutputTyped
    <2>a. setting' \in Stored
      BY <2>1, <2>2 DEF Entry
    <2>b. mBrightnessLevel' \in Nat /\ mCachedSettingBrightness' \in Nat
      <3>1. setting' \in Nat /\ mBrightnessLevel \in Nat /\ mCachedSettingBrightness \in Nat
        BY <2>a, StoredTyped DEF NumbersTyped
      <3>2. CASE writes[i].by = "service"
        BY <2>1, <3>1, <3>2
      <3>3. CASE writes[i].by # "service"
        BY <2>1, <3>1, <3>3
      <3> QED
        BY <3>2, <3>3
    <2>3. RemoveAt(writes, i) \in Seq(Entry) /\ Len(RemoveAt(writes, i)) <= Len(writes)
      BY <2>2, RemoveTyped DEF OutputTyped
    <2>4. OutputTyped'
      BY <1>14, <2>1, <2>2, <2>3, LevelAssumption DEF WriteSetting, OutputTyped
    <2>5. NumbersTyped'
      BY <1>14, <2>a, <2>b DEF WriteSetting, NumbersTyped
    <2> QED
      BY <1>14, <2>4, <2>5 DEF WriteSetting, FlagsTyped, SensorTyped
  <1>15. CASE UNCHANGED vars
    BY <1>15 DEF vars, output, OutputTyped, NumbersTyped, FlagsTyped, SensorTyped
  <1> QED
    BY <1>1, <1>2, <1>3, <1>4, <1>5, <1>6, <1>7, <1>8, <1>9, <1>10, <1>11, <1>12, <1>13, <1>14,
       <1>15, <1>2a, <1>2b DEF Next

\* For every pair of scales, all parameters of the product and every number clients ask for, in its
\* scale or not, in any environment: setting, panel and the writes that wait keep to their scales
\* unless a controller stores a number for a dark screen; an override and a boost never hold the
\* screen together, and without automatic brightness the sensor is off.
THEOREM TypeCorrect == Spec => []TypeOK
  <1>1. Typed => TypeOK
    BY TypeParts DEF Typed
  <1> QED
    BY <1>1, InitTyped, StepTyped, PTL DEF Spec

-----------------------------------------------------------------------------
(* The tasks that end a boost and the wait for the first light reading.       *)

\* TimersMatchModes alone is not inductive: WakeScreen and CancelBoostBrightness update the
\* brightness, which ends the wait, and leave its task alone.  Neither happens while it waits.
TimerInv ==
    /\ TimersMatchModes
    /\ firstLuxTask # None => ~mIsBrightnessOverridden /\ ~mIsBrightnessBoosted

\* Whoever updates the brightness waits for no reading any more.
LEMMA UpdateEndsWait ==
    ASSUME NEW value, NEW gradual, NEW save, Update(value, gradual, save)
    PROVE  mWaitForFirstLux' = FALSE
  BY DEF Update, UpdateBrightness

LEMMA TimerStep ==
    ASSUME "firstLux" \notin Unsteady, Typed, TimerInv, [Next]_vars
    PROVE  TimerInv'
  <1> USE DEF TimerInv, TimersMatchModes, timers, NoUpdate, NotOverridden
  <1>a. ASSUME UNCHANGED <<mIsBrightnessBoosted, boostTask>>, firstLuxTask' = None,
               mWaitForFirstLux' = FALSE
        PROVE  TimerInv'
    BY <1>a
  <1>b. ASSUME UNCHANGED <<mIsBrightnessBoosted, boostTask, firstLuxTask, mWaitForFirstLux>>,
               firstLuxTask = None \/ UNCHANGED mIsBrightnessOverridden
        PROVE  TimerInv'
    BY <1>b
  <1>1. ASSUME NEW s \in {"OFF", "ON", "DIM", "DOZE"}, SetDisplayState(s) PROVE TimerInv'
    <2>1. UNCHANGED <<mIsBrightnessBoosted, boostTask, firstLuxTask>>
      BY <1>1 DEF SetDisplayState
    <2>2. CASE s = "OFF"
      <3>1. LeaveScreen
        BY <1>1, <2>2 DEF SetDisplayState
      <3>2. UNCHANGED mWaitForFirstLux /\ (mIsBrightnessOverridden' => mIsBrightnessOverridden)
        BY <3>1 DEF LeaveScreen
      <3> QED
        BY <2>1, <3>2
    <2>3. CASE s = "DIM"
      <3>1. SetSleepBrightness /\ firstLuxTask = None
        BY <1>1, <2>3 DEF SetDisplayState, Steady
      <3>2. CASE UNCHANGED mWaitForFirstLux
        BY <1>b, <2>1, <3>1, <3>2
      <3>3. CASE Overrides(EnterSleepBrightness, TRUE)
        BY <1>a, <2>1, <3>1, <3>3, UpdateEndsWait DEF Overrides
      <3> QED
        BY <3>1, <3>2, <3>3 DEF SetSleepBrightness
    <2>4. CASE s = "ON"
      <3>1. WakeScreen
        BY <1>1, <2>4 DEF SetDisplayState
      <3>2. CASE NotOverridden /\ NoUpdate
        BY <1>b, <2>1, <3>2
      <3>3. CASE mIsBrightnessOverridden /\ RestoreBrightnessTo(FALSE)
        BY <1>a, <2>1, <3>3, UpdateEndsWait DEF RestoreBrightnessTo
      <3> QED
        BY <3>1, <3>2, <3>3 DEF WakeScreen
    <2>5. CASE s = "DOZE"
      BY <1>1, <1>b, <2>1, <2>5 DEF SetDisplayState
    <2> QED
      BY <2>2, <2>3, <2>4, <2>5
  <1>c. ASSUME UNCHANGED <<timers, mDiscount>>, firstLuxTask = None, NEW value, NEW gradual,
               NEW continuous,
               \/ SetBrightness(value, gradual, continuous)
               \/ \E sets : CannotSetBrightness(value, sets)
        PROVE  TimerInv'
    <2>1. CASE SetBrightness(value, gradual, continuous)
      <3>1. Update(value, gradual, ~continuous) /\ UNCHANGED mIsBrightnessBoosted
        BY <2>1 DEF SetBrightness
      <3>2. mWaitForFirstLux' = FALSE
        BY <3>1, UpdateEndsWait
      <3> QED
        BY <1>a, <1>c, <3>1, <3>2
    <2>2. CASE \E sets : CannotSetBrightness(value, sets)
      BY <1>b, <1>c, <2>2 DEF CannotSetBrightness, modes
    <2> QED
      BY <1>c, <2>1, <2>2
  <1>2. ASSUME NEW value \in Values, NEW continuous \in BOOLEAN,
               SetBrightnessInner(value, continuous)
        PROVE  TimerInv'
    BY <1>2, <1>c DEF SetBrightnessInner, Requested, Steady
  <1>2a. ASSUME NEW value \in Values, NEW gradual \in BOOLEAN, AdjustBrightnessInner(value, gradual)
         PROVE  TimerInv'
    BY <1>2a, <1>c DEF AdjustBrightnessInner, Requested, Steady
  <1>2b. CASE OnFoldStatusChanged
    BY <1>2b, <1>a, UpdateEndsWait DEF OnFoldStatusChanged, Requested, Steady, modes
  <1>3. CASE SetScreenOnBrightness
    <2> DEFINE value == ScreenOnBrightness(TRUE)
               mine == ~mIsBrightnessBoosted /\ ~mIsBrightnessOverridden
    <2>1. UNCHANGED <<mIsBrightnessBoosted, mIsBrightnessOverridden, boostTask>>
      BY <1>3 DEF SetScreenOnBrightness, modes
    <2>2. CASE WaitsForFirstLux
      <3>1. mWaitForFirstLux' = TRUE /\ firstLuxTask' # None
        BY <1>3, <2>2, Scales DEF SetScreenOnBrightness, Typed, NumbersTyped
      <3>2. ~mIsBrightnessOverridden /\ ~mIsBrightnessBoosted
        BY <2>2 DEF WaitsForFirstLux
      <3> QED
        BY <2>1, <3>1, <3>2
    <2>3. CASE ~WaitsForFirstLux
      <3>1. firstLuxTask' = None /\ Update(value, FALSE, mine)
        BY <1>3, <2>3 DEF SetScreenOnBrightness, Steady
      <3> HIDE DEF value, mine
      <3> QED
        BY <1>a, <2>1, <3>1, UpdateEndsWait
    <2> QED
      BY <2>2, <2>3
  <1>4. CASE FirstLuxTimeout
    BY <1>4, <1>a, UpdateEndsWait DEF FirstLuxTimeout, modes
  <1>5. CASE ClearOffset
    BY <1>5, <1>b DEF ClearOffset, modes
  <1>6. ASSUME NEW discount \in Discounts, DiscountBrightness(discount) PROVE TimerInv'
    BY <1>6, <1>a DEF DiscountBrightness, UpdateBrightness, Requested, Steady, modes
  <1>7. ASSUME NEW value \in Values, NEW gradual \in BOOLEAN, OverrideBrightness(value, gradual)
        PROVE  TimerInv'
    BY <1>7, <1>a, UpdateEndsWait DEF OverrideBrightness, Overrides, Requested, Steady
  <1>8. ASSUME NEW gradual \in BOOLEAN, RestoreBrightness(gradual) PROVE TimerInv'
    BY <1>8, <1>a, UpdateEndsWait DEF RestoreBrightness, RestoreBrightnessTo, Requested, Steady
  <1>9. CASE BoostBrightness
    <2>1. /\ mIsBrightnessBoosted' = TRUE /\ boostTask' = TRUE
          /\ firstLuxTask = None /\ UNCHANGED firstLuxTask
      BY <1>9 DEF BoostBrightness, Requested, Steady
    <2>2. mWaitForFirstLux' = FALSE
      BY <1>9, UpdateEndsWait DEF BoostBrightness, Requested, Steady, Typed, FlagsTyped
    <2> QED
      BY <2>1, <2>2
  <1>10. CASE CancelBoostBrightness
    <2>1. /\ mIsBrightnessBoosted' = FALSE /\ boostTask' = FALSE
          /\ firstLuxTask = None /\ UNCHANGED firstLuxTask
      BY <1>10 DEF CancelBoostBrightness
    <2>2. mWaitForFirstLux' = FALSE
      BY <1>10, UpdateEndsWait DEF CancelBoostBrightness
    <2> QED
      BY <2>1, <2>2
  <1>11. ASSUME NEW enable \in BOOLEAN, AutoAdjustBrightness(enable) PROVE TimerInv'
    BY <1>11, <1>b DEF AutoAdjustBrightness, modes
  <1>12. ASSUME NEW level \in SensorLevels, ProcessLightLux(level) PROVE TimerInv'
    <2>1. UNCHANGED <<mIsBrightnessBoosted, mIsBrightnessOverridden, boostTask>>
      BY <1>12 DEF ProcessLightLux, modes
    <2>2. CASE level # mBrightnessLevel \/ isFirstLux
      <3>1. firstLuxTask' = None
        BY <1>12, <2>2 DEF ProcessLightLux, CancelFirstLux, Typed, FlagsTyped
      <3>2. mWaitForFirstLux' = FALSE
        BY <1>12, <2>2, UpdateEndsWait DEF ProcessLightLux
      <3> QED
        BY <1>a, <2>1, <3>1, <3>2
    <2>3. CASE ~(level # mBrightnessLevel \/ isFirstLux)
      BY <1>12, <1>b, <2>1, <2>3 DEF ProcessLightLux
    <2> QED
      BY <2>2, <2>3
  <1>13. CASE RampStep
    BY <1>13, <1>b DEF RampStep, modes
  <1>14. CASE WriteSetting
    BY <1>14, <1>b DEF WriteSetting, modes
  <1>15. CASE UNCHANGED vars
    BY <1>15, <1>b DEF vars, modes
  <1> QED
    BY <1>1, <1>2, <1>3, <1>4, <1>5, <1>6, <1>7, <1>8, <1>9, <1>10, <1>11, <1>12, <1>13, <1>14,
       <1>15, <1>2a, <1>2b DEF Next

LEMMA InitTimer == Init => TimerInv
  BY DEF Init, TimerInv, TimersMatchModes

\* Of all that may make the environment unsteady only requests during the wait for the first light
\* reading are left out; then neither a boost nor the wait ever outlasts the task that ends it.
THEOREM TimersMatch == "firstLux" \notin Unsteady /\ Spec => []TimersMatchModes
  <1> SUFFICES ASSUME "firstLux" \notin Unsteady PROVE Spec => []TimersMatchModes
    OBVIOUS
  <1>1. Typed /\ TimerInv /\ [Next]_vars => TimerInv'
    BY TimerStep
  <1>2. TimerInv => TimersMatchModes
    BY DEF TimerInv
  <1> QED
    BY <1>1, <1>2, InitTimer, InitTyped, StepTyped, PTL DEF Spec

-----------------------------------------------------------------------------
(* Where panel and setting are going while a ramp runs and writes wait. *)

\* Every situation but an override of an override is left out.
Orderly == Unsteady \subseteq {"again"}

\* What the panel shows, and what the setting is, once the ramp and the writes have run.
FinalPanel == IF ramp # NoRamp THEN ramp.to ELSE panel
FinalSetting ==
    IF ramp # NoRamp /\ ~mIsSleepStatus THEN GetOrigBrightnessLevel(ramp.to)
    ELSE IF writes # << >> THEN writes[Len(writes)].value ELSE setting
FinalMode ==
    IF mIsBrightnessBoosted THEN MaxLevel
    ELSE IF mIsBrightnessOverridden THEN mOverriddenBrightness
    ELSE FinalSetting

LEMMA OrderlyStored ==
    ASSUME Orderly
    PROVE  Stored = Levels /\ Stored \subseteq Nat /\ Writers = {"service"}
  BY StoredTyped DEF Orderly

LEMMA NoRampDiffers ==
    ASSUME NEW at \in Nat, NEW to
    PROVE  [at |-> at, to |-> to] # NoRamp
  BY Scales DEF NoRamp

\* An update at once: the panel shows the value, and the setting follows if it is to be saved.
LEMMA UpdateNow ==
    ASSUME Typed, NEW value \in Nat, NEW save \in BOOLEAN, Update(value, FALSE, save)
    PROVE  /\ ramp' = NoRamp
           /\ FinalPanel' = Shown(value)
           /\ save => FinalSetting' = GetSafeBrightness(value) /\ writes' # << >>
           /\ ~save => writes' = writes
  <1> DEFINE safe == GetSafeBrightness(value)
             entry == [value |-> safe, by |-> "service"]
  <1>1. ramp' = NoRamp /\ panel' = Shown(value)
    BY DEF Update, UpdateBrightness, StopDimming
  <1>a. safe \in Stored
    <2>1. value \in Int
      OBVIOUS
    <2> QED
      BY <2>1, SafeTyped, StoredTyped
  <1>2. entry.value = safe /\ entry \in Entry
    BY <1>a, StoredTyped DEF Entry
  <1>3. save => writes' = Append(writes, entry)
    BY DEF Update, UpdateBrightness, SubmitWrite
  <1>4. ~save => writes' = writes
    BY DEF Update, UpdateBrightness
  <1>5. writes \in Seq(Entry)
    BY DEF Typed, OutputTyped
  <1> HIDE DEF entry
  <1>6. save => writes' # << >> /\ writes'[Len(writes')] = entry
    BY <1>2, <1>3, <1>5
  <1> QED
    BY <1>1, <1>2, <1>4, <1>6 DEF FinalPanel, FinalSetting

\* An update by a ramp: outside sleep its last step leaves the setting that stands for its end.
LEMMA UpdateGradually ==
    ASSUME Orderly, Typed, NEW value \in Nat, NEW save, Update(value, TRUE, save),
           writes = << >>, UNCHANGED setting
    PROVE  /\ FinalPanel' = Shown(value)
           /\ writes' = << >>
           /\ FinalSetting' = IF mIsSleepStatus' \/ setting = Shown(value) THEN setting
                              ELSE GetOrigBrightnessLevel(Shown(value))
           /\ ~mIsSleepStatus' => ShownUnder(FinalSetting', mDiscount) = Shown(value)
           /\ FinalSetting' \in Levels
  <1> DEFINE to == Shown(value)
  <1>1. writes' = << >> /\ StartDimming(to)
    BY DEF Update, UpdateBrightness
  <1>2. value \in Int /\ mDiscount \in 1 .. 100
    BY DiscountTyped DEF Typed
  <1>3. to \in Mapping
    BY <1>2, ShownTyped DEF Shown
  <1>4. /\ ~mIsSleepStatus' => mDiscount = 100
        /\ setting = to => panel = to /\ Shown(to) = to
        /\ ramp' = IF setting = to THEN NoRamp ELSE [at |-> setting, to |-> to]
        /\ UNCHANGED panel
    BY <1>1 DEF StartDimming, Steady, Orderly, Update, UpdateBrightness
  <1>5. setting \in Levels /\ setting \in Nat /\ GetOrigBrightnessLevel(to) \in Levels
    <2>1. setting \in Levels /\ setting \in Nat
      BY OrderlyStored DEF Typed, NumbersTyped
    <2>2. to \in Int
      BY <1>3, Scales DEF Mapping
    <2> QED
      BY <2>1, <2>2, LevelsTyped
  <1> HIDE DEF to
  <1>6. CASE setting = to
    <2>1. ramp' = NoRamp /\ panel' = to
      BY <1>4, <1>6
    <2>2. FinalPanel' = to /\ FinalSetting' = setting
      BY <1>1, <2>1 DEF FinalPanel, FinalSetting
    <2>3. ShownUnder(setting, mDiscount) = to
      BY <1>4, <1>6 DEF Shown
    <2> QED
      BY <1>1, <1>5, <1>6, <2>2, <2>3 DEF to
  <1>7. CASE setting # to
    <2>1. ramp' # NoRamp /\ ramp'.to = to
      BY <1>4, <1>5, <1>7, NoRampDiffers
    <2>2. FinalPanel' = to
      BY <2>1 DEF FinalPanel
    <2>3. FinalSetting' = IF mIsSleepStatus' THEN setting ELSE GetOrigBrightnessLevel(to)
      BY <1>1, <2>1 DEF FinalSetting
    <2>4. ~mIsSleepStatus' => ShownUnder(GetOrigBrightnessLevel(to), mDiscount) = to
      BY <1>3, <1>4, ShownOfOrig
    <2> QED
      BY <1>1, <1>5, <1>7, <2>2, <2>3, <2>4 DEF to
  <1> QED
    BY <1>6, <1>7

\* Both ways: the panel will show the value, and the setting if it is what is changed.
LEMMA UpdateShows ==
    ASSUME Orderly, Typed, NEW value \in Nat, NEW gradual \in BOOLEAN, NEW save \in BOOLEAN,
           Update(value, gradual, save), writes = << >>, UNCHANGED setting
    PROVE  /\ FinalPanel' = Shown(value)
           /\ save /\ (gradual => ~mIsSleepStatus')
                  => FinalPanel' = ShownUnder(FinalSetting', mDiscount)
  <1>1. CASE gradual
    <2>1. Update(value, TRUE, save)
      BY <1>1
    <2>2. /\ FinalPanel' = Shown(value)
          /\ ~mIsSleepStatus' => ShownUnder(FinalSetting', mDiscount) = Shown(value)
      BY <2>1, UpdateGradually
    <2> QED
      BY <1>1, <2>2
  <1>2. CASE ~gradual
    <2>1. Update(value, FALSE, save)
      BY <1>2
    <2>2. FinalPanel' = Shown(value) /\ (save => FinalSetting' = GetSafeBrightness(value))
      BY <2>1, UpdateNow
    <2> QED
      BY <2>2, ShownSafe DEF Shown
  <1> QED
    BY <1>1, <1>2

-----------------------------------------------------------------------------
(* What the panel shows. *)

\* PanelShowsMode speaks of a service at rest only.  Before, on a lit screen with nothing due and
\* no reading awaited, the panel is on its way to what the mode will call for.  Nothing ramps
\* under a boost, or after a dimming before sleep whose override has ended: whether that ramp
\* changes the setting would depend on when it ends.
Visible == IsScreenOn /\ firstLuxTask = None /\ ~onDue
PanelInv ==
    /\ mIsBrightnessBoosted \/ (mIsSleepStatus /\ ~mIsBrightnessOverridden) => ramp = NoRamp
    /\ Visible => FinalPanel = Shown(FinalMode)

LEMMA InitPanel == Init => PanelInv
  BY DEF Init, PanelInv, Visible, IsScreenOn, IsScreenOnState

LEMMA PanelShowsModeFinally == PanelInv => PanelShowsMode
  <1> SUFFICES ASSUME PanelInv, AtRest
               PROVE  panel = Shown(ScreenOnBrightness(FALSE))
    BY DEF PanelShowsMode
  <1>1. FinalPanel = panel /\ FinalMode = ScreenOnBrightness(FALSE)
    BY DEF AtRest, FinalPanel, FinalMode, FinalSetting, ScreenOnBrightness
  <1>2. Visible
    BY DEF AtRest, Visible
  <1> QED
    BY <1>1, <1>2 DEF PanelInv

\* What a client asks for finds no write of the setting waiting, unless the situation says so.
LEMMA CalmMeansWritten == Orderly /\ Calm => writes = << >>
  BY DEF Orderly, Calm, Steady

LEMMA RequestedMeans == Orderly /\ Requested => writes = << >> /\ IsScreenOn /\ firstLuxTask = None
  BY CalmMeansWritten DEF Orderly, Requested, Steady

LEMMA PanelStateStep ==
    ASSUME Orderly, Typed, PanelInv, NEW s \in {"OFF", "ON", "DIM", "DOZE"}, SetDisplayState(s)
    PROVE  PanelInv'
  <1> USE DEF NotOverridden, NoUpdate, output
  <1>1. /\ UNCHANGED <<mIsBrightnessBoosted, mDiscount, setting, firstLuxTask>>
        /\ mState' = s /\ writes = << >>
        /\ ~(mIsBrightnessOverridden /\ mIsBrightnessBoosted)
    BY CalmMeansWritten DEF SetDisplayState, saved, timers, Typed, FlagsTyped
  <1>2. CASE s = "OFF"
    <2>1. ramp' = NoRamp
      BY <1>2 DEF SetDisplayState, LeaveScreen, StopDimming
    <2>2. ~Visible'
      BY <1>1, <1>2 DEF Visible, IsScreenOn, IsScreenOnState
    <2> QED
      BY <2>1, <2>2 DEF PanelInv
  <1>3. CASE s = "DOZE"
    <2>1. UNCHANGED <<mIsSleepStatus, mIsBrightnessOverridden, ramp>>
      BY <1>3 DEF SetDisplayState
    <2>2. ~Visible'
      BY <1>1, <1>3 DEF Visible, IsScreenOn, IsScreenOnState
    <2> QED
      BY <1>1, <2>1, <2>2 DEF PanelInv
  <1>4. CASE s = "DIM"
    <2>1. SetSleepBrightness /\ IsScreenOn
      BY <1>4 DEF SetDisplayState, Orderly, Steady
    <2>2. Visible' => Visible
      <3>1. onDue' = (onDue /\ IsScreenOnState("DIM"))
        BY <1>4 DEF SetDisplayState
      <3>2. onDue' <=> onDue
        BY <3>1, Zenon DEF IsScreenOnState
      <3> QED
        BY <1>1, <2>1, <3>2 DEF Visible
    <2>3. CASE UNCHANGED mIsSleepStatus /\ NotOverridden /\ NoUpdate
      BY <1>1, <2>2, <2>3 DEF PanelInv, FinalPanel, FinalSetting, FinalMode, Shown
    <2>4. CASE mIsBrightnessBoosted /\ NotOverridden /\ NoUpdate
      BY <1>1, <2>2, <2>4 DEF PanelInv, FinalPanel, FinalMode, Shown
    <2>5. CASE ~mIsBrightnessBoosted /\ Overrides(EnterSleepBrightness, TRUE)
      <3>1. mIsBrightnessOverridden' = TRUE /\ mOverriddenBrightness' = EnterSleepBrightness
        BY <2>5 DEF Overrides
      <3>2. EnterSleepBrightness \in Nat
        BY EnterSleepTyped DEF Typed
      <3>3. FinalPanel' = Shown(EnterSleepBrightness)
        BY <1>1, <2>5, <3>2, UpdateShows DEF Overrides
      <3>4. FinalMode' = EnterSleepBrightness
        BY <1>1, <2>5, <3>1 DEF FinalMode
      <3> QED
        BY <1>1, <2>5, <3>1, <3>3, <3>4 DEF PanelInv, Shown
    <2> QED
      BY <2>1, <2>3, <2>4, <2>5 DEF SetSleepBrightness
  <1>5. CASE s = "ON"
    <2>1. WakeScreen /\ mIsSleepStatus' = FALSE
      BY <1>5 DEF SetDisplayState, WakeScreen
    <2>2. Visible' => Visible
      <3>1. CASE mState = "ON"
        BY <1>1, <1>5, <3>1 DEF SetDisplayState, Visible, IsScreenOn, IsScreenOnState
      <3>2. CASE mState # "ON"
        <4>1. onDue' \in {TRUE, "delayedOff" \notin Unsteady}
          BY <1>5, <3>2 DEF SetDisplayState
        <4>2. onDue'
          BY <4>1 DEF Orderly
        <4> QED
          BY <4>2 DEF Visible
      <3> QED
        BY <3>1, <3>2
    <2>3. CASE ~(mIsSleepStatus /\ mIsBrightnessOverridden) /\ NotOverridden /\ NoUpdate
      <3>1. mIsSleepStatus => ramp = NoRamp
        BY <2>3 DEF PanelInv
      <3>2. FinalPanel' = FinalPanel /\ FinalSetting' = FinalSetting
        BY <1>1, <2>1, <2>3, <3>1, Zenon DEF FinalPanel, FinalSetting
      <3>3. FinalMode' = FinalMode
        BY <1>1, <2>3, <3>2 DEF FinalMode
      <3> QED
        BY <1>1, <2>1, <2>2, <2>3, <3>2, <3>3 DEF PanelInv, Shown
    <2>4. CASE mIsBrightnessOverridden /\ RestoreBrightnessTo(FALSE)
      <3>1. /\ mIsBrightnessOverridden' = FALSE
            /\ Update(mBeforeOverriddenBrightness, FALSE, TRUE)
        BY <2>4 DEF RestoreBrightnessTo
      <3>a. mBeforeOverriddenBrightness \in Nat
        BY StoredTyped DEF Typed, NumbersTyped
      <3>2. /\ ramp' = NoRamp /\ FinalPanel' = Shown(mBeforeOverriddenBrightness)
            /\ FinalSetting' = GetSafeBrightness(mBeforeOverriddenBrightness)
        BY <3>1, <3>a, UpdateNow
      <3>3. FinalMode' = GetSafeBrightness(mBeforeOverriddenBrightness)
        BY <1>1, <2>4, <3>1, <3>2 DEF FinalMode
      <3> QED
        BY <1>1, <3>a, <3>2, <3>3, ShownSafe DEF PanelInv, Shown
    <2> QED
      BY <2>1, <2>3, <2>4 DEF WakeScreen
  <1> QED
    BY <1>2, <1>3, <1>4, <1>5

\* The steps of a ramp and the writes of the setting come closer to where both are going.
LEMMA RampStepFinal ==
    ASSUME Typed, RampStep
    PROVE  /\ FinalPanel' = FinalPanel /\ FinalSetting' = FinalSetting
           /\ UNCHANGED <<mState, modes, mDiscount, firstLuxTask, onDue, saved, user>>
           /\ ramp # NoRamp
           /\ IF mIsSleepStatus THEN writes' = writes ELSE writes' # << >>
  <1>1. PICK level \in (ramp.at + 1 .. ramp.to) \union (ramp.to .. ramp.at - 1) :
            /\ panel' = level
            /\ ramp' = IF level = ramp.to THEN NoRamp ELSE [ramp EXCEPT !.at = level]
            /\ IF mIsSleepStatus THEN UNCHANGED writes
               ELSE SubmitWrite(GetOrigBrightnessLevel(level), "service")
    BY DEF RampStep
  <1>2. /\ UNCHANGED <<mState, modes, mDiscount, firstLuxTask, onDue, saved, setting, user>>
        /\ ramp # NoRamp /\ UNCHANGED mIsSleepStatus
    BY DEF RampStep, modes, timers, saved
  <1>3. ramp \in [at : Stored, to : Mapping] /\ writes \in Seq(Entry)
    BY <1>2 DEF Typed, OutputTyped
  <1>b. level \in Stored /\ level \in Nat /\ GetOrigBrightnessLevel(level) \in Stored
    <2>1. level \in Stored
      BY <1>3, RampLevelTyped
    <2>2. level \in Nat /\ level \in Int
      BY <2>1, StoredTyped
    <2> QED
      BY <2>1, <2>2, LevelsTyped, StoredTyped
  <1> DEFINE entry == [value |-> GetOrigBrightnessLevel(level), by |-> "service"]
  <1>c. entry \in Entry /\ entry.value = GetOrigBrightnessLevel(level)
    BY <1>b, StoredTyped DEF Entry
  <1>d. ~mIsSleepStatus => writes' = Append(writes, entry)
    BY <1>1 DEF SubmitWrite
  <1> HIDE DEF entry
  <1>a. /\ IF mIsSleepStatus THEN writes' = writes ELSE writes' # << >>
        /\ ~mIsSleepStatus => writes'[Len(writes')] = entry
    BY <1>1, <1>3, <1>c, <1>d
  <1>4. CASE level = ramp.to
    <2>1. FinalPanel' = FinalPanel
      BY <1>1, <1>2, <1>4 DEF FinalPanel
    <2>2. CASE mIsSleepStatus
      BY <1>1, <1>2, <1>a, <2>1, <2>2 DEF FinalSetting
    <2>3. CASE ~mIsSleepStatus
      <3>2. writes' # << >> /\ writes'[Len(writes')].value = GetOrigBrightnessLevel(ramp.to)
        BY <1>4, <1>a, <1>c, <2>3
      <3>3. ramp' = NoRamp
        BY <1>1, <1>4
      <3> QED
        BY <1>2, <1>a, <2>1, <2>3, <3>2, <3>3 DEF FinalSetting
    <2> QED
      BY <2>2, <2>3
  <1>5. CASE level # ramp.to
    <2>1. ramp' = [at |-> level, to |-> ramp.to]
      BY <1>1, <1>3, <1>5
    <2>2. ramp' # NoRamp /\ ramp'.to = ramp.to
      BY <1>b, <2>1, NoRampDiffers
    <2>3. FinalPanel' = FinalPanel
      BY <1>2, <2>2 DEF FinalPanel
    <2>4. FinalSetting' = FinalSetting
      BY <1>1, <1>2, <2>2 DEF FinalSetting
    <2> QED
      BY <1>2, <1>a, <2>3, <2>4
  <1> QED
    BY <1>4, <1>5

\* Without the first of its elements a sequence still ends as it did.
LEMMA WithoutFirst ==
    ASSUME NEW S, NEW seq \in Seq(S), seq # << >>
    PROVE  (IF RemoveAt(seq, 1) # << >> THEN RemoveAt(seq, 1)[Len(RemoveAt(seq, 1))] ELSE seq[1])
               = seq[Len(seq)]
  <1> DEFINE rest == RemoveAt(seq, 1)
             n == Len(seq)
  <1>1. n \in Nat /\ n >= 1
    BY EmptySeq
  <1>2. rest \in Seq(S) /\ Len(rest) = n - 1
    BY <1>1, RemoveTyped
  <1>3. rest = Tail(seq)
    <2>1. rest = SubSeq(seq, 1, 0) \o SubSeq(seq, 2, n)
      BY DEF RemoveAt
    <2>2. SubSeq(seq, 1, 0) = << >> /\ SubSeq(seq, 2, n) = Tail(seq)
      BY TailIsSubSeq
    <2>3. Tail(seq) \in Seq(S)
      BY HeadTailProperties
    <2> QED
      BY <2>1, <2>2, <2>3, ConcatEmptySeq
  <1>4. \A i \in 1 .. n - 1 : rest[i] = seq[i + 1]
    BY <1>2, <1>3, HeadTailProperties
  <1>5. rest = << >> => Len(rest) = 0
    BY EmptySeq
  <1>6. rest # << >> => Len(rest) >= 1
    BY <1>2, EmptySeq
  <1> HIDE DEF rest, n
  <1>7. CASE rest = << >>
    <2>1. n = 1
      BY <1>1, <1>2, <1>5, <1>7
    <2> QED
      BY <1>7, <2>1 DEF rest, n
  <1>8. CASE rest # << >>
    <2>1. n - 1 \in 1 .. n - 1 /\ (n - 1) + 1 = n
      BY <1>1, <1>2, <1>6, <1>8
    <2>2. rest[n - 1] = seq[n]
      BY <1>4, <2>1
    <2> QED
      BY <1>2, <1>8, <2>2 DEF rest, n
  <1> QED
    BY <1>7, <1>8

LEMMA WriteSettingFinal ==
    ASSUME Orderly, Typed, WriteSetting
    PROVE  /\ FinalPanel' = FinalPanel /\ FinalSetting' = FinalSetting
           /\ UNCHANGED <<mState, modes, mDiscount, firstLuxTask, onDue, ramp, user>>
           /\ writes # << >> /\ mCachedSettingBrightness' = setting'
  <1>1. PICK i \in DOMAIN writes :
            /\ i = 1 /\ setting' = writes[i].value
            /\ writes[i].by = "service" => mCachedSettingBrightness' = setting'
            /\ writes' = RemoveAt(writes, i)
            /\ UNCHANGED <<mState, modes, mDiscount, timers, onDue, ramp, panel, user>>
    BY DEF WriteSetting, Orderly, Steady
  <1>2. writes \in Seq(Entry) /\ writes # << >> /\ writes[1] \in Entry
    BY <1>1 DEF Typed, OutputTyped
  <1>3. (IF writes' # << >> THEN writes'[Len(writes')] ELSE writes[1]) = writes[Len(writes)]
    BY <1>1, <1>2, WithoutFirst
  <1>4. FinalSetting' = FinalSetting
    <2>1. (IF writes' # << >> THEN writes'[Len(writes')].value ELSE setting')
              = writes[Len(writes)].value
      BY <1>1, <1>3
    <2> QED
      BY <1>1, <1>2, <2>1 DEF FinalSetting, modes
  <1>5. mCachedSettingBrightness' = setting'
    BY <1>1, <1>2, OrderlyStored DEF Entry
  <1> QED
    BY <1>1, <1>2, <1>4, <1>5 DEF FinalPanel, timers

\* A step that touches nothing the panel shows, and makes nothing visible.
LEMMA PanelFrame ==
    ASSUME PanelInv, Visible' => Visible,
           UNCHANGED <<output, setting, mDiscount, modes>>
    PROVE  PanelInv'
  BY DEF output, modes, PanelInv, FinalPanel, FinalSetting, FinalMode, Shown

\* A step that gives the panel, at once or by a ramp, what the mode calls for from then on.
LEMMA PanelShown ==
    ASSUME FinalPanel' = ShownUnder(FinalMode', mDiscount'),
           mIsBrightnessBoosted' \/ (mIsSleepStatus' /\ ~mIsBrightnessOverridden') => ramp' = NoRamp
    PROVE  PanelInv'
  BY DEF PanelInv, Shown

\* A step that sets the user's brightness, with neither boost nor override from then on.
LEMMA PanelSet ==
    ASSUME Orderly, Typed, NEW value \in Nat, NEW gradual \in BOOLEAN,
           Update(value, gradual, TRUE), writes = << >> \/ ~gradual,
           UNCHANGED <<setting, mDiscount>>,
           gradual => ~mIsSleepStatus', ~mIsBrightnessBoosted', ~mIsBrightnessOverridden'
    PROVE  PanelInv'
  <1>1. FinalMode' = FinalSetting'
    BY DEF FinalMode
  <1>2. CASE gradual
    <2>1. FinalPanel' = ShownUnder(FinalSetting', mDiscount)
      BY <1>2, UpdateShows
    <2> QED
      BY <1>1, <1>2, <2>1, PanelShown
  <1>3. CASE ~gradual
    <2>1. Update(value, FALSE, TRUE)
      BY <1>3
    <2>2. /\ ramp' = NoRamp /\ FinalPanel' = Shown(value)
          /\ FinalSetting' = GetSafeBrightness(value)
      BY <2>1, UpdateNow
    <2> QED
      BY <1>1, <2>2, ShownSafe, PanelShown DEF Shown
  <1> QED
    BY <1>2, <1>3

\* A level asked for, however it was, on a screen whose writes are done.
LEMMA PanelRequest ==
    ASSUME Orderly, Typed, PanelInv, Requested, NEW value \in Nat, NEW gradual \in BOOLEAN,
           \/ SetBrightness(value, gradual, FALSE) /\ (gradual => ~mIsSleepStatus)
           \/ (\E sets : CannotSetBrightness(value, sets)) /\ UNCHANGED <<panel, writes>>,
           UNCHANGED <<mState, timers, mDiscount, onDue>>
    PROVE  PanelInv'
  <1> USE DEF modes, saved, timers
  <1>1. writes = << >> /\ ~(mIsBrightnessOverridden /\ mIsBrightnessBoosted)
    BY RequestedMeans DEF Typed, FlagsTyped
  <1>2. CASE SetBrightness(value, gradual, FALSE) /\ (gradual => ~mIsSleepStatus)
    <2>1. Update(value, gradual, TRUE)
      BY <1>2 DEF SetBrightness
    <2>2. /\ ~mIsBrightnessOverridden' /\ ~mIsBrightnessBoosted'
          /\ UNCHANGED <<mIsSleepStatus, setting, mDiscount>>
      BY <1>1, <1>2 DEF SetBrightness, CanSetBrightness
    <2> QED
      BY <1>1, <1>2, <2>1, <2>2, PanelSet
  <1>3. CASE (\E sets : CannotSetBrightness(value, sets)) /\ UNCHANGED <<panel, writes>>
    <2>1. UNCHANGED <<output, setting, mDiscount, modes, mState, firstLuxTask, onDue>>
      BY <1>3 DEF CannotSetBrightness, output
    <2> QED
      BY <2>1, PanelFrame DEF Visible, IsScreenOn
  <1> QED
    BY <1>2, <1>3

LEMMA PanelStep ==
    ASSUME Orderly, Typed, TimerInv, PanelInv, [Next]_vars
    PROVE  PanelInv'
  <1> USE DEF modes, saved, timers
  <1>0. ~(mIsBrightnessOverridden /\ mIsBrightnessBoosted)
    BY DEF Typed, FlagsTyped
  <1>1. ASSUME NEW s \in {"OFF", "ON", "DIM", "DOZE"}, SetDisplayState(s) PROVE PanelInv'
    BY <1>1, PanelStateStep
  <1>2. ASSUME NEW value \in Values, NEW continuous \in BOOLEAN,
               SetBrightnessInner(value, continuous)
        PROVE  PanelInv'
    <2> DEFINE safe == GetSafeBrightness(value)
    <2>1. safe \in Nat
      BY ValuesTyped
    <2>2. /\ Requested /\ UNCHANGED <<mState, timers, mDiscount, onDue>>
          /\ \/ SetBrightness(safe, FALSE, FALSE)
             \/ CannotSetBrightness(safe, FALSE) /\ UNCHANGED <<panel, writes>>
      BY <1>2 DEF SetBrightnessInner, Steady, Orderly
    <2> HIDE DEF safe
    <2> QED
      BY <2>1, <2>2, PanelRequest
  <1>2a. ASSUME NEW value \in Values, NEW gradual \in BOOLEAN, AdjustBrightnessInner(value, gradual)
         PROVE  PanelInv'
    <2>1. /\ Requested /\ (gradual => ~mIsSleepStatus)
          /\ UNCHANGED <<mState, timers, mDiscount, onDue>>
      BY <1>2a DEF AdjustBrightnessInner, Steady, Orderly
    <2>2. value \in Nat /\ ~ControllerSets(gradual)
      BY <2>1, ValuesTyped, RequestedMeans DEF ControllerSets
    <2>3. \/ SetBrightness(value, gradual, FALSE)
          \/ CannotSetBrightness(value, ControllerSets(gradual)) /\ UNCHANGED <<panel, writes>>
      BY <1>2a, <2>2 DEF AdjustBrightnessInner, ControllerSetBrightness
    <2> QED
      BY <2>1, <2>2, <2>3, PanelRequest
  <1>2b. CASE OnFoldStatusChanged
    <2>1. /\ Update(setting, FALSE, TRUE) /\ UNCHANGED <<modes, setting, mDiscount>>
          /\ ~mIsBrightnessOverridden' /\ ~mIsBrightnessBoosted'
      BY <1>2b DEF OnFoldStatusChanged, CanSetBrightness
    <2>2. setting \in Nat
      BY StoredTyped DEF Typed, NumbersTyped
    <2> QED
      BY <2>1, <2>2, PanelSet
  <1>3. CASE SetScreenOnBrightness
    <2> DEFINE value == ScreenOnBrightness(TRUE)
               mine == ~mIsBrightnessBoosted /\ ~mIsBrightnessOverridden
    <2>1. UNCHANGED <<modes, mDiscount>>
      BY <1>3 DEF SetScreenOnBrightness
    <2>2. CASE WaitsForFirstLux
      <3>1. firstLuxTask' # None /\ UNCHANGED ramp
        BY <1>3, <2>2, Scales DEF SetScreenOnBrightness, output, Typed, NumbersTyped
      <3> QED
        BY <2>1, <3>1 DEF PanelInv, Visible
    <2>3. CASE ~WaitsForFirstLux
      <3>1. Update(value, FALSE, mine)
        BY <1>3, <2>3 DEF SetScreenOnBrightness
      <3>2. value \in Nat /\ mine \in BOOLEAN
        BY ScreenOnTyped DEF Typed
      <3>3. /\ mIsBrightnessBoosted => value = MaxLevel
            /\ ~mIsBrightnessBoosted /\ mIsBrightnessOverridden => value = mOverriddenBrightness
        BY DEF ScreenOnBrightness
      <3> HIDE DEF value
      <3>4. /\ ramp' = NoRamp /\ FinalPanel' = Shown(value)
            /\ mine => FinalSetting' = GetSafeBrightness(value)
        <4> HIDE DEF mine
        <4> QED
          BY <3>1, <3>2, UpdateNow
      <3>5. FinalMode' = value \/ FinalMode' = GetSafeBrightness(value)
        BY <2>1, <3>3, <3>4 DEF FinalMode
      <3> QED
        BY <2>1, <3>2, <3>4, <3>5, ShownSafe, PanelShown DEF Shown
    <2> QED
      BY <2>2, <2>3
  <1>4. CASE FirstLuxTimeout
    <2>1. ~mIsBrightnessOverridden' /\ ~mIsBrightnessBoosted' /\ UNCHANGED <<setting, mDiscount>>
      BY <1>4 DEF FirstLuxTimeout, TimerInv
    <2>2. firstLuxTask \in Nat /\ Update(firstLuxTask, FALSE, TRUE)
      BY <1>4 DEF FirstLuxTimeout, Typed, NumbersTyped
    <2> QED
      BY <2>1, <2>2, PanelSet
  <1>5. CASE ClearOffset
    <2>1. /\ ramp' = NoRamp /\ writes = << >> /\ panel = Shown(ScreenOnBrightness(FALSE))
          /\ UNCHANGED <<modes, setting, mDiscount, panel, writes>>
      BY <1>5, RequestedMeans DEF ClearOffset, StopDimming, Steady, Orderly
    <2>2. FinalPanel' = panel /\ FinalMode' = ScreenOnBrightness(FALSE)
      BY <2>1 DEF FinalPanel, FinalMode, FinalSetting, ScreenOnBrightness
    <2> QED
      BY <2>1, <2>2, PanelShown DEF Shown
  <1>6. ASSUME NEW discount \in Discounts, DiscountBrightness(discount) PROVE PanelInv'
    <2>1. /\ ramp' = NoRamp /\ writes = << >> /\ writes' = writes
          /\ panel' = ShownUnder(ScreenOnBrightness(FALSE), discount)
          /\ mDiscount' = discount /\ UNCHANGED <<modes, setting>>
      BY <1>6, RequestedMeans DEF DiscountBrightness, UpdateBrightness, StopDimming
    <2>2. FinalPanel' = panel' /\ FinalMode' = ScreenOnBrightness(FALSE)
      BY <2>1 DEF FinalPanel, FinalMode, FinalSetting, ScreenOnBrightness
    <2> QED
      BY <2>1, <2>2, PanelShown
  <1>7. ASSUME NEW value \in Values, NEW gradual \in BOOLEAN, OverrideBrightness(value, gradual)
        PROVE  PanelInv'
    <2>1. /\ mIsBrightnessOverridden' = TRUE /\ mOverriddenBrightness' = value
          /\ ~mIsBrightnessBoosted' /\ UNCHANGED <<setting, mDiscount>>
          /\ writes = << >> /\ Update(value, gradual, FALSE)
      BY <1>7, RequestedMeans DEF OverrideBrightness, Overrides, CanOverrideBrightness
    <2>2. FinalPanel' = Shown(value)
      BY <2>1, ValuesTyped, UpdateShows
    <2>3. FinalMode' = value
      BY <2>1 DEF FinalMode
    <2> QED
      BY <2>1, <2>2, <2>3, PanelShown DEF Shown
  <1>8. ASSUME NEW gradual \in BOOLEAN, RestoreBrightness(gradual) PROVE PanelInv'
    <2>1. writes = << >> /\ (gradual => ~mIsSleepStatus)
      BY <1>8, RequestedMeans DEF RestoreBrightness, Steady, Orderly
    <2>2. /\ ~mIsBrightnessOverridden' /\ ~mIsBrightnessBoosted'
          /\ UNCHANGED <<mIsSleepStatus, setting, mDiscount>>
          /\ Update(mBeforeOverriddenBrightness, gradual, TRUE)
      BY <1>0, <1>8 DEF RestoreBrightness, RestoreBrightnessTo
    <2>3. mBeforeOverriddenBrightness \in Nat
      BY StoredTyped DEF Typed, NumbersTyped
    <2> QED
      BY <2>1, <2>2, <2>3, PanelSet
  <1>9. CASE BoostBrightness
    <2>1. /\ mIsBrightnessBoosted' = TRUE /\ UNCHANGED <<mState, firstLuxTask, onDue>>
          /\ UNCHANGED <<mIsSleepStatus, mIsBrightnessOverridden, mOverriddenBrightness,
                         mBeforeOverriddenBrightness, setting, mDiscount>>
      BY <1>9 DEF BoostBrightness, NotBoosted
    <2>2. CASE mIsBrightnessBoosted
      <3>1. UNCHANGED output /\ UNCHANGED mIsBrightnessBoosted
        BY <1>9, <2>1, <2>2 DEF BoostBrightness, NoUpdate, Typed, FlagsTyped
      <3> QED
        BY <2>1, <3>1, PanelFrame DEF Visible, IsScreenOn
    <2>3. CASE ~mIsBrightnessBoosted
      <3>1. Update(MaxLevel, FALSE, FALSE)
        BY <1>9, <2>3 DEF BoostBrightness
      <3>2. MaxLevel \in Nat
        BY Scales
      <3>3. ramp' = NoRamp /\ FinalPanel' = Shown(MaxLevel)
        BY <3>1, <3>2, UpdateNow
      <3>4. FinalMode' = MaxLevel
        BY <2>1 DEF FinalMode
      <3> QED
        BY <2>1, <3>3, <3>4, PanelShown DEF Shown
    <2> QED
      BY <2>2, <2>3
  <1>10. CASE CancelBoostBrightness
    <2>1. /\ ~mIsBrightnessBoosted' /\ ~mIsBrightnessOverridden' /\ UNCHANGED <<setting, mDiscount>>
          /\ Update(mCachedSettingBrightness, FALSE, TRUE)
      BY <1>0, <1>10 DEF CancelBoostBrightness, NotBoosted, BeforeBoost
    <2>2. mCachedSettingBrightness \in Nat
      BY DEF Typed, NumbersTyped
    <2> QED
      BY <2>1, <2>2, PanelSet
  <1>11. ASSUME NEW enable \in BOOLEAN, AutoAdjustBrightness(enable) PROVE PanelInv'
    <2>1. UNCHANGED <<output, setting, mDiscount, modes, mState, firstLuxTask, onDue>>
      BY <1>11 DEF AutoAdjustBrightness
    <2> QED
      BY <2>1, PanelFrame DEF Visible, IsScreenOn
  <1>12. ASSUME NEW level \in SensorLevels, ProcessLightLux(level) PROVE PanelInv'
    <2>1. /\ writes = << >> /\ ~mIsBrightnessOverridden' /\ ~mIsBrightnessBoosted'
          /\ UNCHANGED <<mState, modes, setting, mDiscount, onDue>>
      BY <1>12, CalmMeansWritten DEF ProcessLightLux, CanSetBrightness
    <2>2. CASE level # mBrightnessLevel \/ isFirstLux
      <3> DEFINE gradual == ~(isFirstLux /\ mIsDisplayOnWhenFirstLuxReport)
      <3>1. Update(level, gradual, TRUE) /\ (gradual => ~mIsSleepStatus)
        BY <1>12, <2>2 DEF ProcessLightLux, Steady, Orderly
      <3>2. level \in Nat /\ gradual \in BOOLEAN
        BY ValuesTyped, Zenon
      <3> HIDE DEF gradual
      <3> QED
        BY <2>1, <3>1, <3>2, PanelSet
    <2>3. CASE ~(level # mBrightnessLevel \/ isFirstLux)
      <3>1. UNCHANGED <<output, firstLuxTask>>
        BY <1>12, <2>3 DEF ProcessLightLux
      <3> QED
        BY <2>1, <3>1, PanelFrame DEF Visible, IsScreenOn
    <2> QED
      BY <2>2, <2>3
  <1>13. CASE RampStep
    BY <1>13, RampStepFinal DEF PanelInv, FinalMode, Visible, IsScreenOn, Shown
  <1>14. CASE WriteSetting
    BY <1>14, WriteSettingFinal DEF PanelInv, FinalMode, Visible, IsScreenOn, Shown
  <1>15. CASE UNCHANGED vars
    BY <1>15, PanelFrame DEF vars, Visible, IsScreenOn
  <1> QED
    BY <1>1, <1>2, <1>3, <1>4, <1>5, <1>6, <1>7, <1>8, <1>9, <1>10, <1>11, <1>12, <1>13, <1>14,
       <1>15, <1>2a, <1>2b DEF Next

\* In an environment as orderly as that, whatever requests, readings, timers, ramps and writes come
\* in between: on a lit screen at rest the panel shows the boost, the override or the setting.
THEOREM PanelShows == Orderly /\ Spec => []PanelShowsMode
  <1> SUFFICES ASSUME Orderly PROVE Spec => []PanelShowsMode
    OBVIOUS
  <1>1. "firstLux" \notin Unsteady
    BY DEF Orderly
  <1>2. Typed /\ TimerInv /\ [Next]_vars => TimerInv'
    BY <1>1, TimerStep
  <1>3. Typed /\ TimerInv /\ PanelInv /\ [Next]_vars => PanelInv'
    BY PanelStep
  <1> QED
    BY <1>2, <1>3, InitTyped, StepTyped, InitTimer, InitPanel, PanelShowsModeFinally, PTL DEF Spec

-----------------------------------------------------------------------------
(* What the user gets back. *)

\* Where the service keeps the brightness to go back to: a boost finds it in the cache, an
\* override in what it saved, and otherwise the setting is on its way to it.
Kept ==
    IF mIsBrightnessBoosted THEN mCachedSettingBrightness
    ELSE IF mIsBrightnessOverridden THEN mBeforeOverriddenBrightness
    ELSE FinalSetting

\* The cache is the setting but while a write waits, and a boost lets none wait; the first
\* reading is awaited with the setting at rest; and a screen dimmed before sleep has not changed
\* the setting it saved.  What is kept may be out of scale, as it was asked for; what the panel
\* shows of it is the same.
UserInv ==
    /\ mIsBrightnessBoosted => writes = << >>
    /\ ~mIsBrightnessBoosted /\ writes = << >> => mCachedSettingBrightness = setting
    /\ firstLuxTask # None => ramp = NoRamp /\ writes = << >> /\ firstLuxTask = setting
    /\ mIsSleepStatus /\ mIsBrightnessOverridden
           => writes = << >> /\ setting = mBeforeOverriddenBrightness
    /\ user # None => GetSafeBrightness(Kept) = user

LEMMA InitUser == Init => UserInv
  <1> SUFFICES ASSUME Init PROVE UserInv
    OBVIOUS
  <1>1. setting \in Levels /\ GetSafeBrightness(setting) = setting
    BY ValuesTyped, SafeTyped, Scales DEF Init
  <1>2. Kept = setting
    BY DEF Init, Kept, FinalSetting
  <1> QED
    BY <1>1, <1>2 DEF Init, UserInv

LEMMA UserReturnsFinally == Typed /\ UserInv /\ PanelShowsMode => UserReturns
  <1> SUFFICES ASSUME Typed, UserInv, PanelShowsMode, AtRest, ~mIsBrightnessBoosted,
                      ~mIsBrightnessOverridden, user # None
               PROVE  panel = Shown(user)
    BY DEF UserReturns
  <1>1. user = GetSafeBrightness(setting)
    BY DEF UserInv, Kept, AtRest, FinalSetting
  <1>2. panel = Shown(setting)
    BY DEF PanelShowsMode, ScreenOnBrightness
  <1>3. setting \in Int
    BY StoredTyped DEF Typed, NumbersTyped
  <1> QED
    BY <1>1, <1>2, <1>3, ShownSafe DEF Shown

\* A step that touches neither the brightness kept nor who keeps it.
LEMMA UserFrame ==
    ASSUME UserInv, UNCHANGED <<output, saved, modes, firstLuxTask, user>>
    PROVE  UserInv'
  BY DEF output, saved, modes, UserInv, Kept, FinalSetting

\* With no write waiting, what a ramp that was not under way leaves chosen is found in one place.
LEMMA KeptAt ==
    ASSUME UserInv, writes = << >>, KeepsChosen, user' # None
    PROVE  /\ user' = user
           /\ mIsBrightnessBoosted => user = GetSafeBrightness(mCachedSettingBrightness)
           /\ ~mIsBrightnessBoosted /\ mIsBrightnessOverridden
                  => user = GetSafeBrightness(mBeforeOverriddenBrightness)
           /\ ~mIsBrightnessBoosted /\ ~mIsBrightnessOverridden => user = GetSafeBrightness(setting)
  <1>1. user' = user /\ (ramp = NoRamp \/ mIsBrightnessOverridden \/ mIsSleepStatus)
    BY DEF KeepsChosen
  <1> QED
    BY <1>1 DEF UserInv, Kept, FinalSetting

\* What is chosen is what the setting is on its way to.
LEMMA ChosenFinal ==
    ASSUME Orderly, Typed, NEW value \in Nat, NEW gradual \in BOOLEAN,
           Update(value, gradual, TRUE), Chosen(value, gradual),
           writes = << >>, UNCHANGED setting, gradual => ~mIsSleepStatus'
    PROVE  GetSafeBrightness(FinalSetting') = user' /\ (writes' = << >> => gradual)
  <1>1. CASE gradual
    <2>1. Update(value, TRUE, TRUE)
      BY <1>1
    <2>2. FinalSetting' = IF setting = Shown(value) THEN setting
                          ELSE GetOrigBrightnessLevel(Shown(value))
      BY <1>1, <2>1, UpdateGradually
    <2>3. FinalSetting' = user'
      BY <1>1, <2>2 DEF Chosen
    <2>4. FinalSetting' \in Levels
      BY <2>1, UpdateGradually
    <2>5. GetSafeBrightness(FinalSetting') = FinalSetting'
      BY <2>4, Scales, SafeTyped
    <2> QED
      BY <1>1, <2>3, <2>5
  <1>2. CASE ~gradual
    <2>1. Update(value, FALSE, TRUE)
      BY <1>2
    <2>2. FinalSetting' = GetSafeBrightness(value) /\ writes' # << >>
      BY <2>1, UpdateNow
    <2> QED
      BY <1>2, <2>2, SafeTyped DEF Chosen
  <1> QED
    BY <1>1, <1>2

\* A step after which neither boost nor override is in force, and the setting goes to the choice.
LEMMA UserSet ==
    ASSUME user' # None => GetSafeBrightness(FinalSetting') = user',
           ~mIsBrightnessBoosted', ~mIsBrightnessOverridden', firstLuxTask' = None,
           writes' = << >> => mCachedSettingBrightness' = setting'
    PROVE  UserInv'
  BY DEF UserInv, Kept

LEMMA UserStateStep ==
    ASSUME Unsteady = {}, Typed, TimerInv, PanelInv, UserInv,
           NEW s \in {"OFF", "ON", "DIM", "DOZE"}, SetDisplayState(s)
    PROVE  UserInv'
  <1> USE DEF NotOverridden, NoUpdate, output
  <1>1. Orderly
    BY DEF Orderly
  <1>2. /\ UNCHANGED <<mIsBrightnessBoosted, setting, mCachedSettingBrightness, firstLuxTask>>
        /\ writes = << >> /\ KeepsChosen
        /\ ~(mIsBrightnessOverridden /\ mIsBrightnessBoosted)
    BY <1>1, CalmMeansWritten DEF SetDisplayState, saved, timers, Typed, FlagsTyped
  <1>3. /\ user' # None => user' = user
        /\ mIsBrightnessBoosted /\ user' # None
               => user = GetSafeBrightness(mCachedSettingBrightness)
        /\ ~mIsBrightnessBoosted /\ user' # None
               => user = GetSafeBrightness(IF mIsBrightnessOverridden
                                           THEN mBeforeOverriddenBrightness ELSE setting)
    BY <1>2, KeptAt
  <1>4. CASE s = "OFF"
    <2>1. /\ ramp' = NoRamp /\ ~mIsSleepStatus' /\ writes' = << >>
          /\ mIsBrightnessOverridden' = (mIsBrightnessOverridden /\ ~mIsSleepStatus)
          /\ UNCHANGED mBeforeOverriddenBrightness
      BY <1>2, <1>4 DEF SetDisplayState, LeaveScreen, StopDimming
    <2>2. FinalSetting' = setting
      BY <1>2, <2>1 DEF FinalSetting
    <2>3. CASE mIsBrightnessOverridden'
      BY <1>2, <1>3, <2>1, <2>3 DEF UserInv, Kept
    <2>4. CASE ~mIsBrightnessOverridden'
      <3>1. ~mIsBrightnessOverridden \/ mIsSleepStatus
        BY <2>1, <2>4
      <3> QED
        BY <1>2, <1>3, <2>1, <2>2, <2>4, <3>1 DEF UserInv, Kept
    <2> QED
      BY <2>3, <2>4
  <1>5. CASE s = "DOZE"
    <2>1. UNCHANGED <<output, mIsSleepStatus, mIsBrightnessOverridden,
                      mBeforeOverriddenBrightness>>
      BY <1>5 DEF SetDisplayState
    <2> QED
      BY <1>2, <2>1, <1>3 DEF UserInv, Kept, FinalSetting
  <1>6. CASE s = "DIM"
    <2>1. SetSleepBrightness /\ firstLuxTask = None
      BY <1>6 DEF SetDisplayState, Steady
    <2>2. CASE UNCHANGED mIsSleepStatus /\ NotOverridden /\ NoUpdate
      BY <1>2, <1>3, <2>2 DEF UserInv, Kept, FinalSetting
    <2>3. CASE mIsBrightnessBoosted /\ NotOverridden /\ NoUpdate
      BY <1>2, <1>3, <2>1, <2>3 DEF UserInv, Kept
    <2>4. CASE ~mIsBrightnessBoosted /\ Overrides(EnterSleepBrightness, TRUE)
      <3>1. /\ mIsBrightnessOverridden' /\ mBeforeOverriddenBrightness' = setting
            /\ mIsBrightnessOverridden => setting = mBeforeOverriddenBrightness
            /\ writes' = << >>
        BY <1>2, <2>4 DEF Overrides, Steady, Update, UpdateBrightness
      <3> QED
        BY <1>2, <1>3, <2>1, <2>4, <3>1 DEF UserInv, Kept
    <2> QED
      BY <2>1, <2>2, <2>3, <2>4 DEF SetSleepBrightness
  <1>7. CASE s = "ON"
    <2>1. WakeScreen /\ mIsSleepStatus' = FALSE
      BY <1>7 DEF SetDisplayState, WakeScreen
    <2>2. CASE ~(mIsSleepStatus /\ mIsBrightnessOverridden) /\ NotOverridden /\ NoUpdate
      <3>1. mIsSleepStatus => ramp = NoRamp \/ mIsBrightnessBoosted
        BY <2>2 DEF PanelInv
      <3>2. ~mIsBrightnessBoosted => FinalSetting' = FinalSetting
        BY <1>2, <2>1, <2>2, <3>1 DEF FinalSetting
      <3> QED
        BY <1>2, <1>3, <2>1, <2>2, <3>2 DEF UserInv, Kept
    <2>3. CASE mIsSleepStatus /\ mIsBrightnessOverridden /\ RestoreBrightnessTo(FALSE)
      <3>1. /\ mIsBrightnessOverridden' = FALSE
            /\ Update(mBeforeOverriddenBrightness, FALSE, TRUE)
        BY <2>3 DEF RestoreBrightnessTo
      <3>a. mBeforeOverriddenBrightness \in Nat
        BY StoredTyped DEF Typed, NumbersTyped
      <3>2. FinalSetting' = GetSafeBrightness(mBeforeOverriddenBrightness) /\ writes' # << >>
        BY <3>1, <3>a, UpdateNow
      <3>b. GetSafeBrightness(FinalSetting') = FinalSetting'
        BY <3>a, <3>2, SafeTyped
      <3>3. firstLuxTask' = None
        BY <1>2, <2>3 DEF TimerInv
      <3> QED
        BY <1>2, <1>3, <2>3, <3>1, <3>2, <3>3, <3>b, UserSet
    <2> QED
      BY <2>1, <2>2, <2>3 DEF WakeScreen
  <1> QED
    BY <1>4, <1>5, <1>6, <1>7

\* A level asked for, taken or kept for the end of a boost.
LEMMA UserRequest ==
    ASSUME Orderly, Typed, UserInv, Requested, NEW value \in Nat, NEW gradual \in BOOLEAN,
           \/ SetBrightness(value, gradual, FALSE) /\ (gradual => ~mIsSleepStatus)
           \/ (\E sets : CannotSetBrightness(value, sets)) /\ UNCHANGED <<panel, writes>>,
           UNCHANGED timers
    PROVE  UserInv'
  <1> USE DEF modes, saved, timers
  <1>1. /\ writes = << >> /\ IsScreenOn /\ firstLuxTask = None /\ UNCHANGED firstLuxTask
        /\ ~(mIsBrightnessOverridden /\ mIsBrightnessBoosted)
    BY RequestedMeans DEF Typed, FlagsTyped
  <1>2. CASE SetBrightness(value, gradual, FALSE) /\ (gradual => ~mIsSleepStatus)
    <2>1. Update(value, gradual, TRUE) /\ Chosen(value, gradual)
      BY <1>2 DEF SetBrightness
    <2>2. /\ ~mIsBrightnessOverridden' /\ ~mIsBrightnessBoosted'
          /\ UNCHANGED <<mIsSleepStatus, saved>> /\ mCachedSettingBrightness = setting
      BY <1>1, <1>2 DEF SetBrightness, CanSetBrightness, UserInv
    <2>3. GetSafeBrightness(FinalSetting') = user'
      BY <1>1, <1>2, <2>1, <2>2, ChosenFinal
    <2> QED
      BY <1>1, <2>2, <2>3, UserSet
  <1>3. CASE (\E sets : CannotSetBrightness(value, sets)) /\ UNCHANGED <<panel, writes>>
    <2>1. /\ mCachedSettingBrightness' = value /\ user' = GetSafeBrightness(value)
          /\ UNCHANGED <<modes, ramp, writes, setting>> /\ mIsBrightnessBoosted
      BY <1>1, <1>3 DEF CannotSetBrightness, CanSetBrightness
    <2> QED
      BY <1>1, <2>1 DEF UserInv, Kept
  <1> QED
    BY <1>2, <1>3

LEMMA UserStep ==
    ASSUME Unsteady = {}, Typed, TimerInv, PanelInv, UserInv, [Next]_vars
    PROVE  UserInv'
  <1> USE DEF modes, saved, timers
  <1>o. Orderly
    BY DEF Orderly
  <1>0. ~(mIsBrightnessOverridden /\ mIsBrightnessBoosted)
    BY DEF Typed, FlagsTyped
  <1>1. ASSUME NEW s \in {"OFF", "ON", "DIM", "DOZE"}, SetDisplayState(s) PROVE UserInv'
    BY <1>1, UserStateStep
  <1>2. ASSUME NEW value \in Values, NEW continuous \in BOOLEAN,
               SetBrightnessInner(value, continuous)
        PROVE  UserInv'
    <2> DEFINE safe == GetSafeBrightness(value)
    <2>1. safe \in Nat
      BY ValuesTyped
    <2>2. /\ Requested /\ UNCHANGED timers
          /\ \/ SetBrightness(safe, FALSE, FALSE)
             \/ CannotSetBrightness(safe, FALSE) /\ UNCHANGED <<panel, writes>>
      BY <1>2 DEF SetBrightnessInner, Steady
    <2> HIDE DEF safe
    <2> QED
      BY <1>o, <2>1, <2>2, UserRequest
  <1>2a. ASSUME NEW value \in Values, NEW gradual \in BOOLEAN, AdjustBrightnessInner(value, gradual)
         PROVE  UserInv'
    <2>1. Requested /\ (gradual => ~mIsSleepStatus) /\ UNCHANGED timers
      BY <1>2a DEF AdjustBrightnessInner, Steady
    <2>2. value \in Nat /\ ~ControllerSets(gradual)
      BY <1>o, <2>1, ValuesTyped, RequestedMeans DEF ControllerSets
    <2>3. \/ SetBrightness(value, gradual, FALSE)
          \/ CannotSetBrightness(value, ControllerSets(gradual)) /\ UNCHANGED <<panel, writes>>
      BY <1>2a, <2>2 DEF AdjustBrightnessInner, ControllerSetBrightness
    <2> QED
      BY <1>o, <2>1, <2>2, <2>3, UserRequest
  <1>2b. CASE OnFoldStatusChanged
    <2>1. /\ writes = << >> /\ firstLuxTask = None /\ KeepsChosen
          /\ Update(setting, FALSE, TRUE) /\ UNCHANGED <<modes, saved, firstLuxTask>>
          /\ ~mIsBrightnessOverridden /\ ~mIsBrightnessBoosted
      BY <1>2b, <1>o, RequestedMeans DEF OnFoldStatusChanged, CanSetBrightness
    <2>2. setting \in Nat
      BY StoredTyped DEF Typed, NumbersTyped
    <2>3. FinalSetting' = GetSafeBrightness(setting) /\ writes' # << >>
      BY <2>1, <2>2, UpdateNow
    <2>4. GetSafeBrightness(FinalSetting') = GetSafeBrightness(setting)
      BY <2>2, <2>3, SafeTyped
    <2> QED
      BY <2>1, <2>3, <2>4, KeptAt, UserSet
  <1>3. CASE SetScreenOnBrightness
    <2> DEFINE value == ScreenOnBrightness(TRUE)
               mine == ~mIsBrightnessBoosted /\ ~mIsBrightnessOverridden
    <2>1. UNCHANGED <<modes, saved>> /\ writes = << >>
      BY <1>3, <1>o, CalmMeansWritten DEF SetScreenOnBrightness
    <2>2. CASE WaitsForFirstLux
      <3>1. ~mIsBrightnessOverridden /\ ~mIsBrightnessBoosted
        BY <2>2 DEF WaitsForFirstLux, TimerInv, TimersMatchModes
      <3>2. /\ ramp = NoRamp /\ firstLuxTask' = mCachedSettingBrightness
            /\ UNCHANGED <<ramp, writes, user>>
        BY <1>3, <2>2 DEF SetScreenOnBrightness, Steady, output
      <3> QED
        BY <2>1, <3>1, <3>2 DEF UserInv, Kept, FinalSetting
    <2>3. CASE ~WaitsForFirstLux
      <3>1. Update(value, FALSE, mine) /\ firstLuxTask' = None
        BY <1>3, <2>3 DEF SetScreenOnBrightness, Steady
      <3>2. value \in Nat
        BY ScreenOnTyped DEF Typed
      <3> HIDE DEF value
      <3>3. CASE mine
        <4>1. Update(value, FALSE, TRUE) /\ user' = GetSafeBrightness(value)
          BY <1>3, <2>3, <3>1, <3>3 DEF SetScreenOnBrightness, Chosen, value
        <4>2. FinalSetting' = GetSafeBrightness(value) /\ writes' # << >>
          BY <3>2, <4>1, UpdateNow
        <4>3. GetSafeBrightness(FinalSetting') = user'
          BY <3>2, <4>1, <4>2, SafeTyped
        <4> QED
          BY <2>1, <3>1, <3>3, <4>2, <4>3, UserSet
      <3>4. CASE ~mine
        <4>1. writes' = writes /\ KeepsChosen
          BY <1>3, <2>3, <3>1, <3>4 DEF SetScreenOnBrightness, Update, UpdateBrightness, value
        <4> QED
          BY <2>1, <3>1, <3>4, <4>1, KeptAt DEF UserInv, Kept
      <3> QED
        BY <3>3, <3>4
    <2> QED
      BY <2>2, <2>3
  <1>4. CASE FirstLuxTimeout
    <2>1. /\ ~mIsBrightnessOverridden /\ ~mIsBrightnessBoosted
          /\ writes = << >> /\ firstLuxTask = setting
      BY <1>4 DEF FirstLuxTimeout, TimerInv, UserInv
    <2>2. /\ UNCHANGED modes /\ firstLuxTask' = None /\ KeepsChosen
          /\ Update(setting, FALSE, TRUE) /\ setting \in Nat
      BY <1>4, <2>1, StoredTyped DEF FirstLuxTimeout, Typed, NumbersTyped
    <2>3. FinalSetting' = GetSafeBrightness(setting) /\ writes' # << >>
      BY <2>2, UpdateNow
    <2>4. GetSafeBrightness(FinalSetting') = GetSafeBrightness(setting)
      BY <2>2, <2>3, SafeTyped
    <2> QED
      BY <2>1, <2>2, <2>3, <2>4, KeptAt, UserSet
  <1>5. CASE ClearOffset
    <2>1. /\ ramp' = NoRamp /\ writes = << >> /\ KeepsChosen
          /\ UNCHANGED <<modes, saved, writes, firstLuxTask>>
      BY <1>5, <1>o, RequestedMeans DEF ClearOffset, StopDimming
    <2> QED
      BY <2>1, KeptAt DEF UserInv, Kept, FinalSetting
  <1>6. ASSUME NEW discount \in Discounts, DiscountBrightness(discount) PROVE UserInv'
    <2>1. /\ ramp' = NoRamp /\ writes = << >> /\ KeepsChosen
          /\ UNCHANGED <<modes, saved, writes, firstLuxTask>>
      BY <1>6, <1>o, RequestedMeans DEF DiscountBrightness, UpdateBrightness, StopDimming
    <2> QED
      BY <2>1, KeptAt DEF UserInv, Kept, FinalSetting
  <1>7. ASSUME NEW value \in Values, NEW gradual \in BOOLEAN, OverrideBrightness(value, gradual)
        PROVE  UserInv'
    <2>1. /\ mIsBrightnessOverridden' = TRUE /\ mBeforeOverriddenBrightness' = setting
          /\ ~mIsBrightnessBoosted /\ UNCHANGED <<mIsBrightnessBoosted, saved, firstLuxTask>>
          /\ mIsBrightnessOverridden => setting = mBeforeOverriddenBrightness
          /\ writes = << >> /\ firstLuxTask = None /\ writes' = writes /\ KeepsChosen
      BY <1>7, <1>o, RequestedMeans DEF OverrideBrightness, Overrides, CanOverrideBrightness,
         Steady, Update, UpdateBrightness
    <2>2. user' # None => user' = GetSafeBrightness(setting)
      BY <2>1, KeptAt
    <2> QED
      BY <2>1, <2>2 DEF UserInv, Kept
  <1>8. ASSUME NEW gradual \in BOOLEAN, RestoreBrightness(gradual) PROVE UserInv'
    <2>1. writes = << >> /\ (gradual => ~mIsSleepStatus) /\ firstLuxTask = None
      BY <1>8, <1>o, RequestedMeans DEF RestoreBrightness, Steady
    <2>2. /\ ~mIsBrightnessOverridden' /\ ~mIsBrightnessBoosted' /\ mIsBrightnessOverridden
          /\ UNCHANGED <<mIsSleepStatus, saved, firstLuxTask>>
          /\ Update(mBeforeOverriddenBrightness, gradual, TRUE)
          /\ IF user = None THEN UNCHANGED user ELSE Chosen(user, gradual)
          /\ mCachedSettingBrightness = setting
      BY <1>0, <1>8, <2>1 DEF RestoreBrightness, RestoreBrightnessTo, UserInv
    <2>3. CASE user = None
      <3>1. user' = None
        BY <2>2, <2>3
      <3> QED
        BY <2>1, <2>2, <3>1, UserSet
    <2>4. CASE user # None
      <3>1. user = GetSafeBrightness(mBeforeOverriddenBrightness)
        BY <2>2, <2>4, <1>0 DEF UserInv, Kept
      <3>2. mBeforeOverriddenBrightness \in Levels /\ mBeforeOverriddenBrightness \in Nat
        BY <1>o, OrderlyStored DEF Typed, NumbersTyped
      <3>3. user = mBeforeOverriddenBrightness
        BY <3>1, <3>2, SafeTyped
      <3>4. Chosen(user, gradual) /\ Update(user, gradual, TRUE) /\ user \in Nat
        BY <2>2, <2>4, <3>2, <3>3
      <3>5. GetSafeBrightness(FinalSetting') = user'
        BY <1>o, <2>1, <2>2, <3>4, ChosenFinal
      <3>6. writes' = << >> => mCachedSettingBrightness' = setting'
        BY <2>2
      <3> QED
        BY <2>1, <2>2, <3>5, <3>6, UserSet
    <2> QED
      BY <2>3, <2>4
  <1>9. CASE BoostBrightness
    <2>1. /\ writes = << >> /\ firstLuxTask = None /\ mIsBrightnessBoosted' = TRUE
          /\ KeepsChosen /\ ~mIsBrightnessOverridden
          /\ UNCHANGED <<mIsSleepStatus, mIsBrightnessOverridden, saved, firstLuxTask>>
      BY <1>9, <1>o, RequestedMeans DEF BoostBrightness, NotBoosted, CanBoostBrightness
    <2>2. writes' = writes
      BY <1>9 DEF BoostBrightness, NoUpdate, output, Update, UpdateBrightness
    <2>3. ~mIsBrightnessBoosted => mCachedSettingBrightness = setting
      BY <2>1 DEF UserInv
    <2>4. user' # None => user' = GetSafeBrightness(mCachedSettingBrightness)
      BY <2>1, <2>3, KeptAt
    <2> QED
      BY <2>1, <2>2, <2>4 DEF UserInv, Kept
  <1>10. CASE CancelBoostBrightness
    <2>1. /\ ~mIsBrightnessBoosted' /\ ~mIsBrightnessOverridden' /\ mIsBrightnessBoosted
          /\ Update(mCachedSettingBrightness, FALSE, TRUE)
          /\ UNCHANGED <<firstLuxTask, user>> /\ firstLuxTask = None
      BY <1>0, <1>10 DEF CancelBoostBrightness, NotBoosted, BeforeBoost, TimerInv
    <2>2. mCachedSettingBrightness \in Nat
      BY DEF Typed, NumbersTyped
    <2>3. FinalSetting' = GetSafeBrightness(mCachedSettingBrightness) /\ writes' # << >>
      BY <2>1, <2>2, UpdateNow
    <2>4. user # None => user = GetSafeBrightness(mCachedSettingBrightness)
      BY <2>1 DEF UserInv, Kept
    <2>5. GetSafeBrightness(FinalSetting') = GetSafeBrightness(mCachedSettingBrightness)
      BY <2>2, <2>3, SafeTyped
    <2> QED
      BY <2>1, <2>3, <2>4, <2>5, UserSet
  <1>11. ASSUME NEW enable \in BOOLEAN, AutoAdjustBrightness(enable) PROVE UserInv'
    BY <1>11, UserFrame DEF AutoAdjustBrightness
  <1>12. ASSUME NEW level \in SensorLevels, ProcessLightLux(level) PROVE UserInv'
    <2>1. /\ writes = << >> /\ ~mIsBrightnessOverridden' /\ ~mIsBrightnessBoosted'
          /\ UNCHANGED <<modes, saved>> /\ mCachedSettingBrightness = setting
      BY <1>12, <1>o, CalmMeansWritten DEF ProcessLightLux, CanSetBrightness, UserInv
    <2>2. CASE level # mBrightnessLevel \/ isFirstLux
      <3> DEFINE gradual == ~(isFirstLux /\ mIsDisplayOnWhenFirstLuxReport)
      <3>1. /\ Update(level, gradual, TRUE) /\ (gradual => ~mIsSleepStatus)
            /\ Chosen(level, gradual)
        BY <1>12, <2>2 DEF ProcessLightLux, Steady
      <3>2. level \in Nat /\ gradual \in BOOLEAN
        BY ValuesTyped, Zenon
      <3>3. firstLuxTask' = None
        BY <1>12, <2>2 DEF ProcessLightLux, CancelFirstLux, TimerInv, TimersMatchModes
      <3> HIDE DEF gradual
      <3>4. GetSafeBrightness(FinalSetting') = user'
        BY <1>o, <2>1, <3>1, <3>2, ChosenFinal
      <3> QED
        BY <2>1, <3>3, <3>4, UserSet
    <2>3. CASE ~(level # mBrightnessLevel \/ isFirstLux)
      BY <1>12, <2>1, <2>3, UserFrame DEF ProcessLightLux
    <2> QED
      BY <2>2, <2>3
  <1>13. CASE RampStep
    BY <1>13, RampStepFinal DEF UserInv, Kept, PanelInv
  <1>14. CASE WriteSetting
    BY <1>14, <1>o, WriteSettingFinal DEF UserInv, Kept
  <1>15. CASE UNCHANGED vars
    BY <1>15, UserFrame DEF vars
  <1> QED
    BY <1>1, <1>2, <1>3, <1>4, <1>5, <1>6, <1>7, <1>8, <1>9, <1>10, <1>11, <1>12, <1>13, <1>14,
       <1>15, <1>2a, <1>2b DEF Next

\* In a steady environment, through every override, boost, dimming before sleep, wait for the
\* sensor and ramp: once nothing holds the screen any more and all is at rest, the panel is
\* back at the brightness last chosen.
THEOREM UserReturnsAlways == Unsteady = {} /\ Spec => []UserReturns
  <1> SUFFICES ASSUME Unsteady = {} PROVE Spec => []UserReturns
    OBVIOUS
  <1>1. Orderly /\ "firstLux" \notin Unsteady
    BY DEF Orderly
  <1>2. Typed /\ TimerInv /\ [Next]_vars => TimerInv'
    BY <1>1, TimerStep
  <1>3. Typed /\ TimerInv /\ PanelInv /\ [Next]_vars => PanelInv'
    BY <1>1, PanelStep
  <1>4. Typed /\ TimerInv /\ PanelInv /\ UserInv /\ [Next]_vars => UserInv'
    BY UserStep
  <1>5. Typed /\ PanelInv /\ UserInv => UserReturns
    BY PanelShowsModeFinally, UserReturnsFinally
  <1> QED
    BY <1>2, <1>3, <1>4, <1>5, InitTyped, StepTyped, InitTimer, InitPanel, InitUser, PTL DEF Spec
=============================================================================
