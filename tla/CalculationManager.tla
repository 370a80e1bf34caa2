-------------------------- MODULE CalculationManager ------------------------
(***************************************************************************)
(* BrightnessCalculationManager: the level automatic brightness calls for  *)
(* in a light, by the curve of the configuration and the user's own wish.  *)
(* When the user moves the slider, the wish is kept as a point, the light  *)
(* and the level, and the curve is bent to go through it.  Levels are      *)
(* truncated to integers here as BrightnessService does with the result,   *)
(* the points of the curve between two given ones already are.             *)
(***************************************************************************)
EXTENDS BrightnessConfig

CONSTANTS
    Lights,                                         \* the light readings
    Wishes,                                         \* the levels the user asks for
    MIN_DEFAULT_BRIGHTNESS, MAX_DEFAULT_BRIGHTNESS,
    FallbackBrightness,                             \* mDefaultBrightness of the curve
    AMBIENT_VALID_MAX_LUX,
    CurveFiles                                      \* bound: documents of brightness_curve_config

ASSUME CalculationAssumption ==
    /\ Lights \subseteq Nat /\ Wishes \subseteq Nat
    /\ MIN_DEFAULT_BRIGHTNESS \in Nat \ {0} /\ MAX_DEFAULT_BRIGHTNESS \in Nat
    /\ MIN_DEFAULT_BRIGHTNESS < MAX_DEFAULT_BRIGHTNESS
    /\ FallbackBrightness \in Nat /\ AMBIENT_VALID_MAX_LUX \in Nat

\* The numbers of a document are integers here.
ASSUME CurveFilesAssumption ==
    \A file \in CurveFiles : Document(file) =>
        Member(file, "defaultPoints", Foreign) \in {Foreign} \union Seq(PointXy \union {Foreign})

VARIABLES
    defaultPoints,                  \* what the parser made of the document
    mPosBrightness,                 \* the level the user wished for, 0 for none
    mStartLuxDefaultBrightness,     \* what the curve said in the light of the wish
    mLastLuxDefaultBrightness,      \* what the curve said at the last reading
    wish                            \* history: the light and the level of the wish, if it counts

NoWish == [light |-> -1, level |-> -1]
offset == <<mPosBrightness, mStartLuxDefaultBrightness>>
calculationVars == <<defaultPoints, offset, mLastLuxDefaultBrightness, wish>>

-----------------------------------------------------------------------------
(* The levels. *)

\* GetBrightnessCurveLevel; before the first point there is no line to follow.
GetCurrentBrightness(lux) ==
    LET k == Passed(defaultPoints, lux)
    IN  IF k = 0 THEN FallbackBrightness
        ELSE IF k = Len(defaultPoints) THEN defaultPoints[k].y
        ELSE OnLine(defaultPoints[k], defaultPoints[k + 1], lux)

InRange(level) == Max({MIN_DEFAULT_BRIGHTNESS, Min({level, MAX_DEFAULT_BRIGHTNESS})})

BoundedAbove(start, end, pos) ==                                        \* mutant
    InRange(IF start < end /\ pos > start THEN Min({end, pos}) ELSE end + (pos - start))

\* The curve from start, where the wish was made, to end: mDelta times the two ratios.  Above
\* start a wish for more is kept as a floor and a wish for less fades out towards the maximum;
\* below start a wish for less is kept as a ceiling and a wish for more is added in full.
BentLevel(start, end, pos) ==
    LET delta == pos - start IN
    CASE start < end /\ delta > 0 -> Max({end, pos})
      [] start < end /\ delta < 0 ->
             (end * (MAX_DEFAULT_BRIGHTNESS - start) + delta * (MAX_DEFAULT_BRIGHTNESS - end))
                 \div (MAX_DEFAULT_BRIGHTNESS - start)
      [] start > end /\ delta < 0 -> Min({end, pos})
      [] OTHER -> end + delta
GetOffsetLevel(start, end, pos) == InRange(BentLevel(start, end, pos))

\* A wish made before the first reading does not count: GetInterpolatedBrightenssLevel drops it.
Dropped == mLastLuxDefaultBrightness <= 0 /\ mPosBrightness # 0

LevelIn(lux) ==
    IF mPosBrightness = 0 \/ Dropped THEN GetCurrentBrightness(lux)
    ELSE GetOffsetLevel(mStartLuxDefaultBrightness, GetCurrentBrightness(lux), mPosBrightness)

-----------------------------------------------------------------------------
CalculationInit ==
    /\ \E file \in CurveFiles : defaultPoints = CalculationConfig(file)
    /\ mPosBrightness = 0 /\ mStartLuxDefaultBrightness = 0 /\ mLastLuxDefaultBrightness = 0
    /\ wish = NoWish

ForgetOffset == mPosBrightness' = 0 /\ mStartLuxDefaultBrightness' = 0 /\ wish' = NoWish

\* GetInterpolatedValue, called for a reading that counts; the level it gives is LevelIn(lux).
GetInterpolatedValue(lux) ==
    /\ mLastLuxDefaultBrightness' = GetCurrentBrightness(lux)
    /\ IF Dropped THEN ForgetOffset ELSE UNCHANGED <<offset, wish>>
    /\ UNCHANGED defaultPoints

ResetDefaultBrightnessOffset ==
    ForgetOffset /\ mLastLuxDefaultBrightness' = 0 /\ UNCHANGED defaultPoints

\* The slider was moved to pos, or the wish is cleared with 0; lux is the light that counts.
FromLastReading(pos, lux) ==                                            \* mutant
    IF pos = 0 THEN ResetDefaultBrightnessOffset
    ELSE /\ mStartLuxDefaultBrightness' = mLastLuxDefaultBrightness
         /\ mPosBrightness' = pos
         /\ wish' = IF mLastLuxDefaultBrightness > 0 THEN [light |-> lux, level |-> pos] ELSE NoWish
         /\ UNCHANGED <<defaultPoints, mLastLuxDefaultBrightness>>
UpdateBrightnessOffset(pos, lux) ==
    IF lux > AMBIENT_VALID_MAX_LUX THEN UNCHANGED calculationVars
    ELSE IF pos = 0 THEN ResetDefaultBrightnessOffset
    ELSE /\ mStartLuxDefaultBrightness' = GetCurrentBrightness(lux)
         /\ mPosBrightness' = pos
         /\ wish' = IF mLastLuxDefaultBrightness > 0 THEN [light |-> lux, level |-> pos] ELSE NoWish
         /\ UNCHANGED <<defaultPoints, mLastLuxDefaultBrightness>>

CalculationNext ==
    \/ \E lux \in Lights : GetInterpolatedValue(lux)
    \/ \E pos \in Wishes \union {0}, lux \in Lights : UpdateBrightnessOffset(pos, lux)

CalculationSpec == CalculationInit /\ [][CalculationNext]_calculationVars

-----------------------------------------------------------------------------
(* Correctness. *)

\* The curve is one a device would have: it rises from darkness on, within the levels.
Plausible ==
    /\ Ascending(defaultPoints)
    /\ defaultPoints # << >> => defaultPoints[1].x = 0
    /\ \A i \in DOMAIN defaultPoints : defaultPoints[i].y \in 1 .. MAX_DEFAULT_BRIGHTNESS

\* A brighter room never gets a darker screen, however the user's wishes bent the curve.
BrighterRoomBrighterScreen ==
    Plausible => \A lux, brighter \in Lights :
                     lux <= brighter => LevelIn(lux) <= LevelIn(brighter)

\* The wish holds: in its light the screen has the level the user chose, whatever lights came
\* between, and a wish for more, or for less, than the curve never gets less, or more, anywhere.
WishHolds ==
    Plausible /\ wish # NoWish =>
        /\ LevelIn(wish.light) = InRange(wish.level)
        /\ \A lux \in Lights :
            LET curve == InRange(GetCurrentBrightness(lux))
            IN  IF wish.level > GetCurrentBrightness(wish.light) THEN LevelIn(lux) >= curve
                ELSE LevelIn(lux) <= curve
=============================================================================
