--------------------------- MODULE LightLuxManager --------------------------
(***************************************************************************)
(* LightLuxManager, between the light sensor and the brightness: readings  *)
(* are smoothed over the last few and kept for some seconds, and the light *)
(* that counts, mFilteredLux, follows only when every reading has been     *)
(* brighter, or darker, by a margin for the debounce time.  The buffers    *)
(* are the windows of readings LightLuxBuffer is shown to implement.       *)
(* Memory is there for every reading, and one thread delivers them.        *)
(***************************************************************************)
EXTENDS BrightnessConfig

CONSTANTS
    RoomLuxes,              \* what the sensor may report
    LIGHT_MAX_LUX,
    LIGHT_LUX_BUFFER_RANGE,
    LIGHT_LUX_BUFFER_MIN,
    INITIAL_DELTAS,         \* mBrightenDelta and mDarkenDelta before the first reading
    ReadingGaps,            \* bound: the times between readings
    MaxClock,               \* bound: the clock
    ThresholdFiles          \* bound: the documents of brightness_lux_threshold_config

ASSUME ManagerAssumption ==
    /\ RoomLuxes \subseteq Int /\ LIGHT_MAX_LUX \in Nat
    /\ LIGHT_LUX_BUFFER_RANGE \in Nat /\ LIGHT_LUX_BUFFER_MIN \in Nat /\ LIGHT_LUX_BUFFER_MIN > 2
    /\ ReadingGaps \subseteq Nat /\ MaxClock \in Nat

Directions == {"brighter", "darker"}
Never == -1

ASSUME DeltasAssumption == INITIAL_DELTAS \in [Directions -> Nat \ {0}]

\* What the parser makes of an element are integers here.
ASSUME ThresholdFilesAssumption ==
    \A file \in ThresholdFiles :
        LET modes == LuxThresholdConfig(file) IN
        "DefaultMode" \in DOMAIN modes =>
            modes["DefaultMode"] \in [brightenDebounceTime : Int, darkenDebounceTime : Int,
                                     brightenPoints : Seq(PointXy), darkenPoints : Seq(PointXy)]

VARIABLES
    thresholdFile, modeArray,       \* the document, and what the parser made of it
    mLuxBuffer, mLuxBufferFilter,   \* the readings and the smoothed ones, with their times
    mFilteredLux, mIsFirstLux,
    deltas,                         \* mBrightenDelta and mDarkenDelta
    updated,                        \* what IsUpdateLuxSuccess answered
    readAt,                         \* the time of the last reading
    thrown,                         \* modeArray.at(...) threw out_of_range: the process is gone
    since                           \* history: from when on all readings were brighter or darker

buffers == <<mLuxBuffer, mLuxBufferFilter>>
managerVars == <<thresholdFile, modeArray, buffers, mFilteredLux, mIsFirstLux, deltas, updated,
                 readAt, thrown, since>>

-----------------------------------------------------------------------------
(* The helpers. *)

GetValidLux(lux) == Max({0, Min({lux, LIGHT_MAX_LUX})})

\* Only the mode "DefaultMode" is ever set.
SceneKnown == "DefaultMode" \in DOMAIN modeArray
GetCurrentModeData == modeArray["DefaultMode"]

ResponseTime(direction) ==
    LET time == IF direction = "brighter" THEN GetCurrentModeData.brightenDebounceTime
                ELSE GetCurrentModeData.darkenDebounceTime
    IN  IF time = INVALID_VALUE THEN 0 ELSE time

\* The last reading before the horizon stays, dated at the horizon.
Pruned(buffer, horizon) ==
    LET old == {i \in DOMAIN buffer : \A j \in 2 .. i : buffer[j].time <= horizon}
    IN  IF buffer = << >> THEN << >>
        ELSE LET kept == SubSeq(buffer, Max(old), Len(buffer))
             IN  [kept EXCEPT ![1].time = Max({@, horizon})]

UpdateLuxBuffer(buffer, timestamp, lux) ==
    Append(Pruned(buffer, timestamp - LIGHT_LUX_BUFFER_RANGE), [time |-> timestamp, lux |-> lux])

\* A short buffer gives its last reading, a longer one the mean of the last few without the
\* least and the greatest.
CalcSmoothLux(buffer) ==
    LET last == SubSeq(buffer, Len(buffer) - LIGHT_LUX_BUFFER_MIN + 1, Len(buffer))
        levels == {last[i].lux : i \in DOMAIN last}
    IN  IF Len(buffer) < LIGHT_LUX_BUFFER_MIN THEN buffer[Len(buffer)].lux
        ELSE (FoldSeq(LAMBDA sample, sum : sample.lux + sum, 0, last) - Min(levels) - Max(levels))
                \div (LIGHT_LUX_BUFFER_MIN - 2)

CalcDelta(points, lux) ==
    LET k == Passed(points, lux)
    IN  IF points = << >> THEN INVALID_VALUE
        ELSE IF k = Len(points) THEN points[k].y
        ELSE IF k = 0 THEN 1
        ELSE Max({1, OnLine(points[k], points[k + 1], lux)})

Beyond(lux, direction) ==
    IF direction = "brighter" THEN lux - mFilteredLux >= deltas[direction]
    ELSE mFilteredLux - lux >= deltas[direction]

\* GetNextBrightenTime and GetNextDarkenTime: the beginning of the readings at the end that
\* are all beyond the margin, and the debounce time.
AnyBeyond(buffer, timestamp, direction) ==                              \* mutant
    LET run == {i \in DOMAIN buffer : Beyond(buffer[i].lux, direction)}
    IN  (IF run = {} THEN timestamp ELSE buffer[Min(run)].time)
        + (IF Len(buffer) = 1 THEN 0 ELSE ResponseTime(direction))
FromWindowStart(buffer, timestamp, direction) ==                        \* mutant
    LET run == {i \in DOMAIN buffer : \A j \in i .. Len(buffer) : Beyond(buffer[j].lux, direction)}
    IN  (IF run \subseteq {Len(buffer)} THEN timestamp ELSE buffer[Min(run) + 1].time)
        + (IF Len(buffer) = 1 THEN 0 ELSE ResponseTime(direction))
NextTime(buffer, timestamp, direction) ==
    LET run == {i \in DOMAIN buffer : \A j \in i .. Len(buffer) : Beyond(buffer[j].lux, direction)}
    IN  (IF run = {} THEN timestamp ELSE buffer[Min(run)].time)
        + (IF Len(buffer) = 1 THEN 0 ELSE ResponseTime(direction))

-----------------------------------------------------------------------------
\* InitParameters takes the configuration of display 0.
ManagerInit ==
    /\ thresholdFile \in ThresholdFiles
    /\ modeArray = LuxThresholdConfig(thresholdFile)
    /\ mLuxBuffer = << >> /\ mLuxBufferFilter = << >>
    /\ mFilteredLux = 0 /\ mIsFirstLux = FALSE
    /\ deltas = INITIAL_DELTAS
    /\ updated = FALSE /\ readAt = 0 /\ thrown = FALSE
    /\ since = [direction \in Directions |-> Never]

\* UpdateParam, when the reading counts: the margins are those of the new light.
UpdateParam(lux) ==
    LET Line(direction) == IF direction = "brighter" THEN GetCurrentModeData.brightenPoints
                           ELSE GetCurrentModeData.darkenPoints
    IN  /\ mFilteredLux' = lux
        /\ deltas' = [direction \in Directions |->
               IF CalcDelta(Line(direction), lux) >= 0 THEN CalcDelta(Line(direction), lux)
               ELSE deltas[direction]]

Counts(buffer, timestamp) ==
    \/ Len(mLuxBuffer') = 1
    \/ \E direction \in Directions : NextTime(buffer, timestamp, direction) <= timestamp

\* SetLux and IsNeedUpdateBrightness.
IsNeedUpdateBrightness(lux, timestamp) ==
    LET smoothLux == CalcSmoothLux(mLuxBuffer')
    IN  /\ ~thrown
        /\ readAt' = timestamp
        /\ mLuxBuffer' = UpdateLuxBuffer(mLuxBuffer, timestamp, GetValidLux(lux))
        /\ mIsFirstLux' = (Len(mLuxBuffer') = 1)
        /\ mLuxBufferFilter' = UpdateLuxBuffer(mLuxBufferFilter, timestamp, smoothLux)
        /\ since' = [direction \in Directions |->
               IF mIsFirstLux' \/ ~Beyond(smoothLux, direction) THEN Never
               ELSE IF updated \/ since[direction] = Never THEN timestamp ELSE since[direction]]
        /\ IF ~SceneKnown
           THEN thrown' = TRUE /\ UNCHANGED <<mFilteredLux, deltas, updated>>
           ELSE /\ updated' = Counts(mLuxBufferFilter', timestamp)
                /\ IF updated' THEN UpdateParam(smoothLux) ELSE UNCHANGED <<mFilteredLux, deltas>>
                /\ UNCHANGED thrown
        /\ UNCHANGED <<thresholdFile, modeArray>>

\* DeactivateAmbientSensor and its twin: the light that counted stays.
ClearLuxData ==
    /\ ~thrown
    /\ mLuxBuffer' = << >> /\ mLuxBufferFilter' = << >>
    /\ since' = [direction \in Directions |-> Never]
    /\ UNCHANGED <<thresholdFile, modeArray, mFilteredLux, mIsFirstLux, deltas, updated, readAt,
                   thrown>>

ManagerNext ==
    \/ \E lux \in RoomLuxes, gap \in ReadingGaps :
           readAt + gap <= MaxClock /\ IsNeedUpdateBrightness(lux, readAt + gap)
    \/ ClearLuxData

ManagerSpec == ManagerInit /\ [][ManagerNext]_managerVars

-----------------------------------------------------------------------------
(* Correctness. *)

Debounced(direction) == SceneKnown /\ ResponseTime(direction) > 0

\* After the first reading the light that counts moves only when every reading, through all
\* pruning and smoothing, has been beyond the margin for the debounce time (a debounce time
\* that is left out of the file is no debounce: each reading then counts, whatever it is).
FollowsSustainedLight ==
    [][ updated' /\ readAt' # readAt /\ ~mIsFirstLux' /\ (\A d \in Directions : Debounced(d)) =>
            \E d \in Directions :
                /\ since'[d] # Never
                /\ readAt' - since'[d] >= ResponseTime(d) ]_managerVars

\* And it does follow: no reading leaves a light behind that has been beyond the margin
\* for as long, so that the brightness never sticks, whatever the window forgot.
NeverSticks ==
    \A d \in Directions :
        SceneKnown /\ since[d] # Never /\ ~updated => readAt - since[d] < ResponseTime(d)

\* A document of brightness_lux_threshold_config has the mode in use when one of its modes has
\* that name; without any JSON the parser's own DefaultMode is there.
HasDefaultMode(file) ==
    \/ file = Unparsable
    \/ /\ Document(file)
       /\ LET array == Member(file, "thresholdMode", Foreign)
          IN  array # Foreign /\ \E i \in DOMAIN array : Member(array[i], "modeName", "") = "DefaultMode"

\* modeArray.at throws, and the service is gone, at the first reading of a device whose file is
\* JSON without the mode in use (another shape, no or no good thresholdMode, other modes only),
\* and at no reading of any other device: light_lux_manager.cpp says nothing of either.
ThrowsWithoutMode == thrown <=> mLuxBuffer # << >> /\ ~HasDefaultMode(thresholdFile)
=============================================================================
