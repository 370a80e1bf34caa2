------------------------- MODULE BrightnessService --------------------------
(***************************************************************************)
(* BrightnessService, which decides what brightness the panel shows: the   *)
(* user's setting, an application's override, a boost, the dimming before  *)
(* sleep, or the light sensor.  Requests come from IPC threads, readings   *)
(* from the sensor; timers, the steps of a ramp and the writes of the      *)
(* setting come from task queues.  Each of them is one action.  The ramp   *)
(* is BrightnessDimming seen from outside: some steps towards its target.  *)
(***************************************************************************)
EXTENDS Integers, Sequences, SequencesExt

CONSTANTS
    MaxLevel,           \* MAX_DEFAULT_BRGIHTNESS_LEVEL, the scale of requests and settings
    MaxMapping,         \* MAX_MAPPING_BRGIHTNESS_LEVEL, the scale of the panel
    MinBrightness,      \* system parameter, the least the panel is given for a level
    Values,             \* the numbers clients ask for, in the scale or not; those in it
                        \* are also what the sensor leads to
    Discounts,          \* the discounts, in percent, after clamping
    SleepBrightness, SleepMinimumReduction,     \* system parameters
    MaxWrites,          \* bound: setting writes waiting
    Unsteady            \* situations the environment brings about, see Steady

Situations == {"write", "discount", "scale", "dark", "firstLux", "sleep", "again",
               "delayedOff", "continuous", "cut"}

Levels == 1 .. MaxLevel
Mapping == MinBrightness .. MaxMapping
None == -1              \* 0 is a number a client may ask for, and no target is 0
SensorLevels == {value \in Values : value <= MaxLevel}
NoRamp == [at |-> None, to |-> None]

ASSUME LevelAssumption ==
    /\ MaxMapping \in Nat \ {0, 1} /\ MaxLevel \in Nat /\ MaxLevel >= MaxMapping
    /\ MinBrightness \in 1 .. MaxMapping
    /\ Values \subseteq Nat
    /\ Discounts \subseteq 1 .. 100
    /\ SleepBrightness \in Nat /\ SleepMinimumReduction \in Nat
    /\ MaxWrites \in Nat \ {0}
    /\ Unsteady \subseteq Situations

VARIABLES
    mState, mIsSleepStatus, mIsBrightnessOverridden, mIsBrightnessBoosted,
    mOverriddenBrightness, mBeforeOverriddenBrightness, mCachedSettingBrightness,
    mDiscount,                              \* in percent
    mIsAutoBrightnessEnabled, mIsLightSensorEnabled, mBrightnessLevel,
    mBrightnessTarget, mWaitForFirstLux, mIsDisplayOnWhenFirstLuxReport,
    isFirstLux,     \* the buffer of LightLuxManager is empty
    setting,        \* the brightness in the settings data base
    writes,         \* SetSettingBrightness tasks submitted and not run, and by whom
    ramp,           \* where BrightnessDimming is and where it goes, NoRamp if it rests
    panel,          \* the brightness last given to the panel
    firstLuxTask,   \* value of the task of g_waitForFirstLuxTaskHandle, None if it waits for none
    boostTask,      \* the task of g_cancelBoostTaskHandle waits
    onDue,          \* SetScreenOnBrightness is still to come after the screen went on
    user            \* the brightness last chosen, by the user or the sensor, in its scale;
                    \* None after a ramp to it was stopped

modes == <<mIsSleepStatus, mIsBrightnessOverridden, mIsBrightnessBoosted,
           mOverriddenBrightness, mBeforeOverriddenBrightness>>
auto == <<mIsAutoBrightnessEnabled, mIsLightSensorEnabled, isFirstLux>>
lux == <<mBrightnessLevel, mIsDisplayOnWhenFirstLuxReport>>
output == <<panel, ramp, writes>>
saved == <<setting, mCachedSettingBrightness>>
timers == <<firstLuxTask, boostTask>>
vars == <<mState, modes, auto, lux, output, saved, timers, mDiscount,
          mBrightnessTarget, mWaitForFirstLux, onDue, user>>

-----------------------------------------------------------------------------
(* Scales. *)

Lesser(a, b) == IF a < b THEN a ELSE b
Greater(a, b) == IF a < b THEN b ELSE a
InScale(v, top) == Greater(1, Lesser(v, top))

\* Linear from one scale to the other, rounded to the nearest.
Rescaled(v, from, to) == 1 + (2 * (v - 1) * (to - 1) + (from - 1)) \div (2 * (from - 1))

GetMappingBrightnessLevel(level) ==
    Greater(Rescaled(InScale(level, MaxLevel), MaxLevel, MaxMapping), MinBrightness)
GetOrigBrightnessLevel(level) ==
    Rescaled(InScale(level, MaxMapping), MaxMapping, MaxLevel)

GetSafeBrightness(value) == InScale(value, MaxLevel)

\* What the panel is given for a value.
ShownUnder(value, discount) ==
    GetMappingBrightnessLevel((GetSafeBrightness(value) * discount) \div 100)
Shown(value) == ShownUnder(value, mDiscount)

IsScreenOnState(state) == state \in {"ON", "DIM"}
IsScreenOn == IsScreenOnState(mState)
CanSetBrightness == IsScreenOn /\ ~mIsBrightnessOverridden /\ ~mIsBrightnessBoosted
BoostedToo == IsScreenOn                                                \* mutant
CanOverrideBrightness == IsScreenOn /\ ~mIsBrightnessBoosted
CanBoostBrightness == IsScreenOn /\ ~mIsBrightnessOverridden

\* What the passing run leaves to the environments that name it in Unsteady:
\*   write       a request overtakes a write of the setting, or the writes overtake each other
\*   discount    a ramp that writes the setting starts under a discount
\*   scale       a ramp starts where setting and target agree only as numbers, or stops
\*               above the scale of the panel
\*   dark        a request for a dark screen, or dimming it; a level asked for is then left
\*               to its controller, which stores it as it is
\*   firstLux    a request, a folding or a ramp while the first light reading is awaited
\*   sleep       a ramp of the user's brightness on a screen dimmed before sleep
\*   again       an override of an override whose ramp changed the setting
\*   delayedOff  the screen goes on again because its delayed off was cancelled
\*   continuous  a slider that is dragged
\*   cut         automatic brightness is switched off while the ramp into or out of an
\*               override has not reached the panel
Steady(situation, holds) == situation \in Unsteady \/ holds

Calm ==
    /\ Steady("write", writes = << >>)
    /\ Steady("scale", ramp # NoRamp => panel <= MaxMapping)
Requested ==
    /\ Calm
    /\ Steady("dark", IsScreenOn)
    /\ Steady("firstLux", firstLuxTask = None)

-----------------------------------------------------------------------------
(* UpdateBrightness.  StartDimming takes the setting for the panel's brightness. *)

KeepsDimming == UNCHANGED ramp                                          \* mutant
StopDimming == ramp' = NoRamp

StartDimming(to) ==
    /\ Steady("discount", mDiscount = 100 \/ mIsSleepStatus')
    /\ Steady("scale", setting = to => panel = to /\ Shown(to) = to)
    /\ ramp' = IF setting = to THEN NoRamp ELSE [at |-> setting, to |-> to]

SubmitWrite(value, by) ==
    /\ Len(writes) < MaxWrites
    /\ writes' = Append(writes, [value |-> value, by |-> by])

UpdateBrightness(value, shown, gradual, updateSetting) ==
    /\ mWaitForFirstLux' = FALSE
    /\ IF gradual THEN StartDimming(shown) /\ UNCHANGED <<panel, writes>>
       ELSE /\ StopDimming
            /\ panel' = shown
            /\ IF updateSetting THEN SubmitWrite(GetSafeBrightness(value), "service")
               ELSE UNCHANGED writes

Update(value, gradual, updateSetting) ==
    UpdateBrightness(value, Shown(value), gradual, updateSetting)

NoUpdate == UNCHANGED <<output, mWaitForFirstLux>>

-----------------------------------------------------------------------------
(* SetDisplayState. *)

\* The brightness chosen; a ramp to it leaves the level its last step stands for, or the setting
\* where there is no way to go.  A ramp stopped on its way leaves none that anybody chose.
Chosen(value, gradual) ==
    user' = IF ~gradual THEN GetSafeBrightness(value)
            ELSE IF setting = Shown(value) THEN setting
            ELSE GetOrigBrightnessLevel(Shown(value))
KeepsChosen ==
    user' = IF ramp # NoRamp /\ ~mIsBrightnessOverridden /\ ~mIsSleepStatus THEN None ELSE user

\* The sensor is switched on only with automatic brightness; off, its readings are forgotten.
StateChangedSetAutoBrightness(enable) ==
    /\ mIsLightSensorEnabled' = enable
    /\ isFirstLux' = (isFirstLux \/ (~enable /\ mIsLightSensorEnabled))
    /\ UNCHANGED mIsAutoBrightnessEnabled

Overrides(value, gradual) ==
    /\ Steady("again", mIsBrightnessOverridden => setting = mBeforeOverriddenBrightness)
    /\ mIsBrightnessOverridden' = TRUE
    /\ mOverriddenBrightness' = value
    /\ mBeforeOverriddenBrightness' = setting
    /\ Update(value, gradual, FALSE)

NotOverridden ==
    UNCHANGED <<mIsBrightnessOverridden, mOverriddenBrightness, mBeforeOverriddenBrightness>>

RestoreBrightnessTo(gradual) ==
    /\ mIsBrightnessOverridden' = FALSE
    /\ UNCHANGED <<mOverriddenBrightness, mBeforeOverriddenBrightness>>
    /\ Update(mBeforeOverriddenBrightness, gradual, TRUE)

EnterSleepBrightness ==
    Greater(Lesser(Greater(setting, SleepMinimumReduction) - SleepMinimumReduction,
                   SleepBrightness), 1)

\* The screen is on by then: only a boost keeps the override away.
SetSleepBrightness ==
    IF setting <= 1 THEN UNCHANGED mIsSleepStatus /\ NotOverridden /\ NoUpdate
    ELSE /\ mIsSleepStatus' = TRUE
         /\ IF mIsBrightnessBoosted THEN NotOverridden /\ NoUpdate
            ELSE Overrides(EnterSleepBrightness, TRUE)

LeaveScreen ==
    /\ mIsSleepStatus' = FALSE
    /\ mIsBrightnessOverridden' = (mIsBrightnessOverridden /\ ~mIsSleepStatus)
    /\ UNCHANGED <<mOverriddenBrightness, mBeforeOverriddenBrightness,
                   panel, writes, mWaitForFirstLux>>
    /\ StopDimming

WakeScreen ==
    /\ mIsSleepStatus' = FALSE
    /\ IF mIsSleepStatus /\ mIsBrightnessOverridden THEN RestoreBrightnessTo(FALSE)
       ELSE NotOverridden /\ NoUpdate

SetDisplayState(s) ==
    /\ Calm
    /\ s = "DIM" => Steady("dark", IsScreenOn) /\ Steady("firstLux", firstLuxTask = None)
    /\ mState' = s
    /\ StateChangedSetAutoBrightness(IsScreenOnState(s) /\ mIsAutoBrightnessEnabled)
    /\ CASE s = "OFF" -> LeaveScreen
         [] s = "DIM" -> SetSleepBrightness
         [] s = "ON" -> WakeScreen
         [] OTHER -> UNCHANGED mIsSleepStatus /\ NotOverridden /\ NoUpdate
    /\ mBrightnessTarget' = IF s = "OFF" THEN 0 ELSE mBrightnessTarget
    /\ mIsDisplayOnWhenFirstLuxReport' = (s = "ON" \/ mIsDisplayOnWhenFirstLuxReport)
    /\ IF s = "ON" /\ mState # "ON" THEN onDue' \in {TRUE, "delayedOff" \notin Unsteady}
       ELSE onDue' = (onDue /\ IsScreenOnState(s))
    /\ KeepsChosen
    /\ UNCHANGED <<mIsBrightnessBoosted, saved, timers, mDiscount, mBrightnessLevel>>

-----------------------------------------------------------------------------
(* Brightness requests. *)

\* SetBrightness, where it accepts: a level ends an override.
SetBrightness(value, gradual, continuous) ==
    /\ mIsBrightnessOverridden \/ CanSetBrightness
    /\ mIsBrightnessOverridden' = FALSE
    /\ mBrightnessTarget' = value
    /\ UNCHANGED <<mIsSleepStatus, mIsBrightnessBoosted, mOverriddenBrightness,
                   mBeforeOverriddenBrightness, saved>>
    /\ Update(value, gradual, ~continuous)
    /\ Chosen(value, gradual)

\* Where it refuses: a boosted screen gets the level when the boost ends, a dark one only if the
\* controller has made it so.
CannotSetBrightness(value, controllerSets) ==
    /\ ~(mIsBrightnessOverridden \/ CanSetBrightness)
    /\ mCachedSettingBrightness' = value
    /\ user' = IF IsScreenOn \/ controllerSets THEN GetSafeBrightness(value) ELSE user
    /\ UNCHANGED <<modes, ramp, mWaitForFirstLux, mBrightnessTarget, setting>>

\* ScreenController::SetBrightness, which acts on a dark screen and refuses on a lit one.  Its panel
\* gets the level in the scale of requests, the data base as it came; the steps of its animator
\* reach neither.  It is the controller of the display the service drives, and of its state.
ControllerSets(gradual) == ~IsScreenOn /\ ~gradual
ControllerSetBrightness(value, gradual) ==
    IF ControllerSets(gradual)
    THEN panel' = GetSafeBrightness(value) /\ SubmitWrite(value, "controller")
    ELSE UNCHANGED <<panel, writes>>

\* The two ways to ask: with a level brought into its scale and at once, or with a number as it
\* came, which goes to the controller where the service refuses.
SetBrightnessInner(value, continuous) ==
    /\ Requested
    /\ Steady("continuous", ~continuous)
    /\ \/ SetBrightness(GetSafeBrightness(value), FALSE, continuous)
       \/ CannotSetBrightness(GetSafeBrightness(value), FALSE) /\ UNCHANGED <<panel, writes>>
    /\ UNCHANGED <<mState, auto, lux, timers, mDiscount, onDue>>

AdjustBrightnessInner(value, gradual) ==
    /\ Requested
    /\ Steady("sleep", gradual => ~mIsSleepStatus)
    /\ \/ SetBrightness(value, gradual, FALSE)
       \/ /\ CannotSetBrightness(value, ControllerSets(gradual))
          /\ ControllerSetBrightness(value, gradual)
    /\ UNCHANGED <<mState, auto, lux, timers, mDiscount, onDue>>

\* A device folded or unfolded: the display it lights next gets the setting.  Which sensor it reads
\* then is in AmbientSensors.
OnFoldStatusChanged ==
    /\ Requested
    /\ CanSetBrightness
    /\ Update(setting, FALSE, TRUE)
    /\ KeepsChosen
    /\ UNCHANGED <<mState, modes, auto, lux, saved, timers, mDiscount, mBrightnessTarget, onDue>>

\* What GetScreenOnBrightness answers; automatic brightness may have no target to answer yet.
ScreenOnBrightness(isUpdateTarget) ==
    IF mIsBrightnessBoosted THEN MaxLevel
    ELSE IF mIsBrightnessOverridden THEN mOverriddenBrightness
    ELSE IF isUpdateTarget /\ mIsAutoBrightnessEnabled THEN mBrightnessTarget
    ELSE setting

WaitsForFirstLux ==
    \/ mWaitForFirstLux
    \/ ~mIsBrightnessBoosted /\ ~mIsBrightnessOverridden /\ mIsAutoBrightnessEnabled
       /\ mBrightnessTarget = 0

SetScreenOnBrightness ==
    LET value == ScreenOnBrightness(TRUE)
        mine == ~mIsBrightnessBoosted /\ ~mIsBrightnessOverridden
    IN  /\ Calm
        /\ Steady("dark", IsScreenOn)
        /\ onDue' = FALSE
        /\ IF WaitsForFirstLux
           THEN /\ Steady("firstLux", ramp = NoRamp)
                /\ mWaitForFirstLux' = TRUE
                /\ firstLuxTask' = mCachedSettingBrightness
                /\ UNCHANGED <<output, user>>
           ELSE /\ Steady("firstLux", firstLuxTask = None)
                /\ Update(value, FALSE, mine)
                /\ IF mine THEN Chosen(value, FALSE) ELSE KeepsChosen
                /\ UNCHANGED firstLuxTask
        /\ UNCHANGED <<mState, modes, auto, lux, saved, boostTask, mDiscount, mBrightnessTarget>>

FirstLuxTimeout ==
    /\ firstLuxTask # None
    /\ firstLuxTask' = None
    /\ Update(firstLuxTask, FALSE, TRUE)
    /\ KeepsChosen
    /\ UNCHANGED <<mState, modes, auto, lux, saved, boostTask, mDiscount,
                   mBrightnessTarget, onDue>>

\* ClearOffset, when the setting turns automatic brightness off.
ClearOffset ==
    /\ Requested
    /\ Steady("cut", panel = Shown(ScreenOnBrightness(FALSE)))
    /\ StopDimming
    /\ mBrightnessTarget' = 0
    /\ KeepsChosen
    /\ UNCHANGED <<mState, modes, auto, lux, panel, writes, saved, timers, mDiscount,
                   mWaitForFirstLux, onDue>>

DiscountBrightness(discount) ==
    /\ Requested
    /\ IsScreenOn
    /\ mDiscount' = discount
    /\ UpdateBrightness(ScreenOnBrightness(FALSE),
                        ShownUnder(ScreenOnBrightness(FALSE), discount), FALSE, FALSE)
    /\ KeepsChosen
    /\ UNCHANGED <<mState, modes, auto, lux, saved, timers, mBrightnessTarget, onDue>>

OverrideBrightness(value, gradual) ==
    /\ Requested
    /\ CanOverrideBrightness
    /\ UNCHANGED <<mState, mIsSleepStatus, mIsBrightnessBoosted, auto, lux, saved, timers,
                   mDiscount, mBrightnessTarget, onDue>>
    /\ Overrides(value, gradual)
    /\ KeepsChosen

RestoreBrightness(gradual) ==
    /\ Requested
    /\ Steady("sleep", gradual => ~mIsSleepStatus)
    /\ mIsBrightnessOverridden
    /\ UNCHANGED <<mState, mIsSleepStatus, mIsBrightnessBoosted, auto, lux, saved, timers,
                   mDiscount, mBrightnessTarget, onDue>>
    /\ RestoreBrightnessTo(gradual)
    /\ IF user = None THEN UNCHANGED user ELSE Chosen(user, gradual)

-----------------------------------------------------------------------------
(* Boost. *)

NotBoosted ==
    UNCHANGED <<mIsSleepStatus, mIsBrightnessOverridden, mOverriddenBrightness,
                mBeforeOverriddenBrightness>>

\* A boost of a boosted screen only puts its end off.
BoostBrightness ==
    /\ Requested
    /\ CanBoostBrightness
    /\ mIsBrightnessBoosted' = TRUE
    /\ IF mIsBrightnessBoosted THEN NoUpdate ELSE Update(MaxLevel, FALSE, FALSE)
    /\ boostTask' = TRUE
    /\ NotBoosted
    /\ KeepsChosen
    /\ UNCHANGED <<mState, auto, lux, saved, firstLuxTask, mDiscount, mBrightnessTarget, onDue>>

SettingReturns == setting                                               \* mutant
BeforeBoost == mCachedSettingBrightness

\* CancelBoostBrightness, by a client or by its timer.
CancelBoostBrightness ==
    /\ mIsBrightnessBoosted
    /\ mIsBrightnessBoosted' = FALSE
    /\ boostTask' = FALSE
    /\ Update(BeforeBoost, FALSE, TRUE)
    /\ NotBoosted
    /\ UNCHANGED <<mState, auto, lux, saved, firstLuxTask, mDiscount, mBrightnessTarget,
                   onDue, user>>

-----------------------------------------------------------------------------
(* Automatic brightness. *)

AutoAdjustBrightness(enable) ==
    /\ enable # mIsAutoBrightnessEnabled
    /\ mIsAutoBrightnessEnabled' = enable
    /\ mIsLightSensorEnabled' = enable
    /\ isFirstLux' = (isFirstLux \/ (~enable /\ mIsLightSensorEnabled))
    /\ UNCHANGED <<mState, modes, lux, output, saved, timers, mDiscount,
                   mBrightnessTarget, mWaitForFirstLux, onDue, user>>

LetsTimerRun == UNCHANGED firstLuxTask                                  \* mutant
CancelFirstLux == firstLuxTask' = IF mWaitForFirstLux THEN None ELSE firstLuxTask

\* A light reading that leads to a level: ProcessLightLux and UpdateCurrentBrightnessLevel.
\* Whether a later reading has stayed long enough to count is left open.
ProcessLightLux(level) ==
    LET fast == isFirstLux /\ mIsDisplayOnWhenFirstLuxReport
    IN  /\ Calm
        /\ mIsLightSensorEnabled
        /\ CanSetBrightness
        /\ isFirstLux' = FALSE
        /\ UNCHANGED <<mState, modes, saved, boostTask, mDiscount, onDue,
                       mIsAutoBrightnessEnabled, mIsLightSensorEnabled>>
        /\ IF level # mBrightnessLevel \/ isFirstLux
           THEN /\ Steady("sleep", ~fast => ~mIsSleepStatus)
                /\ mBrightnessLevel' = level
                /\ mIsDisplayOnWhenFirstLuxReport' =
                       (mIsDisplayOnWhenFirstLuxReport /\ ~fast)
                /\ CancelFirstLux
                /\ mBrightnessTarget' = level
                /\ Update(level, ~fast, TRUE)
                /\ Chosen(level, ~fast)
           ELSE UNCHANGED <<lux, firstLuxTask, mBrightnessTarget, output,
                            mWaitForFirstLux, user>>

-----------------------------------------------------------------------------
(* The queues. *)

\* One OnChanged, at any level on the way: the strides are BrightnessDimming's.
RampStep ==
    /\ ramp # NoRamp
    /\ \E level \in (ramp.at + 1 .. ramp.to) \union (ramp.to .. ramp.at - 1) :
           /\ panel' = level
           /\ ramp' = IF level = ramp.to THEN NoRamp ELSE [ramp EXCEPT !.at = level]
           /\ IF mIsSleepStatus THEN UNCHANGED writes
              ELSE SubmitWrite(GetOrigBrightnessLevel(level), "service")
    /\ UNCHANGED <<mState, modes, auto, lux, saved, timers, mDiscount,
                   mBrightnessTarget, mWaitForFirstLux, onDue, user>>

\* SetSettingBrightness, on the shared queue, whose tasks have no order.  The controller's leaves
\* what the service remembers of the setting.
WriteSetting ==
    \E i \in DOMAIN writes :
        /\ Steady("write", i = 1)
        /\ setting' = writes[i].value
        /\ IF writes[i].by = "service"
           THEN mBrightnessLevel' = setting' /\ mCachedSettingBrightness' = setting'
           ELSE UNCHANGED <<mBrightnessLevel, mCachedSettingBrightness>>
        /\ writes' = RemoveAt(writes, i)
        /\ UNCHANGED <<mState, modes, auto, panel, ramp, timers, mDiscount, mBrightnessTarget,
                       mWaitForFirstLux, mIsDisplayOnWhenFirstLuxReport, onDue, user>>

-----------------------------------------------------------------------------
\* The screen is off, and the brightness written at boot is the setting.
Init ==
    /\ mState = "OFF"
    /\ mIsSleepStatus = FALSE /\ mIsBrightnessOverridden = FALSE /\ mIsBrightnessBoosted = FALSE
    /\ setting \in {GetSafeBrightness(value) : value \in Values}
    /\ mCachedSettingBrightness = setting /\ mBrightnessLevel = setting /\ user = setting
    /\ mOverriddenBrightness = setting /\ mBeforeOverriddenBrightness = setting
    /\ mDiscount = 100
    /\ mIsAutoBrightnessEnabled = FALSE /\ mIsLightSensorEnabled = FALSE /\ isFirstLux = TRUE
    /\ mBrightnessTarget = 0
    /\ mWaitForFirstLux = FALSE /\ mIsDisplayOnWhenFirstLuxReport = FALSE
    /\ writes = << >> /\ ramp = NoRamp
    /\ panel = Shown(setting)
    /\ firstLuxTask = None /\ boostTask = FALSE
    /\ onDue = FALSE

Next ==
    \/ \E s \in {"OFF", "ON", "DIM", "DOZE"} : SetDisplayState(s)
    \/ \E value \in Values, continuous \in BOOLEAN : SetBrightnessInner(value, continuous)
    \/ \E value \in Values, gradual \in BOOLEAN : AdjustBrightnessInner(value, gradual)
    \/ OnFoldStatusChanged
    \/ SetScreenOnBrightness
    \/ FirstLuxTimeout
    \/ ClearOffset
    \/ \E discount \in Discounts : DiscountBrightness(discount)
    \/ \E value \in Values, gradual \in BOOLEAN : OverrideBrightness(value, gradual)
    \/ \E gradual \in BOOLEAN : RestoreBrightness(gradual)
    \/ BoostBrightness
    \/ CancelBoostBrightness
    \/ \E enable \in BOOLEAN : AutoAdjustBrightness(enable)
    \/ \E level \in SensorLevels : ProcessLightLux(level)
    \/ RampStep
    \/ WriteSetting

Spec == Init /\ [][Next]_vars

-----------------------------------------------------------------------------
(* Correctness. *)

\* What the data base may hold, and whose writes may wait: whatever clients ask for, the service
\* stores levels of its scale, and only a controller stores a number as it came.
Stored == IF "dark" \in Unsteady THEN Nat ELSE Levels
Writers == IF "dark" \in Unsteady THEN {"service", "controller"} ELSE {"service"}

\* Types; no number a client asks for brings setting, panel or a write out of scale unless a
\* controller stores it; an override and a boost never hold the screen together; and without
\* automatic brightness the sensor is off.
TypeOK ==
    /\ mState \in {"OFF", "ON", "DIM", "DOZE"}
    /\ {mIsSleepStatus, mIsBrightnessOverridden, mIsBrightnessBoosted,
        mIsAutoBrightnessEnabled, mIsLightSensorEnabled, isFirstLux, mWaitForFirstLux,
        mIsDisplayOnWhenFirstLuxReport, boostTask, onDue} \subseteq BOOLEAN
    /\ {setting, mBeforeOverriddenBrightness, panel} \subseteq Stored
    /\ {mCachedSettingBrightness, mBrightnessLevel, mOverriddenBrightness,
        mBrightnessTarget} \subseteq Nat
    /\ firstLuxTask \in Nat \union {None} /\ user \in Levels \union {None}
    /\ mDiscount \in Discounts \union {100}
    /\ writes \in Seq([value : Stored, by : Writers]) /\ Len(writes) <= MaxWrites
    /\ ramp \in [at : Stored, to : Mapping] \union {NoRamp}
    /\ ~(mIsBrightnessOverridden /\ mIsBrightnessBoosted)
    /\ mIsLightSensorEnabled => mIsAutoBrightnessEnabled

AtRest ==
    /\ IsScreenOn /\ ramp = NoRamp /\ writes = << >>
    /\ firstLuxTask = None /\ ~onDue

\* Once the service is at rest on a lit screen, the panel shows what the mode calls for: the
\* maximum under a boost, the override, or else the setting that GetBrightness tells clients.
PanelShowsMode == AtRest => panel = Shown(ScreenOnBrightness(FALSE))

\* Whatever overrides, boosts, dimmings and screen-offs came between, at rest and with none
\* of them in force the panel is back at the brightness last chosen.
UserReturns ==
    AtRest /\ ~mIsBrightnessBoosted /\ ~mIsBrightnessOverridden /\ user # None
        => panel = Shown(user)

\* A boost is in force exactly while the task that ends it waits, and the service waits for
\* a first light reading exactly while the task that gives up on it does: neither lasts for
\* ever, and no task of either outlives its reason.
TimersMatchModes ==
    /\ mIsBrightnessBoosted = boostTask
    /\ mWaitForFirstLux = (firstLuxTask # None)
=============================================================================
