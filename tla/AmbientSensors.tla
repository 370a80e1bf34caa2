---------------------------- MODULE AmbientSensors --------------------------
(***************************************************************************)
(* Which ambient light sensor BrightnessService listens to.  A foldable    *)
(* device has two, one for each of its displays; automatic brightness, the *)
(* state of the screen and the posture of the device switch them, each on  *)
(* a thread of its own; a handler is one step here.  The display mode,     *)
(* which the window manager owns, and the fold status it reports are two   *)
(* views of the posture.                                                   *)
(***************************************************************************)
EXTENDS BrightnessConfig

CONSTANTS
    SENSOR_TYPE_ID_AMBIENT_LIGHT, SENSOR_TYPE_ID_AMBIENT_LIGHT1,
    FULL, MAIN,                     \* display modes
    EXPAND, FOLDED, HALF_FOLD,      \* fold statuses
    ScreenFiles                     \* bound: documents of brightness_config

Postures == {EXPAND, FOLDED, HALF_FOLD}
Sensors == {SENSOR_TYPE_ID_AMBIENT_LIGHT, SENSOR_TYPE_ID_AMBIENT_LIGHT1}

\*   dark      automatic brightness is switched on while the screen is off
\*   unfolded  a foldable device starts unfolded: mCurrentSensorId is 5 whatever the posture
\*   half      the screen or automatic brightness goes on while the device is half folded
\*   leap      the device is folded or unfolded without a half-folded status in between
\*   late      the display mode and the reported fold status disagree
\*   setting   a posture changes between the change of the setting and its observer
\*   unknown   the window manager reports that it does not know the posture
LooseSituations == {"dark", "unfolded", "half", "leap", "late", "setting", "unknown"}

ASSUME SensorAssumption ==
    /\ SENSOR_TYPE_ID_AMBIENT_LIGHT # SENSOR_TYPE_ID_AMBIENT_LIGHT1
    /\ EXPAND # FOLDED /\ HALF_FOLD \notin {EXPAND, FOLDED} /\ 0 \notin Postures

VARIABLES
    loose,                          \* situations the environment brings about, none or all
    isFoldable, isSupported,        \* IsFoldable() and mIsSupportLightSensor
    displayModeMap, foldStatusMap,  \* what the parser made of the document
    displayMode,                    \* GetFoldDisplayMode()
    autoEnabled,                    \* mIsAutoBrightnessEnabled
    autoSetting,                    \* the setting of automatic brightness
    lit,                            \* IsScreenOn()
    enabled,                        \* the sensors whose mIsLightSensor(1)Enabled is set
    mCurrentSensorId, mLastFoldStatus,
    sources                         \* the sensors whose readings LightLuxManager holds

device == <<loose, isFoldable, isSupported, displayModeMap, foldStatusMap>>
fold == <<displayMode, mCurrentSensorId, mLastFoldStatus>>
sensorVars == <<device, fold, autoEnabled, autoSetting, lit, enabled, sources>>

Tight(situation, holds) == situation \in loose \/ holds

-----------------------------------------------------------------------------
ModeSensor(mode) == GetSensorId(displayModeMap, mode)

\* IsCurrentSensorEnable goes by the display mode, not by mCurrentSensorId.
IsCurrentSensorEnable ==
    IF isFoldable THEN ModeSensor(displayMode) \in enabled
    ELSE SENSOR_TYPE_ID_AMBIENT_LIGHT \in enabled

\* The sensors in the set go on; the others stay as they are.
Activate(set) ==
    /\ enabled' = IF autoEnabled' THEN enabled \union (set \intersect Sensors) ELSE enabled
    /\ UNCHANGED sources

ActivateValidAmbientSensor ==
    Activate({IF isFoldable THEN ModeSensor(displayMode) ELSE SENSOR_TYPE_ID_AMBIENT_LIGHT})

\* Switching a sensor off that was on forgets the readings; without automatic brightness
\* nothing is switched off, so that it has to be done first.
Deactivate(set, allowed) ==
    LET stopped == IF allowed THEN enabled \intersect set ELSE {}
    IN  /\ enabled' = enabled \ stopped
        /\ sources' = IF stopped = {} THEN sources ELSE {}

DeactivateAfterwards ==                                                 \* mutant
    Deactivate(IF isFoldable THEN Sensors ELSE {SENSOR_TYPE_ID_AMBIENT_LIGHT}, autoEnabled')
DeactivateAllAmbientSensor ==
    Deactivate(IF isFoldable THEN Sensors ELSE {SENSOR_TYPE_ID_AMBIENT_LIGHT}, autoEnabled)

-----------------------------------------------------------------------------
SensorInit ==
    /\ loose \in {{}, LooseSituations}
    /\ isFoldable \in BOOLEAN /\ isSupported \in BOOLEAN
    /\ \E file \in ScreenFiles :
           displayModeMap = DisplayModes(file) /\ foldStatusMap = FoldStatuses(file)
    /\ displayMode = MAIN \/ (isFoldable /\ "unfolded" \in loose /\ displayMode = FULL)
    /\ autoEnabled = FALSE /\ autoSetting \in BOOLEAN /\ lit = FALSE
    /\ enabled = {} /\ sources = {}
    /\ mCurrentSensorId = SENSOR_TYPE_ID_AMBIENT_LIGHT
    /\ mLastFoldStatus = 0

\* SetDisplayState as far as the sensors go: StateChangedSetAutoBrightness.
SetDisplayState(on) ==
    /\ on /\ isFoldable => Tight("half", mLastFoldStatus # HALF_FOLD)
    /\ lit' = on
    /\ UNCHANGED <<device, fold, autoEnabled>>
    /\ IF ~isSupported
       THEN autoSetting' = FALSE /\ UNCHANGED <<enabled, sources>>
       ELSE /\ IF on /\ autoEnabled
               THEN IF IsCurrentSensorEnable THEN UNCHANGED <<enabled, sources>>
                    ELSE ActivateValidAmbientSensor
               ELSE IF ~IsCurrentSensorEnable THEN UNCHANGED <<enabled, sources>>
                    ELSE DeactivateAllAmbientSensor
            /\ UNCHANGED autoSetting

\* The client, or the observer of the setting, turns automatic brightness on or off.
AutoAdjustBrightness(enable) ==
    /\ enable => Tight("dark", lit)
    /\ enable /\ isFoldable => Tight("half", mLastFoldStatus # HALF_FOLD)
    /\ IF ~isSupported THEN autoSetting' = FALSE /\ UNCHANGED <<autoEnabled, enabled, sources>>
       ELSE /\ autoEnabled' = enable
            /\ IF enable = autoEnabled THEN UNCHANGED <<enabled, sources>>
               ELSE IF enable THEN ActivateValidAmbientSensor
               ELSE DeactivateAllAmbientSensor
            /\ autoSetting' = enable \/ UNCHANGED autoSetting
    /\ UNCHANGED <<device, fold, lit>>

\* The window manager reports a fold status, and has a display mode for it.
Leap(status) == {mLastFoldStatus, status} = {EXPAND, FOLDED}
ModeOf(status) ==
    CASE status = EXPAND -> FULL [] status = FOLDED -> MAIN [] OTHER -> displayMode

KeepsSensor(status) ==                                                  \* mutant
    /\ mCurrentSensorId' = mCurrentSensorId
    /\ UNCHANGED <<enabled, sources>>
SwitchSensor(status) ==
    LET follows == isSupported /\ autoSetting /\ lit
        sensorId == GetSensorId(foldStatusMap, status)
    IN  IF status = HALF_FOLD
        THEN /\ IF follows THEN Deactivate({mCurrentSensorId}, autoEnabled)
                ELSE UNCHANGED <<enabled, sources>>
             /\ UNCHANGED mCurrentSensorId
        ELSE /\ mCurrentSensorId' = sensorId
             /\ IF follows THEN Activate({sensorId}) ELSE UNCHANGED <<enabled, sources>>

OnFoldStatusChanged(status) ==
    /\ isFoldable
    /\ status # mLastFoldStatus
    /\ Tight("leap", ~Leap(status))
    /\ Tight("setting", autoSetting = autoEnabled)
    /\ Tight("unfolded", mLastFoldStatus = 0 => status = FOLDED)
    /\ displayMode' = ModeOf(status) \/ ("late" \in loose /\ displayMode' \in {FULL, MAIN})
    /\ mLastFoldStatus' = status
    /\ UNCHANGED autoEnabled
    /\ SwitchSensor(status)
    /\ UNCHANGED <<device, autoSetting, lit>>

\* The handler for a status that is none of the postures, which it only remembers.
OnFoldStatusUnknown ==
    /\ isFoldable
    /\ mLastFoldStatus # 0
    /\ Tight("unknown", FALSE)
    /\ mLastFoldStatus' = 0
    /\ UNCHANGED <<device, displayMode, mCurrentSensorId, autoEnabled, autoSetting, lit, enabled,
                   sources>>

\* A reading is kept only while the brightness may be set.
ProcessLightLux(sensorId) ==
    /\ sensorId \in enabled
    /\ sources' = IF lit THEN sources \union {sensorId} ELSE sources
    /\ UNCHANGED <<device, fold, autoEnabled, autoSetting, lit, enabled>>

\* The setting is changed; its observer comes later.
SettingChanges ==
    /\ autoSetting' = ~autoSetting
    /\ UNCHANGED <<device, fold, autoEnabled, lit, enabled, sources>>

SensorNext ==
    \/ \E on \in BOOLEAN : SetDisplayState(on)
    \/ \E enable \in BOOLEAN : AutoAdjustBrightness(enable)
    \/ \E status \in Postures : OnFoldStatusChanged(status)
    \/ OnFoldStatusUnknown
    \/ \E sensorId \in Sensors : ProcessLightLux(sensorId)
    \/ SettingChanges

SensorSpec == SensorInit /\ [][SensorNext]_sensorVars

-----------------------------------------------------------------------------
(* Correctness. *)

\* However requests, screen states and postures follow each other, no sensor keeps running once
\* automatic brightness is off: it would drain the battery, and nothing would switch it off.
NoSensorWithoutAuto == enabled # {} => autoEnabled

\* Unless the environment is loose, the sensor that runs is the one of the display in use, while the
\* screen is lit and not half folded, and no other; the readings that are kept are its own.
SensorFollowsPosture ==
    loose = {} =>
        /\ enabled = IF lit /\ autoEnabled /\ ~(isFoldable /\ mLastFoldStatus = HALF_FOLD)
                     THEN Sensors \intersect
                          {IF isFoldable THEN ModeSensor(displayMode)
                                         ELSE SENSOR_TYPE_ID_AMBIENT_LIGHT}
                     ELSE {}
        /\ sources \subseteq enabled
=============================================================================
