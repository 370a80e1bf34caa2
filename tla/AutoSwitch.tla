------------------------------ MODULE AutoSwitch ----------------------------
(***************************************************************************)
(* The switch of automatic brightness is kept twice: in the settings, which*)
(* the user's settings application writes and DisplayPowerMgrService       *)
(* observes, and in BrightnessService, which clients switch through        *)
(* DisplayPowerMgrService.  Each side follows the other by a task of       *)
(* autoBrightnessQueue_, a serial queue with one timer for each of two     *)
(* ids: the callback that reads the setting, and the update that writes it.*)
(***************************************************************************)
EXTENDS Naturals

CONSTANTS
    NONE,
    Interruptible      \* may clients call while a task of the queue runs, and the other way round

ASSUME SwitchAssumption ==
    /\ NONE \notin BOOLEAN /\ NONE \notin {"boot", "observer"}
    /\ NONE \notin [read : BOOLEAN, at : {"compare", "adjust"}]

VARIABLES
    isSupportLightSensor,
    settingEnable,     \* the setting
    isSystemEnable,    \* IsAutoAdjustBrightnessInner()
    changed,           \* the setting was written and its observer has not been told
    autoBrightnessObserver,
    callbackTimer,     \* NONE, "boot" or "observer": what ID_AUTO_SWITCH_CALLBACK will do
    updateTimer,       \* NONE or what ID_AUTO_SWITCH_UPDATE will write
    callbackTask,      \* NONE or the callback that runs: the setting it read, and how far it is
    locked,            \* autoBrightnessMutex_: NONE or the value of the client that holds it
    booted

switches == <<settingEnable, isSystemEnable, changed>>
timers == <<callbackTimer, updateTimer>>
switchVars == <<isSupportLightSensor, switches, autoBrightnessObserver, timers, callbackTask,
                locked, booted>>

SwitchInit ==
    /\ isSupportLightSensor \in BOOLEAN
    /\ settingEnable \in BOOLEAN
    /\ isSystemEnable = FALSE /\ changed = FALSE
    /\ autoBrightnessObserver = FALSE
    /\ callbackTimer = NONE /\ updateTimer = NONE /\ callbackTask = NONE /\ locked = NONE
    /\ booted = FALSE

-----------------------------------------------------------------------------
\* Every write of a new value is announced to the observer, if there is one, some time later.
WriteSetting(value) ==
    /\ settingEnable' = value
    /\ changed' = (changed \/ (autoBrightnessObserver /\ value # settingEnable))

\* BrightnessService::AutoAdjustBrightness.  Without a sensor the setting is switched off.
Adjust(enable) ==
    IF isSupportLightSensor THEN isSystemEnable' = enable /\ UNCHANGED <<settingEnable, changed>>
    ELSE WriteSetting(FALSE) /\ UNCHANGED isSystemEnable

\* HandleBootBrightness: the observer may be told at once, and its registration may fail.
HandleBootSwitch ==
    /\ ~booted
    /\ booted' = TRUE
    /\ autoBrightnessObserver' \in BOOLEAN
    /\ callbackTimer' = "boot"
    /\ changed' \in {FALSE, autoBrightnessObserver'}
    /\ UNCHANGED <<isSupportLightSensor, settingEnable, isSystemEnable, updateTimer, callbackTask,
                   locked>>

UserSwitches ==
    /\ WriteSetting(~settingEnable)
    /\ UNCHANGED <<isSupportLightSensor, isSystemEnable, autoBrightnessObserver, timers,
                   callbackTask, locked, booted>>

\* The observer sets the timer of the callback, in place of the one that is set.
ObserverFires ==
    /\ changed
    /\ changed' = FALSE
    /\ callbackTimer' = "observer"
    /\ UNCHANGED <<isSupportLightSensor, settingEnable, isSystemEnable, autoBrightnessObserver,
                   updateTimer, callbackTask, locked, booted>>

\* The callback of the boot adjusts whatever it read; the one of the observer compares first.
\* The update was set when nothing else was, so that it comes first.
RunCallback ==
    /\ callbackTimer # NONE /\ updateTimer = NONE /\ callbackTask = NONE
    /\ locked # NONE => Interruptible
    /\ callbackTask' =
           [read |-> settingEnable, at |-> IF callbackTimer = "boot" THEN "adjust" ELSE "compare"]
    /\ callbackTimer' = NONE
    /\ UNCHANGED <<isSupportLightSensor, switches, autoBrightnessObserver, updateTimer, locked,
                   booted>>

Compare ==
    /\ callbackTask # NONE /\ callbackTask.at = "compare"
    /\ callbackTask' = IF callbackTask.read = isSystemEnable THEN NONE
                       ELSE [callbackTask EXCEPT !.at = "adjust"]
    /\ UNCHANGED <<isSupportLightSensor, switches, autoBrightnessObserver, timers, locked, booted>>

AdjustToSetting ==
    /\ callbackTask # NONE /\ callbackTask.at = "adjust" /\ locked = NONE
    /\ Adjust(callbackTask.read)
    /\ callbackTask' = NONE
    /\ UNCHANGED <<isSupportLightSensor, autoBrightnessObserver, timers, locked, booted>>

\* A client: AutoAdjustBrightnessInner(enable, true) up to the timers, and the timers.
ClientAdjusts(enable) ==
    /\ locked = NONE
    /\ callbackTask # NONE => Interruptible
    /\ Adjust(enable)
    /\ locked' = IF isSupportLightSensor THEN enable ELSE NONE
    /\ UNCHANGED <<isSupportLightSensor, autoBrightnessObserver, timers, callbackTask, booted>>

WithoutUpdate ==                                                        \* mutant
    /\ locked # NONE
    /\ callbackTimer' = NONE
    /\ locked' = NONE
    /\ UNCHANGED <<isSupportLightSensor, switches, autoBrightnessObserver, updateTimer,
                   callbackTask, booted>>
SetUpdateTimer ==
    /\ locked # NONE
    /\ callbackTimer' = NONE            \* CancelAllTimer
    /\ updateTimer' = locked
    /\ locked' = NONE
    /\ UNCHANGED <<isSupportLightSensor, switches, autoBrightnessObserver, callbackTask, booted>>

RunUpdate ==
    /\ updateTimer # NONE /\ callbackTask = NONE
    /\ updateTimer' = NONE
    /\ WriteSetting(updateTimer)
    /\ UNCHANGED <<isSupportLightSensor, isSystemEnable, autoBrightnessObserver, callbackTimer,
                   callbackTask, locked, booted>>

SwitchNext ==
    \/ HandleBootSwitch \/ UserSwitches \/ ObserverFires
    \/ RunCallback \/ Compare \/ AdjustToSetting
    \/ \E enable \in BOOLEAN : ClientAdjusts(enable)
    \/ SetUpdateTimer \/ RunUpdate

SwitchSpec == SwitchInit /\ [][SwitchNext]_switchVars

-----------------------------------------------------------------------------
\* However users and clients switch, once the timers have run and the observer has been told, the
\* switch in the settings and the one that works are the same: each of them was the last word.
SwitchesAgree ==
    booted /\ autoBrightnessObserver /\ ~changed /\ timers = <<NONE, NONE>>
           /\ callbackTask = NONE /\ locked = NONE
        => isSystemEnable = settingEnable
=============================================================================
