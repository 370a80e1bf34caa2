------------------------- MODULE DisplayService_proofs ----------------------
(***************************************************************************)
(* Proofs about the parts of the service around the display state machine: *)
(* how it comes up, the switch of automatic brightness, the brightness     *)
(* behind its facade, and what is kept of clients that die, for any        *)
(* displays, screens, operations and processes.                            *)
(***************************************************************************)
EXTENDS DisplaySystemAbility, AutoSwitch, BrightnessFacade, ClientDeaths, TLAPS

-----------------------------------------------------------------------------
(* The service comes up. *)

\* Since the service started: what was loaded is what is set up, and the flag that lets the boot
\* be handled once is set by who handles it, for as long as the service runs.
FirstStart ==
    /\ "COMMON_EVENT" \in loaded => commonEventManager_
    /\ "DMS" \notin loaded => ~isReady
    /\ handler # "idle" => "DMS" \in loaded
    /\ running /\ isKvDataReady_ => bootBrightness /\ observing

\* The last of the events to come finds the others there, so that nobody has to come after it.
LastComesTrue ==
    running /\ loaded = Abilities /\ handler = "idle" /\ dataShareReady /\ ~delivered /\ published
        /\ ~lastLoaded /\ subscribed
    => isKvDataReady_

AbilityInv ==
    /\ starts \in Nat \ {0}
    /\ dataShareReady => settingsUp
    /\ isDataShareReady_ => isKvDataReady_
    /\ starts = 1 => FirstStart /\ LastComesTrue

LEMMA AbilityInvInit == AbilityInit => AbilityInv
  BY DEF AbilityInit, AbilityInv, FirstStart, LastComesTrue, Abilities

\* The check that the events end with either finds something missing or restores the brightness.
LEMMA BootChecks ==
    ASSUME AbilityInv, starts = 1, UNCHANGED running, BootIfSettingsReady
    PROVE  /\ isDataShareReady_' => isKvDataReady_'
           /\ running' /\ isKvDataReady_' => bootBrightness' /\ observing'
           /\ commonEventManager_ /\ published /\ settingsUp => isKvDataReady_'
  BY DEF AbilityInv, FirstStart, BootIfSettingsReady, SettingsDataReady, SetKvDataReady,
     HandleBootBrightness, bootVars

LEMMA AbilityStep == AbilityInv /\ [AbilityNext]_abilityVars => AbilityInv'
  <1> SUFFICES ASSUME AbilityInv, [AbilityNext]_abilityVars PROVE AbilityInv'
    OBVIOUS
  <1> USE DEF settingsVars, bootVars, initVars, Abilities
  <1>0. isDataShareReady_' => isKvDataReady_'
    BY DEF AbilityNext, abilityVars, AbilityInv, DmsLoaded, InitDisplays, Publish, CheckAndReady,
       CommonEventLoaded, KvLoaded, SettingsStart, PublishDataShareReady, OnReceiveEvent,
       OnStop, OnStart, BootIfSettingsReady, SettingsDataReady, BootOnEvent, SetKvDataReady,
       HandleBootBrightness
  <1>1. dataShareReady' => settingsUp'
    BY DEF AbilityNext, abilityVars, AbilityInv, DmsLoaded, InitDisplays, Publish, CheckAndReady,
       CommonEventLoaded, KvLoaded, SettingsStart, PublishDataShareReady, OnReceiveEvent,
       OnStop, OnStart
  <1>2. starts' \in Nat \ {0} /\ (starts' = 1 => starts = 1)
    <2>1. CASE OnStart
      <3>1. starts' = starts + 1
        BY <2>1 DEF OnStart
      <3> QED
        BY <3>1 DEF AbilityInv
    <2>2. CASE ~OnStart
      <3>1. UNCHANGED starts
        BY <2>2 DEF AbilityNext, abilityVars, DmsLoaded, InitDisplays, Publish, CheckAndReady,
           CommonEventLoaded, KvLoaded, SettingsStart, PublishDataShareReady, OnReceiveEvent,
           OnStop
      <3> QED
        BY <3>1 DEF AbilityInv
    <2> QED
      BY <2>1, <2>2
  <1>3. SUFFICES ASSUME starts = 1, starts' = 1 PROVE FirstStart' /\ LastComesTrue'
    BY <1>0, <1>1, <1>2 DEF AbilityInv
  <1> USE DEF AbilityInv, FirstStart, LastComesTrue
  <1>4. CASE DmsLoaded
    BY <1>3, <1>4 DEF DmsLoaded, Load
  <1>5. CASE InitDisplays
    BY <1>3, <1>5 DEF InitDisplays
  <1>6. CASE Publish
    BY <1>3, <1>6 DEF Publish
  <1>7. CASE CheckAndReady
    <2>1. /\ BootIfSettingsReady /\ handler = "Check"
          /\ UNCHANGED <<starts, running, loaded, lastLoaded, published, settingsVars>>
      BY <1>7 DEF CheckAndReady
    <2> QED
      BY <1>3, <2>1, BootChecks
  <1>8. CASE CommonEventLoaded
    BY <1>3, <1>8 DEF CommonEventLoaded, Load
  <1>9. CASE KvLoaded
    <2>1. /\ BootIfSettingsReady /\ handler = "idle" /\ loaded' = loaded \union {"KV"}
          /\ UNCHANGED <<starts, running, handler, initVars, settingsVars>>
      BY <1>9 DEF KvLoaded, Load
    <2> QED
      BY <1>3, <2>1, BootChecks
  <1>10. CASE SettingsStart
    BY <1>3, <1>10 DEF SettingsStart
  <1>11. CASE PublishDataShareReady
    BY <1>3, <1>11 DEF PublishDataShareReady
  <1>12. CASE OnReceiveEvent
    BY <1>3, <1>12 DEF OnReceiveEvent, BootOnEvent, SetKvDataReady, HandleBootBrightness
  <1>13. CASE OnStop
    BY <1>3, <1>13 DEF OnStop
  <1>14. CASE OnStart
    BY <1>3, <1>14 DEF OnStart
  <1>15. CASE UNCHANGED abilityVars
    BY <1>3, <1>15 DEF abilityVars
  <1> QED
    BY <1>4, <1>5, <1>6, <1>7, <1>8, <1>9, <1>10, <1>11, <1>12, <1>13, <1>14, <1>15
       DEF AbilityNext

\* OnAddSystemAbility and DisplayCommonEventManager: whatever the order in which the abilities load
\* and the settings data base comes up, the last event restores the brightness of the boot, unless
\* that is COMMON_EVENT or the subscription failed.
THEOREM BootIsRestored == AbilitySpec => []BootBrightnessRestored
  <1>1. AbilityInv => BootBrightnessRestored
    BY DEF AbilityInv, FirstStart, LastComesTrue, BootBrightnessRestored
  <1> QED
    BY <1>1, AbilityInvInit, AbilityStep, PTL DEF AbilitySpec

-----------------------------------------------------------------------------
(* The switch of automatic brightness. *)

SwitchTypes ==
    /\ isSupportLightSensor \in BOOLEAN /\ settingEnable \in BOOLEAN /\ isSystemEnable \in BOOLEAN
    /\ changed \in BOOLEAN /\ autoBrightnessObserver \in BOOLEAN /\ booted \in BOOLEAN
    /\ callbackTimer \in {NONE, "boot", "observer"}
    /\ updateTimer \in BOOLEAN \union {NONE}
    /\ locked \in BOOLEAN \union {NONE}
    /\ callbackTask \in [read : BOOLEAN, at : {"compare", "adjust"}] \union {NONE}

\* A client's value works until its update has written it; no callback runs meanwhile.
ClientsWord ==
    /\ locked # NONE => isSystemEnable = locked /\ isSupportLightSensor
    /\ locked = NONE /\ updateTimer # NONE => isSystemEnable = updateTimer
    /\ locked # NONE \/ updateTimer # NONE => callbackTask = NONE
    /\ ~isSupportLightSensor => ~isSystemEnable

\* Who may still make the two sides agree: the observer that has to be told, the callback that has
\* to read or has read what is still the setting, the update, and the client in between.
Pending ==
    \/ changed \/ callbackTimer # NONE
    \/ locked # NONE \/ updateTimer # NONE
    \/ callbackTask # NONE /\ callbackTask.read = settingEnable

SwitchInv ==
    /\ SwitchTypes /\ ClientsWord
    /\ booted /\ autoBrightnessObserver =>
           /\ Pending \/ (callbackTask = NONE /\ isSystemEnable = settingEnable)

LEMMA SwitchInvInit == SwitchInit => SwitchInv
  BY SwitchAssumption DEF SwitchInit, SwitchInv, SwitchTypes, ClientsWord

LEMMA SwitchStep == ~Interruptible /\ SwitchInv /\ [SwitchNext]_switchVars => SwitchInv'
  <1> SUFFICES ASSUME ~Interruptible, SwitchInv, [SwitchNext]_switchVars PROVE SwitchInv'
    OBVIOUS
  <1> USE SwitchAssumption DEF SwitchInv, SwitchTypes, ClientsWord, Pending, switches, timers
  <1>1. CASE HandleBootSwitch
    BY <1>1 DEF HandleBootSwitch
  <1>2. CASE UserSwitches
    BY <1>2 DEF UserSwitches, WriteSetting
  <1>3. CASE ObserverFires
    BY <1>3 DEF ObserverFires
  <1>4. CASE RunCallback
    BY <1>4 DEF RunCallback
  <1>5. CASE Compare
    BY <1>5 DEF Compare
  <1>6. CASE AdjustToSetting
    BY <1>6 DEF AdjustToSetting, Adjust, WriteSetting
  <1>7. ASSUME NEW enable \in BOOLEAN, ClientAdjusts(enable) PROVE SwitchInv'
    BY <1>7 DEF ClientAdjusts, Adjust, WriteSetting
  <1>8. CASE SetUpdateTimer
    BY <1>8 DEF SetUpdateTimer
  <1>9. CASE RunUpdate
    BY <1>9 DEF RunUpdate, WriteSetting
  <1>10. CASE UNCHANGED switchVars
    BY <1>10 DEF switchVars
  <1> QED
    BY <1>1, <1>2, <1>3, <1>4, <1>5, <1>6, <1>7, <1>8, <1>9, <1>10 DEF SwitchNext

\* AutoAdjustBrightnessInner with its two timers: as long as clients and the tasks of the queue do
\* not run at the same time, the switch of the settings and the one that works agree in the end.
THEOREM SwitchesFollowEachOther == ~Interruptible /\ SwitchSpec => []SwitchesAgree
  <1> SUFFICES ASSUME ~Interruptible PROVE SwitchSpec => []SwitchesAgree
    OBVIOUS
  <1>1. SwitchInv => SwitchesAgree
    BY SwitchAssumption DEF SwitchInv, Pending, SwitchesAgree, timers
  <1>2. SwitchInv /\ [SwitchNext]_switchVars => SwitchInv'
    BY SwitchStep
  <1> QED
    BY <1>1, <1>2, SwitchInvInit, PTL DEF SwitchSpec

-----------------------------------------------------------------------------
(* The brightness behind its facade. *)

FacadeTypes ==
    /\ mMultiBrtMgrExt \in [Screens -> Exts \union {Absent}]
    /\ facadeCall \in FacadeCalls \union {Absent}
    /\ connectedScreens \subseteq Screens /\ screenIds \subseteq Screens
    /\ initStep \in {"start", "list", "create", "done"}
    /\ deInits \in Nat

\* An ext that may be called has resolved everything there is to call, and stays so until a DeInit
\* closes it, which marks the call it overtakes.
ExtsAreWhole ==
    /\ \A screen \in Screens :
           LET ext == mMultiBrtMgrExt[screen]
           IN  ext # Absent /\ ext.mBrightnessManagerExtEnable =>
                   ext.open /\ Operations \subseteq ext.symbols
    /\ facadeCall # Absent /\ ~facadeCall.overtaken =>
           LET ext == mMultiBrtMgrExt[facadeCall.screen]
           IN  ext # Absent /\ ext.mBrightnessManagerExtEnable

\* The listener is registered before the screens are listed: one that comes in between is seen by
\* both, and no screen by neither.
Awaited(screen) ==
    \/ mMultiBrtMgrExt[screen] # Absent
    \/ screen \in connecting
    \/ initStep = "create" /\ screen \in screenIds
ServedInv ==
    deInits = 0 =>
        /\ initStep \in {"list", "create", "done"} => multiScreenListener_
        /\ initStep \in {"create", "done"} => \A screen \in connectedScreens : Awaited(screen)

FacadeInv == FacadeTypes /\ ExtsAreWhole /\ ServedInv

LEMMA FacadeInvInit == FacadeInit => FacadeInv
  BY DEF FacadeInit, FacadeInv, FacadeTypes, ExtsAreWhole, ServedInv

LEMMA SymbolsResolve == \A op \in Calls : Symbol(op) \in Operations
  <1>1. "GetDisplayState" \in Operations
    <2>1. 2 \in DOMAIN LoadBrightnessStatus /\ LoadBrightnessStatus[2] = "GetDisplayState"
      BY DEF LoadBrightnessStatus
    <2>2. "GetDisplayState" \in Range(LoadBrightnessStatus)
      BY <2>1 DEF Range
    <2> QED
      BY <2>2 DEF Operations
  <1> QED
    BY <1>1, CallsAssumption DEF Symbol

\* A closed ext is not enabled, and knows of no function that is not one of the library's.
LEMMA ClosedExt ==
    ASSUME NEW symbols \in SUBSET Operations
    PROVE  /\ CloseBrightnessExtLibrary(symbols) \in Exts
           /\ ~CloseBrightnessExtLibrary(symbols).mBrightnessManagerExtEnable
  BY DEF CloseBrightnessExtLibrary, Exts

\* Whatever is installed, a library is opened with all symbols or not at all.
LEMMA LoadedIsWhole ==
    /\ LoadBrightnessExtLibrary \in Exts
    /\ LoadBrightnessExtLibrary.mBrightnessManagerExtEnable =>
           LoadBrightnessExtLibrary.open /\ Operations \subseteq LoadBrightnessExtLibrary.symbols
  <1>1. CASE library # Absent /\ Operations \subseteq library
    BY <1>1 DEF LoadBrightnessExtLibrary, Exts
  <1>2. CASE ~(library # Absent /\ Operations \subseteq library)
    <2> DEFINE resolved_ == IF library = Absent THEN {} ELSE ResolvedSymbols
    <2>1. resolved_ \in SUBSET Operations
      BY DEF ResolvedSymbols
    <2>2. LoadBrightnessExtLibrary = CloseBrightnessExtLibrary(resolved_)
      BY <1>2 DEF LoadBrightnessExtLibrary
    <2> HIDE DEF resolved_
    <2> QED
      BY <2>1, <2>2, ClosedExt
  <1> QED
    BY <1>1, <1>2

\* A screen gets its ext, and those that have one keep it.
LEMMA Creates ==
    ASSUME FacadeInv, NEW screen \in Screens, CreateExt(screen), UNCHANGED facadeCall
    PROVE  /\ mMultiBrtMgrExt' \in [Screens -> Exts \union {Absent}]
           /\ mMultiBrtMgrExt'[screen] # Absent
           /\ \A s \in Screens : mMultiBrtMgrExt[s] # Absent => mMultiBrtMgrExt'[s] # Absent
           /\ ExtsAreWhole'
  <1> DEFINE loaded_ == LoadBrightnessExtLibrary
  <1>1. /\ loaded_ \in Exts /\ loaded_ # Absent
        /\ loaded_.mBrightnessManagerExtEnable =>
               loaded_.open /\ Operations \subseteq loaded_.symbols
    BY LoadedIsWhole, AbsentAssumption
  <1>2. \A s \in Screens :
            mMultiBrtMgrExt'[s] = IF s = screen /\ mMultiBrtMgrExt[s] = Absent THEN loaded_
                                  ELSE mMultiBrtMgrExt[s]
    BY DEF CreateExt, FacadeInv, FacadeTypes
  <1>3. mMultiBrtMgrExt' \in [Screens -> Exts \union {Absent}]
    BY <1>1 DEF CreateExt, FacadeInv, FacadeTypes
  <1> HIDE DEF loaded_
  <1>4. facadeCall # Absent => facadeCall.screen \in Screens
    BY DEF FacadeInv, FacadeTypes, FacadeCalls
  <1> QED
    BY <1>1, <1>2, <1>3, <1>4 DEF FacadeInv, ExtsAreWhole

LEMMA FacadeStep == FacadeInv /\ [FacadeNext]_facadeVars => FacadeInv'
  <1> SUFFICES ASSUME FacadeInv, [FacadeNext]_facadeVars PROVE FacadeInv'
    OBVIOUS
  <1> USE DEF screenVars, initStepVars
  <1>1. ASSUME NEW screen \in Screens, ScreenConnects(screen) PROVE FacadeInv'
    BY <1>1 DEF ScreenConnects, FacadeInv, FacadeTypes, ExtsAreWhole, ServedInv, Awaited
  <1>2. ASSUME NEW screen \in Screens, ScreenDisconnects(screen) PROVE FacadeInv'
    BY <1>2 DEF ScreenDisconnects, FacadeInv, FacadeTypes, ExtsAreWhole, ServedInv, Awaited
  <1>3. ASSUME NEW screen \in Screens, OnConnect(screen) PROVE FacadeInv'
    <2>1. CreateExt(screen) /\ connecting' = connecting \ {screen}
          /\ UNCHANGED <<connectedScreens, initStepVars, library, facadeCall>>
      BY <1>3 DEF OnConnect
    <2> QED
      BY <2>1, Creates DEF FacadeInv, FacadeTypes, ServedInv, Awaited
  <1>4. CASE RegisterScreenListener
    BY <1>4 DEF RegisterScreenListener, FacadeInv, FacadeTypes, ExtsAreWhole, ServedInv
  <1>5. CASE GetPhysicalScreenIds
    BY <1>5, CallsAssumption
       DEF GetPhysicalScreenIds, Listed, FacadeInv, FacadeTypes, ExtsAreWhole, ServedInv, Awaited
  <1>6. CASE CreateExts
    <2>1. CASE screenIds = {} /\ initStep' = "done" /\ UNCHANGED <<screenIds, mMultiBrtMgrExt>>
      BY <1>6, <2>1 DEF CreateExts, FacadeInv, FacadeTypes, ExtsAreWhole, ServedInv, Awaited
    <2>2. ASSUME NEW screen \in screenIds, CreateExt(screen), screenIds' = screenIds \ {screen},
                 UNCHANGED initStep
          PROVE  FacadeInv'
      <3>1. screen \in Screens
        BY DEF FacadeInv, FacadeTypes
      <3>2. UNCHANGED <<screenVars, multiScreenListener_, deInits, library, facadeCall>>
        BY <1>6 DEF CreateExts
      <3> QED
        BY <2>2, <3>1, <3>2, Creates DEF FacadeInv, FacadeTypes, ServedInv, Awaited
    <2> QED
      BY <1>6, <2>1, <2>2 DEF CreateExts
  <1>7. CASE InitAgain
    BY <1>7 DEF InitAgain, FacadeInv, FacadeTypes, ExtsAreWhole, ServedInv
  <1>8. CASE FacadeDeInit
    <2>1. FacadeTypes' /\ ServedInv'
      <3>1. deInits' = deInits + 1 /\ deInits \in Nat
        BY <1>8 DEF FacadeDeInit, FacadeInv, FacadeTypes
      <3>2. ServedInv'
        BY <3>1 DEF ServedInv
      <3>3. facadeCall' \in FacadeCalls \union {Absent}
        BY <1>8 DEF FacadeDeInit, FacadeInv, FacadeTypes, FacadeCalls
      <3>4. \A screen \in Screens :
                mMultiBrtMgrExt[screen] # Absent =>
                    CloseBrightnessExtLibrary(mMultiBrtMgrExt[screen].symbols) \in Exts
        BY ClosedExt DEF FacadeInv, FacadeTypes, Exts
      <3>5. mMultiBrtMgrExt' \in [Screens -> Exts \union {Absent}]
        BY <1>8, <3>4 DEF FacadeDeInit
      <3> QED
        BY <1>8, <3>1, <3>2, <3>3, <3>5 DEF FacadeDeInit, FacadeInv, FacadeTypes
    <2>2. facadeCall' # Absent => facadeCall'.overtaken
      BY <1>8 DEF FacadeDeInit, FacadeInv, FacadeTypes, FacadeCalls
    <2>3. ExtsAreWhole'
      <3>1. \A screen \in Screens :
                mMultiBrtMgrExt'[screen] # Absent =>
                    ~mMultiBrtMgrExt'[screen].mBrightnessManagerExtEnable
        BY <1>8 DEF FacadeDeInit, CloseBrightnessExtLibrary
      <3> QED
        BY <2>2, <3>1 DEF ExtsAreWhole
    <2> QED
      BY <2>1, <2>3 DEF FacadeInv
  <1>9. ASSUME NEW screen \in Screens, NEW op \in Calls, BeginCall(screen, op) PROVE FacadeInv'
    <2>1. UNCHANGED <<screenVars, initStepVars, library, mMultiBrtMgrExt>>
      BY <1>9 DEF BeginCall
    <2>2. /\ mMultiBrtMgrExt[screen] # Absent
          /\ mMultiBrtMgrExt[screen].mBrightnessManagerExtEnable
          /\ facadeCall' = [screen |-> screen, op |-> op, overtaken |-> FALSE]
      BY <1>9 DEF BeginCall
    <2>3. FacadeTypes' /\ ServedInv'
      <3>1. [screen |-> screen, op |-> op, overtaken |-> FALSE] \in FacadeCalls
        BY DEF FacadeCalls
      <3>2. facadeCall' \in FacadeCalls \union {Absent}
        BY <2>2, <3>1 DEF FacadeInv, FacadeTypes
      <3> QED
        BY <2>1, <3>2 DEF FacadeInv, FacadeTypes, ServedInv, Awaited
    <2>4. ExtsAreWhole'
      BY <2>1, <2>2 DEF FacadeInv, ExtsAreWhole
    <2> QED
      BY <2>3, <2>4 DEF FacadeInv
  <1>10. CASE EndCall
    BY <1>10 DEF EndCall, FacadeInv, FacadeTypes, ExtsAreWhole, ServedInv, Awaited
  <1>11. CASE UNCHANGED facadeVars
    BY <1>11 DEF facadeVars, FacadeInv, FacadeTypes, ExtsAreWhole, ServedInv, Awaited
  <1> QED
    BY <1>1, <1>2, <1>3, <1>4, <1>5, <1>6, <1>7, <1>8, <1>9, <1>10, <1>11 DEF FacadeNext

\* BrightnessManager::Init registers its listener before it lists the screens: none that is
\* connected meanwhile is left without an ext.
THEOREM ScreensAreServed == FacadeSpec => []EveryScreenServed
  <1>1. FacadeInv => EveryScreenServed
    BY DEF FacadeInv, ServedInv, Awaited, EveryScreenServed
  <1> QED
    BY <1>1, FacadeInvInit, FacadeStep, PTL DEF FacadeSpec

\* An ext resolves the symbols of all its operations before it is enabled: a call that passed the
\* check finds its own, whichever sets of symbols the installed libraries may lack (MissingSymbols,
\* of which nothing is assumed), until a DeInit overtakes it.
THEOREM CallsFindTheirSymbol == FacadeSpec => []CallsReachTheLibrary
  <1>1. FacadeInv => CallsReachTheLibrary
    <2> SUFFICES ASSUME FacadeInv, facadeCall # Absent, ~facadeCall.overtaken
                 PROVE  /\ mMultiBrtMgrExt[facadeCall.screen].open
                        /\ Symbol(facadeCall.op) \in mMultiBrtMgrExt[facadeCall.screen].symbols
      BY DEF CallsReachTheLibrary
    <2>1. facadeCall.screen \in Screens /\ facadeCall.op \in Calls
      BY DEF FacadeInv, FacadeTypes, FacadeCalls
    <2> QED
      BY <2>1, SymbolsResolve DEF FacadeInv, ExtsAreWhole
  <1> QED
    BY <1>1, FacadeInvInit, FacadeStep, PTL DEF FacadeSpec

-----------------------------------------------------------------------------
(* Clients that die: the dead let go of what they registered, and the living  *)
(* keep it.                                                                   *)

DeathTypes ==
    /\ aliveProcesses \subseteq Processes
    /\ callback_ \in Processes \union {NoProcess}
    /\ strategyOwner \in Processes \union {NoProcess}
    /\ thisInterfaceInvoker \in Processes \union {NoProcess}
    /\ strategyCall \in [Processes -> {"idle", "SetStrategy"}]

\* Only the owner is watched or was, and it is watched for as long as it lives.
CallbackInv ==
    /\ callbackWatched \subseteq {callback_} \cap aliveProcesses
    /\ callbackNotices \subseteq ({callback_} \cap Processes) \ aliveProcesses
    /\ callback_ # NoProcess /\ callbackAlive =>
           callback_ \in IF callback_ \in aliveProcesses THEN callbackWatched ELSE callbackNotices

\* The strategy may have another owner than the process that is watched; notices of earlier ones
\* may still be on their way.
StrategyInv ==
    /\ strategyWatched \subseteq {thisInterfaceInvoker} \cap aliveProcesses
    /\ strategyNotices \subseteq (crossing \union {thisInterfaceInvoker}) \ aliveProcesses
    /\ thisInterfaceInvoker \in aliveProcesses => thisInterfaceInvoker \in strategyWatched
    /\ strategyOwner \notin aliveProcesses \union {NoProcess} /\ setAlive
           /\ strategyOwner = thisInterfaceInvoker /\ strategyCall[strategyOwner] = "idle" =>
               strategyOwner \in strategyNotices

DeathInv == DeathTypes /\ CallbackInv /\ StrategyInv

LEMMA DeathInvInit == DeathInit => DeathInv
  BY ClientDeathsAssumption DEF DeathInit, DeathInv, DeathTypes, CallbackInv, StrategyInv

LEMMA CallbackStep ==
    ASSUME DeathInv, NEW p \in Processes,
           RegisterCallback(p) \/ CallbackOwnerDied(p) \/ ProcessDies(p)
           \/ UNCHANGED <<aliveProcesses, callbackVars>>
    PROVE  CallbackInv'
  <1> USE ClientDeathsAssumption DEF DeathInv, DeathTypes, CallbackInv
  <1>1. CASE RegisterCallback(p)
    BY <1>1 DEF RegisterCallback, Watch
  <1>2. CASE CallbackOwnerDied(p)
    BY <1>2 DEF CallbackOwnerDied
  <1>3. CASE ProcessDies(p)
    BY <1>3 DEF ProcessDies
  <1>4. CASE UNCHANGED <<aliveProcesses, callbackVars>>
    BY <1>4 DEF callbackVars
  <1> QED
    BY <1>1, <1>2, <1>3, <1>4

LEMMA StrategyStep ==
    ASSUME DeathInv, NEW p \in Processes,
           WatchInvoker(p) \/ SetStrategy(p) \/ InvokerDied(p) \/ ProcessDies(p)
           \/ UNCHANGED <<aliveProcesses, strategyVars>>
    PROVE  StrategyInv'
  <1> USE ClientDeathsAssumption DEF DeathInv, DeathTypes, StrategyInv
  <1>1. CASE WatchInvoker(p) /\ p \notin Stubs /\ p # thisInterfaceInvoker
    BY <1>1 DEF WatchInvoker, Watch
  <1>2. CASE WatchInvoker(p) /\ ~(p \notin Stubs /\ p # thisInterfaceInvoker)
    BY <1>2 DEF WatchInvoker
  <1>3. CASE SetStrategy(p)
    BY <1>3 DEF SetStrategy
  <1>4. CASE InvokerDied(p)
    BY <1>4 DEF InvokerDied
  <1>5. CASE ProcessDies(p)
    BY <1>5 DEF ProcessDies
  <1>6. CASE UNCHANGED <<aliveProcesses, strategyVars>>
    BY <1>6 DEF strategyVars
  <1> QED
    BY <1>1, <1>2, <1>3, <1>4, <1>5, <1>6

LEMMA DeathInvStep == DeathInv /\ [DeathNext]_deathVars => DeathInv'
  <1> SUFFICES ASSUME DeathInv, [DeathNext]_deathVars PROVE DeathInv'
    OBVIOUS
  <1>1. CASE UNCHANGED deathVars
    BY <1>1 DEF DeathInv, DeathTypes, CallbackInv, StrategyInv, deathVars, callbackVars,
       strategyVars
  <1>2. ASSUME NEW p \in Processes,
               \/ RegisterCallback(p) \/ CallbackOwnerDied(p) \/ WatchInvoker(p)
               \/ SetStrategy(p) \/ InvokerDied(p) \/ ProcessDies(p)
        PROVE  DeathInv'
    <2>1. DeathTypes'
      <3> USE DEF DeathInv, DeathTypes
      <3>1. CASE RegisterCallback(p) \/ CallbackOwnerDied(p)
        BY <3>1 DEF RegisterCallback, CallbackOwnerDied, strategyVars
      <3>2. CASE WatchInvoker(p)
        BY <3>2 DEF WatchInvoker, callbackVars
      <3>3. CASE SetStrategy(p) \/ InvokerDied(p)
        BY <3>3 DEF SetStrategy, InvokerDied, callbackVars
      <3>4. CASE ProcessDies(p)
        BY <3>4 DEF ProcessDies
      <3> QED
        BY <1>2, <3>1, <3>2, <3>3, <3>4
    <2>2. CallbackInv'
      BY <1>2, CallbackStep DEF WatchInvoker, SetStrategy, InvokerDied
    <2>3. StrategyInv'
      BY <1>2, StrategyStep DEF RegisterCallback, CallbackOwnerDied
    <2> QED
      BY <2>1, <2>2, <2>3 DEF DeathInv
  <1> QED
    BY <1>1, <1>2 DEF DeathNext

\* RegisterCallbackInner and SetScreenPowerOffStrategyInner with their death recipients: a process
\* that died is still to be announced, or holds neither callback nor strategy, but for the cases
\* the property names.
THEOREM DeadLetGo == DeathSpec => []DeadOwnersLetGo
  <1>1. DeathInv => DeadOwnersLetGo
    BY DEF DeathInv, CallbackInv, StrategyInv, DeadOwnersLetGo
  <1> QED
    BY <1>1, DeathInvInit, DeathInvStep, PTL DEF DeathSpec

\* CallbackDeathRecipient does not look whose death it is told of, and needs not: no other death
\* than the owner's is announced to it.  InvokerDeathRecipient resets the strategy of a living
\* process only by a notice that crossed its call.
THEOREM LiveKeep == DeathSpec => LiveOwnersKeep
  <1> DEFINE Keep ==
          /\ callback_ \in aliveProcesses => callback_' = callback_
          /\ strategyOwner \in aliveProcesses /\ strategyOwner' = NoProcess
                 /\ strategyOwner = thisInterfaceInvoker =>
             strategyNotices \ strategyNotices' \subseteq crossing
  <1>1. DeathInv /\ [DeathNext]_deathVars => [Keep]_deathVars
    <2> SUFFICES ASSUME DeathInv, NEW p \in Processes,
                        \/ RegisterCallback(p) \/ CallbackOwnerDied(p) \/ WatchInvoker(p)
                        \/ SetStrategy(p) \/ InvokerDied(p) \/ ProcessDies(p)
                 PROVE  Keep
      BY DEF DeathNext
    <2>1. callback_ \in aliveProcesses => callback_' = callback_
      BY ClientDeathsAssumption DEF DeathInv, DeathTypes, CallbackInv, RegisterCallback,
         CallbackOwnerDied, WatchInvoker, SetStrategy, InvokerDied, ProcessDies, callbackVars
    <2>2. strategyOwner \in aliveProcesses /\ strategyOwner' = NoProcess
              /\ strategyOwner = thisInterfaceInvoker =>
          strategyNotices \ strategyNotices' \subseteq crossing
      BY ClientDeathsAssumption DEF DeathInv, DeathTypes, StrategyInv, RegisterCallback,
         CallbackOwnerDied, WatchInvoker, SetStrategy, InvokerDied, ProcessDies, strategyVars
    <2> QED
      BY <2>1, <2>2
  <1> QED
    BY <1>1, DeathInvInit, DeathInvStep, PTL DEF DeathSpec, LiveOwnersKeep
=============================================================================
