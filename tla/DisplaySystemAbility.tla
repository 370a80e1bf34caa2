------------------------- MODULE DisplaySystemAbility -----------------------
(***************************************************************************)
(* How the service comes up.  DisplaySystemAbility waits for three other   *)
(* system abilities, in any order, and DisplayCommonEventManager for the   *)
(* event that the settings data base is ready, on a thread of its own; the *)
(* last of them to find everything there restores the brightness of the    *)
(* boot and registers the observers of the settings.                       *)
(***************************************************************************)
EXTENDS Naturals, FiniteSets

CONSTANTS
    Displays, DEFAULT_DISPLAY_ID,
    GET_DISPLAY_ID_RETRY_COUNT,
    MaxStarts                  \* bound: OnStart calls

Abilities == {"DMS", "COMMON_EVENT", "KV"}

VARIABLES
    starts, running,
    loaded,                    \* the abilities this service was told of since it started
    lastLoaded,                \* was COMMON_EVENT the last of all that had to happen
    handler,                   \* how far OnAddSystemAbility(DMS) is
    retries,                   \* tryCount of Init
    controllerMap, published, isReady,
    settingsUp,                \* the settings data base answers
    dataShareReady,            \* COMMON_EVENT_DATA_SHARE_READY was published
    delivered,                 \* the event is on its way to the subscriber
    commonEventManager_,       \* it exists
    subscribed,                \* SubscribeCommonEvent succeeded
    isDataShareReady_, isKvDataReady_,
    bootBrightness,            \* initFlag_: SetBootCompletedBrightness was called
    observing                  \* the observers of the settings are registered

settingsVars == <<settingsUp, dataShareReady, delivered, commonEventManager_, subscribed>>
bootVars == <<isDataShareReady_, isKvDataReady_, bootBrightness, observing>>
initVars == <<retries, controllerMap, published, isReady>>
abilityVars == <<starts, running, loaded, lastLoaded, handler, initVars, settingsVars, bootVars>>

AbilityInit ==
    /\ starts = 1 /\ running = TRUE
    /\ loaded = {} /\ lastLoaded = FALSE
    /\ handler = "idle" /\ retries = 0
    /\ controllerMap = {} /\ published = FALSE /\ isReady = FALSE
    /\ settingsUp = FALSE /\ dataShareReady = FALSE /\ delivered = FALSE
    /\ commonEventManager_ = FALSE /\ subscribed = FALSE
    /\ isDataShareReady_ = FALSE /\ isKvDataReady_ = FALSE
    /\ bootBrightness = FALSE /\ observing = FALSE

-----------------------------------------------------------------------------
\* initFlag_ lets the brightness be restored once; the observers are registered every time.
HandleBootBrightness ==
    /\ bootBrightness' = TRUE
    /\ observing' = TRUE

\* SetKvDataReady: the first to come sets the flag and goes on.
SetKvDataReady == ~isKvDataReady_

\* CheckIfSettingsDataReady: the service has to be published and the data base has to answer.
SettingsDataReady == isDataShareReady_ \/ (published /\ settingsUp)

BootIfSettingsReady ==
    IF commonEventManager_ /\ SettingsDataReady
    THEN /\ isDataShareReady_' = TRUE
         /\ isKvDataReady_' = TRUE
         /\ IF SetKvDataReady THEN HandleBootBrightness ELSE UNCHANGED <<bootBrightness, observing>>
    ELSE UNCHANGED bootVars

SetKvDataReadyFirst ==                                                  \* mutant
    /\ isKvDataReady_' = TRUE
    /\ IF SetKvDataReady /\ published THEN HandleBootBrightness
       ELSE UNCHANGED <<bootBrightness, observing>>
    /\ UNCHANGED isDataShareReady_
BootOnEvent ==
    IF published /\ SetKvDataReady
    THEN isKvDataReady_' = TRUE /\ HandleBootBrightness /\ UNCHANGED isDataShareReady_
    ELSE UNCHANGED bootVars

-----------------------------------------------------------------------------
Load(ability) ==
    /\ running
    /\ ability \notin loaded
    /\ loaded' = loaded \union {ability}
    /\ lastLoaded' = (ability = "COMMON_EVENT" /\ loaded' = Abilities /\ dataShareReady)

\* OnAddSystemAbility(DISPLAY_MANAGER_SERVICE_SA_ID): Init, Publish, and the check.
DmsLoaded ==
    /\ handler = "idle"
    /\ Load("DMS")
    /\ handler' = IF isReady THEN "idle" ELSE "Init"
    /\ retries' = 0
    /\ UNCHANGED <<starts, running, controllerMap, published, isReady, settingsVars, bootVars>>

\* Init asks for the displays, up to three times more when there is none, and makes do with 0.
InitDisplays ==
    /\ handler = "Init"
    /\ \/ /\ controllerMap' = controllerMap \union Displays
          /\ handler' = "Publish" /\ UNCHANGED retries
       \/ /\ retries < GET_DISPLAY_ID_RETRY_COUNT
          /\ retries' = retries + 1 /\ UNCHANGED <<controllerMap, handler>>
       \/ /\ retries = GET_DISPLAY_ID_RETRY_COUNT
          /\ controllerMap' = controllerMap \union {DEFAULT_DISPLAY_ID}
          /\ handler' = "Publish" /\ UNCHANGED retries
    /\ UNCHANGED <<starts, running, loaded, lastLoaded, published, isReady, settingsVars, bootVars>>

Publish ==
    /\ handler = "Publish"
    /\ published' \in {published, TRUE}
    /\ handler' = "Check"
    /\ UNCHANGED <<starts, running, loaded, lastLoaded, retries, controllerMap, isReady,
                   settingsVars, bootVars>>

CheckAndReady ==
    /\ handler = "Check"
    /\ BootIfSettingsReady
    /\ isReady' = TRUE
    /\ handler' = "idle"
    /\ UNCHANGED <<starts, running, loaded, lastLoaded, retries, controllerMap, published,
                   settingsVars>>

\* An event that was published before the subscription does not come any more; the manager is
\* there, and can be asked, when the subscription fails too.
CommonEventLoaded ==
    /\ handler = "idle"
    /\ Load("COMMON_EVENT")
    /\ commonEventManager_' = TRUE
    /\ subscribed' \in {subscribed, TRUE}
    /\ UNCHANGED <<starts, running, handler, initVars, settingsUp, dataShareReady, delivered,
                   bootVars>>

KvLoaded ==
    /\ handler = "idle"
    /\ Load("KV")
    /\ BootIfSettingsReady
    /\ UNCHANGED <<starts, running, handler, initVars, settingsVars>>

\* The settings application: first its data base answers, then it says so.
SettingsStart ==
    /\ ~settingsUp
    /\ settingsUp' = TRUE
    /\ UNCHANGED <<starts, running, loaded, lastLoaded, handler, initVars, dataShareReady,
                   delivered, commonEventManager_, subscribed, bootVars>>

PublishDataShareReady ==
    /\ settingsUp /\ ~dataShareReady
    /\ dataShareReady' = TRUE
    /\ delivered' = subscribed
    /\ UNCHANGED <<starts, running, loaded, lastLoaded, handler, initVars, settingsUp,
                   commonEventManager_, subscribed, bootVars>>

OnReceiveEvent ==
    /\ delivered
    /\ delivered' = FALSE
    /\ BootOnEvent
    /\ UNCHANGED <<starts, running, loaded, lastLoaded, handler, initVars, settingsUp,
                   dataShareReady, commonEventManager_, subscribed>>

\* OnStop leaves isKvDataReady_ and initFlag_ as they are; OnStart is told of the abilities again.
OnStop ==
    /\ running /\ handler = "idle"
    /\ running' = FALSE
    /\ observing' = FALSE /\ isReady' = FALSE
    /\ UNCHANGED <<starts, loaded, lastLoaded, handler, retries, controllerMap, published,
                   settingsVars, isDataShareReady_, isKvDataReady_, bootBrightness>>

OnStart ==
    /\ ~running /\ starts < MaxStarts
    /\ running' = TRUE
    /\ starts' = starts + 1
    /\ loaded' = {} /\ lastLoaded' = FALSE
    /\ UNCHANGED <<handler, initVars, settingsVars, bootVars>>

AbilityNext ==
    \/ DmsLoaded \/ InitDisplays \/ Publish \/ CheckAndReady
    \/ CommonEventLoaded \/ KvLoaded
    \/ SettingsStart \/ PublishDataShareReady \/ OnReceiveEvent
    \/ OnStop \/ OnStart

AbilitySpec == AbilityInit /\ [][AbilityNext]_abilityVars

-----------------------------------------------------------------------------
\* In whatever order the abilities load and the settings data base comes up, once all are there and
\* the events have been handled the brightness of the boot has been restored and the settings are
\* observed.  It does not hold when COMMON_EVENT comes last or the subscription fails, nor after a
\* restart: see the hazards.
BootBrightnessRestored ==
    /\ running /\ starts = 1
    /\ loaded = Abilities /\ handler = "idle" /\ dataShareReady /\ ~delivered
    /\ published /\ ~lastLoaded /\ subscribed
    => bootBrightness /\ observing
=============================================================================
