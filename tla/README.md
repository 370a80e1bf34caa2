# Verification of the display manager (powermgr_display_manager)

TLA+ models of the OpenHarmony display power and brightness services, TLC runs on small
instances, and TLAPS proofs for all instances. `PROJECT.json` maps every definition to the
lines it models and lists runs, mutants, findings, hazards and theorems. This file explains
the system, the models, what the runs show and what the proofs establish.

    cd tla
    tlc -workers 2 -config DisplayRequests.cfg MCDisplayPower.tla    # any run below
    tlapm DisplayPower_proofs.tla                                    # any *_proofs module

## 1. The system

One system ability, `DisplayPowerMgrService`, holds a `ScreenController` per display and
drives the `BrightnessService` singleton. Requests come from IPC threads, one per client
call. Delayed work runs on FFRT queues: the service's `queue_`, the ramp's `mQueue`, the
brightness timers and a shared queue for writes of the settings data base. Light readings
come on the sensor's thread, answers of the window manager's display manager service (DMS)
on whatever thread it uses.

| Component | State | Operations | Talks to |
|---|---|---|---|
| display power state machine (`display_power_mgr_service`, `screen_controller`, `screen_action`) | `state_`, `isDisplayDelayOff_`, displayed/delayed arguments, delay handle, `coordinated_` | SetDisplayState, ScreenOffDelay, UpdateState, OnStateChanged, undo, OverrideDisplayOffDelay | DMS (asynchronous answer), render service (panel power), client callback, brightness |
| brightness dimming (`brightness_dimming`) | atomics of one ramp, `g_animatorTaskHandle` | StartDimming, StopDimming, NextStep, WaitDimmingDone | callback into the arbiter |
| brightness arbiter (`brightness_service`, `brightness_action`) | mode flags, saved brightnesses, discount, target, timers | SetDisplayState, SetBrightness, Override/Restore, Boost/Cancel, Discount, ClearOffset, light readings, two timers | dimming, panel, settings, sensor |
| light lux buffer (`light_lux_buffer`) | ring of readings | Prune, Push, Clear | lux manager |
| lux filtering (`light_lux_manager`) | thresholds, debounce times, smoothed lux | IsNeedUpdateBrightness, ClearLuxData | buffer, arbiter |
| brightness curve (`calculation_manager`, `calculation_curve`) | default curve, user's offset | interpolation, UpdateBrightnessOffset | arbiter |
| light sensors of a foldable (`brightness_service`) | which sensors are on, fold status, display mode | screen, switch and posture start and stop them | sensor framework, lux manager |
| configuration (`config_parser`, `*_config_parser`) | what each JSON document said | parsing, once per display | lux manager, curve, sensors |
| brightness facade (`brightness_manager`, `brightness_manager_ext`) | one ext per screen, library handle and symbols | Init, OnConnect, DeInit, every brightness call | screen manager, the arbiter or a library |
| controller brightness and animator (`screen_controller`, `gradual_animator`) | `isBrightnessOverridden_` ..., animation steps | second implementation of the same modes; of it `AdjustBrightnessInner` reaches `SetBrightness`, where the arbiter refuses, and no caller the modes | panel, settings |
| multi-screen states (`display_power_mgr_service`, `multi_screen_display_state_callback_manager`) | `state_` and lock per screen; callbacks, death recipients, process ids | SetMultiScreenDisplayState; register, unregister, death, notify | DMS, render service, clients |
| automatic switch | `autoBrightnessQueue_`, the setting | AutoAdjustBrightness, observer of the setting | arbiter, settings |
| boot and life cycle (`display_system_ability`, `display_common_event_mgr`) | which abilities and events have come | OnAddSystemAbility, HandleBootBrightness | settings, arbiter |
| callback and power-off strategy (`display_power_mgr_service`, `miscellaneous_display_power_strategy`) | `callback_`, the strategy and its invoker's token, two death recipients | RegisterCallback, SetScreenPowerOffStrategy, deaths | clients |
| native client (`display_power_mgr_client`) | `proxy_`, death recipient, `lastError_` | every call: GetProxy, the call, the error | the service, which may die |
| bindings, utilities, tools | see `PROJECT.json` | | |

What is hard in it:

* **Concurrency without locks.** Almost no method of the service or of the arbiter takes a
  lock. A display request crosses four objects and two processes; a ramp is run by tasks
  that another thread cancels by a global handle.
* **Ordering.** DMS may answer before or after `state_` is assigned. Setting writes are
  unordered tasks. The first light reading races with the timer that gives up on it.
* **Failure.** DMS may refuse, the render service may fail, memory for the ring may fail;
  what was done before must then be undone.
* **Modes that nest.** Override, boost, dimming before sleep, discount and automatic
  brightness each save what they found and restore it when they end.
* **Two scales and unsigned arithmetic.** Requests and settings are 1..255, the panel is
  1..223, and ramps do `uint32_t` arithmetic with signed strides.

What makes each component correct:

* state machine: a display called on is powered and lit, one called off is dark; the
  callback was told; a delayed off happens or is cancelled; a refused request leaves the
  brightness side where it was;
* dimming: steps approach the target and never leave the range, the last request wins, and
  a waiting thread returns;
* arbiter: the panel shows what the mode in force calls for, and the brightness last chosen
  comes back after the modes;
* lux buffer: it is the window of readings, however it wraps or grows;
* lux filter: a level changes only after a reading that lasted; curve: monotone and in range;
* multi-screen: brightness follows the state, what a listener heard last is the state, a dead
  one leaves nothing behind;
* boot: the boot brightness is set once, after what it needs is there;
* automatic switch: the setting and the switch that works end up agreeing;
* light sensors: the one of the display in use runs, and none when automatic brightness is off;
* facade: every connected screen is served, and a call that passes the check reaches the library;
* client: it gets through again after the service died, and its own errors come home;
* callback and strategy: the dead let go of them, the living keep them.

## 2. The modules

| Module | Models | Instances, proofs |
|---|---|---|
| `DisplayPower` | state machine, delayed off, DMS, undo | `MCDisplayPower` (symmetry), `DisplayPower_proofs` |
| `BrightnessDimming` | ramp with its callers, handle by handle | `MCBrightnessDimming`, `BrightnessDimming_proofs` |
| `BrightnessService` | the arbiter | checked directly, `BrightnessService_proofs` |
| `LuxWindow` | abstract: the readings of the last window | specification of the next |
| `LightLuxBuffer` | the ring | `MCAutoBrightness`, `LightLuxBuffer_proofs` |
| `BrightnessConfig` | what the parsers make of a document; operators only | used by the next three |
| `LightLuxManager` | smoothing and debouncing | `MCAutoBrightness`, `AutoBrightness_proofs` |
| `CalculationManager` | the curve and the user's wish | `MCAutoBrightness`, `AutoBrightness_proofs` |
| `AmbientSensors` | which sensor runs | `MCAutoBrightness`, `AutoBrightness_proofs` |
| `DisplaySystemAbility` | boot | `MCDisplayService`, `DisplayService_proofs` |
| `AutoSwitch` | the two switches of automatic brightness | `MCDisplayService`, and directly; `DisplayService_proofs` |
| `BrightnessFacade` | screens, exts and the library | `MCDisplayService`, `DisplayService_proofs` |
| `MultiScreen` | states of many screens and their listeners | `MCDisplayService`, `MultiScreen_proofs` |
| `DisplayClient` | proxy, checks and errors of a call | `MCDisplayService`, `DisplayClient_proofs` |
| `ClientDeaths` | callback and strategy of clients that die | `MCDisplayService`, `DisplayService_proofs` |

`MCAutoBrightness` and `MCDisplayService` put modules next to each other that share no variable.
Their specification is a sum: the variable `part`, chosen at the start, says which of them moves.
Nothing is lost, since no property speaks of two of them, and the state space is the sum of the
parts and not the product.

### DisplayPower
A thread is an IPC caller or `queue_`. `call[t]` is the place a thread has reached in
`SetDisplayStateInner`; each action is the code between two accesses of shared state, so
requests, the delayed task and DMS interleave at those places. `SetDisplayState` enters a
request and writes `mState`; `Forward` decides between at once, delayed and cancel;
`SubmitDelayTask`/`SetDelayOffState` and `CancelDelayTask`/`SetOnState` are the two parts of
the delay; `UpdateState` checks (`Refrains`, `NeedsDms`), asks DMS, and `AssignState` writes
`state_`; `DmsCallback` runs `OnStateChanged`; `Fail` and `UndoSetDisplayState` are the path
of a refusal. `panel` is what the render service was told, `notified` what the callback was
told, `lit` whether `SetScreenOnBrightness` has run since the panel was dark.

### BrightnessDimming
The atomics are the variables. `UpdateBrightness(c)` begins with `StopDimming`, whose
clearing of `mDimming` (`Begin`) and cancelling of a task (`CancelTask`) are separate steps;
then comes the immediate `SetBrightness` or `StartDimming`, `RaiseDimming`, `SubmitFirst`.
`NextStep`, `OnChanged`, `WriteStep` and `EndStep` are one task of `mQueue`. Arithmetic is
modulo `Modulus`.

### BrightnessService
Each handler is one action: requests, `SetDisplayState`, `SetScreenOnBrightness`, the boost
and the first-lux timers, `ProcessLightLux`, one `OnChanged` of the ramp (`RampStep`: any
level on the way, since `BrightnessDimming` has the strides) and one queued
`SetSettingBrightness` (`WriteSetting`). `Update` is `UpdateBrightness`: it stops the ramp,
starts another from the *setting*, or gives the panel its value and submits a write. The
two scales and their rounding are modelled as they are computed. A refused request that
changes nothing is no action; the refused `SetBrightness` that stores its value is. `Values` are
the numbers clients ask for, in the scale or not: `SetBrightnessInner` brings them into it, while
`AdjustBrightnessInner` and `OverrideBrightness` take them as they come, and `Shown` clamps what
the panel is given. Where the arbiter refuses, `AdjustBrightnessInner` asks
`ScreenController::SetBrightness`, whose guard is inverted: `ControllerSets` says when it acts, and
`ControllerSetBrightness` what it does to panel and setting. `user`
is the one variable that is not in the code: the brightness last chosen. It is unknown
(`None`) after a ramp to it was stopped half way. Failures of the panel driver are left out.

### LuxWindow and LightLuxBuffer
`LuxWindow` keeps the readings of the window as a sequence; `LightLuxBuffer` keeps slots,
start, end, count and capacity, grows by copying two pieces and may find no memory.
`W == INSTANCE LuxWindow WITH samples <- Readings` and the property `W!Spec` say that the
second implements the first.

### BrightnessConfig, LightLuxManager and CalculationManager
A document is `Unparsable`, `Foreign` (JSON of another shape) or a function from its keys; each
parser is an operator that says which variable keeps its default, is emptied or is filled. The
points of a document are pairs of `PointXy`, whatever numbers they hold.
`IsNeedUpdateBrightness` is one reading: both windows are pruned and extended, the trimmed mean is
taken, and `NextTime` finds the beginning of the readings that are all beyond the margin.
`since` is history: from when on the light has been beyond the margin, kept outside the windows, so
that a window that forgot too much is seen. `thrown` is the exception of `modeArray.at`. The
windows are the sequences that `LightLuxBuffer` is proved to implement. In `CalculationManager`
`BentLevel` has the four ratios with which a wish bends the curve, and `GetOffsetLevel` the cases in
which there is nothing to bend; `wish` is history.
Levels and luxes are integers, rounded down where the code keeps floats until the end.

### AmbientSensors
`SetDisplayState`, `AutoAdjustBrightness`, `OnFoldStatusChanged`, `ProcessLightLux` and a change of
the setting each are one action. `Activate` and `Deactivate` have the two guards the code has: on
needs the new flag, off needs the old one. `Tight(situation, condition)` leaves a situation out
unless the behaviour is loose: `loose` is `{}` or all of `LooseSituations`, chosen at the start.

### DisplaySystemAbility and AutoSwitch
`OnAddSystemAbility` of the DMS takes four steps (`DmsLoaded`, `InitDisplays` with its retries,
`Publish`, `CheckAndReady`), because the event of the settings comes on another thread.
In `AutoSwitch` the serial queue's two timers are `callbackTimer` and `updateTimer`; a callback
reads the setting (`RunCallback`), compares (`Compare`) and adjusts under the mutex
(`AdjustToSetting`), and a client adjusts (`ClientAdjusts`) and sets timers (`SetUpdateTimer`).

### BrightnessFacade
`CreateExts`, `OnConnect` and `FacadeDeInit` make and close exts; `ScreenConnects` interleaves with
the steps of `Init`. `LoadBrightnessExtLibrary` resolves the symbols one after the other, group by
group; the first that is missing ends it and closes the library, which forgets every function but
`SetLightBrightnessThreshold`. `MissingSymbols` says which sets of symbols the installed library may
lack. A call checks its ext (`BeginCall`) and runs later (`EndCall`), since the ext holds no lock;
`overtaken` marks a call that a `DeInit` came between. What an operation returns is left out.

### MultiScreen
`setter[t].at` is the place in `SetMultiScreenDisplayStateInner`: `LockScreen` tells the
brightness, `UpdateMultiScreenState` asks DMS and RS, `UndoSetDisplayState` is the path of a
refusal, `CopyCallbacks` is `Notify` under its mutex, `OnMultiScreenDisplayStateChanged` one call
of a listener, `PublishCommonEvent` the end. Listeners register, cancel and die at any of these
places. `heard` and `announced` are what was sent: a message lost on its way is only logged.

### DisplayClient
Tables say which checks each operation makes, which of them leave `lastError_` of the service or
fail the call, and what the client answers without a proxy. A call is `BeginOperation`,
`CheckSystemAbility` and `AddDeathRecipient` (`GetProxy` under `mutex_`), `Send`, `Inner`, for three
operations `GetErrorLoads` and `GetErrorClears`, and `Return`, where `ErrorsAfter` is the client's
error: that of the service, the result of `NotifyScreenPowerStatus`, or the one it had. An `incarnation` is one life of the
service; a proxy is the incarnation it was made of. `alone` says that the call met no other in the
service and no error left by an earlier one.

### ClientDeaths
Two death recipients with their own sets of watched processes and of notices on their way.
`WatchInvoker` and `SetStrategy` are two steps, because `localMutex_` is given back between them.

### Environments are named
Some behaviours of the code are disputable or wrong in environments that do happen. A run
that leaves such an environment out says so by a name of this table, a constant in a guard or a
variable in a property:

| Constant | Meaning |
|---|---|
| `DisplayPower.Disciplined` | every request but an on waits until nothing is in progress |
| `TimerAlone` | the delayed task does not expire while a request runs |
| `SyncDms` | DMS answers before its call returns |
| `PreBrightInOrder` | pre-bright reasons come in their order: `PRE_BRIGHT` while the display is off, its outcome while it is still off and the panel on. The service checks nothing of it (`Sensible`). With `FALSE` in `display_requests`, `OnMeansPowered` and `NotifiedMatchesState` do not hold; `OnMeansLit` and `BrightnessFollowsLitScreen` do |
| `Faults` | what may fail: `display` (DMS), `power` (render service) |
| `BrightnessDimming.StepAlone` | a step of the ramp and a request do not overlap |
| `FromPanel` | a ramp starts from the panel's brightness |
| `BrightnessService.Unsteady` | the situations the environment brings about: `write`, `discount`, `scale`, `dark`, `firstLux`, `sleep`, `again`, `delayedOff`, `continuous`, `cut`; each is explained above `Steady` in the module. `dark` takes with it the fallback to the controller, which acts on a dark screen only, and with that a setting out of the scale; `firstLux` has requests, folding and ramps during the wait |
| `AmbientSensors.loose` | `dark`, `unfolded`, `half`, `leap`, `late`, `setting`, `unknown`; explained above `LooseSituations` |
| `AutoSwitch.Interruptible` | a client's call and a task of the queue overlap |
| `DisplaySystemAbility.lastLoaded`, `subscribed`, `starts` | the common event ability is the last of all to load; its subscription fails; a restart in the same process |
| `MultiScreen.unwatched` | the death of a listener before its recipient was added |
| `BrightnessFacade.overtaken` | a `DeInit` between the check and the call |
| `DisplayClient.alone` | two calls in the service at once, or an error nobody fetched |
| `ClientDeaths.crossing`, `callbackAlive`, `setAlive` | notices on their way when the strategy changes hands; a call served after the death of its caller, or from the service's own process |

The last five are variables in properties, not guards: the behaviours are explored, and the
property does not speak of them. In each of these cases the code does what the property excludes;
the hazards in `PROJECT.json` say what it is. `NoSensorWithoutAuto` is checked, and proved, in the
loose situations too.

Beyond the table, what a bound cuts off is said under Bounds, and what is not modelled in section 5.

In every one of the ten situations of `Unsteady` the code does leave the panel or the
setting with a value a reader would not expect. Two of them contradict the repository's
tests or log and are runs of their own; the others are hazards in `PROJECT.json`.

## 3. The runs

| Run | Instance | Shows |
|---|---|---|
| `display_requests` | one client, all reasons it gives, a DMS that refuses | `OnMeansPowered`, `OnMeansLit`, `NotifiedMatchesState`, `BrightnessFollowsLitScreen` |
| `display_delayed_off` | one client, offs, ons and dozes with the delay, fairness | `OffMeansDark`, `DelayOffResolves` |
| `display_concurrent` | two clients and the queue, late answers, faults, expiry at any time | `TypeOK`, `DelayedOffCancellable` |
| `display_orphaned_off` | the same without the discipline | violated: `OnRemovesDelayedOff` |
| `dimming_ramp` | one caller, levels 0..4, up to 3 steps, word size 16, fairness | `TypeOK`, `PanelInRange`, `SettlesOnWanted`, `RampApproaches`, `DimmingEnds` |
| `dimming_two_callers` | two callers | violated: `RampHasTask` |
| `auto_brightness` | ring: capacity 2 growing to 4, clock to 6, window 2, failed allocations; filter: readings of 3 luxes, clock to 8, six documents; curve: 7 lights, 6 wishes, five documents; sensors: foldable or not, all postures and none, loose or tight (173,000 states) | `TypeOK`, `TimesInWindow`, `IsLuxWindow`; `FollowsSustainedLight`, `NeverSticks`, `ThrowsWithoutMode`; `BrighterRoomBrighterScreen`, `WishHolds`; `NoSensorWithoutAuto`, `SensorFollowsPosture` |
| `display_service` | boot with 2 displays and 2 starts; switch not interruptible; facade with 2 screens, a `DeInit`, no library or one that lacks one of six sets of symbols (none is the first); 1 screen with 2 setters and 2 listeners; 2 clients with `SetBrightness` and `NotifyScreenPowerStatus`, 2 lives of the service, fairness; 3 processes, one of them a stub (670,000 states) | `BootBrightnessRestored`; `SwitchesAgree`; `EveryScreenServed`, `CallsReachTheLibrary`; `BrightnessFollowsScreen`, `ListenersKnowState`, `ListenersAgree`, `DeadListenersLeave`; `ProxyIsWatched`, `DenialIsExplained`, `ClientsReconnect`; `DeadOwnersLetGo`, `LiveOwnersKeep` |
| `auto_switch` | the switch, interruptible | violated: `SwitchesAgree` |
| `arbiter_modes` | scale of requests 1..6, panel 1..4 and never below 2, requests of 0, 4 and 7, discounts of 70 and 100 percent (950,000 states) | `TypeOK`, `PanelShowsMode`, `UserReturns`, `TimersMatchModes` |
| `arbiter_scale` | scales 1..7 and 1..5, requests of 0, 5 and 8, with `scale` | violated: `PanelShowsMode` |
| `arbiter_dark` | the same with `dark` | violated: `UserReturns` |

`display_requests` and `display_delayed_off` have DMS answer before its call returns
(`SyncDms`). With `SyncDms = FALSE`, `OnMeansPowered`, `OnMeansLit` and
`NotifiedMatchesState` do not hold: an answer that comes after `AssignState` finds `state_`
already changed, so `SkipNotify` leaves the callback and the brightness out, and an answer
that comes after the next request powers the panel of a state that is over. What late answers
cannot break is checked in `display_concurrent`.

Every property of a passing run is broken by the mutant of the code listed for it in
`PROJECT.json`.

**What the violations are.** (1) `SetDisplayStateInner` overwrites the handle of a waiting
delayed off; after a second off in the delay an on cancels only the second task, and the
first turns the display off. (2) `StopDimming` clears `mDimming` and cancels afterwards: the
task of a ramp another thread has started in between is lost, and `WaitDimmingDone` loops.
(3) A ramp starts at the setting and ends at a panel level; if the two numbers are equal it
is dropped although the panel shows something else, so a low brightness does not come back
after an override given at once. (4) A brightness refused on a dark screen, with "ignore the
change" in the log, is what the next boost restores. (5) The observer's callback reads the setting
before it takes `autoBrightnessMutex_`. If the user and then a client switch on in between, the
client's call cancels the timer the observer had set, the callback switches off by what it read,
and the client's queued update finds the setting on already: the setting says on, the switch that
works is off, and nothing is left to bring them together.

**Bounds.** Two callers and the queue suffice for every race found, which all involve one
handle or flag and two threads. Two tasks are needed for a handle to be lost, three for a
lost and a new ramp. The ramp's levels 0..4 with up to 3 steps contain strides that divide
the distance, that do not, that are replaced by the minimum, and more steps than levels;
the word size 16 is small enough for a wrap to be seen. The ring starts with 2 slots and
may grow, so wrap, growth and refusal at the limit all happen. The arbiter's 6 and 4 levels
(`arbiter_modes`; 7 and 5 for the violations) keep what matters of 255 and 223: the mapping is not
injective, it is the identity for the lowest levels and not for the others, and the way up and down
again is the identity on the panel's levels. A least brightness of 2 is above the least level, so
the clamp of the mapping is used. One waiting write (`MaxWrites`) is enough because requests wait
for the writes; ramps wait for them too, which only slows ramps down. `Values` has a number below
the scale, one above it, and one that dimming before sleep takes down: 0 as a target makes the next
screen-on wait for the first light, and 7 as an override is shown as 6 is. A discount of 70 percent is
rounded down. The libraries of the facade lack nothing, the first symbol, the last, one of the
first or the second group, and two of different groups. Of the client, one operation fetches its error from the
service and one overwrites its own.
The filter's window of 4 and clock of 8 let readings be pruned and re-dated before and while a
debounce of 2 or 3 runs, and `LIGHT_LUX_BUFFER_MIN` of 4 makes both kinds of mean happen; the
lights and wishes of the curve lie at, between and beyond its points and below and above its
levels. Two setters suffice for a race about one lock, and one screen for what is told of it; that
two screens do not disturb each other is proved. Two registrations per listener, one for the
display and one for all, are what `Drop` can go wrong on. Two lives of the service show every order
of death, notice and return; the proofs have any number. Three processes give an owner of the
strategy, the next one, and one whose object is no proxy.

**Fairness.** `FairSpec` of `DisplayPower` gives weak fairness to threads that are inside a
call and to DMS, and strong fairness to the delayed task, which other work of the queue may
disable for a while: FFRT runs what was submitted, and an IPC thread is not suspended for
ever. Clients are never obliged to call. `DelayOffResolves` is checked with a DMS that
accepts, because `ScreenOffDelay` drops a refusal without a retry. `FairSpec` of
`BrightnessDimming` likewise has the caller finish, and the queue run its tasks.
`ClientFairness` has the threads of client and service run, the binder deliver the notices of
deaths, and the application call again; the service need not die, come back, or refuse, and
`ClientReconnects` speaks of behaviours in which it stays up in the end.

## 4. The proofs

Every invariant and action property of the passing runs is stated by a theorem, for all values of
the constants within the modules' assumptions. All leaves are checked by SMT, Zenon and LS4. What
a theorem supposes beyond that is a named definition in its statement; each of these hypotheses is
needed, and the text says what goes wrong without it.

### DisplayPower_proofs
`TypeCorrect` is for any displays, callers, faults and bounds, one step per action.
`DelayedOffStaysCancellable` is under `Disciplined`: `DelayedOffCancellable` is not inductive, since
it says nothing of a thread that has read the flag and not yet submitted or cancelled its task;
`DelayInv` adds where threads may be while a task waits. `OnCancelsForGood` follows from the same
invariant: the property refuted in `display_orphaned_off` holds for every instance with the
discipline.

The settled-state properties are about requests one at a time: `Sequential` is one caller, whose
requests the delayed task does not interrupt, and no `UpdateScreenPowerState`. With two callers TLC
refutes all five. Each is carried by what an intermediate state knows:

| Invariant | Says | Needed for |
|---|---|---|
| `AloneInv` | one thread runs; only an on cancels, only an off waits | all |
| `FollowInv` | `mState` is the request's while it runs, and has not gone dark before a lit display | `BrightnessFollows` |
| `AnswerInv` | DMS owes at most one answer, to the thread that waits for it | the next four |
| `DarkInv` | panel and state differ only between answer and assignment | `OffIsDark` |
| `AskInv` | what `UpdateState` found of the display still holds | `OnIsPowered`, `OnIsLit` |
| `LitInv` | an awake display is lit; an answered request has done to the panel what it will say of the state | `OnIsPowered`, `OnIsLit` |
| `NotifyInv` | the callback knows the state that is about to be assigned | `NotifiedMatches` |

`NotifiedMatches` is for any number of displays. The other four suppose `SingleDisplay`: with two,
the service powers all panels for a request of one display and keeps one `mState`, and TLC refutes
them. `Answered` (DMS answers in time, the render service obeys) is for all but
`BrightnessFollows`. `NoPreBright` is for `OffIsDark`, since a pre-brightened panel is on while the
state is off. `Handled` names the states that work together: DIM is forwarded without DMS and leaves
a panel that dozes dark, and SUSPEND has no branch at all. `OnIsPowered` and `OnIsLit` allow the
delayed off under `Disciplined` only, since an on that comes while an off runs under an armed delay
takes the cancelling path. `NotifiedMatches` has no delay, because `SkipNotify` takes DELAY_OFF for
off. These three suppose `PreBrightInOrder`; `BrightnessFollows` takes pre-bright reasons as they
come, and `OffIsDark` has none.

### BrightnessDimming_proofs
`TypeCorrect` with any number of threads. `PanelStaysInRange` and `RampsApproach`, for one caller at
a time and `StepAlone`: the heart is `TotalStepsBound`, which says that all the steps of a ramp
together do not reach beyond the target, also when the unsigned subtraction in the number of steps
wraps. `RangeInv` carries it: the current level plus the steps left times the stride stays on the
near side of the target. `SettlesOnLast` adds `SettleInv`, which follows the level that was asked
for last from the caller to `mDimming`, from there to the ramp and into its last step; `FromPanel`
is needed because `StartDimming` returns without a step when start and target are equal.

### BrightnessService_proofs
Four invariants, each on top of the one before, for every pair of scales, discounts, least
brightness and numbers that clients ask for. `Typed` is `TypeOK` in parts and holds in every
environment: override, target and cache may hold any number, and what is stored in the data base is
a level (`Stored`) unless `dark` lets a controller write. It rests on lemmas about rounding
(`RescaledTyped`); `PanelInv` and `UserInv` need that the way from the panel's scale to that of
requests and back is the identity (`RescaledBack`). `TimerInv`: `TimersMatchModes` alone does not survive
an update that ends the wait for the first reading and leaves its task, so the invariant adds that
neither override nor boost comes about in the wait; `"firstLux" \notin Unsteady` is what that needs.
`PanelInv` speaks of `FinalPanel`, the level a running ramp will end on, and `FinalMode`, what the
mode in force will call for when the writes are done; at rest these are the panel and the mode.
`PanelShows` allows an override of an override (`again`), which `UserReturnsAlways` cannot.
`UserInv` says where the user's brightness is kept in each nest of modes: in the setting, in the
level an override or sleep has saved, or in the write that waits.

### LightLuxBuffer_proofs
`RingKeepsShape`, `TimesStayInWindow` and `RingImplementsWindow` (`Spec => W!Spec`) for every
capacity, window and clock: lemmas say what `Prune`, `Push` and growth do to the sequence of
readings, then each action maps to one of `LuxWindow`.

### AutoBrightness_proofs
*The curve*, for any document, any lights and wishes. Interpolation between points that rise, and
each case of `BentLevel`, are proved to rise too, from lemmas about integer division. `WishInv` says that the offset is
always made of a light: `mStartLuxDefaultBrightness` and the level it is compared with are levels of
the curve, without which a ratio could be of anything.

*The filter*, for any document and readings. `ReadingsThrowWithoutMode` has no hypothesis: once
there is a reading the exception has been thrown if the document is JSON without a `DefaultMode`,
and else it has not (`ParsedMode`). Both other
theorems are about what the windows remember, against `since`, which remembers outside them.
`StickInv`: light beyond the margin since some time is still to be seen, as a run of readings at the
end of the window that begins by then or reaches back to the window's edge. `SustainInv`: and no
reading of before is in that run. `LightNeverSticks` supposes `WithinWindow`: a debounce time longer
than the window, 10000 ms in the code, is never seen to be over. `LightIsSustained` supposes
`Margined`: with a last margin of zero every reading is beyond it, and TLC has the light move at
once. That the smoothed mean of readings is a number, and the least and greatest of a set exist, is
proved by a least counterexample (`WFMin`), since the induction theorems are out of reach.

*The sensors*, for any documents and postures. `NoSensorWithoutAuto` is not inductive:
`DeactivateAllAmbientSensor` reaches only the first sensor of a device that does not fold, so
`SensorInv` adds that no other runs on such a device; the loose situations are included.
`SensorFollows` rests on `PostureInv`: fold status, display mode and `mCurrentSensorId` are three
views of one display, once the device has been folded or unfolded. It supposes that the two
documents agree (`Matched`), since the posture looks in one of them and the screen in the other.

### DisplayService_proofs
*Boot* (`BootIsRestored`): `FirstStart` ties the flags to what has loaded until the first life of
the process is over. *Switch* (`SwitchesFollowEachOther`, for `~Interruptible`): what the two timers
are about to do is enough to bring the setting and the switch together. *Facade*: `ServedInv` has,
for every step of `Init`, which connected screens still await an ext (`ScreensAreServed`);
`ExtsAreWhole` says that an enabled ext has the symbols of all operations
(`CallsFindTheirSymbol`, for any `MissingSymbols`). *Deaths*: only the owner of the callback is watched or was
(`CallbackInv`); of the strategy, notices of others are those that crossed its change of hands
(`StrategyInv`). `LiveKeep` is an action property from the same invariant.

### MultiScreen_proofs
For any screens, setters and listeners. `RegistryAgrees`: the lemma about `Drop` has the two cases,
the last registration or not. `BrightnessFollows` and `ListenersKnow` rest on `MultiInv`: whoever is
under way holds the lock of its screen (`LockHeld`), so that no two are on one screen (`OneSetter`);
brightness and state may differ only between the telling and the undoing (`BrightnessInv`); while
listeners are told, one that does not know the state is still among the targets (`StillToTell`), and
on any other screen all know it (`AllTold`). The step that needs thought is a registration in the
middle of it: who registers anew has heard nothing, who adds a registration had one that is covered
by the invariant. `DeadLeave` needs `RegistryInv`: a listener that dies while registered is watched.

### DisplayClient_proofs
For any clients, operations and number of restarts. `WatchInv` says that the proxy of a living
service is among the recipients. `DenialExplained` rests on `ErrorInv`: `Solo`, that a call that is
alone shares the service with nobody, makes `lastError_` its own, and `OwnError` says where its
error is at each place. `FetchingChecks` reads the tables.

### Only model-checked
Liveness, which the prover does not handle: `DelayOffResolves`, `DimmingEnds` and
`ClientsReconnect`, with the fairness of section 3. The violations are TLC's too.

## 5. Not modelled

* Of the screen brightness of a `ScreenController`, all but its `SetBrightness` where
  `AdjustBrightnessInner` falls back to it. `RestoreBrightness` and `CancelBoostBrightness`, the only
  other ones the service calls, return at once, because nothing overrides or boosts a controller. The
  steps of `GradualAnimator` end in a callback that only logs, and are left out; the model takes the
  controller to be that of the display the arbiter drives, with the arbiter's screen state, its
  discount at 1 and a panel that obeys. A request for another display, or one between the two
  assignments of the state, may find a dark controller beside a lit arbiter.
* JavaScript and ArkTS bindings, the marshalling of stubs and proxies, watchdogs, logging, the
  lazily created singletons, the command line tool: they convert and forward, and keep no state
  that others depend on.
* Of the arbiter: `SetMaxBrightness` and `SetMaxBrightnessNit`, failures of the panel driver, and
  data races on non-atomic fields (`mDiscount`, `mCachedSettingBrightness`): handlers are taken one
  at a time.
* Of the settings: retries of reads, and the parameters but the least brightness and those of sleep.
  Of the client: the operations for many screens, which keep no error, and the range check of
  `SetScreenPowerOffStrategy`, which returns before any change. Of the strategy: what it makes of a
  reason. Of the facade: what an operation returns, with an ext and without.
* Of `AmbientSensors`: handlers are steps, although screen, switch, posture and readings come on
  threads of their own; a reading between the two halves of a deactivation is not seen.
* Of `MultiScreen`: a transaction to a living listener that fails and a common event that is not
  published, both only logged; and the plain `SetDisplayState` on the same controller, which is
  `DisplayPower`'s.
* Torn reads and writes of the ring (`LightLuxBuffer`): whole operations are interleaved.
* A listener of `MultiScreen` that calls the service back: with the screen's lock held it would
  wait for itself; see the hazards.
* Refused permissions and invalid parameters outside `DisplayClient`, which return before any
  change.

## 6. Plan

Done: all modules of section 2, with the proofs of section 4. What is left, in this order:

1. A composition of `DisplayPower` and `BrightnessService` over the calls between them
   (`SetDisplayState`, `SetScreenOnBrightness`), where the cancelled delayed off of a screen dimmed
   before sleep can be stated.
2. An abstract specification of `DisplayClient`, a call that happens at most once and answers for
   itself, and the proof that the client implements it.
3. `SetMaxBrightness` in `BrightnessService`; a listener that calls back in `MultiScreen`.
