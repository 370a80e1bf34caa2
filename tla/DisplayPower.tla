---------------------------- MODULE DisplayPower ----------------------------
(***************************************************************************)
(* The display state machine: DisplayPowerMgrService::SetDisplayState and  *)
(* ScreenController::UpdateState, with the delayed screen-off task, the    *)
(* asynchronous answer of the display manager service (DMS) and the undo   *)
(* of the brightness side.                                                 *)
(*                                                                         *)
(* A thread is an IPC thread of the service (Callers) or the service's     *)
(* FFRT queue, which runs the delayed screen-off (Queue).  Each action is  *)
(* the code a thread runs between two accesses to shared state.            *)
(***************************************************************************)
EXTENDS Naturals

CONSTANTS
    Displays,       \* ids of controllerMap_
    MainDisplay,    \* GetMainDisplayIdInner()
    Callers,        \* IPC threads
    Queue,          \* queue_, a serial FFRT queue
    None,           \* an empty slot of dmsCalls
    RequestStates,  \* the states clients ask for
    RequestReasons, \* the reasons they give
    MaxTasks,       \* bound: delayed tasks submitted and not yet run
    MaxDmsCalls,    \* bound: DMS callbacks outstanding
    Faults,         \* what may fail: "display" (DMS refuses), "power" (RS fails)
    SyncDms,        \* DMS calls back before its SetDisplayState returns
    PreBrightInOrder, \* pre-bright reasons come as the client that authenticates gives them
    DelayUsed,      \* OverrideDisplayOffDelay is called with a delay
    TimerAlone,     \* the delayed task never expires while a request is running
    Disciplined,    \* all but ON requests wait until nothing is in progress
    ExternalUpdates \* UpdateScreenPowerState is called too

States == {"OFF", "DIM", "ON", "SUSPEND", "DELAY_OFF", "DOZE", "DOZE_SUSPEND",
           "UNKNOWN"}
Reasons == {"APPLICATION", "TIMEOUT", "PRE_BRIGHT", "PRE_BRIGHT_AUTH_SUCCESS",
            "PRE_BRIGHT_AUTH_FAIL_SCREEN_OFF"}
PCs == {"idle", "decide", "delay", "cancel", "setOn", "check", "request",
        "assign", "undo"}

ASSUME ConfigAssumption ==
    /\ MainDisplay \in Displays
    /\ Queue \notin Callers
    /\ RequestStates \subseteq States
    /\ RequestReasons \subseteq Reasons
    /\ MaxTasks \in Nat /\ MaxDmsCalls \in Nat
    /\ {SyncDms, PreBrightInOrder, DelayUsed, TimerAlone, Disciplined, ExternalUpdates}
           \subseteq BOOLEAN

Threads == Callers \cup {Queue}
Tasks == 1 .. MaxTasks
DmsCall == [by : Threads, id : Displays, state : States, reason : Reasons]
ASSUME NoneAssumption == None \notin DmsCall

VARIABLES
    state_,             \* per display: ScreenController::state_
    panel,              \* per display: power state last given to the render service
    coordinated_,       \* per display: ScreenAction::coordinated_
    notified,           \* per display: what callback_ was told last
    lit,                \* SetScreenOnBrightness ran since the main panel was last off
    mState,             \* BrightnessService::mState
    isDisplayDelayOff_,
    stored,             \* displayId_, displayState_, displayReason_
    tasks,              \* delayed screen-off tasks waiting in queue_
    handle,             \* g_screenOffDelayTaskHandle, 0 for null
    dmsCalls,           \* callbacks DMS has accepted and not yet made
    call                \* per thread: where it is and its arguments

vars == <<state_, panel, coordinated_, notified, lit, mState,
          isDisplayDelayOff_, stored, tasks, handle, dmsCalls, call>>
serviceVars == <<isDisplayDelayOff_, stored, tasks, handle>>
screenVars == <<panel, notified, lit>>

-----------------------------------------------------------------------------
IsOn(s) == s \in {"ON", "DIM"}
IsOff(s) == s \in {"OFF", "DOZE"}
IsPreBright(r) == r \notin {"APPLICATION", "TIMEOUT"}

\* PreBrightInOrder: a client lights a dark panel with PRE_BRIGHT, waits for the authentication,
\* and then reports its outcome; the display stays OFF meanwhile.  The code checks nothing of it.
Sensible(d, s, r) ==
    /\ r \in {"PRE_BRIGHT", "PRE_BRIGHT_AUTH_SUCCESS"} => s = "ON"
    /\ r = "PRE_BRIGHT_AUTH_FAIL_SCREEN_OFF" => s = "OFF"
    /\ IsPreBright(r) => state_[d] = "OFF"
    /\ IsPreBright(r) /\ r # "PRE_BRIGHT" => panel[d] = "ON"

PreBrightIsAssigned(r) == r = "PRE_BRIGHT_AUTH_FAIL_SCREEN_OFF"        \* mutant
IsNeedSkipNextProc(r) == r \in {"PRE_BRIGHT", "PRE_BRIGHT_AUTH_FAIL_SCREEN_OFF"}
EnableSkipSetDisplayState(r) == r = "PRE_BRIGHT_AUTH_SUCCESS"
SkipNotify(d, s) == IsOn(state_[d]) = IsOn(s)

\* What OnStateChanged tells the registered callback.
Published(s) == IF s \in {"SUSPEND", "DOZE"} THEN "OFF" ELSE s

IdleCall == [pc |-> "idle", id |-> MainDisplay, state |-> "OFF",
             reason |-> "APPLICATION"]
At(t, pc) == call[t].pc = pc
Goto(t, pc) == call' = [call EXCEPT ![t].pc = pc]
Return(t) == call' = [call EXCEPT ![t] = IdleCall]

Quiet == \A t \in Threads : At(t, "idle")
NothingInProgress == tasks = {} /\ Quiet

Init ==
    /\ state_ \in [Displays -> {"ON", "OFF"}]
    /\ panel = state_
    /\ coordinated_ = [d \in Displays |-> FALSE]
    /\ notified = state_
    /\ lit = (state_[MainDisplay] = "ON")
    /\ mState = state_[MainDisplay]
    /\ isDisplayDelayOff_ = FALSE
    /\ stored = [id |-> MainDisplay, state |-> "UNKNOWN", reason |-> "APPLICATION"]
    /\ tasks = {}
    /\ handle = 0
    /\ dmsCalls = [k \in 1 .. MaxDmsCalls |-> None]
    /\ call = [t \in Threads |-> IdleCall]

-----------------------------------------------------------------------------
(* ScreenController::OnStateChanged, run by DMS or straight by UpdateState. *)

NotifyPreBright(d, s, r) == SkipNotify(d, s)                            \* mutant
Silent(d, s, r) == r = "PRE_BRIGHT" \/ SkipNotify(d, s)

PowerTargets(d, r) == IF coordinated_[d] /\ r = "TIMEOUT" THEN {d} ELSE Displays

OnStateChanged(d, s, r) ==
    \E ok \in {TRUE} \cup (IF "power" \in Faults THEN {FALSE} ELSE {}) :
        /\ panel' = [x \in Displays |->
                        IF ok /\ x \in PowerTargets(d, r) THEN s ELSE panel[x]]
        /\ lit' = \/ ~Silent(d, s, r) /\ s = "ON"
                  \/ lit /\ panel'[MainDisplay] # "OFF"
        /\ notified' = IF ~Silent(d, s, r) /\ ok
                       THEN [notified EXCEPT ![d] = Published(s)] ELSE notified

-----------------------------------------------------------------------------
(* SetDisplayStateInner, up to UpdateState. *)

SetDisplayState(t, d, s, r) ==
    /\ At(t, "idle")
    /\ PreBrightInOrder => Sensible(d, s, r)
    /\ TimerAlone => At(Queue, "idle")
    /\ Disciplined /\ s # "ON" => NothingInProgress
    /\ mState' = s
    /\ call' = [call EXCEPT ![t] = [pc |-> "decide", id |-> d, state |-> s,
                                    reason |-> r]]
    /\ UNCHANGED <<state_, coordinated_, serviceVars, screenVars, dmsCalls>>

\* No delay armed, or neither off nor on: straight to UpdateState.
Forward(t) ==
    /\ At(t, "decide")
    /\ isDisplayDelayOff_ => ~IsOff(call[t].state) /\ call[t].state # "ON"
    /\ Goto(t, "check")
    /\ UNCHANGED <<state_, coordinated_, serviceVars, screenVars, mState, dmsCalls>>

SubmitDelayTask(t) ==
    /\ At(t, "decide") /\ IsOff(call[t].state) /\ isDisplayDelayOff_
    /\ stored' = [id |-> call[t].id, state |-> call[t].state,
                  reason |-> call[t].reason]
    /\ \E n \in Tasks \ tasks : tasks' = tasks \cup {n} /\ handle' = n
    /\ Goto(t, "delay")
    /\ UNCHANGED <<state_, coordinated_, isDisplayDelayOff_, screenVars, mState,
                   dmsCalls>>

SetDelayOffState(t) ==
    /\ At(t, "delay")
    /\ state_' = [state_ EXCEPT ![call[t].id] = "DELAY_OFF"]
    /\ Return(t)
    /\ UNCHANGED <<coordinated_, serviceVars, screenVars, mState, dmsCalls>>

ReadDelayedOn(t) ==
    /\ At(t, "decide") /\ call[t].state = "ON" /\ isDisplayDelayOff_
    /\ Goto(t, "cancel")
    /\ UNCHANGED <<state_, coordinated_, serviceVars, screenVars, mState, dmsCalls>>

ForgetDelayTask(t) ==                                                    \* mutant
    /\ At(t, "cancel")
    /\ isDisplayDelayOff_' = FALSE
    /\ Goto(t, "setOn")
    /\ UNCHANGED <<state_, coordinated_, stored, tasks, handle, screenVars, mState,
                   dmsCalls>>

CancelDelayTask(t) ==
    /\ At(t, "cancel")
    /\ tasks' = tasks \ {handle}
    /\ isDisplayDelayOff_' = FALSE
    /\ Goto(t, "setOn")
    /\ UNCHANGED <<state_, coordinated_, stored, handle, screenVars, mState, dmsCalls>>

SetOnState(t) ==
    /\ At(t, "setOn")
    /\ state_' = [state_ EXCEPT ![call[t].id] = "ON"]
    /\ Return(t)
    /\ UNCHANGED <<coordinated_, serviceVars, screenVars, mState, dmsCalls>>

-----------------------------------------------------------------------------
(* ScreenController::UpdateState. *)

DimWhileOff(d, s, r) ==                                                  \* mutant
    r # "PRE_BRIGHT_AUTH_FAIL_SCREEN_OFF" /\ s = state_[d]
DelayOffIsOff(d, s, r) ==                                                \* mutant
    \/ s = state_[d]
    \/ s \in {"DIM", "OFF"} /\ state_[d] \in {"OFF", "DELAY_OFF"}

\* Nothing to do: the state is already the one asked for, or DIM while off.
Refrains(d, s, r) ==
    \/ r # "PRE_BRIGHT_AUTH_FAIL_SCREEN_OFF" /\ s = state_[d]
    \/ s = "DIM" /\ state_[d] = "OFF"

DelayedOffNeedsNone(d, s) ==                                             \* mutant
    \/ s \in {"OFF", "DOZE", "DOZE_SUSPEND"} /\ state_[d] # "DELAY_OFF"
    \/ s = "ON" /\ state_[d] # "DIM"
DozingIsDim(d, s) ==                                                     \* mutant
    \/ s \in {"OFF", "DOZE", "DOZE_SUSPEND"}
    \/ s = "ON" /\ state_[d] \notin {"DIM", "DOZE"}
NeedsDms(d, s) ==
    \/ s \in {"OFF", "DOZE", "DOZE_SUSPEND"}
    \/ s = "ON" /\ state_[d] # "DIM"

UpdateState(t) ==
    LET c == call[t] IN
    /\ At(t, "check")
    /\ \/ Refrains(c.id, c.state, c.reason) /\ Return(t)
       \/ /\ ~Refrains(c.id, c.state, c.reason)
          /\ Goto(t, IF NeedsDms(c.id, c.state) THEN "request" ELSE "assign")
    /\ UNCHANGED <<state_, coordinated_, serviceVars, screenVars, mState, dmsCalls>>

SkipDms(t) ==
    /\ At(t, "request") /\ EnableSkipSetDisplayState(call[t].reason)
    /\ OnStateChanged(call[t].id, call[t].state, call[t].reason)
    /\ Goto(t, "assign")
    /\ UNCHANGED <<state_, coordinated_, serviceVars, mState, dmsCalls>>

RequestDms(t) ==
    /\ At(t, "request") /\ ~EnableSkipSetDisplayState(call[t].reason)
    /\ \E k \in 1 .. MaxDmsCalls :
          /\ dmsCalls[k] = None
          /\ dmsCalls' = [dmsCalls EXCEPT ![k] =
                [by |-> t, id |-> call[t].id, state |-> call[t].state,
                 reason |-> call[t].reason]]
    /\ Goto(t, "assign")
    /\ UNCHANGED <<state_, coordinated_, serviceVars, screenVars, mState>>

NeverUndo(t) == Return(t)                                                \* mutant

\* A false UpdateState is undone only by the immediate off of an IPC call.
Fail(t) == IF t \in Callers /\ IsOff(call[t].state) THEN Goto(t, "undo") ELSE Return(t)

DmsRefuses(t) ==
    /\ "display" \in Faults
    /\ At(t, "request") /\ ~EnableSkipSetDisplayState(call[t].reason)
    /\ Fail(t)
    /\ UNCHANGED <<state_, coordinated_, serviceVars, screenVars, mState, dmsCalls>>

AssignState(t) ==
    /\ At(t, "assign")
    /\ SyncDms => \A k \in 1 .. MaxDmsCalls :
                      dmsCalls[k] # None => dmsCalls[k].by # t
    /\ IF IsNeedSkipNextProc(call[t].reason)
       THEN Fail(t) /\ UNCHANGED state_
       ELSE /\ state_' = [state_ EXCEPT ![call[t].id] = call[t].state]
            /\ Return(t)
    /\ UNCHANGED <<coordinated_, serviceVars, screenVars, mState, dmsCalls>>

UndoToReason(t) ==                                                       \* mutant
    /\ At(t, "undo")
    /\ mState' = call[t].reason
    /\ Return(t)
    /\ UNCHANGED <<state_, screenVars, coordinated_, serviceVars, dmsCalls>>

UndoSetDisplayState(t) ==
    LET current == state_[call[t].id] IN
    /\ At(t, "undo")
    /\ mState' = current
    /\ lit' = (lit \/ IsOn(current))
    /\ Return(t)
    /\ UNCHANGED <<state_, panel, coordinated_, notified, serviceVars, dmsCalls>>

-----------------------------------------------------------------------------
(* The other actors. *)

DmsCallback(k) ==
    /\ dmsCalls[k] # None
    /\ OnStateChanged(dmsCalls[k].id, dmsCalls[k].state, dmsCalls[k].reason)
    /\ dmsCalls' = [dmsCalls EXCEPT ![k] = None]
    /\ UNCHANGED <<state_, coordinated_, serviceVars, mState, call>>

\* A delayed task runs on queue_, with the arguments stored by the latest off.
ScreenOffDelay(n) ==
    /\ n \in tasks
    /\ At(Queue, "idle")
    /\ TimerAlone => Quiet
    /\ tasks' = tasks \ {n}
    /\ isDisplayDelayOff_' = FALSE
    /\ call' = [call EXCEPT ![Queue] = [pc |-> "check", id |-> stored.id,
                   state |-> stored.state, reason |-> stored.reason]]
    /\ UNCHANGED <<state_, coordinated_, stored, handle, screenVars, mState, dmsCalls>>

OverrideDisplayOffDelay(isSet) ==
    /\ isSet => DelayUsed
    /\ Disciplined => NothingInProgress
    /\ isDisplayDelayOff_' = (isSet /\ state_[MainDisplay] = "ON")
    /\ UNCHANGED <<state_, coordinated_, stored, tasks, handle, screenVars, mState,
                   dmsCalls, call>>

UpdateScreenPowerState(isScreenOn) ==
    /\ ExternalUpdates
    /\ Disciplined => NothingInProgress
    /\ state_' = [state_ EXCEPT ![MainDisplay] = IF isScreenOn THEN "ON" ELSE "OFF"]
    /\ UNCHANGED <<coordinated_, serviceVars, screenVars, mState, dmsCalls, call>>

SetCoordinated(d, coordinated) ==
    /\ "TIMEOUT" \in RequestReasons
    /\ coordinated_' = [coordinated_ EXCEPT ![d] = coordinated]
    /\ UNCHANGED <<state_, serviceVars, screenVars, mState, dmsCalls, call>>

-----------------------------------------------------------------------------
RunUpdateState(t) ==
    UpdateState(t) \/ SkipDms(t) \/ RequestDms(t) \/ DmsRefuses(t) \/ AssignState(t)

Run(t) ==
    \/ Forward(t) \/ SubmitDelayTask(t) \/ SetDelayOffState(t)
    \/ ReadDelayedOn(t) \/ CancelDelayTask(t) \/ SetOnState(t)
    \/ RunUpdateState(t) \/ UndoSetDisplayState(t)

Environment ==
    \/ \E t \in Callers, d \in Displays, s \in RequestStates, r \in RequestReasons :
          SetDisplayState(t, d, s, r)
    \/ \E isSet \in BOOLEAN : OverrideDisplayOffDelay(isSet)
    \/ \E isScreenOn \in BOOLEAN : UpdateScreenPowerState(isScreenOn)
    \/ \E d \in Displays, b \in BOOLEAN : SetCoordinated(d, b)

Next ==
    \/ Environment
    \/ \E t \in Threads : Run(t)
    \/ \E k \in 1 .. MaxDmsCalls : DmsCallback(k)
    \/ \E n \in Tasks : ScreenOffDelay(n)

Spec == Init /\ [][Next]_vars

\* Threads run, DMS answers and timers expire; clients ask for nothing in particular.
Fairness ==
    /\ \A t \in Threads : WF_vars(Run(t))
    /\ \A k \in 1 .. MaxDmsCalls : WF_vars(DmsCallback(k))
    /\ \A n \in Tasks : SF_vars(ScreenOffDelay(n))

FairSpec == Spec /\ Fairness

-----------------------------------------------------------------------------
(* Properties. *)

\* The fields keep the types the service declares for them: states are DisplayStates,
\* the delay handle names a task that was submitted.
TypeOK ==
    /\ state_ \in [Displays -> States]
    /\ panel \in [Displays -> States]
    /\ coordinated_ \in [Displays -> BOOLEAN]
    /\ notified \in [Displays -> States]
    /\ lit \in BOOLEAN
    /\ mState \in States
    /\ isDisplayDelayOff_ \in BOOLEAN
    /\ stored \in [id : Displays, state : States, reason : Reasons]
    /\ tasks \subseteq Tasks
    /\ handle \in 0 .. MaxTasks
    /\ dmsCalls \in [1 .. MaxDmsCalls -> DmsCall \cup {None}]
    /\ call \in [Threads -> [pc : PCs, id : Displays, state : States, reason : Reasons]]

\* No request is running and DMS owes no answer.
Settled == Quiet /\ \A k \in 1 .. MaxDmsCalls : dmsCalls[k] = None

\* UpdateState assigns state_ and SetDisplayPower powers the panel at different times, and
\* a pre-brightened panel is lit while state_ is OFF: once every request and every DMS
\* answer is through, a display the service calls on has its panel powered.
OnMeansPowered ==
    Settled => \A d \in Displays : IsOn(state_[d]) => panel[d] = "ON"

\* The other half, for the delayed screen-off: a display the service calls OFF, by a
\* request or by ScreenOffDelay, does not stay powered.
OffMeansDark ==
    Settled => \A d \in Displays : state_[d] = "OFF" => panel[d] # "ON"

\* UpdateState has no other place than OnStateChanged to run SetScreenOnBrightness, and
\* SkipNotify or PRE_BRIGHT may skip it: a powered main display that the service calls on
\* has had its brightness restored since it was last dark.
OnMeansLit ==
    Settled /\ IsOn(state_[MainDisplay]) /\ panel[MainDisplay] = "ON" => lit

\* OnStateChanged decides whether to call callback_ from a state_ that UpdateState has not
\* assigned yet: the callback was nevertheless last told the class (on or not on) the
\* display is in.
NotifiedMatchesState ==
    Settled => \A d \in Displays :
        state_[d] # "DELAY_OFF" => IsOn(notified[d]) = IsOn(state_[d])

\* Only one handle is kept for the delayed screen-off, and an on looks at it only when
\* isDisplayDelayOff_ is set: every task that waits in queue_ can still be cancelled.
DelayedOffCancellable ==
    \A n \in tasks : isDisplayDelayOff_ /\ handle = n

\* The log of the on branch, "need remove delay task": once CancelDelayTask has run, no
\* delayed screen-off is left to turn the display off again.
OnRemovesDelayedOff == \A t \in Threads : At(t, "setOn") => tasks = {}

\* mState is set before UpdateState decides and is undone when it returns false: the
\* brightness side never goes on taking a display for dark that is still on.
BrightnessFollowsLitScreen ==
    Quiet /\ IsOn(state_[MainDisplay]) => mState # "OFF"

\* SetDelayOffState parks the display in DELAY_OFF and only the delayed task or an on gets
\* it out again: no display stays there.
DelayOffResolves ==
    \A d \in Displays : state_[d] = "DELAY_OFF" ~> state_[d] # "DELAY_OFF"
=============================================================================
