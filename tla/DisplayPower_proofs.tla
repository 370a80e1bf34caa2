------------------------ MODULE DisplayPower_proofs -------------------------
(***************************************************************************)
(* Proofs about DisplayPower.  The types and the delayed screen-off, for   *)
(* any displays, callers, bounds and faults; what state, panel, brightness *)
(* and callback say of each other, for requests that come one at a time,   *)
(* with any bounds, and with whatever DMS refuses.                         *)
(***************************************************************************)
EXTENDS DisplayPower, TLAPS

USE DEF Threads

-----------------------------------------------------------------------------
(* Type correctness. *)

LEMMA InitTyped == Init => TypeOK
  <1> SUFFICES ASSUME Init PROVE TypeOK
    OBVIOUS
  <1>1. state_ \in [Displays -> States]
    BY DEF Init, States
  <1>2. MainDisplay \in Displays /\ MaxTasks \in Nat
    BY ConfigAssumption
  <1>3. panel \in [Displays -> States] /\ notified \in [Displays -> States]
    BY <1>1 DEF Init
  <1>4. lit \in BOOLEAN
    <2>1. lit = (state_[MainDisplay] = "ON")
      BY DEF Init
    <2> QED
      BY <2>1, Zenon
  <1>5. mState \in States
    BY <1>1, <1>2 DEF Init
  <1>6. stored \in [id : Displays, state : States, reason : Reasons]
    BY <1>2 DEF Init, States, Reasons
  <1>7. call \in [Threads -> [pc : PCs, id : Displays, state : States, reason : Reasons]]
    BY <1>2 DEF Init, IdleCall, PCs, States, Reasons
  <1>8. tasks \subseteq Tasks /\ handle \in 0 .. MaxTasks
    BY <1>2 DEF Init
  <1>9. /\ dmsCalls \in [1 .. MaxDmsCalls -> DmsCall \cup {None}]
        /\ coordinated_ \in [Displays -> BOOLEAN]
        /\ isDisplayDelayOff_ \in BOOLEAN
    BY DEF Init
  <1> QED
    BY <1>1, <1>3, <1>4, <1>5, <1>6, <1>7, <1>8, <1>9 DEF TypeOK

\* What a thread does to its own record keeps the records typed.
LEMMA CallTyped ==
    ASSUME TypeOK, NEW t \in Threads, NEW pc \in PCs, Goto(t, pc) \/ Return(t)
    PROVE  call' \in [Threads -> [pc : PCs, id : Displays, state : States,
                                  reason : Reasons]]
  BY ConfigAssumption DEF TypeOK, Goto, Return, IdleCall, PCs, States, Reasons

LEMMA ScreenTyped ==
    ASSUME TypeOK, NEW d \in Displays, NEW s \in States, NEW r \in Reasons,
           OnStateChanged(d, s, r)
    PROVE  /\ panel' \in [Displays -> States]
           /\ lit' \in BOOLEAN
           /\ notified' \in [Displays -> States]
  <1>1. Published(s) \in States
    BY DEF Published, States
  <1>2. PICK ok \in BOOLEAN :
          /\ panel' = [x \in Displays |->
                          IF ok /\ x \in PowerTargets(d, r) THEN s ELSE panel[x]]
          /\ lit' = \/ ~Silent(d, s, r) /\ s = "ON"
                    \/ lit /\ panel'[MainDisplay] # "OFF"
          /\ notified' = IF ~Silent(d, s, r) /\ ok
                         THEN [notified EXCEPT ![d] = Published(s)] ELSE notified
    BY DEF OnStateChanged
  <1>3. panel' \in [Displays -> States]
    BY <1>2 DEF TypeOK
  <1>4. lit' \in BOOLEAN
    BY <1>2, Zenon
  <1>5. notified' \in [Displays -> States]
    BY <1>1, <1>2 DEF TypeOK
  <1> QED
    BY <1>3, <1>4, <1>5

\* Every step keeps the type invariant: one case per action.
LEMMA StepTyped == TypeOK /\ [Next]_vars => TypeOK'
  <1> SUFFICES ASSUME TypeOK, [Next]_vars PROVE TypeOK'
    OBVIOUS
  <1> USE ConfigAssumption DEF serviceVars, screenVars
  <1>1. ASSUME NEW t \in Callers, NEW d \in Displays, NEW s \in RequestStates,
               NEW r \in RequestReasons, SetDisplayState(t, d, s, r)
        PROVE  TypeOK'
    <2>1. s \in States /\ r \in Reasons
      OBVIOUS
    <2>2. call' \in [Threads -> [pc : PCs, id : Displays, state : States,
                                 reason : Reasons]]
      BY <1>1, <2>1 DEF SetDisplayState, TypeOK, PCs
    <2> QED
      BY <1>1, <2>1, <2>2 DEF SetDisplayState, TypeOK
  <1>2. ASSUME NEW isSet \in BOOLEAN, OverrideDisplayOffDelay(isSet) PROVE TypeOK'
    <2>1. isDisplayDelayOff_' \in BOOLEAN
      <3>1. isDisplayDelayOff_' = (isSet /\ state_[MainDisplay] = "ON")
        BY <1>2 DEF OverrideDisplayOffDelay
      <3> QED
        BY <3>1, Zenon
    <2> QED
      BY <1>2, <2>1 DEF OverrideDisplayOffDelay, TypeOK
  <1>3. ASSUME NEW isScreenOn \in BOOLEAN, UpdateScreenPowerState(isScreenOn)
        PROVE  TypeOK'
    BY <1>3 DEF UpdateScreenPowerState, TypeOK, States
  <1>4. ASSUME NEW d \in Displays, NEW b \in BOOLEAN, SetCoordinated(d, b)
        PROVE  TypeOK'
    BY <1>4 DEF SetCoordinated, TypeOK
  <1>5. ASSUME NEW t \in Threads, Run(t) PROVE TypeOK'
    <2> DEFINE c == call[t]
    <2>1. c \in [pc : PCs, id : Displays, state : States, reason : Reasons]
      BY DEF TypeOK
    <2>2. CASE Forward(t)
      BY <2>2, CallTyped DEF Forward, TypeOK, PCs
    <2>3. CASE SubmitDelayTask(t)
      <3>1. call' \in [Threads -> [pc : PCs, id : Displays, state : States,
                                   reason : Reasons]]
        BY <2>3, CallTyped DEF SubmitDelayTask, PCs
      <3>2. tasks' \subseteq Tasks /\ handle' \in 0 .. MaxTasks
        BY <2>3 DEF SubmitDelayTask, TypeOK, Tasks
      <3>3. stored' \in [id : Displays, state : States, reason : Reasons]
        BY <2>3, <2>1 DEF SubmitDelayTask
      <3> QED
        BY <2>3, <3>1, <3>2, <3>3 DEF SubmitDelayTask, TypeOK
    <2>4. CASE SetDelayOffState(t)
      BY <2>4, CallTyped DEF SetDelayOffState, TypeOK, PCs, States
    <2>5. CASE ReadDelayedOn(t)
      BY <2>5, CallTyped DEF ReadDelayedOn, TypeOK, PCs
    <2>6. CASE CancelDelayTask(t)
      BY <2>6, CallTyped DEF CancelDelayTask, TypeOK, PCs
    <2>7. CASE SetOnState(t)
      BY <2>7, CallTyped DEF SetOnState, TypeOK, PCs, States
    <2>8. CASE UpdateState(t)
      <3>1. \E pc \in PCs : Goto(t, pc) \/ Return(t)
        BY <2>8 DEF UpdateState, PCs
      <3> QED
        BY <2>8, <3>1, CallTyped DEF UpdateState, TypeOK
    <2>9. CASE SkipDms(t)
      BY <2>9, <2>1, CallTyped, ScreenTyped DEF SkipDms, TypeOK, PCs
    <2>10. CASE RequestDms(t)
      <3>1. dmsCalls' \in [1 .. MaxDmsCalls -> DmsCall \cup {None}]
        BY <2>10, <2>1 DEF RequestDms, TypeOK, DmsCall
      <3> QED
        BY <2>10, <3>1, CallTyped DEF RequestDms, TypeOK, PCs
    <2>11. CASE DmsRefuses(t)
      <3>1. \E pc \in PCs : Goto(t, pc) \/ Return(t)
        BY <2>11 DEF DmsRefuses, Fail, PCs
      <3> QED
        BY <2>11, <3>1, CallTyped DEF DmsRefuses, TypeOK
    <2>12. CASE AssignState(t)
      <3>1. \E pc \in PCs : Goto(t, pc) \/ Return(t)
        BY <2>12 DEF AssignState, Fail, PCs
      <3>2. state_' \in [Displays -> States]
        BY <2>12, <2>1 DEF AssignState, TypeOK
      <3> QED
        BY <2>12, <3>1, <3>2, CallTyped DEF AssignState, TypeOK
    <2>13. CASE UndoSetDisplayState(t)
      <3>1. lit' \in BOOLEAN
        <4>1. lit' = (lit \/ IsOn(state_[call[t].id]))
          BY <2>13 DEF UndoSetDisplayState
        <4> QED
          BY <4>1, Zenon
      <3>2. mState' \in States
        BY <2>13, <2>1 DEF UndoSetDisplayState, TypeOK
      <3> QED
        BY <2>13, <3>1, <3>2, CallTyped DEF UndoSetDisplayState, TypeOK, PCs
    <2> QED
      BY <1>5, <2>2, <2>3, <2>4, <2>5, <2>6, <2>7, <2>8, <2>9, <2>10, <2>11, <2>12,
         <2>13 DEF Run, RunUpdateState
  <1>6. ASSUME NEW k \in 1 .. MaxDmsCalls, DmsCallback(k) PROVE TypeOK'
    <2>1. dmsCalls[k] \in DmsCall
      BY <1>6 DEF DmsCallback, TypeOK
    <2> QED
      BY <1>6, <2>1, ScreenTyped DEF DmsCallback, TypeOK, DmsCall
  <1>7. ASSUME NEW n \in Tasks, ScreenOffDelay(n) PROVE TypeOK'
    BY <1>7 DEF ScreenOffDelay, TypeOK, PCs
  <1>8. CASE UNCHANGED vars
    BY <1>8 DEF vars, TypeOK
  <1> QED
    BY <1>1, <1>2, <1>3, <1>4, <1>5, <1>6, <1>7, <1>8 DEF Next, Environment

\* The variables of the service stay within their types.
THEOREM TypeCorrect == Spec => []TypeOK
  BY InitTyped, StepTyped, PTL DEF Spec

-----------------------------------------------------------------------------
(* The delayed screen-off under the documented protocol (Disciplined): a      *)
(* request that may submit a delayed off is alone among its kind, and the     *)
(* flag is armed only while nothing is in progress.                           *)

\* The request a thread is about to decide on may turn the screen off.
MayTurnOff(t) == At(t, "decide") /\ call[t].state # "ON"

DelayInv ==
    /\ \A n \in tasks : isDisplayDelayOff_ /\ handle = n
    /\ \A t \in Threads : MayTurnOff(t) => tasks = {}
    /\ \A t, u \in Threads : MayTurnOff(t) /\ MayTurnOff(u) => t = u
    /\ \A t \in Threads : At(t, "setOn") => tasks = {} /\ ~isDisplayDelayOff_

\* A thread that moves on to another place leaves the others where they are.
LEMMA OthersStay ==
    ASSUME TypeOK, NEW t \in Threads, NEW pc \in PCs, Goto(t, pc) \/ Return(t)
    PROVE  /\ \A u \in Threads \ {t} : call'[u] = call[u]
           /\ call'[t].pc \in {pc, "idle"}
           /\ call'[t].state = call[t].state \/ call'[t].pc = "idle"
  BY DEF TypeOK, Goto, Return, IdleCall

LEMMA InitDelayInv == Init => DelayInv
  BY DEF Init, DelayInv, MayTurnOff, At, IdleCall

\* A step that neither submits nor arms, and moves its thread to a place other than
\* "decide" and "setOn", keeps the invariant.
LEMMA HarmlessStep ==
    ASSUME TypeOK, DelayInv, NEW t \in Threads, NEW pc \in PCs \ {"decide", "setOn"},
           Goto(t, pc) \/ Return(t), UNCHANGED <<tasks, handle, isDisplayDelayOff_>>
    PROVE  DelayInv'
  <1>1. \A u \in Threads \ {t} : call'[u] = call[u]
    BY OthersStay
  <1>2. call'[t].pc \notin {"decide", "setOn"}
    BY OthersStay DEF PCs
  <1>3. \A u \in Threads : MayTurnOff(u)' => MayTurnOff(u)
    BY <1>1, <1>2 DEF MayTurnOff, At
  <1>4. \A u \in Threads : At(u, "setOn")' => At(u, "setOn")
    BY <1>1, <1>2 DEF At
  <1> QED
    BY <1>3, <1>4 DEF DelayInv

LEMMA StepDelayInv ==
    TypeOK /\ DelayInv /\ Disciplined /\ [Next]_vars => DelayInv'
  <1> SUFFICES ASSUME TypeOK, DelayInv, Disciplined, [Next]_vars PROVE DelayInv'
    OBVIOUS
  <1> USE DEF serviceVars, screenVars
  <1>1. ASSUME NEW t \in Callers, NEW d \in Displays, NEW s \in RequestStates,
               NEW r \in RequestReasons, SetDisplayState(t, d, s, r)
        PROVE  DelayInv'
    <2>1. /\ call'[t].pc = "decide" /\ call'[t].state = s
          /\ \A u \in Threads \ {t} : call'[u] = call[u]
          /\ UNCHANGED <<tasks, handle, isDisplayDelayOff_>>
      BY <1>1 DEF SetDisplayState, TypeOK
    <2>2. \A u \in Threads : At(u, "setOn")' => At(u, "setOn")
      BY <2>1 DEF At
    <2>3. CASE s = "ON"
      <3>1. \A u \in Threads : MayTurnOff(u)' => MayTurnOff(u)
        BY <2>1, <2>3 DEF MayTurnOff, At
      <3> QED
        BY <2>1, <2>2, <3>1 DEF DelayInv
    <2>4. CASE s # "ON"
      <3>1. tasks = {} /\ \A u \in Threads : call[u].pc = "idle"
        BY <1>1, <2>4 DEF SetDisplayState, NothingInProgress, Quiet, At
      <3>2. \A u \in Threads : MayTurnOff(u)' => u = t
        BY <2>1, <3>1 DEF MayTurnOff, At
      <3> QED
        BY <2>1, <2>2, <3>1, <3>2 DEF DelayInv
    <2> QED
      BY <2>3, <2>4
  <1>2. ASSUME NEW isSet \in BOOLEAN, OverrideDisplayOffDelay(isSet) PROVE DelayInv'
    <2>1. tasks = {} /\ \A u \in Threads : call[u].pc = "idle"
      BY <1>2 DEF OverrideDisplayOffDelay, NothingInProgress, Quiet, At
    <2> QED
      BY <1>2, <2>1 DEF OverrideDisplayOffDelay, DelayInv, MayTurnOff, At
  <1>3. ASSUME NEW b \in BOOLEAN, UpdateScreenPowerState(b) PROVE DelayInv'
    BY <1>3 DEF UpdateScreenPowerState, DelayInv, MayTurnOff, At
  <1>4. ASSUME NEW d \in Displays, NEW b \in BOOLEAN, SetCoordinated(d, b)
        PROVE  DelayInv'
    BY <1>4 DEF SetCoordinated, DelayInv, MayTurnOff, At
  <1>5. ASSUME NEW t \in Threads, Run(t) PROVE DelayInv'
    <2>1. CASE Forward(t) \/ SetDelayOffState(t) \/ ReadDelayedOn(t) \/ SetOnState(t)
      BY <2>1, HarmlessStep DEF Forward, SetDelayOffState, ReadDelayedOn, SetOnState, PCs
    <2>2. CASE SubmitDelayTask(t)
      <3>1. MayTurnOff(t) /\ isDisplayDelayOff_
        BY <2>2 DEF SubmitDelayTask, MayTurnOff, IsOff
      <3>2. tasks = {}
        BY <3>1 DEF DelayInv
      <3>3. PICK n \in Tasks : tasks' = tasks \cup {n} /\ handle' = n
        BY <2>2 DEF SubmitDelayTask
      <3>4. \A n1 \in tasks' : isDisplayDelayOff_' /\ handle' = n1
        BY <2>2, <3>1, <3>2, <3>3 DEF SubmitDelayTask
      <3>5. /\ \A u \in Threads \ {t} : call'[u] = call[u]
            /\ call'[t].pc \in {"delay", "idle"}
        BY <2>2, OthersStay DEF SubmitDelayTask, PCs
      <3>6. \A u \in Threads : ~MayTurnOff(u)'
        BY <3>1, <3>5 DEF DelayInv, MayTurnOff, At
      <3>7. \A u \in Threads : ~At(u, "setOn")'
        BY <3>1, <3>5 DEF DelayInv, At
      <3> QED
        BY <3>4, <3>6, <3>7 DEF DelayInv
    <2>3. CASE CancelDelayTask(t)
      <3>1. tasks' = {} /\ ~isDisplayDelayOff_'
        BY <2>3 DEF CancelDelayTask, DelayInv
      <3>2. /\ \A u \in Threads \ {t} : call'[u] = call[u]
            /\ call'[t].pc \in {"setOn", "idle"}
        BY <2>3, OthersStay DEF CancelDelayTask, PCs
      <3>3. \A u \in Threads : MayTurnOff(u)' => MayTurnOff(u)
        BY <3>2 DEF MayTurnOff, At
      <3> QED
        BY <3>1, <3>3 DEF DelayInv
    <2>4. CASE UpdateState(t)
      <3>1. \E pc \in PCs \ {"decide", "setOn"} : Goto(t, pc) \/ Return(t)
        BY <2>4 DEF UpdateState, PCs
      <3> QED
        BY <2>4, <3>1, HarmlessStep DEF UpdateState
    <2>5. CASE SkipDms(t) \/ RequestDms(t)
      BY <2>5, HarmlessStep DEF SkipDms, RequestDms, PCs
    <2>6. CASE DmsRefuses(t) \/ AssignState(t)
      <3>1. \E pc \in PCs \ {"decide", "setOn"} : Goto(t, pc) \/ Return(t)
        BY <2>6 DEF DmsRefuses, AssignState, Fail, PCs
      <3> QED
        BY <2>6, <3>1, HarmlessStep DEF DmsRefuses, AssignState
    <2>7. CASE UndoSetDisplayState(t)
      BY <2>7, HarmlessStep DEF UndoSetDisplayState, PCs
    <2> QED
      BY <1>5, <2>1, <2>2, <2>3, <2>4, <2>5, <2>6, <2>7 DEF Run, RunUpdateState
  <1>6. ASSUME NEW k \in 1 .. MaxDmsCalls, DmsCallback(k) PROVE DelayInv'
    BY <1>6 DEF DmsCallback, DelayInv, MayTurnOff, At
  <1>7. ASSUME NEW n \in Tasks, ScreenOffDelay(n) PROVE DelayInv'
    <2>1. tasks' = {} /\ ~isDisplayDelayOff_'
      BY <1>7 DEF ScreenOffDelay, DelayInv
    <2>2. /\ call'[Queue].pc = "check"
          /\ \A u \in Threads \ {Queue} : call'[u] = call[u]
      BY <1>7 DEF ScreenOffDelay, TypeOK
    <2>3. \A u \in Threads : MayTurnOff(u)' => MayTurnOff(u)
      BY <2>2 DEF MayTurnOff, At
    <2> QED
      BY <2>1, <2>3 DEF DelayInv
  <1>8. CASE UNCHANGED vars
    BY <1>8 DEF vars, DelayInv, MayTurnOff, At
  <1> QED
    BY <1>1, <1>2, <1>3, <1>4, <1>5, <1>6, <1>7, <1>8 DEF Next, Environment

\* While clients turn the screen off and re-arm the delay only when nothing is in
\* progress (whatever else races: ON requests of any number of threads, the timer, late
\* or refused answers of DMS), g_screenOffDelayTaskHandle names the only delayed off.
THEOREM DelayedOffStaysCancellable == Disciplined /\ Spec => []DelayedOffCancellable
  <1>1. DelayInv => DelayedOffCancellable
    BY DEF DelayInv, DelayedOffCancellable
  <1>2. Disciplined /\ TypeOK /\ DelayInv /\ [Next]_vars => DelayInv'
    BY StepDelayInv
  <1> QED
    <2> SUFFICES ASSUME Disciplined PROVE Spec => []DelayedOffCancellable
      OBVIOUS
    <2>1. TypeOK /\ DelayInv /\ [Next]_vars => DelayInv'
      BY <1>2
    <2> QED
      BY <1>1, <2>1, InitDelayInv, TypeCorrect, PTL DEF Spec

\* Under the same protocol an on that found a delayed off pending leaves none behind.
THEOREM OnCancelsForGood == Disciplined /\ Spec => []OnRemovesDelayedOff
  <1> SUFFICES ASSUME Disciplined PROVE Spec => []OnRemovesDelayedOff
    OBVIOUS
  <1>1. DelayInv => OnRemovesDelayedOff
    BY DEF DelayInv, OnRemovesDelayedOff
  <1>2. TypeOK /\ DelayInv /\ [Next]_vars => DelayInv'
    BY StepDelayInv
  <1> QED
    BY <1>1, <1>2, InitDelayInv, TypeCorrect, PTL DEF Spec

-----------------------------------------------------------------------------
(* One request at a time: one IPC thread that calls, and a delay that never   *)
(* expires while a request is running.  What remains is the order of the      *)
(* requests, the delayed offs, and what DMS refuses.  Most is said of a       *)
(* device with one display, since the brightness side keeps one mState and a  *)
(* request of one display powers the panels of all.                           *)

Sequential ==
    /\ TimerAlone /\ ~ExternalUpdates
    /\ \A t, u \in Callers : t = u
SingleDisplay == Displays = {MainDisplay}

State == state_[MainDisplay]
Panel == panel[MainDisplay]
Busy(t) == ~At(t, "idle")

\* Who runs, runs alone; only an on cancels, only an off is delayed, and the queue undoes nothing.
AloneInv ==
    /\ \A t, u \in Threads : Busy(t) /\ Busy(u) => t = u
    /\ tasks # {} => IsOff(stored.state)
    /\ \A t \in Threads :
           /\ call[t].pc \in {"cancel", "setOn"} => call[t].state = "ON"
           /\ At(t, "delay") => IsOff(call[t].state)
    /\ Busy(Queue) => /\ call[Queue].pc \in {"check", "request", "assign"}
                      /\ IsOff(call[Queue].state)

LEMMA InitAlone == Init => AloneInv
  BY DEF Init, AloneInv, Busy, At, IdleCall

\* A thread that goes elsewhere keeps its arguments, and returning it drops them.
LEMMA Moves ==
    ASSUME TypeOK, NEW t \in Threads, NEW pc \in PCs, Goto(t, pc)
    PROVE  /\ call'[t].pc = pc /\ call'[t].id = call[t].id
           /\ call'[t].state = call[t].state /\ call'[t].reason = call[t].reason
           /\ \A u \in Threads \ {t} : call'[u] = call[u]
  BY DEF TypeOK, Goto

LEMMA Returns ==
    ASSUME TypeOK, NEW t \in Threads, Return(t)
    PROVE  call'[t].pc = "idle" /\ \A u \in Threads \ {t} : call'[u] = call[u]
  BY DEF TypeOK, Return, IdleCall

\* The places a step of a thread leads to.
LEMMA RunMoves ==
    ASSUME TypeOK, NEW t \in Threads, Run(t)
    PROVE  /\ Busy(t) /\ \A u \in Threads \ {t} : call'[u] = call[u]
           /\ \/ call'[t].pc = "idle"
              \/ /\ call'[t].id = call[t].id
                 /\ call'[t].state = call[t].state /\ call'[t].reason = call[t].reason
           /\ At(t, "decide") => call'[t].pc \in {"check", "delay", "cancel"}
           /\ At(t, "delay") => call'[t].pc = "idle"
           /\ At(t, "cancel") => call'[t].pc = "setOn"
           /\ At(t, "setOn") => call'[t].pc = "idle"
           /\ At(t, "check") => call'[t].pc \in {"idle", "request", "assign"}
           /\ At(t, "request") => call'[t].pc \in {"idle", "assign", "undo"}
           /\ At(t, "assign") => call'[t].pc \in {"idle", "undo"}
           /\ At(t, "undo") => call'[t].pc = "idle"
           /\ call'[t].pc = "undo" => t \in Callers
           /\ call'[t].pc = "cancel" => call[t].state = "ON"
           /\ call'[t].pc = "delay" => IsOff(call[t].state)
  <1>1. CASE Forward(t)
    BY <1>1, Moves DEF Forward, Busy, At, PCs
  <1>2. CASE SubmitDelayTask(t)
    BY <1>2, Moves DEF SubmitDelayTask, Busy, At, PCs
  <1>3. CASE SetDelayOffState(t)
    BY <1>3, Returns DEF SetDelayOffState, Busy, At
  <1>4. CASE ReadDelayedOn(t)
    BY <1>4, Moves DEF ReadDelayedOn, Busy, At, PCs
  <1>5. CASE CancelDelayTask(t)
    BY <1>5, Moves DEF CancelDelayTask, Busy, At, PCs
  <1>6. CASE SetOnState(t)
    BY <1>6, Returns DEF SetOnState, Busy, At
  <1>7. CASE UpdateState(t)
    BY <1>7, Moves, Returns DEF UpdateState, Busy, At, PCs
  <1>8. CASE SkipDms(t)
    BY <1>8, Moves DEF SkipDms, Busy, At, PCs
  <1>9. CASE RequestDms(t)
    BY <1>9, Moves DEF RequestDms, Busy, At, PCs
  <1>10. CASE DmsRefuses(t)
    BY <1>10, Moves, Returns DEF DmsRefuses, Fail, Busy, At, PCs
  <1>11. CASE AssignState(t)
    BY <1>11, Moves, Returns DEF AssignState, Fail, Busy, At, PCs
  <1>12. CASE UndoSetDisplayState(t)
    BY <1>12, Returns DEF UndoSetDisplayState, Busy, At
  <1> QED
    BY <1>1, <1>2, <1>3, <1>4, <1>5, <1>6, <1>7, <1>8, <1>9, <1>10, <1>11, <1>12
       DEF Run, RunUpdateState

\* While one thread runs the others are idle, before and after its step.
LEMMA OthersIdle ==
    ASSUME TypeOK, AloneInv, NEW t \in Threads, Run(t)
    PROVE  \A u \in Threads \ {t} : ~Busy(u) /\ ~Busy(u)'
  BY RunMoves DEF AloneInv, Busy, At

\* A request begins when nobody runs, and so does a delayed off.
LEMMA RequestBegins ==
    ASSUME Sequential, TypeOK, NEW t \in Callers, NEW d \in Displays, NEW s \in RequestStates,
           NEW r \in RequestReasons, SetDisplayState(t, d, s, r)
    PROVE  /\ \A u \in Threads : ~Busy(u)
           /\ \A u \in Threads \ {t} : ~Busy(u)'
           /\ call'[t] = [pc |-> "decide", id |-> d, state |-> s, reason |-> r]
           /\ t # Queue
  <1>1. \A u \in Threads : ~Busy(u)
    BY DEF Sequential, SetDisplayState, Busy
  <1>2. /\ call'[t] = [pc |-> "decide", id |-> d, state |-> s, reason |-> r]
        /\ \A u \in Threads \ {t} : call'[u] = call[u]
    BY DEF SetDisplayState, TypeOK
  <1> QED
    BY <1>1, <1>2, ConfigAssumption DEF Busy, At, Sequential

LEMMA DelayedOffBegins ==
    ASSUME Sequential, TypeOK, NEW n \in Tasks, ScreenOffDelay(n)
    PROVE  /\ \A u \in Threads : ~Busy(u)
           /\ \A u \in Threads \ {Queue} : ~Busy(u)'
           /\ call'[Queue] = [pc |-> "check", id |-> stored.id, state |-> stored.state,
                              reason |-> stored.reason]
  <1>1. \A u \in Threads : ~Busy(u)
    BY DEF Sequential, ScreenOffDelay, Busy, Quiet
  <1>2. /\ call'[Queue] = [pc |-> "check", id |-> stored.id, state |-> stored.state,
                           reason |-> stored.reason]
        /\ \A u \in Threads \ {Queue} : call'[u] = call[u]
    BY DEF ScreenOffDelay, TypeOK
  <1> QED
    BY <1>1, <1>2 DEF Busy, At

LEMMA AloneStep == Sequential /\ TypeOK /\ AloneInv /\ [Next]_vars => AloneInv'
  <1> SUFFICES ASSUME Sequential, TypeOK, AloneInv, [Next]_vars PROVE AloneInv'
    OBVIOUS
  <1> USE DEF serviceVars, screenVars
  <1>1. ASSUME NEW t \in Callers, NEW d \in Displays, NEW s \in RequestStates,
               NEW r \in RequestReasons, SetDisplayState(t, d, s, r)
        PROVE  AloneInv'
    <2>1. UNCHANGED <<tasks, stored>>
      BY <1>1 DEF SetDisplayState
    <2>2. /\ \A u \in Threads \ {t} : call'[u].pc = "idle"
          /\ call'[t].pc = "decide" /\ t # Queue
      <3>1. /\ \A u \in Threads \ {t} : ~Busy(u)'
            /\ call'[t] = [pc |-> "decide", id |-> d, state |-> s, reason |-> r] /\ t # Queue
        BY <1>1, RequestBegins
      <3> QED
        BY <3>1 DEF Busy, At
    <2> QED
      BY <2>1, <2>2 DEF AloneInv, Busy, At
  <1>2. ASSUME NEW t \in Threads, Run(t) PROVE AloneInv'
    <2>1. \A u \in Threads \ {t} : ~Busy(u) /\ ~Busy(u)'
      BY <1>2, OthersIdle
    <2>2. \A u, w \in Threads : Busy(u)' /\ Busy(w)' => u = w
      BY <2>1
    <2>3. tasks' # {} => IsOff(stored'.state)
      <3>1. CASE SubmitDelayTask(t)
        BY <3>1 DEF SubmitDelayTask
      <3>2. CASE ~SubmitDelayTask(t)
        <4>1. tasks' \subseteq tasks /\ UNCHANGED stored
          BY <1>2, <3>2 DEF Run, RunUpdateState, Forward, SetDelayOffState, ReadDelayedOn,
             CancelDelayTask, SetOnState, UpdateState, SkipDms, RequestDms, DmsRefuses,
             AssignState, UndoSetDisplayState
        <4> QED
          BY <4>1 DEF AloneInv
      <3> QED
        BY <3>1, <3>2
    <2>4. \A u \in Threads :
              /\ call'[u].pc \in {"cancel", "setOn"} => call'[u].state = "ON"
              /\ call'[u].pc = "delay" => IsOff(call'[u].state)
      <3>1. /\ call'[t].pc \in {"cancel", "setOn"} => call'[t].state = "ON"
            /\ call'[t].pc = "delay" => IsOff(call'[t].state)
        <4>1. call[t].pc \in PCs
          BY DEF TypeOK
        <4>2. call'[t].pc = "setOn" => call[t].pc = "cancel" /\ call'[t].state = call[t].state
          BY <1>2, <4>1, RunMoves DEF Busy, At, PCs
        <4>3. call'[t].pc \in {"cancel", "delay"} => call'[t].state = call[t].state
          BY <1>2, RunMoves
        <4> QED
          BY <1>2, <4>2, <4>3, RunMoves DEF AloneInv
      <3> QED
        BY <2>1, <3>1 DEF Busy, At
    <2>5. Busy(Queue)' => /\ call'[Queue].pc \in {"check", "request", "assign"}
                          /\ IsOff(call'[Queue].state)
      <3>1. CASE t = Queue
        BY <1>2, <3>1, RunMoves, ConfigAssumption DEF AloneInv, Busy, At
      <3> QED
        BY <2>1, <3>1
    <2> QED
      BY <2>2, <2>3, <2>4, <2>5 DEF AloneInv, At
  <1>3. ASSUME NEW n \in Tasks, ScreenOffDelay(n) PROVE AloneInv'
    <2>1. /\ \A u \in Threads \ {Queue} : call'[u].pc = "idle"
          /\ call'[Queue].pc = "check" /\ call'[Queue].state = stored.state
      BY <1>3, DelayedOffBegins DEF Busy, At
    <2>2. tasks' \subseteq tasks /\ tasks # {} /\ UNCHANGED stored
      BY <1>3 DEF ScreenOffDelay
    <2> QED
      BY <2>1, <2>2 DEF AloneInv, Busy, At
  <1>4. CASE UNCHANGED <<call, tasks, stored>>
    BY <1>4 DEF AloneInv, Busy, At
  <1> QED
    BY <1>1, <1>2, <1>3, <1>4 DEF Next, Environment, OverrideDisplayOffDelay,
       UpdateScreenPowerState, SetCoordinated, DmsCallback, vars

-----------------------------------------------------------------------------
(* The brightness side. *)

\* mState is what was asked for while the request runs; when no request is running, and a lit
\* display may be waiting for its delayed off or being put off, mState has not gone dark before.
FollowInv ==
    /\ \A t \in Callers : Busy(t) => mState = call[t].state
    /\ (\A t \in Callers : ~Busy(t)) /\ IsOn(State) => mState # "OFF"

LEMMA InitFollow == Init => FollowInv
  BY ConfigAssumption DEF Init, FollowInv, Busy, At, IdleCall, State, IsOn

\* A step that lights no display behind a request's back, and leaves none lit when the request
\* that ends asked for OFF.
LEMMA FollowKeeps ==
    ASSUME Sequential, TypeOK, AloneInv, FollowInv, NEW t \in Threads, Run(t), UNCHANGED mState,
           t \notin Callers => (IsOn(State') => IsOn(State)),
           t \in Callers /\ call'[t].pc = "idle" /\ IsOn(State') => call[t].state # "OFF"
    PROVE  FollowInv'
  <1>1. \A u \in Threads \ {t} : ~Busy(u) /\ ~Busy(u)'
    BY OthersIdle
  <1>2. Busy(t) /\ (Busy(t)' => call'[t].state = call[t].state)
    BY RunMoves DEF Busy, At
  <1>3. CASE t \in Callers
    <2>1. mState = call[t].state
      BY <1>2, <1>3 DEF FollowInv
    <2>2. \A u \in Callers : Busy(u)' => mState' = call'[u].state
      BY <1>1, <1>2, <2>1
    <2>3. (\A u \in Callers : ~Busy(u)') /\ IsOn(State') => mState' # "OFF"
      BY <1>3, <2>1 DEF Busy, At
    <2> QED
      BY <2>2, <2>3 DEF FollowInv
  <1>4. CASE t \notin Callers
    <2>1. \A u \in Callers : ~Busy(u) /\ ~Busy(u)'
      BY <1>1, <1>4
    <2> QED
      BY <1>4, <2>1 DEF FollowInv
  <1> QED
    BY <1>3, <1>4

\* With one display every request is for it.
LEMMA OneDisplay ==
    ASSUME SingleDisplay, TypeOK, NEW t \in Threads
    PROVE  call[t].id = MainDisplay /\ MainDisplay \in Displays
  BY ConfigAssumption DEF SingleDisplay, TypeOK

LEMMA FollowStep ==
    SingleDisplay /\ Sequential /\ TypeOK /\ AloneInv /\ FollowInv /\ [Next]_vars => FollowInv'
  <1> SUFFICES ASSUME SingleDisplay, Sequential, TypeOK, AloneInv, FollowInv, [Next]_vars
               PROVE  FollowInv'
    OBVIOUS
  <1> USE DEF serviceVars, screenVars
  <1>1. ASSUME NEW t \in Callers, NEW d \in Displays, NEW s \in RequestStates,
               NEW r \in RequestReasons, SetDisplayState(t, d, s, r)
        PROVE  FollowInv'
    <2>1. call'[t] = [pc |-> "decide", id |-> d, state |-> s, reason |-> r]
      BY <1>1, RequestBegins
    <2>2. mState' = s /\ \A u \in Callers : u = t
      BY <1>1 DEF Sequential, SetDisplayState
    <2> QED
      BY <2>1, <2>2 DEF FollowInv, Busy, At
  <1>2. ASSUME NEW t \in Threads, Run(t) PROVE FollowInv'
    <2> DEFINE c == call[t]
    <2>1. c.id = MainDisplay /\ MainDisplay \in Displays /\ state_ \in [Displays -> States]
      BY OneDisplay DEF TypeOK
    <2>2. CASE \/ Forward(t) \/ SubmitDelayTask(t) \/ ReadDelayedOn(t) \/ CancelDelayTask(t)
               \/ SkipDms(t) \/ RequestDms(t)
      <3>1. UNCHANGED <<mState, state_>>
        BY <2>2 DEF Forward, SubmitDelayTask, ReadDelayedOn, CancelDelayTask, SkipDms, RequestDms
      <3>2. call'[t].pc # "idle"
        BY <2>2, Moves DEF Forward, SubmitDelayTask, ReadDelayedOn, CancelDelayTask, SkipDms,
           RequestDms, PCs
      <3> QED
        BY <1>2, <3>1, <3>2, FollowKeeps DEF State
    <2>3. CASE SetDelayOffState(t)
      <3>1. State' = "DELAY_OFF" /\ UNCHANGED mState
        BY <2>1, <2>3 DEF SetDelayOffState, State
      <3> QED
        BY <1>2, <3>1, FollowKeeps DEF IsOn
    <2>4. CASE SetOnState(t)
      <3>1. UNCHANGED mState /\ At(t, "setOn")
        BY <2>4 DEF SetOnState
      <3>2. c.state = "ON" /\ t # Queue
        BY <3>1 DEF AloneInv, Busy, At
      <3> QED
        BY <1>2, <3>1, <3>2, FollowKeeps
    <2>5. CASE UpdateState(t)
      <3>1. UNCHANGED <<mState, state_>>
        BY <2>5 DEF UpdateState
      <3>2. call'[t].pc = "idle" => Refrains(c.id, c.state, c.reason)
        BY <2>5, Moves DEF UpdateState, PCs
      <3>3. call'[t].pc = "idle" /\ IsOn(State) => c.state # "OFF"
        BY <2>1, <3>2 DEF Refrains, State, IsOn
      <3> QED
        BY <1>2, <3>1, <3>3, FollowKeeps DEF State
    <2>6. CASE DmsRefuses(t)
      <3>1. UNCHANGED <<mState, state_>> /\ Fail(t)
        BY <2>6 DEF DmsRefuses
      <3>2. t \in Callers /\ call'[t].pc = "idle" => c.state # "OFF"
        BY <3>1, Moves DEF Fail, PCs, IsOff
      <3> QED
        BY <1>2, <3>1, <3>2, FollowKeeps DEF State
    <2>7. CASE AssignState(t)
      <3>1. UNCHANGED mState /\ At(t, "assign")
        BY <2>7 DEF AssignState
      <3>2. CASE IsNeedSkipNextProc(c.reason)
        <4>1. UNCHANGED state_ /\ Fail(t)
          BY <2>7, <3>2 DEF AssignState
        <4>2. t \in Callers /\ call'[t].pc = "idle" => c.state # "OFF"
          BY <4>1, Moves DEF Fail, PCs, IsOff
        <4> QED
          BY <1>2, <3>1, <4>1, <4>2, FollowKeeps DEF State
      <3>3. CASE ~IsNeedSkipNextProc(c.reason)
        <4>1. State' = c.state
          BY <2>1, <2>7, <3>3 DEF AssignState, State
        <4>2. t \notin Callers => ~IsOn(State')
          BY <3>1, <4>1 DEF AloneInv, Busy, At, IsOff, IsOn
        <4>3. IsOn(State') => c.state # "OFF"
          BY <4>1 DEF IsOn
        <4> QED
          BY <1>2, <3>1, <4>2, <4>3, FollowKeeps
      <3> QED
        BY <3>2, <3>3
    <2>8. CASE UndoSetDisplayState(t)
      <3>1. mState' = State /\ UNCHANGED state_ /\ call'[t].pc = "idle"
        BY <2>1, <2>8, Returns DEF UndoSetDisplayState, State
      <3>2. \A u \in Threads : ~Busy(u)'
        BY <1>2, <3>1, OthersIdle DEF Busy, At
      <3> QED
        BY <3>1, <3>2 DEF FollowInv, State, IsOn
    <2> QED
      BY <1>2, <2>2, <2>3, <2>4, <2>5, <2>6, <2>7, <2>8 DEF Run, RunUpdateState
  <1>3. ASSUME NEW n \in Tasks, ScreenOffDelay(n) PROVE FollowInv'
    <2>1. UNCHANGED <<mState, state_>>
      BY <1>3 DEF ScreenOffDelay
    <2>2. \A u \in Callers : ~Busy(u) /\ ~Busy(u)'
      BY <1>3, DelayedOffBegins, ConfigAssumption
    <2> QED
      BY <2>1, <2>2 DEF FollowInv, State
  <1>4. CASE UNCHANGED <<call, mState, state_>>
    BY <1>4 DEF FollowInv, Busy, At, State
  <1> QED
    BY <1>1, <1>2, <1>3, <1>4 DEF Sequential, Next, Environment, OverrideDisplayOffDelay,
       UpdateScreenPowerState, SetCoordinated, DmsCallback, vars

\* Requests of any states and reasons one after the other, delayed offs between them, whatever DMS
\* refuses and the render service fails: the brightness side does not take a lit display for dark.
THEOREM BrightnessFollows == SingleDisplay /\ Sequential /\ Spec => []BrightnessFollowsLitScreen
  <1> SUFFICES ASSUME SingleDisplay, Sequential PROVE Spec => []BrightnessFollowsLitScreen
    OBVIOUS
  <1>1. TypeOK /\ AloneInv /\ [Next]_vars => AloneInv'
    BY AloneStep
  <1>2. TypeOK /\ AloneInv /\ FollowInv /\ [Next]_vars => FollowInv'
    BY FollowStep
  <1>3. FollowInv => BrightnessFollowsLitScreen
    BY DEF FollowInv, BrightnessFollowsLitScreen, Busy, Quiet, State
  <1> QED
    BY <1>1, <1>2, <1>3, InitAlone, InitFollow, TypeCorrect, PTL DEF Spec

-----------------------------------------------------------------------------
(* DMS, when it answers before its SetDisplayState returns.  The state of the *)
(* panel and the state the service calls it by then differ only between the   *)
(* answer and the assignment that follows it.                                 *)

Answered == SyncDms /\ "power" \notin Faults
Pending == \E k \in 1 .. MaxDmsCalls : dmsCalls[k] # None

\* DMS owes at most one answer, that of the request which is waiting for it.
AnswerInv ==
    /\ \A k \in 1 .. MaxDmsCalls : dmsCalls[k] # None =>
           LET m == dmsCalls[k] IN
           /\ At(m.by, "assign")
           /\ m.id = call[m.by].id /\ m.state = call[m.by].state
           /\ m.reason = call[m.by].reason
    /\ \A k, l \in 1 .. MaxDmsCalls : dmsCalls[k] # None /\ dmsCalls[l] # None => k = l

LEMMA InitAnswer == Init => AnswerInv
  BY DEF Init, AnswerInv

LEMMA CallsTyped ==
    ASSUME TypeOK, NEW k \in 1 .. MaxDmsCalls, dmsCalls[k] # None
    PROVE  /\ dmsCalls[k].by \in Threads /\ dmsCalls[k].id \in Displays
           /\ dmsCalls[k].state \in States /\ dmsCalls[k].reason \in Reasons
  BY DEF TypeOK, DmsCall

\* Only the thread that waits for it can be the one that runs while an answer is owed.
LEMMA PendingOf ==
    ASSUME TypeOK, AloneInv, AnswerInv, NEW t \in Threads, Busy(t),
           NEW k \in 1 .. MaxDmsCalls, dmsCalls[k] # None
    PROVE  dmsCalls[k].by = t /\ At(t, "assign")
  BY CallsTyped DEF AnswerInv, AloneInv, Busy, At

\* Whoever runs is owed no answer.
LEMMA RunsAnswered ==
    ASSUME Answered, TypeOK, AloneInv, AnswerInv, NEW t \in Threads, Run(t)
    PROVE  ~Pending
  <1>1. SUFFICES ASSUME NEW k \in 1 .. MaxDmsCalls, dmsCalls[k] # None PROVE FALSE
    BY DEF Pending
  <1>2. dmsCalls[k].by = t /\ At(t, "assign")
    BY <1>1, RunMoves, PendingOf
  <1>3. AssignState(t)
    BY <1>2 DEF Run, RunUpdateState, At, Forward, SubmitDelayTask, SetDelayOffState,
       ReadDelayedOn, CancelDelayTask, SetOnState, UpdateState, SkipDms, RequestDms, DmsRefuses,
       UndoSetDisplayState
  <1> QED
    BY <1>1, <1>2, <1>3 DEF AssignState, Answered

LEMMA AnswerStep ==
    Sequential /\ Answered /\ TypeOK /\ AloneInv /\ AnswerInv /\ [Next]_vars => AnswerInv'
  <1> SUFFICES ASSUME Sequential, Answered, TypeOK, AloneInv, AnswerInv, [Next]_vars
               PROVE  AnswerInv'
    OBVIOUS
  <1> USE DEF serviceVars, screenVars
  <1>a. ASSUME ~Pending, UNCHANGED dmsCalls PROVE AnswerInv'
    BY <1>a DEF Pending, AnswerInv
  <1>1. ASSUME NEW t \in Callers, NEW d \in Displays, NEW s \in RequestStates,
               NEW r \in RequestReasons, SetDisplayState(t, d, s, r)
        PROVE  AnswerInv'
    <2>1. ~Pending
      BY <1>1, RequestBegins, CallsTyped DEF Pending, AnswerInv, Busy, At
    <2> QED
      BY <1>1, <1>a, <2>1 DEF SetDisplayState
  <1>2. ASSUME NEW t \in Threads, Run(t) PROVE AnswerInv'
    <2>1. ~Pending
      BY <1>2, RunsAnswered
    <2>2. CASE RequestDms(t)
      <3>1. PICK k \in 1 .. MaxDmsCalls :
                dmsCalls' = [dmsCalls EXCEPT ![k] =
                    [by |-> t, id |-> call[t].id, state |-> call[t].state,
                     reason |-> call[t].reason]]
        BY <2>2 DEF RequestDms
      <3>2. /\ dmsCalls'[k] = [by |-> t, id |-> call[t].id, state |-> call[t].state,
                               reason |-> call[t].reason]
            /\ \A l \in 1 .. MaxDmsCalls : l # k => dmsCalls'[l] = None
        BY <2>1, <3>1 DEF Pending, TypeOK
      <3>3. /\ call'[t].pc = "assign" /\ call'[t].id = call[t].id
            /\ call'[t].state = call[t].state /\ call'[t].reason = call[t].reason
        BY <2>2, Moves DEF RequestDms, PCs
      <3> QED
        BY <3>2, <3>3 DEF AnswerInv, At
    <2>3. CASE ~RequestDms(t)
      <3>1. UNCHANGED dmsCalls
        BY <1>2, <2>3 DEF Run, RunUpdateState, Forward, SubmitDelayTask, SetDelayOffState,
           ReadDelayedOn, CancelDelayTask, SetOnState, UpdateState, SkipDms, DmsRefuses,
           AssignState, UndoSetDisplayState
      <3> QED
        BY <1>a, <2>1, <3>1
    <2> QED
      BY <2>2, <2>3
  <1>3. ASSUME NEW n \in Tasks, ScreenOffDelay(n) PROVE AnswerInv'
    <2>1. ~Pending
      BY <1>3, DelayedOffBegins, CallsTyped DEF Pending, AnswerInv, Busy, At
    <2> QED
      BY <1>3, <1>a, <2>1 DEF ScreenOffDelay
  <1>4. ASSUME NEW k \in 1 .. MaxDmsCalls, DmsCallback(k) PROVE AnswerInv'
    <2>1. /\ UNCHANGED call /\ dmsCalls'[k] = None
          /\ \A l \in 1 .. MaxDmsCalls : l # k => dmsCalls'[l] = dmsCalls[l]
      BY <1>4 DEF DmsCallback, TypeOK
    <2> QED
      BY <2>1 DEF AnswerInv, At
  <1>5. CASE UNCHANGED <<call, dmsCalls>>
    BY <1>5 DEF AnswerInv, At
  <1> QED
    BY <1>1, <1>2, <1>3, <1>4, <1>5 DEF Next, Environment, OverrideDisplayOffDelay,
       UpdateScreenPowerState, SetCoordinated, vars

\* What an answer of DMS does to the main display, when the render service obeys.
LEMMA Answers ==
    ASSUME Answered, TypeOK, NEW s, NEW r, OnStateChanged(MainDisplay, s, r)
    PROVE  /\ Panel' = s
           /\ ~Silent(MainDisplay, s, r) /\ s = "ON" => lit'
           /\ lit /\ s # "OFF" => lit'
  <1>1. MainDisplay \in Displays /\ MainDisplay \in PowerTargets(MainDisplay, r)
    BY ConfigAssumption DEF PowerTargets
  <1>2. /\ panel' = [x \in Displays |-> IF x \in PowerTargets(MainDisplay, r) THEN s ELSE panel[x]]
        /\ lit' = \/ ~Silent(MainDisplay, s, r) /\ s = "ON"
                  \/ lit /\ panel'[MainDisplay] # "OFF"
    BY DEF OnStateChanged, Answered
  <1>3. Panel' = s
    BY <1>1, <1>2 DEF Panel
  <1> QED
    BY <1>2, <1>3 DEF Panel

\* The answer belongs to the request that waits for it, and is the last one owed.
LEMMA CallbackAnswers ==
    ASSUME TypeOK, AloneInv, AnswerInv,
           NEW k \in 1 .. MaxDmsCalls, DmsCallback(k)
    PROVE  \E t \in Threads :
               /\ At(t, "assign") /\ Pending /\ ~Pending'
               /\ OnStateChanged(call[t].id, call[t].state, call[t].reason)
               /\ UNCHANGED <<call, state_, mState, serviceVars>>
  <1> DEFINE t == dmsCalls[k].by
  <1>1. dmsCalls[k] # None
    BY DEF DmsCallback
  <1>2. t \in Threads
    BY <1>1, CallsTyped
  <1>3. /\ At(t, "assign") /\ dmsCalls[k].id = call[t].id
        /\ dmsCalls[k].state = call[t].state /\ dmsCalls[k].reason = call[t].reason
    BY <1>1 DEF AnswerInv
  <1>4. ~Pending'
    BY <1>1 DEF AnswerInv, Pending, DmsCallback, TypeOK
  <1>5. OnStateChanged(call[t].id, call[t].state, call[t].reason)
    BY <1>3 DEF DmsCallback
  <1>6. Pending /\ UNCHANGED <<call, state_, mState, serviceVars>>
    BY <1>1 DEF Pending, DmsCallback
  <1> QED
    BY <1>2, <1>3, <1>4, <1>5, <1>6

-----------------------------------------------------------------------------
(* A display that is OFF is dark. *)

NoPreBright == \A r \in RequestReasons : ~IsPreBright(r)

\* Between the answer and the assignment the panel may be on while the state is still OFF, and
\* has gone off before the state says so.
DarkInv ==
    /\ ~IsPreBright(stored.reason)
    /\ \A t \in Threads : Busy(t) => ~IsPreBright(call[t].reason)
    /\ State = "OFF" /\ Panel = "ON" =>
           \E t \in Threads : At(t, "assign") /\ call[t].state = "ON" /\ ~Pending
    /\ \A t \in Threads :
           At(t, "assign") /\ call[t].state = "OFF" /\ ~Pending => Panel # "ON"

LEMMA InitDark == Init => DarkInv
  BY ConfigAssumption DEF Init, DarkInv, Busy, At, IdleCall, State, Panel, IsPreBright

LEMMA DarkStep ==
    ASSUME SingleDisplay, Sequential, Answered, NoPreBright, TypeOK, AloneInv, AnswerInv,
           DarkInv, [Next]_vars
    PROVE  DarkInv'
  <1> USE DEF serviceVars, screenVars
  <1>1. ASSUME NEW t \in Callers, NEW d \in Displays, NEW s \in RequestStates,
               NEW r \in RequestReasons, SetDisplayState(t, d, s, r)
        PROVE  DarkInv'
    <2>1. /\ \A u \in Threads : ~Busy(u)
          /\ \A u \in Threads \ {t} : ~Busy(u)'
          /\ call'[t] = [pc |-> "decide", id |-> d, state |-> s, reason |-> r]
      BY <1>1, RequestBegins
    <2>2. UNCHANGED <<state_, panel, stored>>
      BY <1>1 DEF SetDisplayState
    <2> QED
      BY <2>1, <2>2 DEF NoPreBright, DarkInv, Busy, At, State, Panel
  <1>2. ASSUME NEW t \in Threads, Run(t) PROVE DarkInv'
    <2> DEFINE c == call[t]
    <2>1. /\ \A u \in Threads \ {t} : ~Busy(u) /\ ~Busy(u)'
          /\ ~Pending /\ Busy(t) /\ ~IsPreBright(c.reason)
          /\ (Busy(t)' => call'[t].state = c.state /\ call'[t].reason = c.reason)
      BY <1>2, OthersIdle, RunsAnswered, RunMoves DEF DarkInv, Busy, At
    <2>2. c.id = MainDisplay /\ MainDisplay \in Displays /\ state_ \in [Displays -> States]
      BY OneDisplay DEF TypeOK
    <2>3. \A u \in Threads : Busy(u)' => ~IsPreBright(call'[u].reason)
      BY <2>1
    <2>4. CASE AssignState(t)
      <3>1. State' = c.state /\ call'[t].pc = "idle" /\ UNCHANGED <<panel, stored>>
        BY <2>1, <2>2, <2>4, Returns DEF AssignState, IsNeedSkipNextProc, IsPreBright, State
      <3>2. At(t, "assign")
        BY <2>4 DEF AssignState
      <3>3. State' = "OFF" => Panel' # "ON"
        BY <2>1, <3>1, <3>2 DEF DarkInv, Panel
      <3> QED
        BY <2>1, <2>3, <3>1, <3>3 DEF DarkInv, Busy, At
    <2>5. CASE ~AssignState(t)
      <3>1. ~At(t, "assign")
        BY <1>2, <2>5 DEF Run, RunUpdateState, At, Forward, SubmitDelayTask, SetDelayOffState,
           ReadDelayedOn, CancelDelayTask, SetOnState, UpdateState, SkipDms, RequestDms,
           DmsRefuses, UndoSetDisplayState
      <3>2. ~(State = "OFF" /\ Panel = "ON")
        BY <2>1, <3>1 DEF DarkInv, Busy, At
      <3>3. ~SkipDms(t)
        BY <2>1 DEF SkipDms, EnableSkipSetDisplayState, IsPreBright
      <3>4. UNCHANGED panel /\ (State' = State \/ State' # "OFF")
        BY <1>2, <2>2, <2>5, <3>3 DEF Run, RunUpdateState, Forward, SubmitDelayTask,
           SetDelayOffState, ReadDelayedOn, CancelDelayTask, SetOnState, UpdateState, RequestDms,
           DmsRefuses, UndoSetDisplayState, State
      <3>5. ~IsPreBright(stored'.reason)
        <4>1. CASE SubmitDelayTask(t)
          BY <2>1, <4>1 DEF SubmitDelayTask
        <4>2. CASE ~SubmitDelayTask(t)
          <5>1. UNCHANGED stored
            BY <1>2, <2>5, <4>2 DEF Run, RunUpdateState, Forward, SetDelayOffState, ReadDelayedOn,
               CancelDelayTask, SetOnState, UpdateState, SkipDms, RequestDms, DmsRefuses,
               UndoSetDisplayState
          <5> QED
            BY <5>1 DEF DarkInv
        <4> QED
          BY <4>1, <4>2
      <3>6. call'[t].pc = "assign" /\ c.state = "OFF" => Pending'
        <4>1. CASE UpdateState(t)
          BY <4>1, Moves, Returns DEF UpdateState, NeedsDms, PCs
        <4>2. CASE RequestDms(t)
          <5>1. PICK k \in 1 .. MaxDmsCalls :
                    dmsCalls' = [dmsCalls EXCEPT ![k] =
                        [by |-> t, id |-> c.id, state |-> c.state, reason |-> c.reason]]
            BY <4>2 DEF RequestDms
          <5>2. c \in [pc : PCs, id : Displays, state : States, reason : Reasons]
            BY DEF TypeOK
          <5>3. dmsCalls'[k] \in DmsCall
            BY <5>1, <5>2 DEF TypeOK, DmsCall
          <5> QED
            BY <5>3, NoneAssumption DEF Pending
        <4>3. CASE ~UpdateState(t) /\ ~RequestDms(t)
          <5>1. ~At(t, "check")
            BY <1>2, <4>3 DEF Run, RunUpdateState, At, Forward, SubmitDelayTask,
               SetDelayOffState, ReadDelayedOn, CancelDelayTask, SetOnState, SkipDms, DmsRefuses,
               AssignState, UndoSetDisplayState
          <5>2. CASE DmsRefuses(t)
            BY <5>2, Moves, Returns DEF DmsRefuses, Fail, PCs
          <5>3. CASE ~DmsRefuses(t)
            <6>1. ~At(t, "request")
              BY <1>2, <3>3, <4>3, <5>3 DEF Run, RunUpdateState, At, Forward, SubmitDelayTask,
                 SetDelayOffState, ReadDelayedOn, CancelDelayTask, SetOnState, AssignState,
                 UndoSetDisplayState
            <6>2. c.pc \in PCs /\ c.pc # "idle"
              BY <2>1 DEF TypeOK, Busy, At
            <6> QED
              BY <1>2, <3>1, <5>1, <6>1, <6>2, RunMoves DEF At, PCs
          <5> QED
            BY <5>2, <5>3
        <4> QED
          BY <4>1, <4>2, <4>3
      <3> QED
        BY <2>1, <2>3, <3>2, <3>4, <3>5, <3>6 DEF DarkInv, Busy, At, Panel
    <2> QED
      BY <2>4, <2>5
  <1>3. ASSUME NEW n \in Tasks, ScreenOffDelay(n) PROVE DarkInv'
    <2>1. /\ \A u \in Threads : ~Busy(u)
          /\ \A u \in Threads \ {Queue} : ~Busy(u)'
          /\ call'[Queue] = [pc |-> "check", id |-> stored.id, state |-> stored.state,
                             reason |-> stored.reason]
      BY <1>3, DelayedOffBegins
    <2>2. UNCHANGED <<state_, panel, stored>>
      BY <1>3 DEF ScreenOffDelay
    <2> QED
      BY <2>1, <2>2 DEF DarkInv, Busy, At, State, Panel
  <1>4. ASSUME NEW k \in 1 .. MaxDmsCalls, DmsCallback(k) PROVE DarkInv'
    <2>0. PICK t \in Threads :
              /\ At(t, "assign") /\ Pending /\ ~Pending'
              /\ OnStateChanged(call[t].id, call[t].state, call[t].reason)
              /\ UNCHANGED <<call, state_, mState, serviceVars>>
      BY <1>4, CallbackAnswers
    <2>1. /\ At(t, "assign") /\ Pending /\ ~Pending' /\ call[t].id = MainDisplay
          /\ OnStateChanged(MainDisplay, call[t].state, call[t].reason)
          /\ UNCHANGED <<call, state_, mState, serviceVars>>
      BY <2>0, OneDisplay
    <2>2. Panel' = call[t].state
      BY <2>1, Answers
    <2>3. \A u \in Threads : At(u, "assign") => u = t
      BY <2>1 DEF AloneInv, Busy, At
    <2>4. /\ ~IsPreBright(stored'.reason)
          /\ \A u \in Threads : Busy(u)' => ~IsPreBright(call'[u].reason)
      BY <2>1 DEF DarkInv, Busy, At
    <2>5. Panel' = "ON" => At(t, "assign")' /\ call'[t].state = "ON" /\ ~Pending'
      BY <2>1, <2>2 DEF At
    <2>6. \A u \in Threads :
              At(u, "assign")' /\ call'[u].state = "OFF" /\ ~Pending' => Panel' # "ON"
      BY <2>1, <2>2, <2>3 DEF At
    <2> QED
      BY <2>4, <2>5, <2>6 DEF DarkInv
  <1>5. CASE UNCHANGED <<call, dmsCalls, state_, panel, stored>>
    BY <1>5 DEF DarkInv, Busy, At, State, Panel, Pending
  <1> QED
    BY <1>1, <1>2, <1>3, <1>4, <1>5 DEF Sequential, Next, Environment, OverrideDisplayOffDelay,
       UpdateScreenPowerState, SetCoordinated, vars

\* Any states may be asked for, and refused, with delayed offs armed at any time: as long as nobody
\* pre-brightens, a display the service calls OFF has not stayed powered.
THEOREM OffIsDark ==
    SingleDisplay /\ Sequential /\ Answered /\ NoPreBright /\ Spec => []OffMeansDark
  <1> SUFFICES ASSUME SingleDisplay, Sequential, Answered, NoPreBright PROVE Spec => []OffMeansDark
    OBVIOUS
  <1>1. TypeOK /\ AloneInv /\ [Next]_vars => AloneInv'
    BY AloneStep
  <1>2. TypeOK /\ AloneInv /\ AnswerInv /\ [Next]_vars => AnswerInv'
    BY AnswerStep
  <1>3. TypeOK /\ AloneInv /\ AnswerInv /\ DarkInv /\ [Next]_vars => DarkInv'
    BY DarkStep
  <1>4. DarkInv => OffMeansDark
    BY DEF SingleDisplay, DarkInv, OffMeansDark, Settled, Quiet, At, State, Panel
  <1> QED
    BY <1>1, <1>2, <1>3, <1>4, InitAlone, InitAnswer, InitDark, TypeCorrect, PTL DEF Spec

-----------------------------------------------------------------------------
(* A display that is on is powered and has its brightness back. *)

\* An on forwards a lit display, DIM a sleeping one, without DMS: not both are asked for.
Handled ==
    RequestStates \subseteq {"OFF", "ON", "DIM"} \/ RequestStates \subseteq {"OFF", "ON", "DOZE"}

Awake == State \in {"ON", "DIM", "DELAY_OFF"}
Lit == Panel = "ON" /\ lit

\* What a request that runs knows: a pre-bright one of the panel it was made for, one that passed
\* UpdateState's checks that they still hold, and under an armed delay only DIM comes so far.
Asked(t) ==
    LET c == call[t] IN
    /\ c.state \in RequestStates
    /\ IsPreBright(c.reason) =>
           /\ state_[c.id] = "OFF"
           /\ c.state = IF c.reason = "PRE_BRIGHT_AUTH_FAIL_SCREEN_OFF" THEN "OFF" ELSE "ON"
    /\ c.pc \in {"request", "assign"} => ~Refrains(c.id, c.state, c.reason)
    /\ c.pc = "request" \/ (c.pc = "assign" /\ Pending) => NeedsDms(c.id, c.state)
    /\ c.pc \in {"check", "request", "assign"} /\ isDisplayDelayOff_ => c.state = "DIM"

AskInv ==
    /\ State \in RequestStates \cup {"ON", "OFF", "DELAY_OFF"}
    /\ isDisplayDelayOff_ => Awake
    /\ tasks # {} => ~IsPreBright(stored.reason) /\ stored.state \in RequestStates
    /\ \A t \in Threads : Busy(t) => Asked(t)

LEMMA InitAsk == Init => AskInv
  BY ConfigAssumption DEF Init, AskInv, Busy, At, IdleCall, State

LEMMA AskRunStep ==
    ASSUME SingleDisplay, Sequential, Answered, Handled, TypeOK, AloneInv, AnswerInv, AskInv,
           NEW t \in Threads, Run(t)
    PROVE  AskInv'
  <1> USE DEF serviceVars, screenVars
  <1> DEFINE c == call[t]
  <1>1. /\ \A u \in Threads \ {t} : ~Busy(u) /\ ~Busy(u)'
        /\ ~Pending /\ Busy(t) /\ Asked(t)
        /\ c.id = MainDisplay /\ MainDisplay \in Displays /\ state_ \in [Displays -> States]
        /\ call'[t].pc # "idle" => call'[t].id = MainDisplay
    BY OthersIdle, RunsAnswered, RunMoves, OneDisplay DEF AskInv, TypeOK
  <1>a. ASSUME Busy(t)' => Asked(t)',
               State' \in RequestStates \cup {"ON", "OFF", "DELAY_OFF"},
               isDisplayDelayOff_' => Awake',
               tasks' \subseteq tasks, UNCHANGED stored
        PROVE  AskInv'
    BY <1>1, <1>a DEF AskInv
  <1>b. ASSUME Busy(t)' => Asked(t)', UNCHANGED <<state_, stored>>,
               isDisplayDelayOff_' => isDisplayDelayOff_, tasks' \subseteq tasks
        PROVE  AskInv'
    BY <1>1, <1>b DEF AskInv, State, Awake
  <1>2. CASE Forward(t)
    <2>1. /\ UNCHANGED <<state_, isDisplayDelayOff_, tasks, stored>>
          /\ isDisplayDelayOff_ => ~IsOff(c.state) /\ c.state # "ON"
      BY <1>2 DEF Forward
    <2>2. call'[t].pc = "check" /\ call'[t].state = c.state /\ call'[t].reason = c.reason
      BY <1>2, Moves DEF Forward, PCs
    <2>3. isDisplayDelayOff_ => c.state = "DIM"
      BY <1>1, <2>1 DEF Asked, Handled, IsOff
    <2> QED
      BY <1>1, <1>b, <2>1, <2>2, <2>3 DEF Asked, State
  <1>3. CASE SubmitDelayTask(t)
    <2>1. /\ UNCHANGED <<state_, isDisplayDelayOff_>> /\ isDisplayDelayOff_
          /\ stored' = [id |-> c.id, state |-> c.state, reason |-> c.reason]
      BY <1>3 DEF SubmitDelayTask
    <2>2. call'[t].pc = "delay" /\ call'[t].state = c.state /\ call'[t].reason = c.reason
      BY <1>3, Moves DEF SubmitDelayTask, PCs
    <2>3. ~IsPreBright(c.reason)
      BY <1>1, <2>1 DEF AskInv, Asked, Awake, State
    <2> QED
      BY <1>1, <2>1, <2>2, <2>3 DEF AskInv, Asked, State, Awake
  <1>4. CASE ReadDelayedOn(t) \/ CancelDelayTask(t)
    <2>1. /\ UNCHANGED <<state_, stored>> /\ tasks' \subseteq tasks
          /\ isDisplayDelayOff_' => isDisplayDelayOff_
      BY <1>4 DEF ReadDelayedOn, CancelDelayTask
    <2>2. /\ call'[t].pc \in {"cancel", "setOn"}
          /\ call'[t].state = c.state /\ call'[t].reason = c.reason
      BY <1>4, Moves DEF ReadDelayedOn, CancelDelayTask, PCs
    <2> QED
      BY <1>1, <1>b, <2>1, <2>2 DEF Asked, State
  <1>5. CASE SetDelayOffState(t) \/ SetOnState(t)
    <2>1. State' \in {"DELAY_OFF", "ON"} /\ UNCHANGED <<tasks, stored>>
      BY <1>1, <1>5 DEF SetDelayOffState, SetOnState, State
    <2>2. ~Busy(t)'
      BY <1>5, Returns DEF SetDelayOffState, SetOnState, Busy, At
    <2> QED
      BY <1>a, <2>1, <2>2 DEF Awake
  <1>6. CASE UpdateState(t)
    <2>1. /\ UNCHANGED <<state_, isDisplayDelayOff_, tasks, stored, dmsCalls>> /\ At(t, "check")
          /\ \/ Return(t)
             \/ /\ ~Refrains(MainDisplay, c.state, c.reason)
                /\ Goto(t, IF NeedsDms(MainDisplay, c.state) THEN "request" ELSE "assign")
      BY <1>1, <1>6 DEF UpdateState
    <2>2. CASE Return(t)
      BY <1>b, <2>1, <2>2, Returns DEF Busy, At
    <2>3. CASE /\ ~Refrains(MainDisplay, c.state, c.reason)
               /\ Goto(t, IF NeedsDms(MainDisplay, c.state) THEN "request" ELSE "assign")
      <3>1. /\ call'[t].state = c.state /\ call'[t].reason = c.reason
            /\ call'[t].pc = IF NeedsDms(MainDisplay, c.state) THEN "request" ELSE "assign"
        BY <2>3, Moves DEF PCs
      <3>2. ~Pending'
        BY <1>1, <2>1 DEF Pending
      <3>3. Asked(t)'
        BY <1>1, <2>1, <2>3, <3>1, <3>2 DEF Asked, At, State, Refrains, NeedsDms
      <3> QED
        BY <1>b, <2>1, <3>3
    <2> QED
      BY <2>1, <2>2, <2>3
  <1>7. CASE SkipDms(t) \/ RequestDms(t)
    <2>1. /\ UNCHANGED <<state_, isDisplayDelayOff_, tasks, stored>> /\ At(t, "request")
      BY <1>7 DEF SkipDms, RequestDms
    <2>2. call'[t].pc = "assign" /\ call'[t].state = c.state /\ call'[t].reason = c.reason
      BY <1>7, Moves DEF SkipDms, RequestDms, PCs
    <2>3. Asked(t)'
      BY <1>1, <2>1, <2>2 DEF Asked, At, State, Refrains, NeedsDms
    <2> QED
      BY <1>b, <2>1, <2>3
  <1>8. CASE DmsRefuses(t)
    <2>1. UNCHANGED <<state_, isDisplayDelayOff_, tasks, stored>> /\ Fail(t)
      BY <1>8 DEF DmsRefuses
    <2>2. \/ ~Busy(t)'
          \/ call'[t].pc = "undo" /\ call'[t].state = c.state /\ call'[t].reason = c.reason
      BY <2>1, Moves, Returns DEF Fail, Busy, At, PCs
    <2>3. Busy(t)' => Asked(t)'
      BY <1>1, <2>1, <2>2 DEF Asked, State
    <2> QED
      BY <1>b, <2>1, <2>3
  <1>9. CASE AssignState(t)
    <2>1. UNCHANGED <<isDisplayDelayOff_, tasks, stored>> /\ At(t, "assign")
      BY <1>9 DEF AssignState
    <2>2. CASE IsNeedSkipNextProc(c.reason)
      <3>1. UNCHANGED state_ /\ Fail(t)
        BY <1>9, <2>2 DEF AssignState
      <3>2. \/ ~Busy(t)'
            \/ call'[t].pc = "undo" /\ call'[t].state = c.state /\ call'[t].reason = c.reason
        BY <3>1, Moves, Returns DEF Fail, Busy, At, PCs
      <3>3. Busy(t)' => Asked(t)'
        BY <1>1, <3>1, <3>2 DEF Asked, State
      <3> QED
        BY <1>b, <2>1, <3>1, <3>3
    <2>3. CASE ~IsNeedSkipNextProc(c.reason)
      <3>1. State' = c.state /\ ~Busy(t)'
        BY <1>1, <1>9, <2>3, Returns DEF AssignState, State, Busy, At
      <3>2. isDisplayDelayOff_ => c.state = "DIM"
        BY <1>1, <2>1 DEF Asked, At
      <3>3. c.state \in RequestStates
        BY <1>1 DEF Asked
      <3> QED
        BY <1>a, <2>1, <3>1, <3>2, <3>3 DEF Awake
    <2> QED
      BY <2>2, <2>3
  <1>10. CASE UndoSetDisplayState(t)
    <2>1. UNCHANGED <<state_, isDisplayDelayOff_, tasks, stored>>
      BY <1>10 DEF UndoSetDisplayState
    <2>2. ~Busy(t)'
      BY <1>10, Returns DEF UndoSetDisplayState, Busy, At
    <2> QED
      BY <1>b, <2>1, <2>2
  <1> QED
    BY <1>2, <1>3, <1>4, <1>5, <1>6, <1>7, <1>8, <1>9, <1>10 DEF Run, RunUpdateState

LEMMA AskStep ==
    ASSUME SingleDisplay, Sequential, Answered, Handled, PreBrightInOrder,
           Disciplined \/ ~DelayUsed, TypeOK, AloneInv, AnswerInv, AskInv, [Next]_vars
    PROVE  AskInv'
  <1> USE DEF serviceVars, screenVars
  <1>1. ASSUME NEW t \in Callers, NEW d \in Displays, NEW s \in RequestStates,
               NEW r \in RequestReasons, SetDisplayState(t, d, s, r)
        PROVE  AskInv'
    <2>1. /\ \A u \in Threads \ {t} : ~Busy(u)'
          /\ call'[t] = [pc |-> "decide", id |-> d, state |-> s, reason |-> r]
          /\ d = MainDisplay
      BY <1>1, RequestBegins DEF SingleDisplay
    <2>2. UNCHANGED <<state_, isDisplayDelayOff_, tasks, stored>> /\ Sensible(d, s, r)
      BY <1>1 DEF SetDisplayState
    <2>3. r \in Reasons
      BY ConfigAssumption
    <2>4. Asked(t)'
      BY <2>1, <2>2, <2>3 DEF Asked, Sensible, State, IsPreBright, Reasons
    <2> QED
      BY <2>1, <2>2, <2>4 DEF AskInv, State, Awake
  <1>2. ASSUME NEW t \in Threads, Run(t) PROVE AskInv'
    BY <1>2, AskRunStep
  <1>3. ASSUME NEW n \in Tasks, ScreenOffDelay(n) PROVE AskInv'
    <2>1. /\ \A u \in Threads \ {Queue} : ~Busy(u)'
          /\ call'[Queue] = [pc |-> "check", id |-> stored.id, state |-> stored.state,
                             reason |-> stored.reason]
      BY <1>3, DelayedOffBegins
    <2>2. /\ UNCHANGED <<state_, stored>> /\ tasks' \subseteq tasks /\ tasks # {}
          /\ isDisplayDelayOff_' = FALSE
      BY <1>3 DEF ScreenOffDelay
    <2>3. Asked(Queue)'
      BY <2>1, <2>2 DEF Asked, AskInv
    <2> QED
      BY <2>1, <2>2, <2>3 DEF AskInv, State
  <1>4. ASSUME NEW k \in 1 .. MaxDmsCalls, DmsCallback(k) PROVE AskInv'
    <2>1. Pending /\ ~Pending' /\ UNCHANGED <<call, state_, mState, serviceVars>>
      BY <1>4, CallbackAnswers
    <2> QED
      BY <2>1 DEF AskInv, Asked, Busy, At, State, Awake, Refrains, NeedsDms
  <1>5. ASSUME NEW isSet \in BOOLEAN, OverrideDisplayOffDelay(isSet) PROVE AskInv'
    <2>1. /\ isDisplayDelayOff_' => isSet /\ State = "ON"
          /\ UNCHANGED <<call, state_, tasks, stored, dmsCalls>>
          /\ isSet => \A u \in Threads : ~Busy(u)
      BY <1>5 DEF OverrideDisplayOffDelay, NothingInProgress, Quiet, Busy, State
    <2>2. CASE isDisplayDelayOff_'
      BY <2>1, <2>2 DEF AskInv, Busy, At, State, Awake
    <2>3. CASE ~isDisplayDelayOff_'
      BY <2>1, <2>3 DEF AskInv, Asked, Busy, At, State, Awake, Refrains, NeedsDms, Pending
    <2> QED
      BY <2>2, <2>3
  <1>6. CASE UNCHANGED <<call, dmsCalls, state_, tasks, stored, isDisplayDelayOff_>>
    BY <1>6 DEF AskInv, Asked, Busy, At, State, Awake, Refrains, NeedsDms, Pending
  <1> QED
    BY <1>1, <1>2, <1>3, <1>4, <1>5, <1>6 DEF Sequential, Next, Environment,
       UpdateScreenPowerState, SetCoordinated, vars

\* DMS has answered the request of t, and state_ is not assigned yet.
HasAnswer(t) == At(t, "assign") /\ ~Pending /\ NeedsDms(call[t].id, call[t].state)

\* OnMeansPowered and OnMeansLit speak of what is settled.  Before, a display in DELAY_OFF, or on
\* its way to ON without DMS, is lit all the time, and an answered request has already done to
\* the panel what it will say of the state.
LitInv ==
    /\ (\A t \in Threads : ~HasAnswer(t)) => (Awake => Lit)
    /\ \A t \in Threads :
           /\ call[t].pc \in {"delay", "cancel", "setOn"} => Lit
           /\ HasAnswer(t) =>
                  /\ Panel = call[t].state
                  /\ call[t].state = "ON" /\ call[t].reason # "PRE_BRIGHT" => lit

LEMMA InitLit == Init => LitInv
  <1> SUFFICES ASSUME Init PROVE LitInv
    OBVIOUS
  <1>1. \A t \in Threads : call[t].pc = "idle"
    BY DEF Init, IdleCall
  <1>2. State \in {"ON", "OFF"} /\ Panel = State
    BY ConfigAssumption DEF Init, State, Panel
  <1>3. lit = (State = "ON")
    BY DEF Init, State
  <1>4. State = "ON" => lit
    BY <1>3, Zenon
  <1> QED
    BY <1>1, <1>2, <1>4 DEF LitInv, Awake, Lit, HasAnswer, At

\* What an answer does to a display that was not on: it is what was asked for, and lit if that
\* was an on which is to last.
LEMMA AnswerLights ==
    ASSUME SingleDisplay, Answered, TypeOK, AskInv, NEW t \in Threads, Busy(t),
           call[t].pc \in {"request", "assign"}, NeedsDms(MainDisplay, call[t].state),
           OnStateChanged(MainDisplay, call[t].state, call[t].reason)
    PROVE  /\ Panel' = call[t].state
           /\ call[t].state = "ON" /\ call[t].reason # "PRE_BRIGHT" => lit'
  <1> DEFINE c == call[t]
  <1>1. ~Refrains(MainDisplay, c.state, c.reason) /\ Asked(t)
    BY OneDisplay DEF AskInv, Asked
  <1>2. ASSUME c.state = "ON", c.reason # "PRE_BRIGHT" PROVE ~Silent(MainDisplay, c.state, c.reason)
    <2>1. c.reason # "PRE_BRIGHT_AUTH_FAIL_SCREEN_OFF"
      BY <1>1, <1>2 DEF Asked, IsPreBright
    <2>2. State \notin {"ON", "DIM"}
      BY <1>1, <1>2, <2>1 DEF Refrains, NeedsDms, State
    <2> QED
      BY <1>2, <2>2 DEF Silent, SkipNotify, IsOn, State
  <1> QED
    BY <1>2, Answers

LEMMA RequestPends ==
    ASSUME TypeOK, NEW t \in Threads, RequestDms(t)
    PROVE  Pending'
  <1> DEFINE c == call[t]
  <1>1. PICK k \in 1 .. MaxDmsCalls :
            dmsCalls' = [dmsCalls EXCEPT ![k] =
                [by |-> t, id |-> c.id, state |-> c.state, reason |-> c.reason]]
    BY DEF RequestDms
  <1>2. c \in [pc : PCs, id : Displays, state : States, reason : Reasons]
    BY DEF TypeOK
  <1>3. dmsCalls'[k] \in DmsCall
    BY <1>1, <1>2 DEF TypeOK, DmsCall
  <1> QED
    BY <1>3, NoneAssumption DEF Pending

LEMMA LitRunStep ==
    ASSUME SingleDisplay, Sequential, Answered, Handled, TypeOK, AloneInv, AnswerInv, AskInv,
           LitInv, NEW t \in Threads, Run(t)
    PROVE  LitInv'
  <1> USE DEF serviceVars, screenVars
  <1> DEFINE c == call[t]
  <1>1. /\ \A u \in Threads \ {t} : ~Busy(u) /\ ~Busy(u)'
        /\ ~Pending /\ Busy(t) /\ Asked(t)
        /\ c.id = MainDisplay /\ MainDisplay \in Displays /\ state_ \in [Displays -> States]
        /\ call'[t].pc # "idle" => call'[t].id = MainDisplay
    BY OthersIdle, RunsAnswered, RunMoves, OneDisplay DEF AskInv, TypeOK
  <1>2. \A u \in Threads \ {t} : ~HasAnswer(u) /\ ~HasAnswer(u)' /\ call'[u].pc = "idle"
    BY <1>1 DEF HasAnswer, Busy, At
  <1>a. ASSUME ~HasAnswer(t)', Awake' => Lit', call'[t].pc \in {"delay", "cancel", "setOn"} => Lit'
        PROVE  LitInv'
    BY <1>2, <1>a DEF LitInv
  <1>b. ASSUME ~At(t, "assign"), call'[t].pc # "assign", UNCHANGED <<state_, panel, lit>>,
               call'[t].pc \in {"delay", "cancel", "setOn"} => Lit
        PROVE  LitInv'
    <2>1. ~HasAnswer(t) /\ ~HasAnswer(t)'
      BY <1>b DEF HasAnswer, At
    <2>2. Awake => Lit
      BY <1>2, <2>1 DEF LitInv
    <2> QED
      BY <1>a, <1>b, <2>1, <2>2 DEF Awake, Lit, State, Panel
  <1>3. CASE Forward(t)
    <2>1. call'[t].pc = "check"
      BY <1>3, Moves DEF Forward, PCs
    <2> QED
      BY <1>3, <1>b, <2>1 DEF Forward, At
  <1>4. CASE SubmitDelayTask(t) \/ ReadDelayedOn(t)
    <2>1. call'[t].pc \in {"delay", "cancel"}
      BY <1>4, Moves DEF SubmitDelayTask, ReadDelayedOn, PCs
    <2>2. At(t, "decide") /\ isDisplayDelayOff_ /\ UNCHANGED <<state_, panel, lit>>
      BY <1>4 DEF SubmitDelayTask, ReadDelayedOn
    <2>3. Lit
      BY <1>2, <2>2 DEF AskInv, LitInv, HasAnswer, At
    <2> QED
      BY <1>b, <2>1, <2>2, <2>3 DEF At
  <1>5. CASE CancelDelayTask(t)
    <2>1. call'[t].pc = "setOn" /\ At(t, "cancel") /\ UNCHANGED <<state_, panel, lit>>
      BY <1>5, Moves DEF CancelDelayTask, PCs
    <2>2. Lit
      BY <2>1 DEF LitInv, At
    <2> QED
      BY <1>b, <2>1, <2>2 DEF At
  <1>6. CASE SetDelayOffState(t) \/ SetOnState(t)
    <2>1. call'[t].pc = "idle" /\ UNCHANGED <<panel, lit>> /\ call[t].pc \in {"delay", "setOn"}
      BY <1>6, Returns DEF SetDelayOffState, SetOnState, At
    <2>2. Lit'
      BY <2>1 DEF LitInv, Lit, Panel
    <2> QED
      BY <1>a, <2>1, <2>2 DEF HasAnswer, At
  <1>7. CASE UpdateState(t)
    <2>1. At(t, "check") /\ UNCHANGED <<state_, panel, lit>>
      BY <1>7 DEF UpdateState
    <2>2. \/ call'[t].pc \in {"idle", "request"}
          \/ /\ call'[t].pc = "assign" /\ call'[t].state = c.state
             /\ ~NeedsDms(MainDisplay, c.state)
      BY <1>1, <1>7, Moves, Returns DEF UpdateState, PCs
    <2>3. ~HasAnswer(t) /\ ~HasAnswer(t)'
      BY <1>1, <2>1, <2>2 DEF HasAnswer, At, NeedsDms
    <2>4. Awake => Lit
      BY <1>2, <2>3 DEF LitInv
    <2> QED
      BY <1>a, <2>1, <2>2, <2>3, <2>4 DEF Awake, Lit, State, Panel
  <1>8. CASE SkipDms(t)
    <2>1. /\ call'[t].pc = "assign" /\ call'[t].state = c.state /\ call'[t].reason = c.reason
          /\ At(t, "request") /\ UNCHANGED <<state_, dmsCalls>>
          /\ OnStateChanged(MainDisplay, c.state, c.reason)
      BY <1>1, <1>8, Moves DEF SkipDms, PCs
    <2>2. NeedsDms(MainDisplay, c.state)
      BY <1>1, <2>1 DEF Asked, At
    <2>3. Panel' = c.state /\ (c.state = "ON" /\ c.reason # "PRE_BRIGHT" => lit')
      BY <1>1, <2>1, <2>2, AnswerLights DEF At
    <2>4. HasAnswer(t)'
      BY <1>1, <2>1, <2>2 DEF HasAnswer, At, Pending, NeedsDms
    <2> QED
      BY <1>2, <2>1, <2>3, <2>4 DEF LitInv
  <1>9. CASE RequestDms(t)
    <2>1. call'[t].pc = "assign" /\ At(t, "request") /\ UNCHANGED <<state_, panel, lit>>
      BY <1>9, Moves DEF RequestDms, PCs
    <2>2. Pending'
      BY <1>9, RequestPends
    <2>3. Awake => Lit
      BY <1>2, <2>1 DEF LitInv, HasAnswer, At
    <2> QED
      BY <1>a, <2>1, <2>2, <2>3 DEF HasAnswer, Awake, Lit, State, Panel
  <1>10. CASE DmsRefuses(t)
    <2>1. /\ call'[t].pc \in {"idle", "undo"} /\ At(t, "request")
          /\ UNCHANGED <<state_, panel, lit>>
      BY <1>10, Moves, Returns DEF DmsRefuses, Fail, PCs
    <2> QED
      BY <1>b, <2>1 DEF At
  <1>11. CASE AssignState(t)
    <2>1. /\ call'[t].pc \in {"idle", "undo"} /\ At(t, "assign") /\ UNCHANGED <<panel, lit>>
      BY <1>11, Moves, Returns DEF AssignState, Fail, PCs
    <2>2. Awake' => Lit
      <3>1. CASE IsNeedSkipNextProc(c.reason)
        <4>1. State' = "OFF"
          BY <1>1, <1>11, <3>1 DEF AssignState, Asked, IsNeedSkipNextProc, IsPreBright, State
        <4> QED
          BY <4>1 DEF Awake
      <3>2. CASE ~IsNeedSkipNextProc(c.reason)
        <4>1. State' = c.state /\ c.reason # "PRE_BRIGHT"
          BY <1>1, <1>11, <3>2 DEF AssignState, IsNeedSkipNextProc, State
        <4>2. CASE NeedsDms(MainDisplay, c.state)
          <5>1. HasAnswer(t)
            BY <1>1, <2>1, <4>2 DEF HasAnswer
          <5>2. Awake' => c.state = "ON"
            BY <4>1, <4>2 DEF Awake, NeedsDms
          <5> QED
            BY <4>1, <5>1, <5>2 DEF LitInv, Lit
        <4>3. CASE ~NeedsDms(MainDisplay, c.state)
          <5>1. Awake => Lit
            BY <1>1, <1>2, <4>3 DEF LitInv, HasAnswer
          <5>2. c.state \in {"ON", "DIM"} /\ ~Refrains(MainDisplay, c.state, c.reason)
            BY <1>1, <2>1, <4>3 DEF Asked, Handled, NeedsDms, At
          <5>3. State # "OFF" /\ State # "DOZE"
            BY <1>1, <4>3, <5>2 DEF AskInv, Asked, Handled, NeedsDms, Refrains, State
          <5>4. Awake
            BY <5>3 DEF AskInv, Handled, Awake
          <5> QED
            BY <5>1, <5>4
        <4> QED
          BY <4>2, <4>3
      <3> QED
        BY <3>1, <3>2
    <2> QED
      BY <1>a, <2>1, <2>2 DEF HasAnswer, At, Lit, Panel
  <1>12. CASE UndoSetDisplayState(t)
    <2>1. /\ call'[t].pc = "idle" /\ At(t, "undo") /\ UNCHANGED <<state_, panel>>
          /\ lit' = (lit \/ IsOn(state_[c.id]))
      BY <1>12, Returns DEF UndoSetDisplayState
    <2>2. Awake => Lit
      BY <1>2, <2>1 DEF LitInv, HasAnswer, At
    <2>3. lit => lit'
      BY <2>1
    <2> QED
      BY <1>a, <2>1, <2>2, <2>3 DEF HasAnswer, At, Awake, Lit, State, Panel
  <1> QED
    BY <1>3, <1>4, <1>5, <1>6, <1>7, <1>8, <1>9, <1>10, <1>11, <1>12 DEF Run, RunUpdateState

LEMMA LitStep ==
    ASSUME SingleDisplay, Sequential, Answered, Handled, TypeOK, AloneInv, AnswerInv, AskInv,
           LitInv, [Next]_vars
    PROVE  LitInv'
  <1> USE DEF serviceVars, screenVars
  <1>1. ASSUME NEW t \in Callers, NEW d \in Displays, NEW s \in RequestStates,
               NEW r \in RequestReasons, SetDisplayState(t, d, s, r)
        PROVE  LitInv'
    <2>1. /\ \A u \in Threads : ~Busy(u)
          /\ \A u \in Threads \ {t} : ~Busy(u)'
          /\ call'[t] = [pc |-> "decide", id |-> d, state |-> s, reason |-> r]
      BY <1>1, RequestBegins
    <2>2. UNCHANGED <<state_, panel, lit>>
      BY <1>1 DEF SetDisplayState
    <2> QED
      BY <2>1, <2>2 DEF LitInv, HasAnswer, Busy, At, Awake, Lit, State, Panel
  <1>2. ASSUME NEW t \in Threads, Run(t) PROVE LitInv'
    BY <1>2, LitRunStep
  <1>3. ASSUME NEW n \in Tasks, ScreenOffDelay(n) PROVE LitInv'
    <2>1. /\ \A u \in Threads : ~Busy(u)
          /\ \A u \in Threads \ {Queue} : ~Busy(u)'
          /\ call'[Queue].pc = "check"
      BY <1>3, DelayedOffBegins
    <2>2. UNCHANGED <<state_, panel, lit>>
      BY <1>3 DEF ScreenOffDelay
    <2> QED
      BY <2>1, <2>2 DEF LitInv, HasAnswer, Busy, At, Awake, Lit, State, Panel
  <1>4. ASSUME NEW k \in 1 .. MaxDmsCalls, DmsCallback(k) PROVE LitInv'
    <2>0. PICK t \in Threads :
              /\ At(t, "assign") /\ Pending /\ ~Pending'
              /\ OnStateChanged(call[t].id, call[t].state, call[t].reason)
              /\ UNCHANGED <<call, state_, mState, serviceVars>>
      BY <1>4, CallbackAnswers
    <2>1. /\ At(t, "assign") /\ Pending /\ ~Pending' /\ call[t].id = MainDisplay
          /\ OnStateChanged(MainDisplay, call[t].state, call[t].reason)
          /\ UNCHANGED <<call, state_, mState, serviceVars>>
      BY <2>0, OneDisplay
    <2>2. Busy(t) /\ \A u \in Threads \ {t} : ~Busy(u)
      BY <2>1 DEF AloneInv, Busy, At
    <2>3. NeedsDms(MainDisplay, call[t].state)
      BY <2>1, <2>2 DEF AskInv, Asked, At
    <2>4. /\ Panel' = call[t].state
          /\ call[t].state = "ON" /\ call[t].reason # "PRE_BRIGHT" => lit'
      BY <2>1, <2>2, <2>3, AnswerLights DEF At
    <2>5. HasAnswer(t)'
      BY <2>1, <2>3 DEF HasAnswer, At, NeedsDms
    <2> QED
      BY <2>1, <2>2, <2>4, <2>5 DEF LitInv, HasAnswer, Busy, At
  <1>5. CASE UNCHANGED <<call, dmsCalls, state_, panel, lit>>
    BY <1>5 DEF LitInv, HasAnswer, At, Awake, Lit, State, Panel, NeedsDms, Pending
  <1> QED
    BY <1>1, <1>2, <1>3, <1>4, <1>5 DEF Sequential, Next, Environment, OverrideDisplayOffDelay,
       UpdateScreenPowerState, SetCoordinated, vars

\* The hypotheses under which a display that is on is known to be lit: a delay, if any is used, is
\* armed and requests but an on are made only when nothing is in progress, and pre-bright reasons
\* come in their order.
Orderly ==
    /\ SingleDisplay /\ Sequential /\ Answered /\ Handled /\ PreBrightInOrder
    /\ Disciplined \/ ~DelayUsed

LEMMA LitAlways == Orderly /\ Spec => [](AloneInv /\ AnswerInv /\ AskInv /\ LitInv)
  <1> SUFFICES ASSUME Orderly PROVE Spec => [](AloneInv /\ AnswerInv /\ AskInv /\ LitInv)
    OBVIOUS
  <1> USE DEF Orderly
  <1>1. TypeOK /\ AloneInv /\ [Next]_vars => AloneInv'
    BY AloneStep
  <1>2. TypeOK /\ AloneInv /\ AnswerInv /\ [Next]_vars => AnswerInv'
    BY AnswerStep
  <1>3. TypeOK /\ AloneInv /\ AnswerInv /\ AskInv /\ [Next]_vars => AskInv'
    BY AskStep
  <1>4. TypeOK /\ AloneInv /\ AnswerInv /\ AskInv /\ LitInv /\ [Next]_vars => LitInv'
    BY LitStep
  <1> QED
    BY <1>1, <1>2, <1>3, <1>4, InitAlone, InitAnswer, InitAsk, InitLit, TypeCorrect, PTL DEF Spec

LEMMA SettledIsLit == Orderly /\ LitInv => OnMeansPowered /\ OnMeansLit
  <1> SUFFICES ASSUME Orderly, LitInv, Settled, IsOn(State) PROVE Lit
    BY DEF Orderly, SingleDisplay, OnMeansPowered, OnMeansLit, Lit, State, Panel
  <1>1. \A t \in Threads : ~HasAnswer(t)
    BY DEF Settled, Quiet, HasAnswer, At
  <1> QED
    BY <1>1 DEF LitInv, Awake, IsOn

\* Through pre-brightening, refused requests, delayed offs and their cancellation: a display that
\* the service calls on once all is settled is powered.
THEOREM OnIsPowered == Orderly /\ Spec => []OnMeansPowered
  <1> SUFFICES ASSUME Orderly PROVE Spec => []OnMeansPowered
    OBVIOUS
  <1>1. LitInv => OnMeansPowered
    BY SettledIsLit
  <1>2. Spec => [](AloneInv /\ AnswerInv /\ AskInv /\ LitInv)
    BY LitAlways
  <1> QED
    BY <1>1, <1>2, PTL

\* Nor has it been dark since its brightness was last restored.
THEOREM OnIsLit == Orderly /\ Spec => []OnMeansLit
  <1> SUFFICES ASSUME Orderly PROVE Spec => []OnMeansLit
    OBVIOUS
  <1>1. LitInv => OnMeansLit
    BY SettledIsLit
  <1>2. Spec => [](AloneInv /\ AnswerInv /\ AskInv /\ LitInv)
    BY LitAlways
  <1> QED
    BY <1>1, <1>2, PTL

-----------------------------------------------------------------------------
(* What the callback was told of each display, on a device with any number. *)

Told(d) == IsOn(notified[d]) <=> IsOn(state_[d])

\* Without a delayed off no display is parked in DELAY_OFF, which SkipNotify takes for off although
\* the callback was told on.
Undelayed ==
    /\ ~isDisplayDelayOff_ /\ tasks = {}
    /\ \A t \in Threads : call[t].pc \notin {"delay", "cancel", "setOn"}

\* An answered request has told the callback what state_ will be once it is assigned, and what
\* it is when it is not to be.
NotifyInv ==
    /\ Undelayed
    /\ \A d \in Displays : state_[d] \in RequestStates \cup {"ON", "OFF"}
    /\ \A t \in Threads : Busy(t) => Asked(t)
    /\ \A d \in Displays : (\A t \in Threads : HasAnswer(t) => call[t].id # d) => Told(d)
    /\ \A t \in Threads : HasAnswer(t) =>
           LET c == call[t] IN
           IF IsNeedSkipNextProc(c.reason) THEN Told(c.id)
                                           ELSE IsOn(notified[c.id]) <=> IsOn(c.state)

LEMMA InitNotify == Init => NotifyInv
  <1> SUFFICES ASSUME Init PROVE NotifyInv
    OBVIOUS
  <1>1. \A t \in Threads : call[t].pc = "idle"
    BY DEF Init, IdleCall
  <1>2. \A d \in Displays : state_[d] \in {"ON", "OFF"} /\ notified[d] = state_[d]
    BY DEF Init
  <1> QED
    BY <1>1, <1>2 DEF Init, NotifyInv, Undelayed, HasAnswer, Told, Busy, At

\* No delay is ever armed where none is used.
LEMMA UndelayedStep ==
    Sequential /\ ~DelayUsed /\ TypeOK /\ AloneInv /\ Undelayed /\ [Next]_vars => Undelayed'
  <1> SUFFICES ASSUME Sequential, ~DelayUsed, TypeOK, AloneInv, Undelayed, [Next]_vars
               PROVE  Undelayed'
    OBVIOUS
  <1> USE DEF serviceVars, screenVars
  <1>1. ASSUME NEW t \in Callers, NEW d \in Displays, NEW s \in RequestStates,
               NEW r \in RequestReasons, SetDisplayState(t, d, s, r)
        PROVE  Undelayed'
    <2>1. /\ \A u \in Threads \ {t} : ~Busy(u)'
          /\ call'[t] = [pc |-> "decide", id |-> d, state |-> s, reason |-> r]
      BY <1>1, RequestBegins
    <2>2. UNCHANGED <<isDisplayDelayOff_, tasks>>
      BY <1>1 DEF SetDisplayState
    <2> QED
      BY <2>1, <2>2 DEF Undelayed, Busy, At
  <1>2. ASSUME NEW t \in Threads, Run(t) PROVE Undelayed'
    <2>1. \A u \in Threads \ {t} : ~Busy(u)'
      BY <1>2, OthersIdle
    <2>2. ~SubmitDelayTask(t) /\ ~ReadDelayedOn(t) /\ ~CancelDelayTask(t)
          /\ ~SetDelayOffState(t) /\ ~SetOnState(t)
      BY DEF Undelayed, SubmitDelayTask, ReadDelayedOn, CancelDelayTask, SetDelayOffState,
         SetOnState, At
    <2>3. UNCHANGED <<isDisplayDelayOff_, tasks>>
      BY <1>2, <2>2 DEF Run, RunUpdateState, Forward, UpdateState, SkipDms, RequestDms,
         DmsRefuses, AssignState, UndoSetDisplayState
    <2>4. call'[t].pc \notin {"delay", "cancel", "setOn"}
      <3>1. call[t].pc \in {"decide", "check", "request", "assign", "undo"}
        BY <1>2, <2>2 DEF Run, RunUpdateState, Forward, UpdateState, SkipDms, RequestDms,
           DmsRefuses, AssignState, UndoSetDisplayState, At
      <3>2. At(t, "decide") => Forward(t)
        BY <1>2, <2>2 DEF Run, RunUpdateState, UpdateState, SkipDms, RequestDms,
           DmsRefuses, AssignState, UndoSetDisplayState, At
      <3>3. Forward(t) => call'[t].pc = "check"
        BY Moves DEF Forward, PCs
      <3> QED
        BY <1>2, <3>1, <3>2, <3>3, RunMoves DEF At
    <2> QED
      BY <2>1, <2>3, <2>4 DEF Undelayed, Busy, At
  <1>3. ~\E n \in Tasks : ScreenOffDelay(n)
    BY DEF ScreenOffDelay, Undelayed
  <1>4. ASSUME NEW isSet \in BOOLEAN, OverrideDisplayOffDelay(isSet) PROVE Undelayed'
    <2>1. isSet = FALSE
      BY <1>4 DEF OverrideDisplayOffDelay
    <2>2. isDisplayDelayOff_' = (isSet /\ State = "ON")
      BY <1>4 DEF OverrideDisplayOffDelay, State
    <2>3. ~isDisplayDelayOff_'
      BY <2>1, <2>2, Zenon
    <2> QED
      BY <1>4, <2>3 DEF OverrideDisplayOffDelay, Undelayed
  <1>5. CASE UNCHANGED <<call, tasks, isDisplayDelayOff_>>
    BY <1>5 DEF Undelayed
  <1> QED
    BY <1>1, <1>2, <1>3, <1>4, <1>5 DEF Sequential, Next, Environment, UpdateScreenPowerState,
       SetCoordinated, DmsCallback, vars

\* What an answer tells the callback, of the display it is about and of no other.
LEMMA AnswerTells ==
    ASSUME Answered, TypeOK, NEW t \in Threads, Asked(t), Told(call[t].id),
           OnStateChanged(call[t].id, call[t].state, call[t].reason)
    PROVE  /\ \A d \in Displays : d # call[t].id => notified'[d] = notified[d]
           /\ IF IsNeedSkipNextProc(call[t].reason)
              THEN IsOn(notified'[call[t].id]) <=> IsOn(state_[call[t].id])
              ELSE IsOn(notified'[call[t].id]) <=> IsOn(call[t].state)
  <1> DEFINE c == call[t]
             now == notified'[c.id]
  <1>1. c.id \in Displays /\ notified \in [Displays -> States]
    BY DEF TypeOK
  <1>2. notified' = IF ~Silent(c.id, c.state, c.reason)
                    THEN [notified EXCEPT ![c.id] = Published(c.state)] ELSE notified
    BY DEF OnStateChanged, Answered
  <1>3. \A d \in Displays : d # c.id => notified'[d] = notified[d]
    BY <1>1, <1>2
  <1>4. now = IF Silent(c.id, c.state, c.reason) THEN notified[c.id] ELSE Published(c.state)
    BY <1>1, <1>2
  <1>5. CASE c.reason = "PRE_BRIGHT"
    BY <1>3, <1>4, <1>5 DEF Silent, IsNeedSkipNextProc, Told
  <1>6. CASE c.reason # "PRE_BRIGHT" /\ (IsOn(state_[c.id]) <=> IsOn(c.state))
    <2>1. IsOn(state_[c.id]) = IsOn(c.state)
      BY <1>6 DEF IsOn
    <2>2. now = notified[c.id]
      BY <1>4, <2>1 DEF Silent, SkipNotify
    <2> QED
      BY <1>3, <1>6, <2>2 DEF Told
  <1>7. CASE c.reason # "PRE_BRIGHT" /\ ~(IsOn(state_[c.id]) <=> IsOn(c.state))
    <2>1. c.reason # "PRE_BRIGHT_AUTH_FAIL_SCREEN_OFF"
      BY <1>7 DEF Asked, IsPreBright, IsOn
    <2>2. now = Published(c.state)
      BY <1>4, <1>7 DEF Silent, SkipNotify
    <2>3. IsOn(now) <=> IsOn(c.state)
      BY <2>2 DEF Published, IsOn
    <2> QED
      BY <1>3, <1>7, <2>1, <2>3 DEF IsNeedSkipNextProc
  <1> QED
    BY <1>5, <1>6, <1>7

\* A request goes on knowing what UpdateState found, as long as it runs.
LEMMA AskedStays ==
    ASSUME Answered, Handled, TypeOK, AloneInv, AnswerInv, NEW t \in Threads, Asked(t), Run(t),
           Undelayed, Undelayed', Busy(t)'
    PROVE  Asked(t)'
  <1> USE DEF serviceVars, screenVars
  <1> DEFINE c == call[t]
  <1>1. ~Pending
    BY RunsAnswered
  <1>2. ~isDisplayDelayOff_'
    BY DEF Undelayed
  <1>3. /\ call'[t].id = c.id /\ call'[t].state = c.state /\ call'[t].reason = c.reason
    BY RunMoves DEF Busy, At
  <1>4. UNCHANGED state_
    BY Returns DEF Run, RunUpdateState, Forward, SubmitDelayTask, SetDelayOffState,
       ReadDelayedOn, CancelDelayTask, SetOnState, UpdateState, SkipDms, RequestDms, DmsRefuses,
       AssignState, UndoSetDisplayState, Busy, At
  <1>5. /\ call'[t].pc \in {"request", "assign"} => ~Refrains(c.id, c.state, c.reason)
        /\ call'[t].pc = "request" \/ (call'[t].pc = "assign" /\ Pending')
               => NeedsDms(c.id, c.state)
    <2>1. CASE UpdateState(t)
      <3>1. ~Refrains(c.id, c.state, c.reason)
            /\ Goto(t, IF NeedsDms(c.id, c.state) THEN "request" ELSE "assign")
        BY <2>1, Returns DEF UpdateState, Busy, At
      <3>2. call'[t].pc = IF NeedsDms(c.id, c.state) THEN "request" ELSE "assign"
        BY <3>1, Moves DEF PCs
      <3>3. ~Pending'
        BY <1>1, <2>1 DEF UpdateState, Pending
      <3>4. call'[t].pc = "request" => NeedsDms(c.id, c.state)
        BY <3>2
      <3> QED
        BY <3>1, <3>2, <3>3, <3>4
    <2>2. CASE At(t, "request")
      BY <2>2 DEF Asked, At
    <2>3. CASE ~UpdateState(t) /\ ~At(t, "request")
      <3>1. call'[t].pc \notin {"request", "assign"}
        BY <2>3, RunMoves, Moves DEF Run, RunUpdateState, Forward, SubmitDelayTask,
           SetDelayOffState, ReadDelayedOn, CancelDelayTask, SetOnState, SkipDms, RequestDms,
           DmsRefuses, AssignState, UndoSetDisplayState, At
      <3> QED
        BY <3>1
    <2> QED
      BY <2>1, <2>2, <2>3
  <1> QED
    BY <1>2, <1>3, <1>4, <1>5 DEF Asked, Refrains, NeedsDms

\* A step that neither assigns nor answers tells nothing and changes no state.
LEMMA NotifyKeeps ==
    ASSUME NotifyInv, NEW t \in Threads, UNCHANGED <<state_, notified>>, Undelayed',
           \A u \in Threads \ {t} : ~HasAnswer(u) /\ ~HasAnswer(u)' /\ ~Busy(u)',
           ~HasAnswer(t), ~HasAnswer(t)', Busy(t)' => Asked(t)'
    PROVE  NotifyInv'
  <1>1. \A d \in Displays : Told(d)
    BY DEF NotifyInv
  <1>2. \A d \in Displays : Told(d)'
    BY <1>1 DEF Told
  <1> QED
    BY <1>2 DEF NotifyInv

LEMMA NotifyRunStep ==
    ASSUME Answered, Handled, TypeOK, AloneInv, AnswerInv, NotifyInv, NEW t \in Threads, Run(t),
           Undelayed'
    PROVE  NotifyInv'
  <1> USE DEF serviceVars, screenVars
  <1> DEFINE c == call[t]
  <1>1. /\ \A u \in Threads \ {t} : ~Busy(u) /\ ~Busy(u)'
        /\ ~Pending /\ Busy(t) /\ Asked(t) /\ Undelayed
        /\ c.id \in Displays /\ state_ \in [Displays -> States]
    BY OthersIdle, RunsAnswered, RunMoves DEF NotifyInv, TypeOK
  <1>2. \A u \in Threads \ {t} : ~HasAnswer(u) /\ ~HasAnswer(u)'
    BY <1>1 DEF HasAnswer, Busy, At
  <1>3. Busy(t)' => Asked(t)'
    BY <1>1, AskedStays
  <1>4. \A d \in Displays : state_[d] \in RequestStates \cup {"ON", "OFF"}
    BY DEF NotifyInv
  <1>a. ASSUME ~HasAnswer(t), ~HasAnswer(t)', UNCHANGED <<state_, notified>> PROVE NotifyInv'
    BY <1>1, <1>2, <1>3, <1>a, NotifyKeeps
  <1>b. CASE Forward(t) \/ UndoSetDisplayState(t) \/ DmsRefuses(t)
    <2>1. UNCHANGED <<state_, notified>> /\ ~At(t, "assign")
      BY <1>b DEF Forward, UndoSetDisplayState, DmsRefuses, At
    <2>2. call'[t].pc # "assign"
      BY <1>b, RunMoves, Moves, Returns
         DEF Forward, UndoSetDisplayState, DmsRefuses, Fail, At, PCs
    <2> QED
      BY <1>a, <2>1, <2>2 DEF HasAnswer, At
  <1>c. ~(SubmitDelayTask(t) \/ ReadDelayedOn(t) \/ CancelDelayTask(t)
          \/ SetDelayOffState(t) \/ SetOnState(t))
    BY <1>1 DEF Undelayed, SubmitDelayTask, ReadDelayedOn, CancelDelayTask, SetDelayOffState,
       SetOnState, At
  <1>5. CASE UpdateState(t)
    <2>1. At(t, "check") /\ UNCHANGED <<state_, notified>>
      BY <1>5 DEF UpdateState
    <2>2. \/ call'[t].pc \in {"idle", "request"}
          \/ /\ call'[t].pc = "assign" /\ call'[t].state = c.state /\ call'[t].id = c.id
             /\ ~NeedsDms(c.id, c.state)
      BY <1>5, Moves, Returns DEF UpdateState, PCs
    <2>3. ~HasAnswer(t) /\ ~HasAnswer(t)'
      BY <2>1, <2>2 DEF HasAnswer, At, NeedsDms
    <2> QED
      BY <1>a, <2>1, <2>3
  <1>6. CASE SkipDms(t)
    <2>1. /\ At(t, "request") /\ UNCHANGED <<state_, dmsCalls>>
          /\ OnStateChanged(c.id, c.state, c.reason)
      BY <1>6 DEF SkipDms
    <2>2. /\ call'[t].pc = "assign" /\ call'[t].id = c.id
          /\ call'[t].state = c.state /\ call'[t].reason = c.reason
      BY <1>6, Moves DEF SkipDms, PCs
    <2>3. \A d \in Displays : Told(d)
      BY <1>2, <2>1 DEF NotifyInv, HasAnswer, At
    <2>4. /\ \A d \in Displays : d # c.id => notified'[d] = notified[d]
          /\ IF IsNeedSkipNextProc(c.reason) THEN IsOn(notified'[c.id]) <=> IsOn(state_[c.id])
                                             ELSE IsOn(notified'[c.id]) <=> IsOn(c.state)
      BY <1>1, <2>1, <2>3, AnswerTells
    <2>5. HasAnswer(t)'
      BY <1>1, <2>1, <2>2 DEF HasAnswer, Asked, At, Pending, NeedsDms
    <2>6. \A d \in Displays : d # c.id => Told(d)'
      BY <2>1, <2>3, <2>4 DEF Told
    <2> QED
      BY <1>1, <1>2, <1>3, <1>4, <2>1, <2>2, <2>4, <2>5, <2>6 DEF NotifyInv, Told
  <1>7. CASE RequestDms(t)
    <2>1. call'[t].pc = "assign" /\ At(t, "request") /\ UNCHANGED <<state_, notified>>
      BY <1>7, Moves DEF RequestDms, PCs
    <2>2. Pending'
      BY <1>7, RequestPends
    <2> QED
      BY <1>a, <2>1, <2>2 DEF HasAnswer, At
  <1>8. CASE AssignState(t)
    <2>1. /\ ~HasAnswer(t)' /\ At(t, "assign") /\ UNCHANGED notified
      BY <1>8, Moves, Returns DEF AssignState, Fail, PCs, HasAnswer, At
    <2>2. state_' = IF IsNeedSkipNextProc(c.reason) THEN state_
                                                    ELSE [state_ EXCEPT ![c.id] = c.state]
      BY <1>8 DEF AssignState
    <2>3. /\ \A d \in Displays : d # c.id => state_'[d] = state_[d]
          /\ state_'[c.id] = IF IsNeedSkipNextProc(c.reason) THEN state_[c.id] ELSE c.state
      BY <1>1, <2>2
    <2>4. IsOn(notified[c.id]) <=> IsOn(state_'[c.id])
      <3>1. CASE NeedsDms(c.id, c.state)
        <4>1. HasAnswer(t)
          BY <1>1, <2>1, <3>1 DEF HasAnswer
        <4> QED
          BY <2>3, <4>1 DEF NotifyInv, Told
      <3>2. CASE ~NeedsDms(c.id, c.state)
        <4>1. Told(c.id)
          BY <1>1, <1>2, <3>2 DEF NotifyInv, HasAnswer
        <4>2. c.state \in {"ON", "DIM"} /\ ~Refrains(c.id, c.state, c.reason)
          BY <1>1, <2>1, <3>2 DEF Asked, Handled, NeedsDms, At
        <4>3. state_[c.id] \in {"ON", "DIM"}
          BY <1>1, <1>4, <3>2, <4>2 DEF Asked, Handled, NeedsDms, Refrains
        <4> QED
          BY <2>3, <4>1, <4>2, <4>3 DEF Told, IsOn
      <3> QED
        BY <3>1, <3>2
    <2>5. \A d \in Displays : d # c.id => Told(d)
      BY <1>2 DEF NotifyInv
    <2>6. \A d \in Displays : Told(d)'
      BY <2>1, <2>3, <2>4, <2>5 DEF Told
    <2>7. \A d \in Displays : state_'[d] \in RequestStates \cup {"ON", "OFF"}
      BY <1>1, <1>4, <2>3 DEF Asked
    <2> QED
      BY <1>1, <1>2, <1>3, <2>1, <2>6, <2>7 DEF NotifyInv
  <1> QED
    BY <1>b, <1>c, <1>5, <1>6, <1>7, <1>8 DEF Run, RunUpdateState

LEMMA NotifyStep ==
    ASSUME Sequential, Answered, Handled, PreBrightInOrder, ~DelayUsed, TypeOK, AloneInv,
           AnswerInv, NotifyInv, [Next]_vars
    PROVE  NotifyInv'
  <1> USE DEF serviceVars, screenVars
  <1>0. Undelayed /\ Undelayed'
    BY UndelayedStep DEF NotifyInv
  <1>1. ASSUME NEW t \in Callers, NEW d \in Displays, NEW s \in RequestStates,
               NEW r \in RequestReasons, SetDisplayState(t, d, s, r)
        PROVE  NotifyInv'
    <2>1. /\ \A u \in Threads : ~Busy(u)
          /\ \A u \in Threads \ {t} : ~Busy(u)'
          /\ call'[t] = [pc |-> "decide", id |-> d, state |-> s, reason |-> r]
      BY <1>1, RequestBegins
    <2>2. UNCHANGED <<state_, notified, isDisplayDelayOff_>> /\ Sensible(d, s, r)
      BY <1>1 DEF SetDisplayState
    <2>3. r \in Reasons /\ t \in Threads
      BY ConfigAssumption DEF Threads
    <2>4. Asked(t)'
      BY <2>1, <2>2, <2>3 DEF Asked, Sensible, IsPreBright, Reasons
    <2>5. \A u \in Threads \ {t} : ~HasAnswer(u) /\ ~HasAnswer(u)' /\ ~Busy(u)'
      BY <2>1 DEF HasAnswer, Busy, At
    <2>6. ~HasAnswer(t) /\ ~HasAnswer(t)'
      BY <2>1, <2>3 DEF HasAnswer, Busy, At
    <2> QED
      BY <1>0, <2>2, <2>3, <2>4, <2>5, <2>6, NotifyKeeps
  <1>2. ASSUME NEW t \in Threads, Run(t) PROVE NotifyInv'
    BY <1>0, <1>2, NotifyRunStep
  <1>3. ~\E n \in Tasks : ScreenOffDelay(n)
    BY <1>0 DEF ScreenOffDelay, Undelayed
  <1>4. ASSUME NEW k \in 1 .. MaxDmsCalls, DmsCallback(k) PROVE NotifyInv'
    <2>1. PICK t \in Threads :
              /\ At(t, "assign") /\ Pending /\ ~Pending'
              /\ OnStateChanged(call[t].id, call[t].state, call[t].reason)
              /\ UNCHANGED <<call, state_, mState, serviceVars>>
      BY <1>4, CallbackAnswers
    <2> DEFINE c == call[t]
    <2>2. /\ Busy(t) /\ \A u \in Threads \ {t} : ~Busy(u)
          /\ c.id \in Displays
      BY <2>1 DEF AloneInv, Busy, At, TypeOK
    <2>3. Asked(t) /\ NeedsDms(c.id, c.state)
      BY <2>1, <2>2 DEF NotifyInv, Asked, At
    <2>4. \A d \in Displays : Told(d)
      BY <2>1 DEF NotifyInv, HasAnswer
    <2>5. /\ \A d \in Displays : d # c.id => notified'[d] = notified[d]
          /\ IF IsNeedSkipNextProc(c.reason) THEN IsOn(notified'[c.id]) <=> IsOn(state_[c.id])
                                             ELSE IsOn(notified'[c.id]) <=> IsOn(c.state)
      BY <2>1, <2>2, <2>3, <2>4, AnswerTells
    <2>6. /\ HasAnswer(t)' /\ \A u \in Threads \ {t} : ~HasAnswer(u)' /\ ~Busy(u)'
      BY <2>1, <2>2, <2>3 DEF HasAnswer, Busy, At, NeedsDms
    <2>7. \A d \in Displays : d # c.id => Told(d)'
      BY <2>1, <2>4, <2>5 DEF Told
    <2>8. Asked(t)'
      BY <2>1, <2>3 DEF Asked, Refrains, NeedsDms
    <2> QED
      BY <1>0, <2>1, <2>2, <2>5, <2>6, <2>7, <2>8 DEF NotifyInv, Told
  <1>5. CASE UNCHANGED <<call, dmsCalls, state_, notified>>
    <2>1. UNCHANGED <<call, state_, notified>>
      BY <1>5
    <2>2. \A t \in Threads : Busy(t)' => Asked(t)'
      BY <1>0, <1>5 DEF NotifyInv, Asked, Busy, At, Refrains, NeedsDms, Pending, Undelayed
    <2>3. \A t \in Threads : HasAnswer(t)' <=> HasAnswer(t)
      BY <1>5 DEF HasAnswer, At, NeedsDms, Pending
    <2> QED
      BY <1>0, <2>1, <2>2, <2>3 DEF NotifyInv, Told
  <1> QED
    BY <1>1, <1>2, <1>3, <1>4, <1>5 DEF Sequential, Next, Environment, OverrideDisplayOffDelay,
       UpdateScreenPowerState, SetCoordinated, vars

\* Requests for any displays one at a time, answered by DMS or refused, pre-brightening in its order
\* included, and no delay: once all is settled the callback was last told of each display whether it is on.
THEOREM NotifiedMatches ==
    Sequential /\ Answered /\ Handled /\ PreBrightInOrder /\ ~DelayUsed /\ Spec
        => []NotifiedMatchesState
  <1> SUFFICES ASSUME Sequential, Answered, Handled, PreBrightInOrder, ~DelayUsed
               PROVE  Spec => []NotifiedMatchesState
    OBVIOUS
  <1>1. NotifyInv => NotifiedMatchesState
    <2> SUFFICES ASSUME NotifyInv, Settled, NEW d \in Displays
                 PROVE  IsOn(notified[d]) = IsOn(state_[d])
      BY DEF NotifiedMatchesState
    <2>1. \A t \in Threads : ~HasAnswer(t)
      BY DEF Settled, Quiet, HasAnswer, At
    <2> QED
      BY <2>1 DEF NotifyInv, Told, IsOn
  <1>2. TypeOK /\ AloneInv /\ [Next]_vars => AloneInv'
    BY AloneStep
  <1>3. TypeOK /\ AloneInv /\ AnswerInv /\ [Next]_vars => AnswerInv'
    BY AnswerStep
  <1>4. TypeOK /\ AloneInv /\ AnswerInv /\ NotifyInv /\ [Next]_vars => NotifyInv'
    BY NotifyStep
  <1> QED
    BY <1>1, <1>2, <1>3, <1>4, InitAlone, InitAnswer, InitNotify, TypeCorrect, PTL DEF Spec
=============================================================================
