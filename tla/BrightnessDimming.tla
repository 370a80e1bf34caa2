------------------------- MODULE BrightnessDimming --------------------------
(***************************************************************************)
(* BrightnessDimming, the gradual change of the panel's brightness, with   *)
(* its only client, BrightnessService::UpdateBrightness, and the callback  *)
(* that hands each step to the panel.  UpdateBrightness runs on any thread *)
(* (IPC, sensor, FFRT timer) and holds no lock; NextStep runs on mQueue.   *)
(* The setting the callback writes is left out: a ramp may start anywhere. *)
(***************************************************************************)
EXTENDS Integers

CONSTANTS
    Callers,    \* threads that call UpdateBrightness or StopDimming
    MaxLevel,   \* the greatest brightness GetSafeBrightness lets through
    MaxSteps,   \* bound: mDuration / mUpdateTime
    Modulus,    \* 2^32, the size of uint32_t
    MaxTasks,   \* bound: NextStep tasks waiting in mQueue
    FromPanel,  \* the setting a ramp starts from is the brightness of the panel
    StepAlone   \* NextStep and UpdateBrightness never run at the same time

Levels == 0 .. MaxLevel
Words == 0 .. Modulus - 1
Tasks == 1 .. MaxTasks
None == -1

ASSUME DimmingAssumption ==
    /\ MaxLevel \in Nat \ {0}
    /\ MaxSteps \in Nat
    /\ Modulus \in Nat /\ Modulus > MaxLevel + MaxSteps + 1
    /\ MaxTasks \in Nat \ {0}
    /\ FromPanel \in BOOLEAN /\ StepAlone \in BOOLEAN

VARIABLES
    mDimming, mToBrightness, mCurrentBrightness, mTotalSteps, mStride, mCurrentStep,
    tasks,      \* NextStep tasks waiting in mQueue
    handle,     \* g_animatorTaskHandle, 0 for null
    step,       \* the NextStep that runs on mQueue: pc, value it gives out, whether last
    update,     \* per caller: pc, what it does, from, to and duration of the ramp
    panel,      \* brightness last given to the panel
    wanted      \* brightness asked for last, None after a bare StopDimming

rampVars == <<mToBrightness, mCurrentBrightness, mTotalSteps, mStride, mCurrentStep>>
vars == <<mDimming, rampVars, tasks, handle, step, update, panel, wanted>>

-----------------------------------------------------------------------------
Abs(i) == IF i < 0 THEN -i ELSE i
AtLeastOne(n) == IF n < 1 THEN 1 ELSE n

Multiplied(change, steps) == AtLeastOne(Abs(change) * steps)             \* mutant
RoundedUp(change, steps) == AtLeastOne((Abs(change) + steps - 1) \div steps) \* mutant

\* The stride is truncated towards zero and at least STRIDE_ABSOLUTE_MIN.
StrideSize(change, steps) == AtLeastOne(Abs(change) \div steps)
Stride(change, steps) ==
    IF change < 0 THEN -StrideSize(change, steps) ELSE StrideSize(change, steps)

\* What truncation lost is made up by more steps, in unsigned arithmetic.
TotalSteps(change, steps) ==
    LET size == StrideSize(change, steps) IN
    IF steps > 1
    THEN (((Abs(change) - size * steps) % Modulus) \div size + steps) % Modulus
    ELSE steps

OutOfRange(next) ==
    IF mStride > 0 THEN next >= mToBrightness ELSE next <= mToBrightness

IdleStep == [pc |-> "idle", value |-> 0, last |-> FALSE]
IdleUpdate == [pc |-> "idle", kind |-> "stop", from |-> 0, to |-> 0, steps |-> 0]
At(c, pc) == update[c].pc = pc
Goto(c, pc) == update' = [update EXCEPT ![c].pc = pc]
Return(c) == update' = [update EXCEPT ![c] = IdleUpdate]
CallersMayRun == StepAlone => step = IdleStep

Init ==
    /\ mDimming = FALSE
    /\ mToBrightness = 0 /\ mCurrentBrightness = 0
    /\ mTotalSteps = 0 /\ mStride = 0 /\ mCurrentStep = 0
    /\ tasks = {} /\ handle = 0
    /\ step = IdleStep
    /\ update = [c \in Callers |-> IdleUpdate]
    /\ panel \in Levels
    /\ wanted = None

-----------------------------------------------------------------------------
(* UpdateBrightness: a running ramp is stopped first. *)

BeginWithoutStop(c, call) ==                                            \* mutant
    /\ At(c, "idle") /\ CallersMayRun
    /\ update' = [update EXCEPT ![c] = [call EXCEPT !.pc = "start"]]
    /\ UNCHANGED <<mDimming, rampVars, tasks, handle, step, panel>>

Begin(c, call) ==
    /\ At(c, "idle") /\ CallersMayRun
    /\ mDimming' = FALSE
    /\ update' = [update EXCEPT ![c] =
                    [call EXCEPT !.pc = IF mDimming THEN "cancel" ELSE "start"]]
    /\ UNCHANGED <<rampVars, tasks, handle, step, panel>>

UpdateBrightness(c, to, ramp, from, steps) ==
    /\ FromPanel => from = panel
    /\ Begin(c, [pc |-> "idle", kind |-> IF ramp THEN "ramp" ELSE "set",
                 from |-> from, to |-> to, steps |-> steps])
    /\ wanted' = to

\* DISPLAY_OFF and ClearOffset stop a running ramp and start none.
StopDimming(c) ==
    /\ mDimming
    /\ Begin(c, IdleUpdate)
    /\ wanted' = None

CancelTask(c) ==
    /\ At(c, "cancel") /\ CallersMayRun
    /\ tasks' = tasks \ {handle}
    /\ IF update[c].kind = "stop" THEN Return(c) ELSE Goto(c, "start")
    /\ UNCHANGED <<mDimming, rampVars, handle, step, panel, wanted>>

SetBrightness(c) ==
    /\ At(c, "start") /\ update[c].kind = "set" /\ CallersMayRun
    /\ panel' = update[c].to
    /\ Return(c)
    /\ UNCHANGED <<mDimming, rampVars, tasks, handle, step, wanted>>

StartDimming(c) ==
    LET u == update[c]
        steps == AtLeastOne(u.steps)
        change == u.to - u.from
    IN  /\ At(c, "start") /\ u.kind = "ramp" /\ CallersMayRun
        /\ \/ mDimming /\ Return(c) /\ UNCHANGED rampVars
           \/ /\ ~mDimming
              /\ mToBrightness' = u.to
              /\ mCurrentBrightness' = u.from
              /\ IF change = 0
                 THEN /\ mTotalSteps' = steps
                      /\ Return(c)
                      /\ UNCHANGED <<mStride, mCurrentStep>>
                 ELSE /\ mTotalSteps' = TotalSteps(change, steps)
                      /\ mStride' = Stride(change, steps)
                      /\ mCurrentStep' = 0
                      /\ Goto(c, "raise")
        /\ UNCHANGED <<mDimming, tasks, handle, step, panel, wanted>>

RaiseDimming(c) ==
    /\ At(c, "raise") /\ CallersMayRun
    /\ mDimming' = TRUE
    /\ Goto(c, "submit")
    /\ UNCHANGED <<rampVars, tasks, handle, step, panel, wanted>>

Submit == \E n \in Tasks \ tasks : tasks' = tasks \cup {n} /\ handle' = n

SubmitFirst(c) ==
    /\ At(c, "submit") /\ CallersMayRun
    /\ Submit
    /\ Return(c)
    /\ UNCHANGED <<mDimming, rampVars, step, panel, wanted>>

-----------------------------------------------------------------------------
(* NextStep, and the callback it makes. *)

\* The value of the coming step, and whether it is the last one.
Step ==
    LET next == (mCurrentBrightness + mStride) % Modulus IN
    IF mCurrentStep + 1 <= mTotalSteps /\ ~OutOfRange(next)
    THEN [pc |-> "changed", value |-> next, last |-> FALSE]
    ELSE [pc |-> "changed", value |-> mToBrightness, last |-> TRUE]

NextStep(n) ==
    /\ n \in tasks /\ step = IdleStep
    /\ StepAlone => \A c \in Callers : At(c, "idle")
    /\ tasks' = tasks \ {n}
    /\ \/ ~mDimming /\ UNCHANGED <<mCurrentStep, mCurrentBrightness, step>>
       \/ /\ mDimming
          /\ mCurrentStep' = (mCurrentStep + 1) % Modulus
          /\ step' = Step
          /\ mCurrentBrightness' = Step.value
    /\ UNCHANGED <<mDimming, mToBrightness, mTotalSteps, mStride, handle, update,
                   panel, wanted>>

\* OnChanged gives up when the ramp has been stopped meanwhile.
OnChanged ==
    /\ step.pc = "changed"
    /\ step' = [step EXCEPT !.pc = IF mDimming THEN "write" ELSE "end"]
    /\ UNCHANGED <<mDimming, rampVars, tasks, handle, update, panel, wanted>>

WriteStep ==
    /\ step.pc = "write"
    /\ panel' = step.value
    /\ step' = [step EXCEPT !.pc = "end"]
    /\ UNCHANGED <<mDimming, rampVars, tasks, handle, update, wanted>>

EndKeepsDimming ==                                                      \* mutant
    /\ step.pc = "end"
    /\ step' = IdleStep
    /\ IF step.last THEN UNCHANGED <<tasks, handle>> ELSE Submit
    /\ UNCHANGED <<mDimming, rampVars, update, panel, wanted>>

EndStep ==
    /\ step.pc = "end"
    /\ step' = IdleStep
    /\ IF step.last
       THEN mDimming' = FALSE /\ UNCHANGED <<tasks, handle>>
       ELSE Submit /\ UNCHANGED mDimming
    /\ UNCHANGED <<rampVars, update, panel, wanted>>

-----------------------------------------------------------------------------
Run(c) ==
    \/ CancelTask(c) \/ SetBrightness(c) \/ StartDimming(c)
    \/ RaiseDimming(c) \/ SubmitFirst(c)

Queue == OnChanged \/ WriteStep \/ EndStep

Next ==
    \/ \E c \in Callers, to \in Levels, ramp \in BOOLEAN, from \in Levels,
          steps \in 0 .. MaxSteps : UpdateBrightness(c, to, ramp, from, steps)
    \/ \E c \in Callers : StopDimming(c) \/ Run(c)
    \/ \E n \in Tasks : NextStep(n)
    \/ Queue

Spec == Init /\ [][Next]_vars

\* Callers finish what they began and mQueue runs its tasks; nobody has to call.
FairSpec ==
    /\ Spec
    /\ \A c \in Callers : WF_vars(Run(c))
    /\ \A n \in Tasks : SF_vars(NextStep(n))
    /\ WF_vars(Queue)

-----------------------------------------------------------------------------
(* Properties. *)

\* The atomics of BrightnessDimming hold uint32_t values, and the handle, when not null,
\* names a task that was submitted.
TypeOK ==
    /\ mDimming \in BOOLEAN
    /\ mToBrightness \in Levels /\ mCurrentBrightness \in Words
    /\ mTotalSteps \in Words /\ mCurrentStep \in Words
    /\ mStride \in -MaxLevel .. MaxLevel
    /\ tasks \subseteq Tasks /\ handle \in 0 .. MaxTasks
    /\ step \in [pc : {"idle", "changed", "write", "end"}, value : Words,
                 last : BOOLEAN]
    /\ update \in [Callers -> [pc : {"idle", "cancel", "start", "raise", "submit"},
                               kind : {"stop", "set", "ramp"}, from : Levels,
                               to : Levels, steps : 0 .. MaxSteps]]
    /\ panel \in Words /\ wanted \in Levels \cup {None}

\* StartDimming and NextStep do unsigned arithmetic on signed strides: no step of a ramp
\* down wraps below zero, so the panel never gets a value beyond the range.
PanelInRange == panel \in Levels

\* No step of a ramp leads past its target or away from it.
Toward(to, old, new) ==
    \/ old <= new /\ new <= to
    \/ old >= new /\ new >= to
RampApproaches ==
    [][mDimming /\ mCurrentStep' = mCurrentStep + 1
        => Toward(mToBrightness, mCurrentBrightness, mCurrentBrightness')]_vars

Quiet ==
    tasks = {} /\ step = IdleStep /\ \A c \in Callers : At(c, "idle")

\* When everything has run, the panel has the brightness that was asked for last, whether
\* it was set at once or by a ramp that interrupted another.
SettlesOnWanted == Quiet /\ wanted # None => panel = wanted

\* mDimming is reset by whoever ends the ramp: while it is set, somebody still runs the
\* ramp, so a thread in WaitDimmingDone will see the end of it.
RampHasTask ==
    mDimming => \/ tasks # {} \/ step # IdleStep
                \/ \E c \in Callers : At(c, "submit")

\* WaitDimmingDone returns: every ramp comes to its end.
DimmingEnds == mDimming ~> ~mDimming
=============================================================================
