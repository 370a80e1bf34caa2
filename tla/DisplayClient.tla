---------------------------- MODULE DisplayClient ---------------------------
(***************************************************************************)
(* A call from an application: DisplayPowerMgrClient finds or makes its    *)
(* proxy, the service checks the caller and the arguments, and the errors  *)
(* come back on two ways: as the status of the call, and through the one   *)
(* lastError_ of the service, from which three operations fetch it into    *)
(* the lastError_ of the client.  The service may die and come back, and   *)
(* the death recipient of the client then drops the proxy.                 *)
(***************************************************************************)
EXTENDS Naturals, Sequences

CONSTANTS
    Clients,           \* the client processes
    ClientOps,         \* the operations they use
    NoOne,             \* no proxy
    MaxIncarnations    \* bound: how often the service is started

-----------------------------------------------------------------------------
(* What the client returns without a proxy, and when the call fails: one line per operation.   *)
Answers(noProxy, failed) == [noProxy |-> noProxy, failed |-> failed]
Refused == Answers(FALSE, FALSE)

StateReplies ==
    [SetScreenDisplayState |-> Refused, SetDisplayState |-> Refused,
     GetDisplayState |-> Answers("DISPLAY_UNKNOWN", "DISPLAY_UNKNOWN"),
     GetDisplayIds |-> Answers(<< >>, << >>),
     GetMainDisplayId |-> Answers("INVALID_DISPLAY_ID", "DEFAULT_MAIN_DISPLAY_ID"),
     SetForcedBrightness |-> Refused, SetBrightness |-> Refused, DiscountBrightness |-> Refused]
BrightnessReplies ==
    [OverrideBrightness |-> Refused, OverrideDisplayOffDelay |-> Refused,
     RestoreBrightness |-> Refused,
     GetBrightness |-> Answers("BRIGHTNESS_OFF", "BRIGHTNESS_OFF"),
     GetDefaultBrightness |-> Answers("BRIGHTNESS_DEFAULT", "0"),
     GetMaxBrightness |-> Answers("BRIGHTNESS_MAX", "0"),
     GetMinBrightness |-> Answers("BRIGHTNESS_MIN", "0"),
     AdjustBrightness |-> Refused, AutoAdjustBrightness |-> Refused,
     IsAutoAdjustBrightness |-> Refused]
BoostReplies ==
    [SetScreenOnBrightness |-> Refused, UpdateScreenPowerState |-> Refused,
     RegisterCallback |-> Refused, BoostBrightness |-> Refused, CancelBoostBrightness |-> Refused,
     GetDeviceBrightness |-> Answers("0", "BRIGHTNESS_OFF"),
     WaitDimmingDone |-> Answers("void", "void"), GetFeatureSupport |-> Refused,
     SetCoordinated |-> Refused]
ListenerReplies ==
    [RunJsonCommand |-> Answers("ipc connect fail", "ipc connect fail"),
     RegisterDataChangeListener |-> Answers("-1", "DEFAULT_VALUE"),
     UnregisterDataChangeListener |-> Answers("-1", "DEFAULT_VALUE"),
     SetLightBrightnessThreshold |-> Answers("0", "0"),
     SetMaxBrightness |-> Refused, SetMaxBrightnessNit |-> Refused,
     NotifyScreenPowerStatus |-> Answers("-1", "DEFAULT_VALUE")]
StrategyReplies ==
    [SetScreenPowerOffStrategy |-> Answers("ERR_CONNECTION_FAIL", "ERR_CONNECTION_FAIL"),
     SetSceneMode |-> Refused]

Reply(op) ==
    LET tables == <<StateReplies, BrightnessReplies, BoostReplies, ListenerReplies,
                    StrategyReplies>>
        i == CHOOSE j \in DOMAIN tables : op \in DOMAIN tables[j]
    IN  tables[i][op]

(* What the service checks before it acts, in this order: that the caller is the system, that  *)
(* the arguments are in their range, that the display has a controller.                        *)
ControlChecks ==
    [SetBrightness |-> <<"system">>,
     DiscountBrightness |-> <<"system", "range", "display">>,
     OverrideBrightness |-> <<"system", "range", "display">>,
     OverrideDisplayOffDelay |-> <<"system">>,
     RestoreBrightness |-> <<"system", "range", "display">>,
     GetBrightness |-> <<"display">>, GetDefaultBrightness |-> << >>,
     GetMaxBrightness |-> << >>, GetMinBrightness |-> << >>,
     AdjustBrightness |-> <<"system", "range", "display">>,
     IsAutoAdjustBrightness |-> << >>]
CallbackChecks ==
    [AutoAdjustBrightness |-> <<"system">>, RegisterCallback |-> <<"system">>,
     BoostBrightness |-> <<"system", "range", "display">>,
     CancelBoostBrightness |-> <<"system", "display">>,
     GetDeviceBrightness |-> <<"display">>,
     SetCoordinated |-> <<"system", "display">>,
     SetLightBrightnessThreshold |-> <<"system">>]
LimitChecks ==
    [SetMaxBrightness |-> <<"system", "range">>, SetMaxBrightnessNit |-> <<"system", "range">>,
     NotifyScreenPowerStatus |-> <<"system">>, SetScreenPowerOffStrategy |-> <<"system">>,
     SetScreenDisplayState |-> <<"system", "range">>]
StateChecks ==
    [SetScreenOnBrightness |-> <<"system">>, SetDisplayState |-> <<"system", "display">>,
     GetDisplayState |-> <<"display">>, GetDisplayIds |-> << >>, GetMainDisplayId |-> << >>]
ForcedChecks == [SetForcedBrightness |-> <<"system", "value", "range", "type">>]
StatusChecks ==
    [UpdateScreenPowerState |-> <<"system", "display">>, WaitDimmingDone |-> <<"system">>,
     GetFeatureSupport |-> <<"system", "type">>]
ListenerChecks ==
    [RunJsonCommand |-> <<"system", "type">>,
     RegisterDataChangeListener |-> <<"system", "type">>,
     UnregisterDataChangeListener |-> <<"system", "type">>]
SceneChecks == [SetSceneMode |-> <<"system", "type", "display">>]

Checks(op) ==
    LET tables == <<ControlChecks, CallbackChecks, LimitChecks, StateChecks, ForcedChecks,
                    StatusChecks, ListenerChecks, SceneChecks>>
        i == CHOOSE j \in DOMAIN tables : op \in DOMAIN tables[j]
    IN  tables[i][op]

(* A check that fails ends the operation.  Most operations then return false and nothing else; *)
(* these leave word in lastError_ as well, and these fail the call itself.                     *)
Newer == DOMAIN ForcedChecks \union DOMAIN ListenerChecks \union DOMAIN SceneChecks
             \union {"WaitDimmingDone", "GetFeatureSupport"}
LeavesError(op, check) ==
    CASE check = "system" ->
             op \in Newer \union {"SetBrightness"} \union (DOMAIN LimitChecks
                                \ {"SetScreenPowerOffStrategy", "SetScreenDisplayState"})
      [] check = "type"    -> TRUE
      [] check = "display" -> op = "SetSceneMode"
      [] OTHER             -> FALSE
FailsCall(op, check) ==
    CASE check = "value"  -> FALSE
      [] check = "system" -> op \in Newer \union {"SetScreenDisplayState", "UpdateScreenPowerState"}
      [] OTHER            -> op \in Newer \union {"SetScreenDisplayState"}
ErrorOf(check) == IF check = "system" THEN "ERR_SYSTEM_API_DENIED" ELSE "ERR_PARAM_INVALID"

\* The operations that take lastError_ of the service with them.
Fetches == {"SetBrightness", "SetMaxBrightness", "SetMaxBrightnessNit"}

-----------------------------------------------------------------------------
VARIABLES
    incarnation, serviceUp,    \* which start of the service this is, and whether it lives
    serviceError,              \* lastError_ of the service
    proxy_,                    \* client -> NoOne or the incarnation its proxy is of
    finding,                   \* client -> what GetProxy has found, under mutex_
    deathNotices,              \* <<client, incarnation>>: recipients that are to be told
    recipients,                \* <<client, incarnation>>: recipients that are added
    clientError,               \* client -> its lastError_
    call                       \* client -> its call

serviceVars == <<incarnation, serviceUp, serviceError>>
proxyVars == <<proxy_, finding, deathNotices, recipients>>
clientVars == <<serviceVars, proxyVars, clientError, call>>

\* at: where the call is; failing: the check it fails; alone: no other call met it in the service
NoCall == [at |-> "idle", op |-> "GetMinBrightness", failing |-> "none", to |-> NoOne,
           status |-> TRUE, error |-> "ERR_OK", alone |-> FALSE]

ClientInit ==
    /\ incarnation = 1 /\ serviceUp \in BOOLEAN /\ serviceError = "ERR_OK"
    /\ proxy_ = [c \in Clients |-> NoOne] /\ finding = [c \in Clients |-> NoOne]
    /\ deathNotices = {} /\ recipients = {}
    /\ clientError = [c \in Clients |-> "ERR_OK"]
    /\ call = [c \in Clients |-> NoCall]

InService(c) == call[c].at \in {"inner", "fetch", "clear", "reply"}
                    /\ call[c].to = incarnation /\ serviceUp

\* Whoever is in the service now is not alone in it any more.
Joined(c) == [d \in Clients |-> IF d # c /\ InService(d) THEN [call[d] EXCEPT !.alone = FALSE]
                               ELSE call[d]]

-----------------------------------------------------------------------------
(* The client                                                                                  *)

BeginOperation(c, op, failing) ==
    /\ call[c].at = "idle"
    /\ failing \in {"none"} \union {Checks(op)[i] : i \in DOMAIN Checks(op)}
    /\ call' = [call EXCEPT ![c] = [NoCall EXCEPT !.at = "proxy", !.op = op, !.failing = failing]]
    /\ UNCHANGED <<serviceVars, proxyVars, clientError>>

\* GetProxy, under mutex_: the proxy there is, or a new one that is watched before it is kept.
CheckSystemAbility(c) ==
    /\ call[c].at = "proxy" /\ finding[c] = NoOne
    /\ IF proxy_[c] # NoOne
       THEN /\ call' = [call EXCEPT ![c].at = "send", ![c].to = proxy_[c]]
            /\ UNCHANGED <<finding, clientError>>
       ELSE IF serviceUp
       THEN /\ finding' = [finding EXCEPT ![c] = incarnation]
            /\ UNCHANGED <<call, clientError>>
       ELSE /\ clientError' = [clientError EXCEPT ![c] = "ERR_CONNECTION_FAIL"]
            /\ call' = [call EXCEPT ![c] = NoCall]
            /\ UNCHANGED finding
    /\ UNCHANGED <<serviceVars, proxy_, deathNotices, recipients>>

Lives(i) == serviceUp /\ incarnation = i

KeepUnwatched(c) ==                                                     \* mutant
    /\ finding[c] # NoOne
    /\ recipients' = IF Lives(finding[c]) THEN recipients \union {<<c, finding[c]>>} ELSE recipients
    /\ proxy_' = [proxy_ EXCEPT ![c] = finding[c]]
    /\ call' = [call EXCEPT ![c].at = "send", ![c].to = finding[c]]
    /\ finding' = [finding EXCEPT ![c] = NoOne]
    /\ UNCHANGED <<serviceVars, deathNotices, clientError>>
AddDeathRecipient(c) ==
    /\ finding[c] # NoOne
    /\ IF Lives(finding[c])
       THEN /\ recipients' = recipients \union {<<c, finding[c]>>}
            /\ proxy_' = [proxy_ EXCEPT ![c] = finding[c]]
            /\ call' = [call EXCEPT ![c].at = "send", ![c].to = finding[c]]
            /\ UNCHANGED clientError
       ELSE /\ clientError' = [clientError EXCEPT ![c] = "ERR_CONNECTION_FAIL"]
            /\ call' = [call EXCEPT ![c] = NoCall]
            /\ UNCHANGED <<recipients, proxy_>>
    /\ finding' = [finding EXCEPT ![c] = NoOne]
    /\ UNCHANGED <<serviceVars, deathNotices>>

\* The call arrives, or fails because its service is dead; the proxy is kept all the same.
Send(c) ==
    /\ call[c].at = "send"
    /\ call' = IF Lives(call[c].to)
               THEN [Joined(c) EXCEPT ![c].at = "inner",
                                      ![c].alone = serviceError = "ERR_OK"
                                                       /\ ~\E d \in Clients \ {c} : InService(d)]
               ELSE [call EXCEPT ![c] = NoCall]
    /\ UNCHANGED <<serviceVars, proxyVars, clientError>>

\* What the client does with the answer: three operations take over the error they were given, and
\* NotifyBrightnessManagerScreenPowerStatus its result, which is the library's or -1.
ErrorsAfter(c) ==
    IF ~call[c].status THEN {clientError[c]}
    ELSE IF call[c].op \in Fetches THEN {call[c].error}
    ELSE IF call[c].op # "NotifyScreenPowerStatus" THEN {clientError[c]}
    ELSE IF call[c].failing = "none" THEN {"ERR_OK", "-1"} ELSE {"-1"}
Return(c) ==
    /\ call[c].at = "reply" /\ InService(c)
    /\ \E error \in ErrorsAfter(c) : clientError' = [clientError EXCEPT ![c] = error]
    /\ call' = [call EXCEPT ![c].at = "returned", ![c].to = NoOne, ![c].status = TRUE,
                              ![c].error = "ERR_OK"]
    /\ UNCHANGED <<serviceVars, proxyVars>>

\* A call whose service died on the way fails.
BreakOff(c) ==
    /\ call[c].at \in {"inner", "fetch", "clear", "reply"} /\ ~InService(c)
    /\ call' = [call EXCEPT ![c] = NoCall]
    /\ UNCHANGED <<serviceVars, proxyVars, clientError>>

\* The application takes the error, or goes on and leaves it.
ClientGetError(c) ==
    /\ call[c].at = "returned"
    /\ clientError' \in {clientError, [clientError EXCEPT ![c] = "ERR_OK"]}
    /\ call' = [call EXCEPT ![c] = NoCall]
    /\ UNCHANGED <<serviceVars, proxyVars>>

\* OnRemoteDied waits for mutex_, and drops the proxy if it is the one of the dead service.
NeverTheSame(c, i) ==                                                   \* mutant
    /\ <<c, i>> \in deathNotices /\ finding[c] = NoOne
    /\ deathNotices' = deathNotices \ {<<c, i>>}
    /\ proxy_' = [proxy_ EXCEPT ![c] = IF @ = incarnation THEN NoOne ELSE @]
    /\ UNCHANGED <<serviceVars, finding, recipients, clientError, call>>
OnRemoteDied(c, i) ==
    /\ <<c, i>> \in deathNotices /\ finding[c] = NoOne
    /\ deathNotices' = deathNotices \ {<<c, i>>}
    /\ proxy_' = [proxy_ EXCEPT ![c] = IF @ = i THEN NoOne ELSE @]
    /\ UNCHANGED <<serviceVars, finding, recipients, clientError, call>>

-----------------------------------------------------------------------------
(* The service                                                                                 *)

\* The checks and the operation itself.
Inner(c) ==
    /\ call[c].at = "inner" /\ InService(c)
    /\ LET op == call[c].op
           failing == call[c].failing
       IN  /\ serviceError' = IF failing # "none" /\ LeavesError(op, failing)
                              THEN ErrorOf(failing) ELSE serviceError
           /\ call' = [call EXCEPT
                           ![c].at = IF op \in Fetches THEN "fetch" ELSE "reply",
                           ![c].status = failing = "none" \/ ~FailsCall(op, failing)]
    /\ UNCHANGED <<incarnation, serviceUp, proxyVars, clientError>>

\* GetError of the service: it reads, and then it clears.
ClearsFirst(c) ==                                                       \* mutant
    /\ call[c].at = "fetch" /\ InService(c)
    /\ serviceError' = "ERR_OK"
    /\ call' = [call EXCEPT ![c].at = "clear", ![c].error = "ERR_OK"]
    /\ UNCHANGED <<incarnation, serviceUp, proxyVars, clientError>>
GetErrorLoads(c) ==
    /\ call[c].at = "fetch" /\ InService(c)
    /\ call' = [call EXCEPT ![c].at = "clear", ![c].error = serviceError]
    /\ UNCHANGED <<serviceVars, proxyVars, clientError>>

GetErrorClears(c) ==
    /\ call[c].at = "clear" /\ InService(c)
    /\ serviceError' = "ERR_OK"
    /\ call' = [call EXCEPT ![c].at = "reply"]
    /\ UNCHANGED <<incarnation, serviceUp, proxyVars, clientError>>

ServiceDies ==
    /\ serviceUp
    /\ serviceUp' = FALSE
    /\ deathNotices' = deathNotices \union {r \in recipients : r[2] = incarnation}
    /\ recipients' = {r \in recipients : r[2] # incarnation}
    /\ UNCHANGED <<incarnation, serviceError, proxy_, finding, clientError, call>>

ServiceRestarts ==
    /\ ~serviceUp /\ incarnation < MaxIncarnations
    /\ serviceUp' = TRUE
    /\ incarnation' = incarnation + 1
    /\ serviceError' = "ERR_OK"
    /\ UNCHANGED <<proxyVars, clientError, call>>

ClientStep(c) ==
    \/ CheckSystemAbility(c) \/ AddDeathRecipient(c) \/ Send(c) \/ Return(c) \/ BreakOff(c)
    \/ ClientGetError(c)
    \/ Inner(c) \/ GetErrorLoads(c) \/ GetErrorClears(c)

ClientNext ==
    \/ \E c \in Clients :
           \/ \E op \in ClientOps,
                 failing \in {"none", "system", "value", "range", "type", "display"} :
                  BeginOperation(c, op, failing)
           \/ ClientStep(c)
           \/ \E i \in 1 .. MaxIncarnations : OnRemoteDied(c, i)
    \/ ServiceDies \/ ServiceRestarts

\* Threads and processes run, the binder delivers notices, and the application goes on calling.
ClientFairness ==
    \A c \in Clients :
        /\ WF_clientVars(ClientStep(c))
        /\ WF_clientVars(\E i \in 1 .. MaxIncarnations : OnRemoteDied(c, i))
        /\ WF_clientVars(\E op \in ClientOps : BeginOperation(c, op, "none"))

ClientSpec == ClientInit /\ [][ClientNext]_clientVars /\ ClientFairness

-----------------------------------------------------------------------------
\* Wherever the service dies, before, while or after a client connects, a proxy of a service that is
\* gone is one whose client is still to be told.
ProxyIsWatched ==
    \A c \in Clients :
        proxy_[c] # NoOne /\ ~Lives(proxy_[c]) => <<c, proxy_[c]>> \in deathNotices

\* An operation that was refused for want of the permission, and met no other in the service, leaves
\* the client the error that says so; one that was not refused leaves it none.
DenialIsExplained ==
    \A c \in Clients :
        call[c].at = "returned" /\ call[c].alone /\ call[c].op \in Fetches =>
            clientError[c] = IF call[c].failing = "system" THEN "ERR_SYSTEM_API_DENIED"
                                                           ELSE "ERR_OK"

\* Once the service stays up, a client that goes on calling gets through to it, however often it
\* died before: failed calls do not keep the dead proxy for good.
ClientReconnects ==
    \A c \in Clients : <>[]serviceUp => []<>InService(c)
=============================================================================
