------------------------- MODULE DisplayClient_proofs -----------------------
(***************************************************************************)
(* Proofs about DisplayClient for any clients and operations, however      *)
(* often the service dies: a proxy that is kept is watched, and an error   *)
(* that no other call meets reaches the client it is meant for.            *)
(***************************************************************************)
EXTENDS DisplayClient, TLAPS

\* What ProxyIsWatched needs: the recipients of a living service, and the age of the proxies.
WatchInv ==
    /\ incarnation \in Nat /\ serviceUp \in BOOLEAN
    /\ DOMAIN proxy_ = Clients /\ proxy_ = [c \in Clients |-> proxy_[c]]
    /\ \A c \in Clients : proxy_[c] # NoOne =>
           /\ proxy_[c] \in Nat /\ proxy_[c] <= incarnation
           /\ <<c, proxy_[c]>> \in IF Lives(proxy_[c]) THEN recipients ELSE deathNotices

LEMMA WatchInit == ClientInit => WatchInv
  BY DEF ClientInit, WatchInv

LEMMA WatchStep == WatchInv /\ [ClientNext]_clientVars => WatchInv'
  <1> SUFFICES ASSUME WatchInv, [ClientNext]_clientVars PROVE WatchInv'
    OBVIOUS
  <1>1. CASE UNCHANGED <<incarnation, serviceUp, proxy_, recipients, deathNotices>>
    BY <1>1 DEF WatchInv, Lives
  <1>2. ASSUME NEW c \in Clients, AddDeathRecipient(c)
        PROVE  WatchInv'
    <2>1. UNCHANGED <<incarnation, serviceUp, deathNotices>>
      BY <1>2 DEF AddDeathRecipient, serviceVars
    <2>2. CASE Lives(finding[c])
      <3>1. /\ recipients' = recipients \union {<<c, finding[c]>>}
            /\ proxy_' = [proxy_ EXCEPT ![c] = finding[c]]
            /\ finding[c] = incarnation
        BY <1>2, <2>2 DEF AddDeathRecipient, Lives
      <3> QED
        BY <2>1, <2>2, <3>1 DEF WatchInv, Lives
    <2>3. CASE ~Lives(finding[c])
      BY <1>1, <1>2, <2>1, <2>3 DEF AddDeathRecipient
    <2> QED
      BY <2>2, <2>3
  <1>3. ASSUME NEW c \in Clients, NEW i \in 1 .. MaxIncarnations, OnRemoteDied(c, i)
        PROVE  WatchInv'
    <2>1. /\ UNCHANGED <<incarnation, serviceUp, recipients>>
          /\ deathNotices' = deathNotices \ {<<c, i>>}
          /\ proxy_' = [proxy_ EXCEPT ![c] = IF @ = i THEN NoOne ELSE @]
      BY <1>3 DEF OnRemoteDied, serviceVars
    <2>2. \A d \in Clients : proxy_'[d] # NoOne =>
              proxy_'[d] = proxy_[d] /\ (d = c => proxy_[d] # i)
      BY <2>1 DEF WatchInv
    <2> QED
      BY <2>1, <2>2 DEF WatchInv, Lives
  <1>4. CASE ServiceDies
    <2>1. /\ serviceUp /\ ~serviceUp' /\ serviceUp' \in BOOLEAN
          /\ UNCHANGED <<incarnation, proxy_>>
          /\ deathNotices' = deathNotices \union {r \in recipients : r[2] = incarnation}
      BY <1>4 DEF ServiceDies
    <2> QED
      BY <2>1 DEF WatchInv, Lives
  <1>5. CASE ServiceRestarts
    <2>1. /\ ~serviceUp /\ serviceUp' = TRUE /\ incarnation' = incarnation + 1
          /\ UNCHANGED <<proxy_, recipients, deathNotices>>
      BY <1>5 DEF ServiceRestarts, proxyVars
    <2> QED
      BY <2>1 DEF WatchInv, Lives
  <1> QED
    BY <1>1, <1>2, <1>3, <1>4, <1>5 DEF ClientNext, ClientStep, clientVars, serviceVars, proxyVars,
       BeginOperation, CheckSystemAbility, Send, Return, BreakOff, ClientGetError, Inner,
       GetErrorLoads, GetErrorClears

\* DisplayPowerMgrClient::GetProxy and OnRemoteDied: at whatever moment the service dies or comes
\* back, a proxy of a dead service is never kept without a notice that will drop it.
THEOREM ProxyStaysWatched == ClientSpec => []ProxyIsWatched
  <1>1. WatchInv => ProxyIsWatched
    BY DEF WatchInv, ProxyIsWatched
  <1> QED
    BY <1>1, WatchInit, WatchStep, PTL DEF ClientSpec

-----------------------------------------------------------------------------
(* The errors. *)

\* The operations that fetch the error know two refusals: the permission and the range.
LEMMA FetchingChecks ==
    \A op \in Fetches :
        /\ \A i \in DOMAIN Checks(op) : Checks(op)[i] \in {"system", "range"}
        /\ LeavesError(op, "system") /\ ~LeavesError(op, "range")
        /\ ~FailsCall(op, "system") /\ ~FailsCall(op, "range")
  <1>1. ASSUME NEW op \in Fetches
        PROVE  Checks(op) = IF op = "SetBrightness" THEN <<"system">> ELSE <<"system", "range">>
    <2> DEFINE tables == <<ControlChecks, CallbackChecks, LimitChecks, StateChecks, ForcedChecks,
                           StatusChecks, ListenerChecks, SceneChecks>>
               own == IF op = "SetBrightness" THEN 1 ELSE 3
    <2>1. DOMAIN tables = 1 .. 8
      OBVIOUS
    <2>2. /\ op \in DOMAIN ControlChecks <=> op = "SetBrightness"
          /\ op \in DOMAIN LimitChecks <=> op # "SetBrightness"
          /\ op \notin DOMAIN CallbackChecks /\ op \notin DOMAIN StateChecks
          /\ op \notin DOMAIN ForcedChecks /\ op \notin DOMAIN StatusChecks
          /\ op \notin DOMAIN ListenerChecks /\ op \notin DOMAIN SceneChecks
      BY <1>1 DEF Fetches, ControlChecks, CallbackChecks, LimitChecks, StateChecks, ForcedChecks,
         StatusChecks, ListenerChecks, SceneChecks
    <2>3. /\ tables[1] = ControlChecks /\ tables[2] = CallbackChecks /\ tables[3] = LimitChecks
          /\ tables[4] = StateChecks /\ tables[5] = ForcedChecks /\ tables[6] = StatusChecks
          /\ tables[7] = ListenerChecks /\ tables[8] = SceneChecks
      OBVIOUS
    <2>4. \A j \in 1 .. 8 : op \in DOMAIN tables[j] <=> j = own
      <3>1. \A j \in 1 .. 8 : j = 1 \/ j = 2 \/ j = 3 \/ j = 4 \/ j = 5 \/ j = 6 \/ j = 7 \/ j = 8
        OBVIOUS
      <3> HIDE DEF tables
      <3> QED
        BY <2>2, <2>3, <3>1
    <2>5. Checks(op) = tables[own][op]
      <3>1. (CHOOSE j \in 1 .. 8 : op \in DOMAIN tables[j]) = own
        BY <2>4
      <3> QED
        BY <2>1, <3>1 DEF Checks
    <2>6. Checks(op) = IF op = "SetBrightness" THEN ControlChecks[op] ELSE LimitChecks[op]
      BY <2>3, <2>5
    <2> QED
      BY <1>1, <2>6 DEF Fetches, ControlChecks, LimitChecks
  <1>2. \A op \in Fetches : op \notin Newer
    BY DEF Fetches, Newer, ForcedChecks, ListenerChecks, SceneChecks
  <1>3. \A op \in Fetches : op \in {"SetBrightness"} \union (DOMAIN LimitChecks
                                \ {"SetScreenPowerOffStrategy", "SetScreenDisplayState"})
    BY DEF Fetches, LimitChecks
  <1>4. \A op \in Fetches : op \notin {"SetScreenDisplayState", "UpdateScreenPowerState"}
    BY DEF Fetches
  <1> QED
    BY <1>1, <1>2, <1>3, <1>4 DEF LeavesError, FailsCall
Errors == {"ERR_OK", "ERR_CONNECTION_FAIL", "ERR_SYSTEM_API_DENIED", "ERR_PARAM_INVALID", "-1"}
Places == {"idle", "proxy", "send", "inner", "fetch", "clear", "reply", "returned"}
Failures == {"none", "system", "value", "range", "type", "display"}
Calls == [at : Places, op : ClientOps \union {"GetMinBrightness"}, failing : Failures,
          to : {NoOne} \union Nat, status : BOOLEAN, error : Errors, alone : BOOLEAN]

ErrorTypes ==
    /\ incarnation \in Nat /\ serviceUp \in BOOLEAN /\ serviceError \in Errors
    /\ call \in [Clients -> Calls] /\ clientError \in [Clients -> Errors]

\* A call is sent to a service that was started.
Addressed(c) ==
    call[c].at \in {"send", "inner", "fetch", "clear", "reply"} =>
        call[c].to \in Nat /\ call[c].to <= incarnation
Refusable(c) == call[c].op \in Fetches => call[c].failing \in {"none", "system", "range"}
\* Who is alone in the service has it for itself.
Solo(c) == InService(c) /\ call[c].alone => \A d \in Clients \ {c} : ~InService(d)

Expected(c) == IF call[c].failing = "system" THEN "ERR_SYSTEM_API_DENIED" ELSE "ERR_OK"

\* Where the error of a call that is alone is kept on its way back.
OwnError(c) ==
    call[c].alone /\ call[c].op \in Fetches =>
        /\ InService(c) =>
               /\ call[c].at = "inner" => serviceError = "ERR_OK"
               /\ call[c].at = "fetch" => serviceError = Expected(c) /\ call[c].status
               /\ call[c].at \in {"clear", "reply"} =>
                      call[c].error = Expected(c) /\ call[c].status
        /\ call[c].at = "returned" => clientError[c] = Expected(c)

CallInv(c) == Addressed(c) /\ Refusable(c) /\ Solo(c) /\ OwnError(c)
ErrorInv == ErrorTypes /\ \A c \in Clients : CallInv(c)

LEMMA NoCallType == NoCall \in Calls /\ NoCall.at = "idle" /\ NoCall.op \notin Fetches
                    /\ ~NoCall.alone
  <1>1. "ERR_OK" \in Errors
    BY DEF Errors
  <1>2. NoCall \in Calls
    BY <1>1 DEF NoCall, Calls, Places, Failures
  <1> QED
    BY <1>2 DEF NoCall, Fetches

LEMMA ErrorInit == ClientInit => ErrorInv
  <1> SUFFICES ASSUME ClientInit PROVE ErrorInv
    OBVIOUS
  <1>1. ErrorTypes
    BY NoCallType DEF ClientInit, ErrorTypes, Errors
  <1>2. ASSUME NEW c \in Clients PROVE CallInv(c)
    <2>1. call[c] = NoCall
      BY DEF ClientInit
    <2> QED
      BY <2>1, NoCallType DEF CallInv, Addressed, Refusable, Solo, OwnError, InService
  <1> QED
    BY <1>1, <1>2 DEF ErrorInv

\* A step of one call that does not enter the service leaves the others alone, because it touches
\* the error of the service only while it is there itself.
LEMMA OwnStepKeeps ==
    ASSUME ErrorInv, NEW c \in Clients, UNCHANGED <<incarnation, serviceUp>>, ErrorTypes',
           \A d \in Clients \ {c} : call'[d] = call[d] /\ clientError'[d] = clientError[d],
           InService(c)' => InService(c) /\ (call'[c].alone => call[c].alone),
           serviceError' = serviceError \/ InService(c),
           Addressed(c)', Refusable(c)', OwnError(c)'
    PROVE  ErrorInv'
  <1>1. \A d \in Clients \ {c} : InService(d)' <=> InService(d)
    BY DEF InService
  <1>2. ASSUME NEW d \in Clients \ {c} PROVE CallInv(d)'
    <2>1. CallInv(d) /\ call'[d] = call[d] /\ clientError'[d] = clientError[d]
      BY DEF ErrorInv
    <2>2. Addressed(d)' /\ Refusable(d)'
      BY <2>1 DEF CallInv, Addressed, Refusable
    <2>3. Solo(d)'
      BY <1>1, <2>1 DEF CallInv, Solo
    <2>4. OwnError(d)'
      <3>1. InService(d) /\ call[d].alone => serviceError' = serviceError
        BY <2>1 DEF CallInv, Solo
      <3> QED
        BY <1>1, <2>1, <3>1 DEF CallInv, OwnError, Expected
    <2> QED
      BY <2>2, <2>3, <2>4 DEF CallInv
  <1>3. Solo(c)'
    BY <1>1 DEF ErrorInv, CallInv, Solo
  <1>4. CallInv(c)'
    BY <1>3 DEF CallInv
  <1> QED
    BY <1>2, <1>4 DEF ErrorInv

\* A call that is over, or not yet sent, owes no error.
LEMMA QuietStepKeeps ==
    ASSUME ErrorInv, NEW c \in Clients, NEW new \in Calls,
           new.at \in {"idle", "proxy", "send"},
           new.at = "send" => new.to \in Nat /\ new.to <= incarnation,
           new.op \in Fetches => new.failing \in {"none", "system", "range"},
           call' = [call EXCEPT ![c] = new],
           UNCHANGED serviceVars,
           NEW error \in Errors, clientError' = [clientError EXCEPT ![c] = error]
    PROVE  ErrorInv'
  <1>1. /\ UNCHANGED <<incarnation, serviceUp, serviceError>>
        /\ call'[c] = new
        /\ \A d \in Clients \ {c} : call'[d] = call[d] /\ clientError'[d] = clientError[d]
        /\ ErrorTypes'
    BY DEF ErrorInv, ErrorTypes, serviceVars
  <1>2. ~InService(c)'
    BY <1>1 DEF InService
  <1>3. Addressed(c)' /\ Refusable(c)' /\ OwnError(c)'
    BY <1>1 DEF Addressed, Refusable, OwnError
  <1> QED
    BY <1>1, <1>2, <1>3, OwnStepKeeps

LEMMA SendKeeps ==
    ASSUME ErrorInv, NEW c \in Clients, Send(c), Lives(call[c].to)
    PROVE  ErrorInv'
  <1> DEFINE solo == serviceError = "ERR_OK" /\ ~\E d \in Clients \ {c} : InService(d)
  <1>1. /\ call' = [Joined(c) EXCEPT ![c].at = "inner", ![c].alone = solo]
        /\ UNCHANGED <<incarnation, serviceUp, serviceError, clientError>>
        /\ call[c].at = "send" /\ call[c].to = incarnation /\ serviceUp
    BY DEF Send, serviceVars, Lives
  <1>2. Joined(c) \in [Clients -> Calls] /\ Joined(c)[c] = call[c]
    BY DEF Joined, ErrorInv, ErrorTypes, Calls
  <1>3. call' \in [Clients -> Calls]
    <2>1. solo \in BOOLEAN
      OBVIOUS
    <2> HIDE DEF solo
    <2>2. [call[c] EXCEPT !.at = "inner", !.alone = solo] \in Calls
      BY <2>1 DEF ErrorInv, ErrorTypes, Calls, Places
    <2>3. call' = [Joined(c) EXCEPT ![c] = [call[c] EXCEPT !.at = "inner", !.alone = solo]]
      BY <1>1, <1>2
    <2> QED
      BY <1>2, <2>2, <2>3
  <1>4. /\ call'[c].at = "inner" /\ call'[c].alone = solo /\ call'[c].op = call[c].op
        /\ call'[c].to = call[c].to /\ call'[c].failing = call[c].failing
    <2>1. call'[c] = [call[c] EXCEPT !.at = "inner", !.alone = solo]
      BY <1>1, <1>2
    <2> QED
      BY <2>1 DEF ErrorInv, ErrorTypes, Calls
  <1>5. \A d \in Clients \ {c} :
            /\ call'[d].at = call[d].at /\ call'[d].to = call[d].to /\ call'[d].op = call[d].op
            /\ call'[d].failing = call[d].failing /\ call'[d].status = call[d].status
            /\ call'[d].error = call[d].error
            /\ call'[d].alone = (call[d].alone /\ ~InService(d))
    <2>1. ASSUME NEW d \in Clients \ {c}
          PROVE  call'[d] = IF InService(d) THEN [call[d] EXCEPT !.alone = FALSE] ELSE call[d]
      BY <1>1, <1>2 DEF Joined
    <2> QED
      BY <2>1 DEF ErrorInv, ErrorTypes, Calls
  <1>6. ErrorTypes'
    BY <1>1, <1>3 DEF ErrorInv, ErrorTypes
  <1>7. \A d \in Clients \ {c} : InService(d)' <=> InService(d)
    BY <1>1, <1>5 DEF InService
  <1>8. CallInv(c)'
    BY <1>1, <1>4, <1>7 DEF ErrorInv, ErrorTypes, CallInv, Addressed, Refusable, Solo, OwnError,
       Expected
  <1>9. ASSUME NEW d \in Clients \ {c} PROVE CallInv(d)'
    <2>1. CallInv(d)
      BY DEF ErrorInv
    <2>2. InService(d)' => ~call'[d].alone
      BY <1>5, <1>7
    <2> QED
      BY <1>1, <1>5, <1>7, <2>1, <2>2
         DEF CallInv, Addressed, Refusable, Solo, OwnError, Expected
  <1> QED
    BY <1>6, <1>8, <1>9 DEF ErrorInv

\* A step of a call that is in the service.
LEMMA ServeStepKeeps ==
    ASSUME ErrorInv, NEW c \in Clients, InService(c), NEW new \in Calls,
           new.to = call[c].to, new.op = call[c].op, new.failing = call[c].failing,
           new.alone = call[c].alone, new.at \in {"fetch", "clear", "reply"},
           call' = [call EXCEPT ![c] = new], serviceError' \in Errors,
           UNCHANGED <<incarnation, serviceUp, clientError>>,
           call[c].alone /\ call[c].op \in Fetches =>
               /\ new.status
               /\ new.at = "fetch" => serviceError' = Expected(c)
               /\ new.at \in {"clear", "reply"} => new.error = Expected(c)
    PROVE  ErrorInv'
  <1>1. /\ call'[c] = new
        /\ \A d \in Clients \ {c} : call'[d] = call[d] /\ clientError'[d] = clientError[d]
        /\ ErrorTypes'
    BY DEF ErrorInv, ErrorTypes
  <1>2. CallInv(c)
    BY DEF ErrorInv
  <1>3. Addressed(c)' /\ Refusable(c)'
    BY <1>1, <1>2 DEF CallInv, Addressed, Refusable, InService
  <1>4. OwnError(c)'
    BY <1>1 DEF OwnError, Expected
  <1>5. InService(c)' => InService(c) /\ (call'[c].alone => call[c].alone)
    BY <1>1
  <1> QED
    BY <1>1, <1>3, <1>4, <1>5, OwnStepKeeps

LEMMA InnerKeeps ==
    ASSUME ErrorInv, NEW c \in Clients, Inner(c)
    PROVE  ErrorInv'
  <1> DEFINE op == call[c].op
             failing == call[c].failing
             status == failing = "none" \/ ~FailsCall(op, failing)
             new == [call[c] EXCEPT !.at = IF op \in Fetches THEN "fetch" ELSE "reply",
                                    !.status = status]
  <1>1. /\ InService(c) /\ call[c].at = "inner"
        /\ serviceError' = IF failing # "none" /\ LeavesError(op, failing)
                           THEN ErrorOf(failing) ELSE serviceError
        /\ call' = [call EXCEPT ![c] = new]
        /\ UNCHANGED <<incarnation, serviceUp, clientError>>
    BY DEF Inner, ErrorInv, ErrorTypes
  <1>2. call[c] \in Calls
    BY DEF ErrorInv, ErrorTypes
  <1>3. status \in BOOLEAN
    OBVIOUS
  <1>4. /\ new \in Calls /\ new.to = call[c].to /\ new.op = op /\ new.failing = failing
        /\ new.alone = call[c].alone /\ new.at = IF op \in Fetches THEN "fetch" ELSE "reply"
        /\ new.status = status
    <2> HIDE DEF status
    <2> QED
      BY <1>2, <1>3 DEF Calls, Places
  <1>5. serviceError' \in Errors
    BY <1>1 DEF ErrorInv, ErrorTypes, ErrorOf, Errors
  <1>6. call[c].alone /\ op \in Fetches => serviceError = "ERR_OK"
                                           /\ failing \in {"none", "system", "range"}
    BY <1>1 DEF ErrorInv, CallInv, Refusable, OwnError
  <1>7. call[c].alone /\ op \in Fetches => status /\ serviceError' = Expected(c)
    BY <1>1, <1>6, FetchingChecks DEF Expected, ErrorOf
  <1> HIDE DEF new
  <1>8. call[c].alone /\ op \in Fetches =>
            /\ new.status
            /\ new.at = "fetch" => serviceError' = Expected(c)
            /\ new.at \in {"clear", "reply"} => new.error = Expected(c)
    BY <1>4, <1>7
  <1> QED
    BY <1>1, <1>4, <1>5, <1>8, ServeStepKeeps

LEMMA GetErrorKeeps ==
    ASSUME ErrorInv, NEW c \in Clients, GetErrorLoads(c) \/ GetErrorClears(c)
    PROVE  ErrorInv'
  <1>1. call[c] \in Calls /\ serviceError \in Errors /\ CallInv(c)
    BY DEF ErrorInv, ErrorTypes
  <1>2. CASE GetErrorLoads(c)
    <2> DEFINE new == [call[c] EXCEPT !.at = "clear", !.error = serviceError]
    <2>1. /\ InService(c) /\ call[c].at = "fetch" /\ call' = [call EXCEPT ![c] = new]
          /\ UNCHANGED <<incarnation, serviceUp, serviceError, clientError>>
      BY <1>2 DEF GetErrorLoads, ErrorInv, ErrorTypes, serviceVars
    <2>2. /\ new \in Calls /\ new.to = call[c].to /\ new.op = call[c].op
          /\ new.failing = call[c].failing /\ new.alone = call[c].alone /\ new.at = "clear"
          /\ new.status = call[c].status /\ new.error = serviceError
      BY <1>1 DEF Calls, Places
    <2> HIDE DEF new
    <2>3. call[c].alone /\ call[c].op \in Fetches => serviceError = Expected(c) /\ call[c].status
      BY <1>1, <2>1 DEF CallInv, OwnError
    <2> QED
      BY <1>1, <2>1, <2>2, <2>3, ServeStepKeeps
  <1>3. CASE GetErrorClears(c)
    <2> DEFINE new == [call[c] EXCEPT !.at = "reply"]
    <2>1. /\ InService(c) /\ call[c].at = "clear" /\ call' = [call EXCEPT ![c] = new]
          /\ serviceError' = "ERR_OK" /\ UNCHANGED <<incarnation, serviceUp, clientError>>
      BY <1>3 DEF GetErrorClears, ErrorInv, ErrorTypes
    <2>2. /\ new \in Calls /\ new.to = call[c].to /\ new.op = call[c].op
          /\ new.failing = call[c].failing /\ new.alone = call[c].alone /\ new.at = "reply"
          /\ new.status = call[c].status /\ new.error = call[c].error
      BY <1>1 DEF Calls, Places
    <2> HIDE DEF new
    <2>3. call[c].alone /\ call[c].op \in Fetches => call[c].error = Expected(c) /\ call[c].status
      BY <1>1, <2>1 DEF CallInv, OwnError
    <2>4. serviceError' \in Errors
      BY <2>1 DEF Errors
    <2> QED
      BY <1>1, <2>1, <2>2, <2>3, <2>4, ServeStepKeeps
  <1> QED
    BY <1>2, <1>3

LEMMA ReturnKeeps ==
    ASSUME ErrorInv, NEW c \in Clients, Return(c)
    PROVE  ErrorInv'
  <1> DEFINE new == [call[c] EXCEPT !.at = "returned", !.to = NoOne, !.status = TRUE,
                                    !.error = "ERR_OK"]
  <1>1. /\ call[c].at = "reply" /\ InService(c) /\ call' = [call EXCEPT ![c] = new]
        /\ UNCHANGED <<incarnation, serviceUp, serviceError>>
    BY DEF Return, ErrorInv, ErrorTypes, serviceVars
  <1>2. call[c] \in Calls /\ clientError \in [Clients -> Errors] /\ CallInv(c)
    BY DEF ErrorInv, ErrorTypes
  <1>8. PICK error \in ErrorsAfter(c) : clientError' = [clientError EXCEPT ![c] = error]
    BY DEF Return
  <1>9. error \in Errors
    BY <1>2, <1>8 DEF ErrorsAfter, Errors, Calls
  <1>3. /\ new \in Calls /\ new.op = call[c].op /\ new.failing = call[c].failing
        /\ new.alone = call[c].alone /\ new.at = "returned"
    BY <1>2 DEF Calls, Errors, Places
  <1> HIDE DEF new
  <1>4. /\ call'[c] = new /\ ErrorTypes'
        /\ \A d \in Clients \ {c} : call'[d] = call[d] /\ clientError'[d] = clientError[d]
    BY <1>1, <1>2, <1>3, <1>8, <1>9 DEF ErrorInv, ErrorTypes, Calls
  <1>5. call[c].alone /\ call[c].op \in Fetches => clientError'[c] = Expected(c)
    <2>1. call[c].alone /\ call[c].op \in Fetches => error = Expected(c)
      BY <1>1, <1>2, <1>8 DEF ErrorsAfter, CallInv, OwnError
    <2> QED
      BY <1>2, <1>8, <2>1
  <1>6. ~InService(c)'
    BY <1>3, <1>4 DEF InService
  <1>7. Addressed(c)' /\ Refusable(c)' /\ OwnError(c)'
    BY <1>2, <1>3, <1>4, <1>5, <1>6 DEF CallInv, Addressed, Refusable, OwnError, Expected
  <1> QED
    BY <1>1, <1>4, <1>6, <1>7, OwnStepKeeps

\* A service that dies takes every call in it along; the calls of a dead one never enter the next.
LEMMA DeathKeeps ==
    ASSUME ErrorInv, UNCHANGED <<call, clientError>>, incarnation' \in Nat, serviceUp' \in BOOLEAN,
           incarnation' >= incarnation, serviceError' \in Errors,
           serviceUp' => incarnation' > incarnation
    PROVE  ErrorInv'
  <1>1. \A c \in Clients : ~InService(c)'
    BY DEF ErrorInv, ErrorTypes, CallInv, Addressed, InService
  <1>2. ASSUME NEW c \in Clients PROVE CallInv(c)'
    <2>1. CallInv(c) /\ incarnation \in Nat
      BY DEF ErrorInv, ErrorTypes
    <2>2. Addressed(c)'
      BY <2>1 DEF CallInv, Addressed
    <2> QED
      BY <1>1, <2>1, <2>2 DEF CallInv, Refusable, Solo, OwnError, Expected
  <1> QED
    BY <1>2 DEF ErrorInv, ErrorTypes

LEMMA ConnectKeeps ==
    ASSUME WatchInv, ErrorInv, NEW c \in Clients, CheckSystemAbility(c) \/ AddDeathRecipient(c)
    PROVE  ErrorInv'
  <1>1. call[c] \in Calls /\ clientError \in [Clients -> Errors] /\ CallInv(c)
        /\ "ERR_CONNECTION_FAIL" \in Errors /\ incarnation \in Nat
    BY DEF ErrorInv, ErrorTypes, Errors
  <1>2. UNCHANGED serviceVars
    BY DEF CheckSystemAbility, AddDeathRecipient
  <1>3. CASE /\ clientError' = [clientError EXCEPT ![c] = "ERR_CONNECTION_FAIL"]
             /\ call' = [call EXCEPT ![c] = NoCall]
    BY <1>1, <1>2, <1>3, NoCallType, QuietStepKeeps
  <1>4. ASSUME NEW to \in Nat, to <= incarnation, UNCHANGED clientError,
               call' = [call EXCEPT ![c].at = "send", ![c].to = to]
        PROVE  ErrorInv'
    <2> DEFINE new == [call[c] EXCEPT !.at = "send", !.to = to]
    <2>1. /\ new \in Calls /\ new.at = "send" /\ new.to = to /\ new.op = call[c].op
          /\ new.failing = call[c].failing /\ new.alone = call[c].alone
      BY <1>1 DEF Calls, Places
    <2>2. call' = [call EXCEPT ![c] = new]
      BY <1>4 DEF ErrorInv, ErrorTypes
    <2> HIDE DEF new
    <2>3. clientError' = [clientError EXCEPT ![c] = clientError[c]] /\ clientError[c] \in Errors
      BY <1>1, <1>4
    <2>4. new.op \in Fetches => new.failing \in {"none", "system", "range"}
      BY <1>1, <2>1 DEF CallInv, Refusable
    <2> QED
      BY <1>2, <1>4, <2>1, <2>2, <2>3, <2>4, QuietStepKeeps
  <1>5. CASE UNCHANGED <<call, clientError>>
    BY <1>2, <1>5 DEF ErrorInv, ErrorTypes, CallInv, Addressed, Refusable, Solo, OwnError, Expected,
       InService, serviceVars
  <1>6. CASE CheckSystemAbility(c) /\ proxy_[c] # NoOne
    <2>1. /\ proxy_[c] \in Nat /\ proxy_[c] <= incarnation /\ UNCHANGED clientError
          /\ call' = [call EXCEPT ![c].at = "send", ![c].to = proxy_[c]]
      BY <1>6 DEF CheckSystemAbility, WatchInv
    <2> QED
      BY <1>4, <2>1
  <1>7. CASE CheckSystemAbility(c) /\ proxy_[c] = NoOne
    BY <1>3, <1>5, <1>7 DEF CheckSystemAbility
  <1>8. CASE AddDeathRecipient(c) /\ Lives(finding[c])
    <2>1. /\ incarnation <= incarnation /\ UNCHANGED clientError
          /\ call' = [call EXCEPT ![c].at = "send", ![c].to = incarnation]
      BY <1>1, <1>8 DEF AddDeathRecipient, Lives
    <2> QED
      BY <1>1, <1>4, <2>1
  <1>9. CASE AddDeathRecipient(c) /\ ~Lives(finding[c])
    BY <1>3, <1>9 DEF AddDeathRecipient
  <1> QED
    BY <1>6, <1>7, <1>8, <1>9

\* A call that begins, breaks off or is over.
LEMMA ClosingKeeps ==
    ASSUME ErrorInv, NEW c \in Clients,
           BreakOff(c) \/ ClientGetError(c) \/ (Send(c) /\ ~Lives(call[c].to))
    PROVE  ErrorInv'
  <1>1. /\ UNCHANGED serviceVars /\ call' = [call EXCEPT ![c] = NoCall]
        /\ clientError' \in {clientError, [clientError EXCEPT ![c] = "ERR_OK"]}
    BY DEF BreakOff, ClientGetError, Send
  <1>2. clientError \in [Clients -> Errors] /\ "ERR_OK" \in Errors
    BY DEF ErrorInv, ErrorTypes, Errors
  <1>3. PICK error \in Errors : clientError' = [clientError EXCEPT ![c] = error]
    <2>1. CASE clientError' = [clientError EXCEPT ![c] = "ERR_OK"]
      BY <1>2, <2>1
    <2>2. CASE clientError' = clientError
      <3>1. clientError' = [clientError EXCEPT ![c] = clientError[c]] /\ clientError[c] \in Errors
        BY <1>2, <2>2
      <3> QED
        BY <3>1
    <2> QED
      BY <1>1, <2>1, <2>2
  <1> QED
    BY <1>1, <1>3, NoCallType, QuietStepKeeps

LEMMA BeginKeeps ==
    ASSUME ErrorInv, NEW c \in Clients, NEW op \in ClientOps, NEW failing \in Failures,
           BeginOperation(c, op, failing)
    PROVE  ErrorInv'
  <1> DEFINE new == [NoCall EXCEPT !.at = "proxy", !.op = op, !.failing = failing]
  <1>1. call' = [call EXCEPT ![c] = new] /\ UNCHANGED <<serviceVars, clientError>>
    BY DEF BeginOperation
  <1>2. new \in Calls /\ new.at = "proxy" /\ new.op = op /\ new.failing = failing
    BY NoCallType DEF Calls, Places
  <1>3. op \in Fetches => failing \in {"none", "system", "range"}
    BY FetchingChecks DEF BeginOperation
  <1>4. clientError' = [clientError EXCEPT ![c] = clientError[c]] /\ clientError[c] \in Errors
    BY <1>1 DEF ErrorInv, ErrorTypes
  <1> HIDE DEF new
  <1> QED
    BY <1>1, <1>2, <1>3, <1>4, QuietStepKeeps

LEMMA ErrorStep == WatchInv /\ ErrorInv /\ [ClientNext]_clientVars => ErrorInv'
  <1> SUFFICES ASSUME WatchInv, ErrorInv, [ClientNext]_clientVars PROVE ErrorInv'
    OBVIOUS
  <1>1. CASE UNCHANGED <<serviceVars, clientError, call>>
    BY <1>1 DEF ErrorInv, ErrorTypes, CallInv, Addressed, Refusable, Solo, OwnError, Expected,
       InService, serviceVars
  <1>2. ASSUME NEW c \in Clients, NEW op \in ClientOps, NEW failing \in Failures,
               BeginOperation(c, op, failing)
        PROVE  ErrorInv'
    BY <1>2, BeginKeeps
  <1>3. ASSUME NEW c \in Clients, ClientStep(c)
        PROVE  ErrorInv'
    BY <1>3, ConnectKeeps, SendKeeps, ReturnKeeps, ClosingKeeps, InnerKeeps, GetErrorKeeps
       DEF ClientStep
  <1>4. ASSUME NEW c \in Clients, NEW i \in 1 .. MaxIncarnations, OnRemoteDied(c, i)
        PROVE  ErrorInv'
    BY <1>1, <1>4 DEF OnRemoteDied
  <1>5. CASE ServiceDies
    <2>1. /\ UNCHANGED <<incarnation, serviceError, call, clientError>> /\ serviceUp' = FALSE
          /\ incarnation \in Nat /\ serviceError \in Errors
      BY <1>5 DEF ServiceDies, ErrorInv, ErrorTypes
    <2>2. incarnation' \in Nat /\ incarnation' >= incarnation
      BY <2>1
    <2> QED
      BY <2>1, <2>2, DeathKeeps
  <1>6. CASE ServiceRestarts
    <2>1. "ERR_OK" \in Errors
      BY DEF Errors
    <2>2. /\ UNCHANGED <<call, clientError>> /\ incarnation' = incarnation + 1 /\ serviceUp' = TRUE
          /\ serviceError' = "ERR_OK" /\ incarnation \in Nat
      BY <1>6 DEF ServiceRestarts, ErrorInv, ErrorTypes
    <2> QED
      BY <2>1, <2>2, DeathKeeps
  <1> QED
    BY <1>1, <1>2, <1>3, <1>4, <1>5, <1>6 DEF ClientNext, clientVars, Failures

\* GetError of service and client share one lastError_ each without a lock, and a call that meets no
\* other in the service still brings home the error of its own refusal, and no stale one.
THEOREM DenialExplained == ClientSpec => []DenialIsExplained
  <1>1. ErrorInv => DenialIsExplained
    BY DEF ErrorInv, CallInv, OwnError, Expected, DenialIsExplained
  <1> QED
    BY <1>1, WatchInit, WatchStep, ErrorInit, ErrorStep, PTL DEF ClientSpec
=============================================================================
