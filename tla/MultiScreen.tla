----------------------------- MODULE MultiScreen ----------------------------
(***************************************************************************)
(* The states of many screens.  SetMultiScreenDisplayStateInner takes the  *)
(* lock of the screen's controller, tells the brightness, asks the display *)
(* manager and the render service, undoes the brightness when either       *)
(* refuses, and tells the listeners of MultiScreenDisplayStateCallback-    *)
(* Manager one after the other before it gives the lock back.  Listeners   *)
(* come, go and die meanwhile, under a mutex of their own.                 *)
(* A call without the permissions, or with a state that is neither on nor  *)
(* off, returns before it does anything and is not a step here.            *)
(***************************************************************************)
EXTENDS Naturals, FiniteSets

CONSTANTS
    MultiDisplays,     \* the displays
    DISPLAY_ID_ALL,    \* the id that a listener for all of them registers
    Setters,           \* the threads in SetMultiScreenDisplayStateInner
    Listeners,         \* the callbacks (remote objects)
    Nobody

ASSUME MultiScreenAssumption ==
    /\ Nobody \notin Setters
    /\ MultiDisplays # {} /\ DISPLAY_ID_ALL \notin MultiDisplays

States == {"ON", "OFF"}
AllStates == States \union {"UNKNOWN"}
Registrations == Listeners \X (MultiDisplays \union {DISPLAY_ID_ALL})

VARIABLES
    screenState,       \* display -> state_ of its controller
    brightnessState,   \* display -> what the brightness was told
    screenLock,        \* display -> Nobody or the setter that holds the lock
    setter,            \* setter -> where it is, and the registrations it has still to call
    callbacks_, deathRecipients_, callbackPidUidMap_,
    aliveListeners,
    obituaries,        \* listeners whose OnRemoteDied has not run yet
    unwatched,         \* listeners whose death recipient was added to a process already dead
    heard,             \* registration -> the last state it was sent of a display
    announced          \* display -> the last common event given to the event service

stateVars == <<screenState, brightnessState>>
registryVars == <<callbacks_, deathRecipients_, callbackPidUidMap_>>
lifeVars == <<aliveListeners, obituaries, unwatched>>
toldVars == <<heard, announced>>
multiVars == <<stateVars, screenLock, setter, registryVars, lifeVars, toldVars>>

Idle == [at |-> "idle", display |-> CHOOSE d \in MultiDisplays : TRUE, state |-> "OFF",
         targets |-> {}]

MultiInit ==
    /\ screenState = [d \in MultiDisplays |-> "UNKNOWN"]
    /\ brightnessState = [d \in MultiDisplays |-> "UNKNOWN"]
    /\ screenLock = [d \in MultiDisplays |-> Nobody]
    /\ setter = [t \in Setters |-> Idle]
    /\ callbacks_ = {} /\ deathRecipients_ = {} /\ callbackPidUidMap_ = {}
    /\ aliveListeners = Listeners /\ obituaries = {} /\ unwatched = {}
    /\ heard = [r \in Listeners \X MultiDisplays |-> "UNKNOWN"]
    /\ announced = [d \in MultiDisplays |-> "UNKNOWN"]

-----------------------------------------------------------------------------
(* SetMultiScreenDisplayStateInner                                                             *)

\* Under the lock: nothing to do when the screen has the state, and the brightness is told else.
LockScreen(t, d, state) ==
    /\ setter[t].at = "idle"
    /\ screenLock[d] = Nobody
    /\ screenState[d] # state
    /\ screenLock' = [screenLock EXCEPT ![d] = t]
    /\ setter' = [setter EXCEPT ![t] =
                      [at |-> "update", display |-> d, state |-> state, targets |-> {}]]
    /\ brightnessState' = [brightnessState EXCEPT ![d] = state]
    /\ UNCHANGED <<screenState, registryVars, lifeVars, toldVars>>

\* The display manager and the render service are both asked whatever the other one answers.
UpdateMultiScreenState(t) ==
    /\ setter[t].at = "update"
    /\ \E setDisplayStateRet, setScreenPowerRet \in BOOLEAN :
           IF setDisplayStateRet /\ setScreenPowerRet
           THEN /\ screenState' = [screenState EXCEPT ![setter[t].display] = setter[t].state]
                /\ setter' = [setter EXCEPT ![t].at = "notify"]
           ELSE /\ setter' = [setter EXCEPT ![t].at = "undo"]
                /\ UNCHANGED screenState
    /\ UNCHANGED <<brightnessState, screenLock, registryVars, lifeVars, toldVars>>

ForgetBrightness(t) ==                                                  \* mutant
    /\ setter[t].at = "undo"
    /\ screenLock' = [screenLock EXCEPT ![setter[t].display] = Nobody]
    /\ setter' = [setter EXCEPT ![t] = Idle]
    /\ UNCHANGED <<stateVars, registryVars, lifeVars, toldVars>>
UndoSetDisplayState(t) ==
    /\ setter[t].at = "undo"
    /\ LET d == setter[t].display
       IN  /\ brightnessState' = [brightnessState EXCEPT ![d] = screenState[d]]
           /\ screenLock' = [screenLock EXCEPT ![d] = Nobody]
    /\ setter' = [setter EXCEPT ![t] = Idle]
    /\ UNCHANGED <<screenState, registryVars, lifeVars, toldVars>>

Covers(registration, d) == registration[2] \in {d, DISPLAY_ID_ALL}

\* Notify: a copy of the registrations under the mutex, and then the calls without it.
UnlockAndCopy(t) ==                                                     \* mutant
    /\ setter[t].at = "notify"
    /\ LET d == setter[t].display
       IN  /\ setter' = [setter EXCEPT ![t].at = "call",
                                       ![t].targets = {r \in callbacks_ : Covers(r, d)}]
           /\ screenLock' = [screenLock EXCEPT ![d] = Nobody]
    /\ UNCHANGED <<stateVars, registryVars, lifeVars, toldVars>>
CopyCallbacks(t) ==
    /\ setter[t].at = "notify"
    /\ setter' = [setter EXCEPT ![t].at = "call",
                      ![t].targets = {r \in callbacks_ : Covers(r, setter[t].display)}]
    /\ UNCHANGED <<stateVars, screenLock, registryVars, lifeVars, toldVars>>

\* The proxy waits for the listener, and a dead one does not hear.  What becomes of the message to a
\* living one, and of the common event below, is only logged: both are recorded as they are sent.
OnMultiScreenDisplayStateChanged(t, r) ==
    /\ setter[t].at = "call"
    /\ r \in setter[t].targets
    /\ setter' = [setter EXCEPT ![t].targets = @ \ {r}]
    /\ heard' = IF r[1] \in aliveListeners
                THEN [heard EXCEPT ![<<r[1], setter[t].display>>] = setter[t].state]
                ELSE heard
    /\ UNCHANGED <<stateVars, screenLock, registryVars, lifeVars, announced>>

PublishCommonEvent(t) ==
    /\ setter[t].at = "call" /\ setter[t].targets = {}
    /\ announced' = [announced EXCEPT ![setter[t].display] = setter[t].state]
    /\ screenLock' = [screenLock EXCEPT ![setter[t].display] = Nobody]
    /\ setter' = [setter EXCEPT ![t] = Idle]
    /\ UNCHANGED <<stateVars, registryVars, lifeVars, heard>>

-----------------------------------------------------------------------------
(* The listeners                                                                               *)

Registered(listener) == {r \in callbacks_ : r[1] = listener}

\* A process may die with its Register on the way: then the recipient may be told or not.
\* A listener that is told of the display for the first time forgets what it heard before.
RegisterListener(listener, id) ==
    LET r == <<listener, id>>
        first == Registered(listener) = {}
    IN  /\ r \notin callbacks_
        /\ callbacks_' = callbacks_ \union {r}
        /\ deathRecipients_' = deathRecipients_ \union {listener}
        /\ callbackPidUidMap_' = callbackPidUidMap_ \union {listener}
        /\ IF first /\ listener \notin aliveListeners
           THEN \/ obituaries' = obituaries \union {listener} /\ UNCHANGED unwatched
                \/ unwatched' = unwatched \union {listener} /\ UNCHANGED obituaries
           ELSE UNCHANGED <<obituaries, unwatched>>
        /\ heard' = [h \in DOMAIN heard |->
                         IF h[1] = listener /\ Covers(r, h[2])
                                /\ ~\E q \in Registered(listener) : Covers(q, h[2])
                         THEN "UNKNOWN" ELSE heard[h]]
        /\ UNCHANGED <<stateVars, screenLock, setter, aliveListeners, announced>>

LooksBeforeErasing(listener, gone) ==                                   \* mutant
    /\ callbacks_' = callbacks_ \ gone
    /\ IF Registered(listener) = {}
       THEN /\ deathRecipients_' = deathRecipients_ \ {listener}
            /\ callbackPidUidMap_' = callbackPidUidMap_ \ {listener}
       ELSE UNCHANGED <<deathRecipients_, callbackPidUidMap_>>
\* The last registration takes the death recipient and the process id with it.
Drop(listener, gone) ==
    /\ callbacks_' = callbacks_ \ gone
    /\ IF Registered(listener) \subseteq gone
       THEN /\ deathRecipients_' = deathRecipients_ \ {listener}
            /\ callbackPidUidMap_' = callbackPidUidMap_ \ {listener}
       ELSE UNCHANGED <<deathRecipients_, callbackPidUidMap_>>

UnregisterListener(listener, id) ==
    /\ <<listener, id>> \in callbacks_
    /\ Drop(listener, IF id = DISPLAY_ID_ALL THEN Registered(listener) ELSE {<<listener, id>>})
    /\ UNCHANGED <<stateVars, screenLock, setter, lifeVars, toldVars>>

ListenerDies(listener) ==
    /\ listener \in aliveListeners
    /\ aliveListeners' = aliveListeners \ {listener}
    /\ obituaries' = IF listener \in deathRecipients_ THEN obituaries \union {listener}
                     ELSE obituaries
    /\ UNCHANGED <<stateVars, screenLock, setter, registryVars, unwatched, toldVars>>

\* OnRemoteDied: RemoveAll.
KeepsOtherDisplays(listener) ==                                         \* mutant
    /\ listener \in obituaries
    /\ obituaries' = obituaries \ {listener}
    /\ Drop(listener, Registered(listener) \cap (Listeners \X {DISPLAY_ID_ALL}))
    /\ UNCHANGED <<stateVars, screenLock, setter, aliveListeners, unwatched, toldVars>>
OnListenerDied(listener) ==
    /\ listener \in obituaries
    /\ obituaries' = obituaries \ {listener}
    /\ Drop(listener, Registered(listener))
    /\ UNCHANGED <<stateVars, screenLock, setter, aliveListeners, unwatched, toldVars>>

MultiNext ==
    \/ \E t \in Setters :
           \/ \E d \in MultiDisplays, state \in States : LockScreen(t, d, state)
           \/ UpdateMultiScreenState(t) \/ UndoSetDisplayState(t)
           \/ CopyCallbacks(t) \/ PublishCommonEvent(t)
           \/ \E r \in Registrations : OnMultiScreenDisplayStateChanged(t, r)
    \/ \E listener \in Listeners :
           \/ \E id \in MultiDisplays \union {DISPLAY_ID_ALL} :
                  RegisterListener(listener, id) \/ UnregisterListener(listener, id)
           \/ ListenerDies(listener) \/ OnListenerDied(listener)

MultiSpec == MultiInit /\ [][MultiNext]_multiVars

-----------------------------------------------------------------------------
\* Whoever asks, fails and undoes at the same time, a screen that nobody is setting has the
\* brightness of the state it is in.
BrightnessFollowsScreen ==
    \A d \in MultiDisplays : screenLock[d] = Nobody => brightnessState[d] = screenState[d]

\* Changes are told in the order they were made: when nobody is setting the screen, what a listener
\* was sent last since it registered, and the last common event, are the state of the screen.
ListenersKnowState ==
    \A d \in MultiDisplays : screenLock[d] = Nobody =>
        /\ announced[d] = screenState[d]
        /\ \A r \in callbacks_ :
               r[1] \in aliveListeners /\ Covers(r, d) =>
                   heard[<<r[1], d>>] \in {"UNKNOWN", screenState[d]}

\* However registrations, cancellations and deaths interleave, the three maps speak of the same
\* listeners: each one that is registered has a death recipient, and no other has.
ListenersAgree ==
    /\ deathRecipients_ = {r[1] : r \in callbacks_}
    /\ callbackPidUidMap_ = deathRecipients_

\* A process that died leaves nothing behind, unless its death could not be announced.
DeadListenersLeave ==
    \A r \in callbacks_ : r[1] \in aliveListeners \union obituaries \union unwatched
=============================================================================
