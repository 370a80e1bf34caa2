-------------------------- MODULE BrightnessFacade --------------------------
(***************************************************************************)
(* BrightnessManager, the face every other part of the service has of the  *)
(* brightness, in the build with many screens and with the brightness in a *)
(* library: it keeps one BrightnessManagerExt per display, created for the *)
(* displays that are there at Init and by a listener for those that are    *)
(* connected later, and an ext loads the library and its symbols and       *)
(* forwards calls to them.  A call for a display that has no ext, or whose *)
(* ext has no library, changes nothing: it returns a constant that stands  *)
(* for "nothing done", and what an operation returns is not modelled.      *)
(***************************************************************************)
EXTENDS Naturals, Sequences, Functions

CONSTANTS
    Screens,           \* the screens that may be connected
    DEFAULT_SCREEN,    \* DEFAULT_DISPLAY_ID
    Absent,            \* no ext, no call, no symbol
    MaxDeInits,        \* bound: DeInit calls
    MissingSymbols,    \* the sets of symbols that an installed library may lack
    Calls              \* the operations that callers use

VARIABLES
    connectedScreens,  \* in the screen manager
    connecting,        \* screens whose OnConnect has not run yet
    multiScreenListener_,
    initStep, screenIds,      \* where Init is, and the screens it has still to create
    deInits,
    library,           \* what is installed: the symbols it has, or Absent
    mMultiBrtMgrExt,   \* screen -> Absent or its ext
    facadeCall         \* Absent or a call that passed the check of its ext

screenVars == <<connectedScreens, connecting>>
initStepVars == <<multiScreenListener_, initStep, screenIds, deInits>>
facadeVars == <<screenVars, initStepVars, library, mMultiBrtMgrExt, facadeCall>>

-----------------------------------------------------------------------------
(* The symbols of the library, by the function that resolves them and in its order.            *)
LoadBrightnessOps ==
    <<"Init", "DeInit", "GetCurrentDisplayId", "SetDisplayId", "SetLightBrightnessThreshold",
      "SetMaxBrightness", "SetMaxBrightnessNit", "SetSceneMode">>
LoadBrightnessOpsEx1 ==
    <<"IsSupportLightSensor", "IsAutoAdjustBrightness", "WaitDimmingDone", "GetFeatureSupport",
      "SetForcedBrightness", "RunJsonCommand", "RegisterDataChangeListener",
      "UnregisterDataChangeListener">>
LoadBrightnessStatus ==
    <<"SetDisplayState", "GetDisplayState", "GetDiscount", "GetScreenOnBrightness",
      "CancelBoostBrightness", "IsBrightnessOverridden", "IsBrightnessBoosted", "GetBrightness",
      "GetDeviceBrightness">>
LoadBrightnessControl ==
    <<"AutoAdjustBrightness", "SetBrightness", "DiscountBrightness", "SetScreenOnBrightness",
      "OverrideBrightness", "RestoreBrightness", "BoostBrightness", "ClearOffset",
      "NotifyScreenPowerStatus">>

Operations == UNION {Range(LoadBrightnessOps), Range(LoadBrightnessOpsEx1),
                     Range(LoadBrightnessStatus), Range(LoadBrightnessControl)}

(* The symbol that the operation of an ext calls, where the two names differ.                  *)
Symbol(op) == IF op = "GetState" THEN "GetDisplayState" ELSE op

ASSUME CallsAssumption ==
    /\ DEFAULT_SCREEN \in Screens
    /\ Calls \subseteq (Operations \ {"GetDisplayState"}) \union {"GetState"}

-----------------------------------------------------------------------------
(* An ext: whether it may be called, whether its library is open, and its function pointers
   that are not null.                                                                          *)

\* Closing the library forgets every function but one.
CloseBrightnessExtLibrary(symbols) ==
    [mBrightnessManagerExtEnable |-> FALSE, open |-> FALSE,
     symbols |-> symbols \cap {"SetLightBrightnessThreshold"}]

\* dlsym is asked for one symbol after the other, and the first that is missing ends it.
Symbols ==
    LoadBrightnessOps \o LoadBrightnessOpsEx1 \o LoadBrightnessStatus \o LoadBrightnessControl
ResolvedSymbols ==
    {op \in Operations : \E n \in DOMAIN Symbols :
                             Symbols[n] = op /\ \A i \in 1 .. n : Symbols[i] \in library}

OpenWithoutEx1 ==                                                       \* mutant
    IF library # Absent /\ Operations \ Range(LoadBrightnessOpsEx1) \subseteq library
    THEN [mBrightnessManagerExtEnable |-> TRUE, open |-> TRUE, symbols |-> library \cap Operations]
    ELSE CloseBrightnessExtLibrary(IF library = Absent THEN {} ELSE ResolvedSymbols)
LoadBrightnessExtLibrary ==
    IF library # Absent /\ Operations \subseteq library
    THEN [mBrightnessManagerExtEnable |-> TRUE, open |-> TRUE, symbols |-> Operations]
    ELSE CloseBrightnessExtLibrary(IF library = Absent THEN {} ELSE ResolvedSymbols)

Exts == [mBrightnessManagerExtEnable : BOOLEAN, open : BOOLEAN, symbols : SUBSET Operations]
FacadeCalls == [screen : Screens, op : Calls, overtaken : BOOLEAN]
ASSUME AbsentAssumption == Absent \notin Exts /\ Absent \notin FacadeCalls

\* CreateExt: a screen that has an ext keeps it, whatever became of its library.
CreateExt(screen) ==
    mMultiBrtMgrExt' = [mMultiBrtMgrExt EXCEPT ![screen] =
                            IF @ = Absent THEN LoadBrightnessExtLibrary ELSE @]

-----------------------------------------------------------------------------
FacadeInit ==
    /\ connectedScreens \in SUBSET Screens /\ connecting = {}
    /\ multiScreenListener_ = FALSE
    /\ initStep = "start" /\ screenIds = {} /\ deInits = 0
    /\ library \in {Absent} \union {Operations \ missing : missing \in MissingSymbols}
    /\ mMultiBrtMgrExt = [screen \in Screens |-> Absent]
    /\ facadeCall = Absent

\* The screen manager tells the listener, on a thread of its own.
ScreenConnects(screen) ==
    /\ screen \notin connectedScreens
    /\ connectedScreens' = connectedScreens \union {screen}
    /\ connecting' = IF multiScreenListener_ THEN connecting \union {screen} ELSE connecting
    /\ UNCHANGED <<initStepVars, library, mMultiBrtMgrExt, facadeCall>>

ScreenDisconnects(screen) ==
    /\ screen \in connectedScreens \ connecting
    /\ connectedScreens' = connectedScreens \ {screen}
    /\ UNCHANGED <<connecting, initStepVars, library, mMultiBrtMgrExt, facadeCall>>

OnConnect(screen) ==
    /\ screen \in connecting
    /\ connecting' = connecting \ {screen}
    /\ CreateExt(screen)
    /\ UNCHANGED <<connectedScreens, initStepVars, library, facadeCall>>

\* Init, in its three parts.
Listed == IF connectedScreens = {} THEN {DEFAULT_SCREEN} ELSE connectedScreens

ListThenListen ==                                                       \* mutant
    /\ \/ initStep = "start" /\ initStep' = "listen" /\ screenIds' = Listed
          /\ UNCHANGED multiScreenListener_
       \/ initStep = "listen" /\ initStep' = "create" /\ multiScreenListener_' = TRUE
          /\ UNCHANGED screenIds
    /\ UNCHANGED <<screenVars, deInits, library, mMultiBrtMgrExt, facadeCall>>
RegisterScreenListener ==
    /\ initStep = "start"
    /\ multiScreenListener_' = TRUE
    /\ initStep' = "list"
    /\ UNCHANGED <<screenVars, screenIds, deInits, library, mMultiBrtMgrExt, facadeCall>>

GetPhysicalScreenIds ==
    /\ initStep = "list"
    /\ screenIds' = Listed
    /\ initStep' = "create"
    /\ UNCHANGED <<screenVars, multiScreenListener_, deInits, library, mMultiBrtMgrExt,
                   facadeCall>>

CreateExts ==
    /\ initStep = "create"
    /\ \/ \E screen \in screenIds :
              CreateExt(screen) /\ screenIds' = screenIds \ {screen} /\ UNCHANGED initStep
       \/ screenIds = {} /\ initStep' = "done" /\ UNCHANGED <<screenIds, mMultiBrtMgrExt>>
    /\ UNCHANGED <<screenVars, multiScreenListener_, deInits, library, facadeCall>>

\* Init runs again when the service has booted, and after a DeInit.
InitAgain ==
    /\ initStep = "done"
    /\ initStep' = "start"
    /\ UNCHANGED <<screenVars, multiScreenListener_, screenIds, deInits, library, mMultiBrtMgrExt,
                   facadeCall>>

\* DeInit keeps the exts, closed.  It waits for nobody who is in one of them.
FacadeDeInit ==
    /\ initStep = "done" /\ deInits < MaxDeInits
    /\ deInits' = deInits + 1
    /\ multiScreenListener_' = FALSE
    /\ mMultiBrtMgrExt' = [screen \in Screens |->
                               IF mMultiBrtMgrExt[screen] = Absent THEN Absent
                               ELSE CloseBrightnessExtLibrary(mMultiBrtMgrExt[screen].symbols)]
    /\ facadeCall' = IF facadeCall = Absent THEN Absent ELSE [facadeCall EXCEPT !.overtaken = TRUE]
    /\ UNCHANGED <<screenVars, initStep, screenIds, library>>

-----------------------------------------------------------------------------
\* Every operation: GetExt, the check of the ext, and the symbol, which is called without a lock.
\* Without an ext, or with one that is not enabled, the call is over and has done nothing.
BeginCall(screen, op) ==
    /\ facadeCall = Absent
    /\ mMultiBrtMgrExt[screen] # Absent
    /\ mMultiBrtMgrExt[screen].mBrightnessManagerExtEnable
    /\ facadeCall' = [screen |-> screen, op |-> op, overtaken |-> FALSE]
    /\ UNCHANGED <<screenVars, initStepVars, library, mMultiBrtMgrExt>>

EndCall ==
    /\ facadeCall # Absent
    /\ facadeCall' = Absent
    /\ UNCHANGED <<screenVars, initStepVars, library, mMultiBrtMgrExt>>

FacadeNext ==
    \/ \E screen \in Screens :
           ScreenConnects(screen) \/ ScreenDisconnects(screen) \/ OnConnect(screen)
    \/ RegisterScreenListener \/ GetPhysicalScreenIds \/ CreateExts \/ InitAgain
    \/ FacadeDeInit
    \/ \E screen \in Screens, op \in Calls : BeginCall(screen, op)
    \/ EndCall

FacadeSpec == FacadeInit /\ [][FacadeNext]_facadeVars

-----------------------------------------------------------------------------
\* A screen that is connected while the service comes up is not missed: once the first Init is over
\* and the listener has run, every connected screen has an ext.
EveryScreenServed ==
    initStep = "done" /\ connecting = {} /\ deInits = 0
        => \A screen \in connectedScreens : mMultiBrtMgrExt[screen] # Absent

\* A call that passed the check of its ext finds the library open and its symbol resolved, whichever
\* symbols the installed library lacks, unless a DeInit has overtaken it: see the hazards.
CallsReachTheLibrary ==
    facadeCall # Absent /\ ~facadeCall.overtaken =>
        /\ mMultiBrtMgrExt[facadeCall.screen].open
        /\ Symbol(facadeCall.op) \in mMultiBrtMgrExt[facadeCall.screen].symbols
=============================================================================
