----------------------------- MODULE ClientDeaths ---------------------------
(***************************************************************************)
(* What the service keeps of its clients, and how it lets go of it when    *)
(* they die: the one callback for power states, of whoever registers first,*)
(* and the strategy for switching screens off, of whoever set it last.     *)
(* Each is watched by a death recipient of its own.                        *)
(***************************************************************************)
EXTENDS Naturals, FiniteSets

CONSTANTS
    Processes,         \* the client processes
    Stubs,             \* those whose objects are no proxies (the service's own process)
    NoProcess

ASSUME ClientDeathsAssumption == Stubs \subseteq Processes /\ NoProcess \notin Processes

VARIABLES
    aliveProcesses,
    callback_,             \* NoProcess or whose callback it is
    callbackWatched,       \* processes whose death cbDeathRecipient_ is to be told of
    callbackNotices,       \* processes that died, and CallbackDeathRecipient has not run yet
    callbackAlive,         \* was it a proxy of a live process when it was set
    thisInterfaceInvoker,  \* NoProcess or whose token is watched for the strategy
    strategyWatched, strategyNotices,
    strategyCall,          \* process -> how far it is in SetScreenPowerOffStrategyInner
    strategyOwner,         \* whose strategy it is; NoProcess: STRATEGY_ALL of the reset
    setAlive,              \* the same of the strategy
    crossing               \* notices that were on their way when the owner was watched

callbackVars == <<callback_, callbackWatched, callbackNotices, callbackAlive>>
strategyVars == <<thisInterfaceInvoker, strategyWatched, strategyNotices, strategyCall,
                  strategyOwner, setAlive, crossing>>
deathVars == <<aliveProcesses, callbackVars, strategyVars>>

DeathInit ==
    /\ aliveProcesses = Processes
    /\ callback_ = NoProcess /\ callbackWatched = {} /\ callbackNotices = {}
    /\ callbackAlive = TRUE
    /\ thisInterfaceInvoker = NoProcess /\ strategyWatched = {} /\ strategyNotices = {}
    /\ strategyCall = [p \in Processes |-> "idle"]
    /\ strategyOwner = NoProcess /\ setAlive = TRUE /\ crossing = {}

\* AddDeathRecipient does nothing for what is no proxy, or for a process that is dead already.
Watch(watched, p) == watched \union (({p} \ Stubs) \cap aliveProcesses)

-----------------------------------------------------------------------------
(* The callback, under mutex_                                                                  *)

\* Only an empty place is taken.  A callback that is no proxy is refused, and kept all the same.
Replaces(p) ==                                                          \* mutant
    /\ callback_ # p
    /\ callback_' = p
    /\ callbackWatched' = Watch(callbackWatched, p)
    /\ callbackAlive' = (p \in aliveProcesses \ Stubs)
    /\ UNCHANGED <<aliveProcesses, callbackNotices, strategyVars>>
RegisterCallback(p) ==
    /\ callback_ = NoProcess
    /\ callback_' = p
    /\ callbackWatched' = Watch(callbackWatched, p)
    /\ callbackAlive' = (p \in aliveProcesses \ Stubs)
    /\ UNCHANGED <<aliveProcesses, callbackNotices, strategyVars>>

\* CallbackDeathRecipient does not look whose death it is told of.
CallbackOwnerDied(p) ==
    /\ p \in callbackNotices
    /\ callbackNotices' = callbackNotices \ {p}
    /\ callback_' = NoProcess
    /\ UNCHANGED <<aliveProcesses, callbackWatched, callbackAlive, strategyVars>>

-----------------------------------------------------------------------------
(* The strategy                                                                                *)

OnlyOnce(p) ==                                                          \* mutant
    /\ strategyCall[p] = "idle"
    /\ strategyCall' = [strategyCall EXCEPT ![p] = "SetStrategy"]
    /\ thisInterfaceInvoker' = p
    /\ strategyWatched' = IF thisInterfaceInvoker = NoProcess THEN Watch({}, p) ELSE strategyWatched
    /\ crossing' = strategyNotices
    /\ UNCHANGED <<aliveProcesses, callbackVars, strategyNotices, strategyOwner, setAlive>>
\* Under localMutex_: the recipient leaves the old token before the new one is kept and watched.
WatchInvoker(p) ==
    /\ strategyCall[p] = "idle"
    /\ strategyCall' = [strategyCall EXCEPT ![p] = "SetStrategy"]
    /\ IF p \notin Stubs /\ p # thisInterfaceInvoker
       THEN /\ strategyWatched' = Watch(strategyWatched \ {thisInterfaceInvoker}, p)
            /\ thisInterfaceInvoker' = p
            /\ crossing' = strategyNotices
       ELSE UNCHANGED <<thisInterfaceInvoker, strategyWatched, crossing>>
    /\ UNCHANGED <<aliveProcesses, callbackVars, strategyNotices, strategyOwner, setAlive>>

\* The mutex is given back before the strategy is set: the calls of two processes may cross here.
SetStrategy(p) ==
    /\ strategyCall[p] = "SetStrategy"
    /\ strategyCall' = [strategyCall EXCEPT ![p] = "idle"]
    /\ strategyOwner' = p
    /\ setAlive' = (p \in aliveProcesses \ Stubs)
    /\ UNCHANGED <<aliveProcesses, callbackVars, thisInterfaceInvoker, strategyWatched,
                   strategyNotices, crossing>>

\* InvokerDeathRecipient: the token of a process that is watched no more may be gone.
InvokerDied(p) ==
    /\ p \in strategyNotices
    /\ strategyNotices' = strategyNotices \ {p}
    /\ \/ strategyOwner' = NoProcess
       \/ p # thisInterfaceInvoker /\ UNCHANGED strategyOwner
    /\ UNCHANGED <<aliveProcesses, callbackVars, thisInterfaceInvoker, strategyWatched,
                   strategyCall, setAlive, crossing>>

ProcessDies(p) ==
    /\ p \in aliveProcesses
    /\ aliveProcesses' = aliveProcesses \ {p}
    /\ callbackWatched' = callbackWatched \ {p}
    /\ strategyWatched' = strategyWatched \ {p}
    /\ callbackNotices' = callbackNotices \union ({p} \cap callbackWatched)
    /\ strategyNotices' = strategyNotices \union ({p} \cap strategyWatched)
    /\ UNCHANGED <<callback_, callbackAlive, thisInterfaceInvoker, strategyCall, strategyOwner,
                   setAlive, crossing>>

DeathNext ==
    \E p \in Processes :
        \/ RegisterCallback(p) \/ CallbackOwnerDied(p)
        \/ WatchInvoker(p) \/ SetStrategy(p) \/ InvokerDied(p)
        \/ ProcessDies(p)

DeathSpec == DeathInit /\ [][DeathNext]_deathVars

-----------------------------------------------------------------------------
\* A process that died holds neither the callback nor the strategy once its deaths are handled.
\* It does when its call was served after its death, when what it registered was no proxy, or when
\* another process was watched between its own watch and its SetStrategy: see the hazards.
DeadOwnersLetGo ==
    /\ callback_ \notin aliveProcesses \union {NoProcess} /\ callbackAlive =>
           callback_ \in callbackNotices
    /\ strategyOwner \notin aliveProcesses \union {NoProcess} /\ setAlive
           /\ strategyOwner = thisInterfaceInvoker /\ strategyCall[strategyOwner] = "idle" =>
               strategyOwner \in strategyNotices

\* A live process loses neither of them by the death of another one, unless the notice of that death
\* was on its way when the owner took the strategy over.
LiveOwnersKeep ==
    [][ /\ callback_ \in aliveProcesses => callback_' = callback_
        /\ strategyOwner \in aliveProcesses /\ strategyOwner' = NoProcess
               /\ strategyOwner = thisInterfaceInvoker =>
           strategyNotices \ strategyNotices' \subseteq crossing ]_deathVars
=============================================================================
