------------------------- MODULE MultiScreen_proofs -------------------------
(***************************************************************************)
(* Proofs about MultiScreen for any displays, setters and listeners: the   *)
(* registry agrees with itself, and the lock of a screen, which is kept    *)
(* until the last listener was told, makes brightness and listeners follow *)
(* the state of the screen.                                                *)
(***************************************************************************)
EXTENDS MultiScreen, TLAPS

RegistryInv ==
    /\ callbacks_ \subseteq Registrations
    /\ ListenersAgree

LEMMA RegistryInit == MultiInit => RegistryInv
  BY DEF MultiInit, RegistryInv, ListenersAgree

LEMMA DropKeepsAgreement ==
    ASSUME NEW listener \in Listeners, NEW gone \in SUBSET Registered(listener),
           RegistryInv, Drop(listener, gone)
    PROVE  RegistryInv'
  <1>1. callbacks_' = callbacks_ \ gone
    BY DEF Drop
  <1>2. \A r \in gone : r \in callbacks_ /\ r[1] = listener
    BY DEF Registered
  <1>3. CASE Registered(listener) \subseteq gone
    <2>1. deathRecipients_' = deathRecipients_ \ {listener}
          /\ callbackPidUidMap_' = callbackPidUidMap_ \ {listener}
      BY <1>3 DEF Drop
    <2>2. {r[1] : r \in callbacks_'} = {r[1] : r \in callbacks_} \ {listener}
      BY <1>1, <1>2, <1>3 DEF Registered
    <2> QED
      BY <1>1, <2>1, <2>2 DEF RegistryInv, ListenersAgree
  <1>4. CASE ~(Registered(listener) \subseteq gone)
    <2>1. UNCHANGED <<deathRecipients_, callbackPidUidMap_>>
      BY <1>4 DEF Drop
    <2>2. PICK kept \in callbacks_ : kept[1] = listener /\ kept \notin gone
      BY <1>4 DEF Registered
    <2>3. {r[1] : r \in callbacks_'} = {r[1] : r \in callbacks_}
      BY <1>1, <1>2, <2>2
    <2> QED
      BY <1>1, <2>1, <2>3 DEF RegistryInv, ListenersAgree
  <1> QED
    BY <1>3, <1>4

LEMMA RegistryStep == RegistryInv /\ [MultiNext]_multiVars => RegistryInv'
  <1> SUFFICES ASSUME RegistryInv, [MultiNext]_multiVars PROVE RegistryInv'
    OBVIOUS
  <1>1. CASE UNCHANGED registryVars
    BY <1>1 DEF RegistryInv, ListenersAgree, registryVars
  <1>2. ASSUME NEW listener \in Listeners, NEW id \in MultiDisplays \union {DISPLAY_ID_ALL},
               RegisterListener(listener, id)
        PROVE  RegistryInv'
    <2>1. callbacks_' = callbacks_ \union {<<listener, id>>}
          /\ deathRecipients_' = deathRecipients_ \union {listener}
          /\ callbackPidUidMap_' = callbackPidUidMap_ \union {listener}
      BY <1>2 DEF RegisterListener
    <2>2. {r[1] : r \in callbacks_'} = {r[1] : r \in callbacks_} \union {listener}
      <3> DEFINE new == <<listener, id>>
      <3>1. new[1] = listener /\ callbacks_' = callbacks_ \union {new}
        BY <2>1
      <3> HIDE DEF new
      <3> QED
        BY <3>1
    <2>3. <<listener, id>> \in Registrations
      BY DEF Registrations
    <2> QED
      BY <2>1, <2>2, <2>3 DEF RegistryInv, ListenersAgree
  <1>3. ASSUME NEW listener \in Listeners, NEW id \in MultiDisplays \union {DISPLAY_ID_ALL},
               UnregisterListener(listener, id)
        PROVE  RegistryInv'
    <2> DEFINE gone == IF id = DISPLAY_ID_ALL THEN Registered(listener) ELSE {<<listener, id>>}
    <2>1. gone \in SUBSET Registered(listener) /\ Drop(listener, gone)
      BY <1>3 DEF UnregisterListener, Registered
    <2> QED
      BY <2>1, DropKeepsAgreement
  <1>4. ASSUME NEW listener \in Listeners, OnListenerDied(listener)
        PROVE  RegistryInv'
    <2>1. Drop(listener, Registered(listener))
      BY <1>4 DEF OnListenerDied
    <2> QED
      BY <2>1, DropKeepsAgreement
  <1> QED
    BY <1>1, <1>2, <1>3, <1>4 DEF MultiNext, multiVars, LockScreen, UpdateMultiScreenState,
       UndoSetDisplayState, CopyCallbacks, PublishCommonEvent, OnMultiScreenDisplayStateChanged,
       ListenerDies

\* Whatever registers, cancels and dies in whatever order, whoever is registered is watched, and
\* nobody else is: MultiScreenDisplayStateCallbackManager never loses a death recipient.
THEOREM RegistryAgrees == MultiSpec => []ListenersAgree
  <1>1. RegistryInv => ListenersAgree
    BY DEF RegistryInv
  <1> QED
    BY <1>1, RegistryInit, RegistryStep, PTL DEF MultiSpec

-----------------------------------------------------------------------------
(* The lock of a screen. *)

Places == {"idle", "update", "undo", "notify", "call"}

LockTypes ==
    /\ setter \in [Setters -> [at : Places, display : MultiDisplays, state : States,
                               targets : SUBSET Registrations]]
    /\ screenLock \in [MultiDisplays -> Setters \union {Nobody}]
    /\ screenState \in [MultiDisplays -> AllStates]
    /\ brightnessState \in [MultiDisplays -> AllStates]
    /\ announced \in [MultiDisplays -> AllStates]
    /\ heard \in [Listeners \X MultiDisplays -> AllStates]

\* Whoever is under way holds the lock of its screen.
LockHeld == \A t \in Setters : setter[t].at # "idle" => screenLock[setter[t].display] = t

InStep(d) == \A t \in Setters : setter[t].at \in {"update", "undo"} => setter[t].display # d
Telling(d) == \E t \in Setters : setter[t].at \in {"notify", "call"} /\ setter[t].display = d

\* Between the change of the brightness and its undoing the two states may differ.
BrightnessInv == \A d \in MultiDisplays : InStep(d) => brightnessState[d] = screenState[d]

UpToDate(r, d) == heard[<<r[1], d>>] \in {"UNKNOWN", screenState[d]}

Concerns(r, d) == r \in callbacks_ /\ r[1] \in aliveListeners /\ Covers(r, d)

\* While the listeners are told, one that does not know the state is still among the targets.
AppliesState(t) ==
    setter[t].at \in {"notify", "call"} => screenState[setter[t].display] = setter[t].state
StillToTell(t) ==
    setter[t].at = "call" =>
        \A r \in Registrations : Concerns(r, setter[t].display) =>
            UpToDate(r, setter[t].display) \/ \E q \in setter[t].targets : q[1] = r[1]
AllTold(d) ==
    ~Telling(d) => /\ announced[d] = screenState[d]
                   /\ \A r \in Registrations : Concerns(r, d) => UpToDate(r, d)
HeardInv ==
    /\ \A t \in Setters : AppliesState(t) /\ StillToTell(t)
    /\ \A d \in MultiDisplays : AllTold(d)

\* The brightness was told what the setter asks for.
ToldInv ==
    \A t \in Setters : setter[t].at = "update" =>
        brightnessState[setter[t].display] = setter[t].state

LockInv == LockTypes /\ LockHeld /\ BrightnessInv /\ ToldInv
MultiInv == RegistryInv /\ LockInv /\ HeardInv

LEMMA IdleType ==
    Idle \in [at : Places, display : MultiDisplays, state : States, targets : SUBSET Registrations]
    /\ Idle.at = "idle"
  <1>1. (CHOOSE d \in MultiDisplays : TRUE) \in MultiDisplays
    BY MultiScreenAssumption
  <1> QED
    BY <1>1 DEF Idle, Places, States

LEMMA MultiInvInit == MultiInit => MultiInv
  <1> SUFFICES ASSUME MultiInit PROVE MultiInv
    OBVIOUS
  <1>1. RegistryInv
    BY RegistryInit
  <1>3. \A t \in Setters : setter[t].at = "idle"
    BY DEF MultiInit, Idle
  <1>4. LockInv
    BY <1>3, IdleType DEF MultiInit, LockInv, LockTypes, LockHeld, BrightnessInv, ToldInv,
       AllStates
  <1>5. HeardInv
    BY <1>3 DEF MultiInit, HeardInv, AppliesState, StillToTell, AllTold, Concerns
  <1> QED
    BY <1>1, <1>4, <1>5 DEF MultiInv

\* Two setters never are under way on the same screen.
LEMMA OneSetter ==
    ASSUME LockHeld, NEW t \in Setters, NEW u \in Setters,
           setter[t].at # "idle", setter[u].at # "idle", setter[t].display = setter[u].display
    PROVE  t = u
  BY DEF LockHeld

-----------------------------------------------------------------------------
(* The steps of a setter. *)

LEMMA LockScreenKeeps ==
    ASSUME MultiInv, NEW t \in Setters, NEW d \in MultiDisplays, NEW state \in States,
           LockScreen(t, d, state)
    PROVE  LockInv' /\ HeardInv'
  <1> USE DEF MultiInv, LockInv
  <1>1. setter'[t].at = "update" /\ setter'[t].display = d
        /\ (\A u \in Setters \ {t} : setter'[u] = setter[u])
        /\ setter[t].at = "idle"
    BY DEF LockScreen, LockTypes
  <1>2. LockTypes'
    BY DEF LockScreen, LockTypes, AllStates, States, Places, stateVars, toldVars
  <1>3. \A u \in Setters : setter[u].at # "idle" => setter[u].display # d
    BY MultiScreenAssumption DEF LockScreen, LockHeld
  <1>4. LockHeld'
    BY <1>1, <1>3 DEF LockScreen, LockHeld, LockTypes
  <1>5. BrightnessInv'
    <2> SUFFICES ASSUME NEW e \in MultiDisplays, InStep(e)'
                 PROVE  brightnessState'[e] = screenState'[e]
      BY DEF BrightnessInv
    <2>1. e # d
      BY <1>1 DEF InStep
    <2>2. InStep(e)
      BY <1>1 DEF InStep
    <2> QED
      BY <2>1, <2>2 DEF BrightnessInv, LockScreen, LockTypes
  <1>6. \A e \in MultiDisplays : Telling(e)' <=> Telling(e)
    BY <1>1 DEF Telling
  <1>7. HeardInv'
    BY <1>1, <1>6 DEF HeardInv, AppliesState, StillToTell, AllTold, LockScreen, Concerns,
                      UpToDate, registryVars, lifeVars, toldVars
  <1>8. ToldInv'
    BY <1>1, <1>3 DEF ToldInv, LockScreen, LockTypes
  <1> QED
    BY <1>2, <1>4, <1>5, <1>7, <1>8

LEMMA UpdateKeeps ==
    ASSUME MultiInv, NEW t \in Setters, UpdateMultiScreenState(t)
    PROVE  LockInv' /\ HeardInv'
  <1> USE DEF MultiInv, LockInv
  <1> DEFINE d == setter[t].display
  <1>1. setter[t].at = "update" /\ d \in MultiDisplays /\ setter[t].state \in States
        /\ UNCHANGED <<brightnessState, screenLock, registryVars, lifeVars, toldVars>>
    BY DEF UpdateMultiScreenState, LockTypes
  <1>2. (\A u \in Setters \ {t} : setter'[u] = setter[u])
        /\ setter'[t].display = d /\ setter'[t].state = setter[t].state
        /\ setter'[t].targets = setter[t].targets
        /\ setter' \in [Setters -> [at : Places, display : MultiDisplays, state : States,
                                    targets : SUBSET Registrations]]
    BY DEF UpdateMultiScreenState, LockTypes, Places
  <1>3. \A u \in Setters \ {t} : setter[u].at # "idle" => setter[u].display # d
    BY <1>1, OneSetter
  <1>4. LockTypes' /\ LockHeld'
    BY <1>1, <1>2 DEF UpdateMultiScreenState, LockTypes, LockHeld, AllStates, toldVars
  <1>9. ToldInv'
    <2>1. setter'[t].at # "update"
      BY DEF UpdateMultiScreenState, LockTypes
    <2> QED
      BY <1>1, <1>2, <2>1 DEF ToldInv
  <1>5. CASE /\ screenState' = [screenState EXCEPT ![d] = setter[t].state]
             /\ setter'[t].at = "notify"
    <2>1. \A e \in MultiDisplays : e # d => screenState'[e] = screenState[e]
      BY <1>5 DEF LockTypes
    <2>2. screenState'[d] = setter[t].state
      BY <1>1, <1>5 DEF LockTypes
    <2>3. setter'[t].at = "notify"
      BY <1>5
    <2>4. InStep(d)' /\ ~InStep(d) /\ Telling(d)' /\ ~Telling(d)
      BY <1>1, <1>2, <1>3, <2>3 DEF InStep, Telling
    <2>5. \A e \in MultiDisplays :
              e # d => (InStep(e)' <=> InStep(e)) /\ (Telling(e)' <=> Telling(e))
      BY <1>1, <1>2 DEF InStep, Telling
    <2>6. BrightnessInv'
      BY <1>1, <2>1, <2>2, <2>4, <2>5 DEF BrightnessInv, ToldInv
    <2>7. HeardInv'
      <3>1. \A u \in Setters : setter'[u].at \in {"notify", "call"} =>
                screenState'[setter'[u].display] = setter'[u].state
        BY <1>2, <1>3, <2>1, <2>2 DEF HeardInv, AppliesState, StillToTell, AllTold, LockTypes
      <3>2. \A u \in Setters : setter'[u].at = "call" =>
                /\ u # t /\ setter[u].at = "call" /\ setter'[u] = setter[u]
                /\ setter[u].display # d /\ setter[u].display \in MultiDisplays
        BY <1>2, <1>3, <2>3 DEF LockTypes
      <3>3. \A e \in MultiDisplays : ~Telling(e)' => ~Telling(e) /\ e # d
        BY <1>1, <1>2, <2>3, <2>5 DEF Telling
      <3>4. \A q \in Registrations, e \in MultiDisplays : Concerns(q, e)' <=> Concerns(q, e)
        BY <1>1 DEF Concerns, registryVars, lifeVars
      <3>5. \A q \in Registrations, e \in MultiDisplays :
                e # d => (UpToDate(q, e)' <=> UpToDate(q, e))
        BY <1>1, <2>1 DEF UpToDate, toldVars
      <3>6. \A u \in Setters : AppliesState(u)'
        BY <3>1 DEF AppliesState
      <3>7. \A u \in Setters : StillToTell(u)'
        BY <3>2, <3>4, <3>5 DEF StillToTell, HeardInv
      <3>8. \A e \in MultiDisplays : AllTold(e)'
        BY <1>1, <2>1, <3>3, <3>4, <3>5 DEF AllTold, HeardInv, toldVars
      <3> QED
        BY <3>6, <3>7, <3>8 DEF HeardInv
    <2> QED
      BY <1>4, <1>9, <2>6, <2>7
  <1>6. CASE UNCHANGED screenState /\ setter'[t].at = "undo"
    <2>1. \A e \in MultiDisplays : (InStep(e)' <=> InStep(e)) /\ (Telling(e)' <=> Telling(e))
      BY <1>1, <1>2, <1>6 DEF InStep, Telling
    <2>2. \A u \in Setters : setter'[u].at \in {"notify", "call"} => setter'[u] = setter[u]
      BY <1>2, <1>6
    <2>3. BrightnessInv'
      BY <1>1, <1>6, <2>1 DEF BrightnessInv
    <2>4. HeardInv'
      BY <1>1, <1>6, <2>1, <2>2
         DEF HeardInv, AppliesState, StillToTell, AllTold, Concerns, UpToDate, registryVars,
             lifeVars, toldVars
    <2> QED
      BY <1>4, <1>9, <2>3, <2>4
  <1> QED
    <2>1. \/ /\ setter'[t].at = "notify"
             /\ screenState' = [screenState EXCEPT ![d] = setter[t].state]
          \/ setter'[t].at = "undo" /\ UNCHANGED screenState
      BY DEF UpdateMultiScreenState, LockTypes
    <2> QED
      BY <2>1, <1>5, <1>6

LEMMA UndoKeeps ==
    ASSUME MultiInv, NEW t \in Setters, UndoSetDisplayState(t)
    PROVE  LockInv' /\ HeardInv'
  <1> USE DEF MultiInv, LockInv
  <1> DEFINE d == setter[t].display
  <1>1. setter[t].at = "undo" /\ d \in MultiDisplays /\ setter'[t].at = "idle"
        /\ (\A u \in Setters \ {t} : setter'[u] = setter[u])
        /\ UNCHANGED <<screenState, registryVars, lifeVars, toldVars>>
    BY DEF UndoSetDisplayState, LockTypes, Idle
  <1>2. \A u \in Setters \ {t} : setter[u].at # "idle" => setter[u].display # d
    BY <1>1, OneSetter
  <1>3. LockTypes'
    BY <1>1, IdleType DEF UndoSetDisplayState, LockTypes, toldVars
  <1>4. LockHeld'
    BY <1>1, <1>2 DEF UndoSetDisplayState, LockHeld, LockTypes
  <1>5. \A e \in MultiDisplays : /\ Telling(e)' <=> Telling(e)
                                 /\ e # d => (InStep(e)' <=> InStep(e))
    BY <1>1 DEF InStep, Telling
  <1>6. BrightnessInv'
    BY <1>1, <1>5 DEF BrightnessInv, UndoSetDisplayState, LockTypes
  <1>7. \A u \in Setters : setter'[u].at \in {"notify", "call"} => setter'[u] = setter[u]
    BY <1>1
  <1>9. ToldInv'
    BY <1>1, <1>2 DEF ToldInv, UndoSetDisplayState, LockTypes
  <1>8. HeardInv'
    BY <1>1, <1>5, <1>7 DEF HeardInv, AppliesState, StillToTell, AllTold, Concerns, UpToDate,
                            registryVars, lifeVars, toldVars
  <1> QED
    BY <1>3, <1>4, <1>6, <1>8, <1>9

LEMMA CopyKeeps ==
    ASSUME MultiInv, NEW t \in Setters, CopyCallbacks(t)
    PROVE  LockInv' /\ HeardInv'
  <1> USE DEF MultiInv, LockInv
  <1> DEFINE d == setter[t].display
  <1>1. setter[t].at = "notify" /\ setter'[t].at = "call" /\ setter'[t].display = d
        /\ setter'[t].state = setter[t].state
        /\ setter'[t].targets = {r \in callbacks_ : Covers(r, d)}
        /\ (\A u \in Setters \ {t} : setter'[u] = setter[u])
        /\ UNCHANGED <<stateVars, screenLock, registryVars, lifeVars, toldVars>>
    BY DEF CopyCallbacks, LockTypes
  <1>2. setter' \in [Setters -> [at : Places, display : MultiDisplays, state : States,
                                 targets : SUBSET Registrations]]
    BY DEF CopyCallbacks, LockTypes, Places, RegistryInv
  <1>3. LockTypes' /\ LockHeld'
    BY <1>1, <1>2 DEF LockTypes, LockHeld, stateVars, toldVars
  <1>4. \A e \in MultiDisplays : (InStep(e)' <=> InStep(e)) /\ (Telling(e)' <=> Telling(e))
    BY <1>1 DEF InStep, Telling
  <1>5. BrightnessInv'
    BY <1>1, <1>4 DEF BrightnessInv, stateVars
  <1>6. \A r \in Registrations : Concerns(r, d) => r \in setter'[t].targets
    BY <1>1 DEF Concerns
  <1>8. ToldInv'
    BY <1>1 DEF ToldInv, stateVars
  <1>7. HeardInv'
    BY <1>1, <1>4, <1>6
       DEF HeardInv, AppliesState, StillToTell, AllTold, Concerns, UpToDate, stateVars,
           registryVars, lifeVars, toldVars
  <1> QED
    BY <1>3, <1>5, <1>7, <1>8

LEMMA CallKeeps ==
    ASSUME MultiInv, NEW t \in Setters, NEW r \in Registrations,
           OnMultiScreenDisplayStateChanged(t, r)
    PROVE  LockInv' /\ HeardInv'
  <1> USE DEF MultiInv, LockInv
  <1> DEFINE d == setter[t].display
  <1>1. setter[t].at = "call" /\ setter'[t].at = "call" /\ setter'[t].display = d
        /\ setter'[t].state = setter[t].state /\ d \in MultiDisplays
        /\ setter'[t].targets = setter[t].targets \ {r}
        /\ (\A u \in Setters \ {t} : setter'[u] = setter[u])
        /\ UNCHANGED <<stateVars, screenLock, registryVars, lifeVars, announced>>
    BY DEF OnMultiScreenDisplayStateChanged, LockTypes
  <1>2. setter' \in [Setters -> [at : Places, display : MultiDisplays, state : States,
                                 targets : SUBSET Registrations]]
    BY DEF OnMultiScreenDisplayStateChanged, LockTypes
  <1>3. r[1] \in Listeners /\ setter[t].state \in AllStates
    BY DEF Registrations, LockTypes, AllStates
  <1>4. heard' \in [Listeners \X MultiDisplays -> AllStates]
    BY <1>1, <1>3 DEF OnMultiScreenDisplayStateChanged, LockTypes
  <1>5. LockTypes' /\ LockHeld'
    BY <1>1, <1>2, <1>4 DEF LockTypes, LockHeld, stateVars
  <1>6. \A e \in MultiDisplays : (InStep(e)' <=> InStep(e)) /\ (Telling(e)' <=> Telling(e))
    BY <1>1 DEF InStep, Telling
  <1>7. BrightnessInv'
    BY <1>1, <1>6 DEF BrightnessInv, stateVars
  <1>8. \A l \in Listeners, e \in MultiDisplays : e # d => heard'[<<l, e>>] = heard[<<l, e>>]
    BY <1>1, <1>3 DEF OnMultiScreenDisplayStateChanged, LockTypes
  <1>9. \A l \in Listeners : l # r[1] => heard'[<<l, d>>] = heard[<<l, d>>]
    BY <1>1, <1>3 DEF OnMultiScreenDisplayStateChanged, LockTypes
  <1>10. r[1] \in aliveListeners => heard'[<<r[1], d>>] = screenState[d]
    BY <1>1, <1>3 DEF OnMultiScreenDisplayStateChanged, LockTypes, HeardInv, AppliesState
  <1>11. \A q \in Registrations : Concerns(q, d) =>
             UpToDate(q, d)' \/ \E p \in setter'[t].targets : p[1] = q[1]
    <2> SUFFICES ASSUME NEW q \in Registrations, Concerns(q, d)
                 PROVE  UpToDate(q, d)' \/ \E p \in setter'[t].targets : p[1] = q[1]
      OBVIOUS
    <2>1. q[1] \in Listeners /\ q[1] \in aliveListeners
      BY DEF Concerns, Registrations
    <2>2. CASE q[1] = r[1]
      BY <1>1, <1>10, <2>1, <2>2 DEF UpToDate, stateVars
    <2>3. CASE q[1] # r[1]
      <3>1. UpToDate(q, d) \/ \E p \in setter[t].targets : p[1] = q[1]
        BY <1>1 DEF HeardInv, AppliesState, StillToTell, AllTold
      <3>2. UpToDate(q, d)' <=> UpToDate(q, d)
        BY <1>1, <1>9, <2>1, <2>3 DEF UpToDate, stateVars
      <3> QED
        BY <1>1, <2>3, <3>1, <3>2
    <2> QED
      BY <2>2, <2>3
  <1>12. \A q \in Registrations, e \in MultiDisplays :
             e # d => (UpToDate(q, e)' <=> UpToDate(q, e))
    <2>1. \A q \in Registrations : q[1] \in Listeners
      BY DEF Registrations
    <2> QED
      BY <1>1, <1>8, <2>1 DEF UpToDate, stateVars
  <1>13. \A q \in Registrations, e \in MultiDisplays : Concerns(q, e)' <=> Concerns(q, e)
    BY <1>1 DEF Concerns, registryVars, lifeVars
  <1>14. \A u \in Setters \ {t} : setter[u].at # "idle" =>
             setter[u].display # d /\ setter[u].display \in MultiDisplays
    BY <1>1, OneSetter DEF LockTypes
  <1>15. \A e \in MultiDisplays : ~Telling(e) => e # d
    BY <1>1 DEF Telling
  <1>17. ToldInv'
    BY <1>1 DEF ToldInv, stateVars
  <1>16. HeardInv'
    <2> USE DEF HeardInv
    <2>1. \A u \in Setters : AppliesState(u)'
      BY <1>1 DEF AppliesState, stateVars
    <2>2. \A u \in Setters \ {t} : StillToTell(u)'
      BY <1>1, <1>12, <1>13, <1>14 DEF StillToTell
    <2>3. StillToTell(t)'
      BY <1>1, <1>11, <1>13 DEF StillToTell
    <2>4. \A e \in MultiDisplays : AllTold(e)'
      BY <1>1, <1>6, <1>12, <1>13, <1>15 DEF AllTold, stateVars
    <2> QED
      BY <2>1, <2>2, <2>3, <2>4
  <1> QED
    BY <1>5, <1>7, <1>16, <1>17

LEMMA PublishKeeps ==
    ASSUME MultiInv, NEW t \in Setters, PublishCommonEvent(t)
    PROVE  LockInv' /\ HeardInv'
  <1> USE DEF MultiInv, LockInv
  <1> DEFINE d == setter[t].display
  <1>1. setter[t].at = "call" /\ setter[t].targets = {} /\ d \in MultiDisplays
        /\ setter[t].state \in AllStates /\ setter'[t].at = "idle"
        /\ (\A u \in Setters \ {t} : setter'[u] = setter[u])
        /\ UNCHANGED <<stateVars, registryVars, lifeVars, heard>>
    BY IdleType DEF PublishCommonEvent, LockTypes, AllStates
  <1>2. \A u \in Setters \ {t} : setter[u].at # "idle" => setter[u].display # d
    BY <1>1, OneSetter
  <1>3. LockTypes'
    BY <1>1, IdleType DEF PublishCommonEvent, LockTypes, stateVars
  <1>4. LockHeld'
    BY <1>1, <1>2 DEF PublishCommonEvent, LockHeld, LockTypes
  <1>5. \A e \in MultiDisplays : /\ InStep(e)' <=> InStep(e)
                                 /\ e # d => (Telling(e)' <=> Telling(e))
    BY <1>1 DEF InStep, Telling
  <1>6. BrightnessInv' /\ ToldInv'
    BY <1>1, <1>5 DEF BrightnessInv, ToldInv, stateVars
  <1>7. \A q \in Registrations, e \in MultiDisplays :
            (Concerns(q, e)' <=> Concerns(q, e)) /\ (UpToDate(q, e)' <=> UpToDate(q, e))
    BY <1>1 DEF Concerns, UpToDate, stateVars, registryVars, lifeVars
  <1>8. \A q \in Registrations : Concerns(q, d) => UpToDate(q, d)
    BY <1>1 DEF HeardInv, StillToTell
  <1>9. announced' = [announced EXCEPT ![d] = screenState[d]]
    BY <1>1 DEF PublishCommonEvent, HeardInv, AppliesState
  <1>10. \A u \in Setters : setter'[u].at \in {"notify", "call"} => setter'[u] = setter[u]
    BY <1>1
  <1>11. \A u \in Setters : AppliesState(u)' /\ StillToTell(u)'
    <2>1. \A u \in Setters : AppliesState(u)'
      BY <1>1, <1>10 DEF AppliesState, HeardInv, stateVars
    <2>2. \A u \in Setters : StillToTell(u)'
      BY <1>7, <1>10 DEF StillToTell, HeardInv, LockTypes
    <2> QED
      BY <2>1, <2>2
  <1>12. \A e \in MultiDisplays : AllTold(e)'
    BY <1>1, <1>5, <1>7, <1>8, <1>9 DEF AllTold, HeardInv, LockTypes, stateVars
  <1> QED
    BY <1>3, <1>4, <1>6, <1>11, <1>12 DEF HeardInv

-----------------------------------------------------------------------------
(* The steps of the listeners, which touch no setter and no screen. *)

\* Who registers for a display that it did not listen to has not heard of it.
LEMMA RegisterKeeps ==
    ASSUME MultiInv, NEW listener \in Listeners,
           NEW id \in MultiDisplays \union {DISPLAY_ID_ALL}, RegisterListener(listener, id)
    PROVE  LockInv' /\ HeardInv'
  <1> USE DEF MultiInv, LockInv
  <1> DEFINE r == <<listener, id>>
             news(l, e) == /\ l = listener /\ Covers(r, e)
                           /\ ~\E q \in Registered(listener) : Covers(q, e)
  <1>1. /\ callbacks_' = callbacks_ \union {r}
        /\ UNCHANGED <<screenState, brightnessState, screenLock, setter, aliveListeners, announced>>
    BY DEF RegisterListener, stateVars
  <1>2. /\ \A l \in Listeners, e \in MultiDisplays :
               heard'[<<l, e>>] = IF news(l, e) THEN "UNKNOWN" ELSE heard[<<l, e>>]
        /\ heard' \in [Listeners \X MultiDisplays -> AllStates]
    <2>1. heard' = [h \in Listeners \X MultiDisplays |->
                        IF news(h[1], h[2]) THEN "UNKNOWN" ELSE heard[h]]
      BY DEF RegisterListener, LockTypes
    <2>2. \A h \in Listeners \X MultiDisplays : heard[h] \in AllStates
      BY DEF LockTypes
    <2> HIDE DEF news
    <2>3. heard' \in [Listeners \X MultiDisplays -> AllStates]
      BY <2>1, <2>2 DEF AllStates
    <2> QED
      BY <2>1, <2>3
  <1>3. LockTypes' /\ LockHeld' /\ ToldInv'
    BY <1>1, <1>2 DEF LockTypes, LockHeld, ToldInv
  <1>4. \A e \in MultiDisplays : (InStep(e)' <=> InStep(e)) /\ (Telling(e)' <=> Telling(e))
    BY <1>1 DEF InStep, Telling
  <1>5. BrightnessInv'
    BY <1>1, <1>4 DEF BrightnessInv
  \* A registration that concerns a display is one that did before, or the listener had heard of
  \* the display as another registration's listener, or it has heard nothing.
  <1>6. \A q \in Registrations, e \in MultiDisplays : Concerns(q, e)' =>
            \/ UpToDate(q, e)'
            \/ /\ UpToDate(q, e)' <=> UpToDate(q, e)
               /\ \E p \in Registrations : p[1] = q[1] /\ Concerns(p, e)
    <2> SUFFICES ASSUME NEW q \in Registrations, NEW e \in MultiDisplays, Concerns(q, e)'
                 PROVE  \/ UpToDate(q, e)'
                        \/ /\ UpToDate(q, e)' <=> UpToDate(q, e)
                           /\ \E p \in Registrations : p[1] = q[1] /\ Concerns(p, e)
      OBVIOUS
    <2>1. q[1] \in Listeners
      BY DEF Registrations
    <2>2. CASE news(q[1], e)
      BY <1>2, <2>1, <2>2 DEF UpToDate
    <2>3. CASE ~news(q[1], e)
      <3>1. UpToDate(q, e)' <=> UpToDate(q, e)
        BY <1>1, <1>2, <2>1, <2>3 DEF UpToDate
      <3>2. CASE q \in callbacks_
        BY <1>1, <3>1, <3>2 DEF Concerns
      <3>3. CASE q \notin callbacks_
        <4>1. q = r /\ q[1] = listener /\ Covers(r, e) /\ listener \in aliveListeners
          BY <1>1, <3>3 DEF Concerns
        <4>2. PICK p \in Registered(listener) : Covers(p, e)
          BY <2>3, <4>1
        <4>3. p \in Registrations /\ p[1] = q[1] /\ Concerns(p, e)
          BY <4>1, <4>2 DEF Registered, Concerns, RegistryInv
        <4> QED
          BY <3>1, <4>3
      <3> QED
        BY <3>2, <3>3
    <2> QED
      BY <2>2, <2>3
  <1>7. \A p, q \in Registrations, e \in MultiDisplays :
            p[1] = q[1] => (UpToDate(p, e) <=> UpToDate(q, e))
    BY DEF UpToDate
  <1>8. \A u \in Setters : AppliesState(u)' /\ StillToTell(u)'
    <2>1. \A u \in Setters : AppliesState(u)'
      BY <1>1 DEF AppliesState, HeardInv
    <2>2. \A u \in Setters : StillToTell(u)'
      <3> SUFFICES ASSUME NEW u \in Setters, setter'[u].at = "call",
                          NEW q \in Registrations, Concerns(q, setter[u].display)',
                          ~UpToDate(q, setter[u].display)'
                   PROVE  \E p \in setter[u].targets : p[1] = q[1]
        BY <1>1 DEF StillToTell
      <3>1. setter[u].display \in MultiDisplays /\ setter[u].at = "call"
        BY <1>1 DEF LockTypes
      <3>2. PICK p \in Registrations : p[1] = q[1] /\ Concerns(p, setter[u].display)
                                       /\ ~UpToDate(p, setter[u].display)
        BY <1>1, <1>6, <1>7, <3>1
      <3> QED
        BY <3>1, <3>2 DEF HeardInv, StillToTell
    <2> QED
      BY <2>1, <2>2
  <1>9. \A e \in MultiDisplays : AllTold(e)'
    BY <1>1, <1>4, <1>6, <1>7 DEF AllTold, HeardInv
  <1> QED
    BY <1>3, <1>5, <1>8, <1>9 DEF HeardInv

\* Registrations that go, and listeners that die, concern fewer displays.
LEMMA LeavingKeeps ==
    ASSUME MultiInv, callbacks_' \subseteq callbacks_, aliveListeners' \subseteq aliveListeners,
           UNCHANGED <<stateVars, screenLock, setter, toldVars>>
    PROVE  LockInv' /\ HeardInv'
  <1> USE DEF MultiInv, LockInv
  <1>1. LockTypes' /\ LockHeld' /\ ToldInv'
    BY DEF LockTypes, LockHeld, ToldInv, stateVars, toldVars
  <1>2. \A e \in MultiDisplays : (InStep(e)' <=> InStep(e)) /\ (Telling(e)' <=> Telling(e))
    BY DEF InStep, Telling
  <1>3. BrightnessInv'
    BY <1>2 DEF BrightnessInv, stateVars
  <1>4. \A q \in Registrations, e \in MultiDisplays :
            (Concerns(q, e)' => Concerns(q, e)) /\ (UpToDate(q, e)' <=> UpToDate(q, e))
    BY DEF Concerns, UpToDate, stateVars, toldVars
  <1>5. \A u \in Setters : AppliesState(u)'
    BY DEF AppliesState, HeardInv, stateVars
  <1>6. \A u \in Setters : StillToTell(u)'
    BY <1>4 DEF StillToTell, HeardInv, LockTypes
  <1>7. \A e \in MultiDisplays : AllTold(e)'
    BY <1>2, <1>4 DEF AllTold, HeardInv, stateVars, toldVars
  <1> QED
    BY <1>1, <1>3, <1>5, <1>6, <1>7 DEF HeardInv

LEMMA MultiStep == MultiInv /\ [MultiNext]_multiVars => MultiInv'
  <1> SUFFICES ASSUME MultiInv, [MultiNext]_multiVars PROVE LockInv' /\ HeardInv'
    BY RegistryStep DEF MultiInv
  <1>1. CASE UNCHANGED multiVars
    BY <1>1, LeavingKeeps DEF multiVars, registryVars, lifeVars
  <1>2. ASSUME NEW t \in Setters, NEW d \in MultiDisplays, NEW state \in States,
               LockScreen(t, d, state)
        PROVE  LockInv' /\ HeardInv'
    BY <1>2, LockScreenKeeps
  <1>3. ASSUME NEW t \in Setters, UpdateMultiScreenState(t)
        PROVE  LockInv' /\ HeardInv'
    BY <1>3, UpdateKeeps
  <1>4. ASSUME NEW t \in Setters, UndoSetDisplayState(t)
        PROVE  LockInv' /\ HeardInv'
    BY <1>4, UndoKeeps
  <1>5. ASSUME NEW t \in Setters, CopyCallbacks(t)
        PROVE  LockInv' /\ HeardInv'
    BY <1>5, CopyKeeps
  <1>6. ASSUME NEW t \in Setters, PublishCommonEvent(t)
        PROVE  LockInv' /\ HeardInv'
    BY <1>6, PublishKeeps
  <1>7. ASSUME NEW t \in Setters, NEW r \in Registrations, OnMultiScreenDisplayStateChanged(t, r)
        PROVE  LockInv' /\ HeardInv'
    BY <1>7, CallKeeps
  <1>8. ASSUME NEW listener \in Listeners, NEW id \in MultiDisplays \union {DISPLAY_ID_ALL},
               RegisterListener(listener, id)
        PROVE  LockInv' /\ HeardInv'
    BY <1>8, RegisterKeeps
  <1>9. ASSUME NEW listener \in Listeners, NEW id \in MultiDisplays \union {DISPLAY_ID_ALL},
               UnregisterListener(listener, id)
        PROVE  LockInv' /\ HeardInv'
    BY <1>9, LeavingKeeps DEF UnregisterListener, Drop, lifeVars
  <1>10. ASSUME NEW listener \in Listeners, ListenerDies(listener)
         PROVE  LockInv' /\ HeardInv'
    BY <1>10, LeavingKeeps DEF ListenerDies, registryVars
  <1>11. ASSUME NEW listener \in Listeners, OnListenerDied(listener)
         PROVE  LockInv' /\ HeardInv'
    BY <1>11, LeavingKeeps DEF OnListenerDied, Drop
  <1> QED
    BY <1>1, <1>2, <1>3, <1>4, <1>5, <1>6, <1>7, <1>8, <1>9, <1>10, <1>11 DEF MultiNext

THEOREM MultiInvariant == MultiSpec => []MultiInv
  BY MultiInvInit, MultiStep, PTL DEF MultiSpec

\* SetMultiScreenDisplayStateInner: whichever setters race, whichever of them the display manager or
\* the render service refuses, a screen whose lock is free has the brightness of its state.
THEOREM BrightnessFollows == MultiSpec => []BrightnessFollowsScreen
  <1>1. MultiInv => BrightnessFollowsScreen
    BY MultiScreenAssumption
       DEF MultiInv, LockInv, LockHeld, BrightnessInv, InStep, BrightnessFollowsScreen
  <1> QED
    BY <1>1, MultiInvariant, PTL

\* Notify works on a copy of the registrations and without the mutex, and still nobody who
\* registered, cancelled, registered again or died meanwhile keeps a state that is over.
THEOREM ListenersKnow == MultiSpec => []ListenersKnowState
  <1>1. ASSUME MultiInv, NEW d \in MultiDisplays, screenLock[d] = Nobody
        PROVE  /\ announced[d] = screenState[d]
               /\ \A r \in callbacks_ : r[1] \in aliveListeners /\ Covers(r, d) =>
                      heard[<<r[1], d>>] \in {"UNKNOWN", screenState[d]}
    <2>1. ~Telling(d)
      BY <1>1, MultiScreenAssumption DEF MultiInv, LockInv, LockHeld, Telling
    <2>2. AllTold(d)
      BY <1>1 DEF MultiInv, HeardInv
    <2> QED
      BY <1>1, <2>1, <2>2 DEF AllTold, Concerns, UpToDate, MultiInv, RegistryInv
  <1>2. MultiInv => ListenersKnowState
    BY <1>1 DEF ListenersKnowState
  <1> QED
    BY <1>2, MultiInvariant, PTL

-----------------------------------------------------------------------------
(* Listeners that die. *)

LEMMA DeadStep ==
    RegistryInv /\ DeadListenersLeave /\ [MultiNext]_multiVars => DeadListenersLeave'
  <1> SUFFICES ASSUME RegistryInv, DeadListenersLeave, [MultiNext]_multiVars
               PROVE  DeadListenersLeave'
    OBVIOUS
  <1>1. CASE UNCHANGED <<registryVars, lifeVars>>
    BY <1>1 DEF DeadListenersLeave, registryVars, lifeVars
  <1>2. ASSUME NEW listener \in Listeners, NEW id \in MultiDisplays \union {DISPLAY_ID_ALL},
               RegisterListener(listener, id)
        PROVE  DeadListenersLeave'
    <2>1. /\ callbacks_' = callbacks_ \union {<<listener, id>>}
          /\ aliveListeners \subseteq aliveListeners' /\ obituaries \subseteq obituaries'
          /\ unwatched \subseteq unwatched'
      BY <1>2 DEF RegisterListener
    <2>2. listener \in aliveListeners' \union obituaries' \union unwatched'
      <3>1. CASE Registered(listener) = {}
        BY <1>2, <3>1 DEF RegisterListener
      <3>2. CASE Registered(listener) # {}
        BY <2>1, <3>2 DEF Registered, DeadListenersLeave
      <3> QED
        BY <3>1, <3>2
    <2> QED
      BY <2>1, <2>2 DEF DeadListenersLeave
  <1>3. ASSUME NEW listener \in Listeners, NEW id \in MultiDisplays \union {DISPLAY_ID_ALL},
               UnregisterListener(listener, id)
        PROVE  DeadListenersLeave'
    BY <1>3 DEF UnregisterListener, Drop, lifeVars, DeadListenersLeave
  <1>4. ASSUME NEW listener \in Listeners, ListenerDies(listener)
        PROVE  DeadListenersLeave'
    <2>1. \A r \in callbacks_ : r[1] \in deathRecipients_
      BY DEF RegistryInv, ListenersAgree
    <2> QED
      BY <1>4, <2>1 DEF ListenerDies, registryVars, DeadListenersLeave
  <1>5. ASSUME NEW listener \in Listeners, OnListenerDied(listener)
        PROVE  DeadListenersLeave'
    BY <1>5 DEF OnListenerDied, Drop, Registered, DeadListenersLeave
  <1> QED
    BY <1>1, <1>2, <1>3, <1>4, <1>5 DEF MultiNext, multiVars, LockScreen, UpdateMultiScreenState,
       UndoSetDisplayState, CopyCallbacks, PublishCommonEvent, OnMultiScreenDisplayStateChanged

\* OnRemoteDied: whenever a process dies, before, between or after its registrations, they go with
\* it, but for the one whose death recipient came too late to be told.
THEOREM DeadLeave == MultiSpec => []DeadListenersLeave
  <1>1. MultiInit => DeadListenersLeave
    BY DEF MultiInit, DeadListenersLeave
  <1> QED
    BY <1>1, RegistryInit, RegistryStep, DeadStep, PTL DEF MultiSpec
=============================================================================
