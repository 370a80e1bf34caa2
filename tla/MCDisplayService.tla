-------------------------- MODULE MCDisplayService --------------------------
(***************************************************************************)
(* The parts of the service around the display state machine on small      *)
(* instances: how it comes up, the switch of automatic brightness, the     *)
(* brightness behind its facade, the states of many screens, a client and  *)
(* its errors, and what is kept of clients that die.  They share no        *)
(* variable, so that nothing is lost by checking them next to each other   *)
(* and not all interleaved: a behaviour moves one of them.                 *)
(***************************************************************************)
EXTENDS DisplaySystemAbility, AutoSwitch, BrightnessFacade, MultiScreen, DisplayClient,
        ClientDeaths

VARIABLE part

ServiceInit ==
    /\ part \in {"ability", "switch", "facade", "screens", "client", "deaths"}
    /\ AbilityInit /\ SwitchInit /\ FacadeInit /\ MultiInit /\ ClientInit /\ DeathInit
    /\ part # "switch" => isSupportLightSensor = FALSE /\ settingEnable = FALSE
    /\ part # "facade" => connectedScreens = {} /\ library = Absent
    /\ part # "client" => serviceUp = FALSE

serviceSideVars == <<abilityVars, switchVars, facadeVars, multiVars, deathVars>>

ServiceNext ==
    /\ UNCHANGED part
    /\ \/ /\ part = "ability" /\ AbilityNext
          /\ UNCHANGED <<switchVars, facadeVars, multiVars, clientVars, deathVars>>
       \/ /\ part = "switch" /\ SwitchNext
          /\ UNCHANGED <<abilityVars, facadeVars, multiVars, clientVars, deathVars>>
       \/ /\ part = "facade" /\ FacadeNext
          /\ UNCHANGED <<abilityVars, switchVars, multiVars, clientVars, deathVars>>
       \/ /\ part = "screens" /\ MultiNext
          /\ UNCHANGED <<abilityVars, switchVars, facadeVars, clientVars, deathVars>>
       \/ /\ part = "client" /\ ClientNext /\ UNCHANGED serviceSideVars
       \/ /\ part = "deaths" /\ DeathNext
          /\ UNCHANGED <<abilityVars, switchVars, facadeVars, multiVars, clientVars>>

allVars == <<part, serviceSideVars, clientVars>>

\* ClientFairness, where the client is the part that moves.
ServiceFairness ==
    \A c \in Clients :
        /\ WF_clientVars(part = "client" /\ ClientStep(c))
        /\ WF_clientVars(part = "client" /\ \E i \in 1 .. MaxIncarnations : OnRemoteDied(c, i))
        /\ WF_clientVars(part = "client" /\ \E op \in ClientOps : BeginOperation(c, op, "none"))

ServiceSpec == ServiceInit /\ [][ServiceNext]_allVars /\ ServiceFairness

\* ClientReconnects, of the behaviours in which the client moves.
ClientsReconnect == part = "client" => ClientReconnects
=============================================================================
