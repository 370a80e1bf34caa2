--------------------------- MODULE MCAutoBrightness -------------------------
(***************************************************************************)
(* The parts of automatic brightness on small instances: the ring buffer   *)
(* of readings, the filter over it, the curve, and the choice of a sensor. *)
(* They share no variable, so that nothing is lost by checking them next   *)
(* to each other and not all interleaved: a behaviour moves one of them.   *)
(***************************************************************************)
EXTENDS LightLuxBuffer, LightLuxManager, CalculationManager, AmbientSensors

VARIABLE part

MCRoomLuxes == {-3, 8, 30}
MCDeltas == [direction \in Directions |-> IF direction = "brighter" THEN 6 ELSE 5]

Line(margin) == <<[x |-> 0, y |-> margin], [x |-> 20, y |-> 2 * margin]>>
Mode(brighten, darken) ==
    [modeName |-> "DefaultMode", brightenDebounceTime |-> brighten,
     darkenDebounceTime |-> darken, brightenPoints |-> Line(4), darkenPoints |-> Line(3)]
MCThresholdFiles ==
    {Unparsable, Foreign,
     [thresholdMode |-> Foreign], [thresholdMode |-> << >>],
     [thresholdMode |-> <<[modeName |-> "GameMode"], Mode(2, 3), [modeName |-> "DefaultMode"]>>],
     [thresholdMode |-> <<[modeName |-> "DefaultMode", brightenDebounceTime |-> 2]>>]}

MCCurveFiles ==
    {Unparsable, Foreign, [defaultBrightness |-> 35],
     [defaultPoints |-> <<[x |-> 0, y |-> 2], [x |-> 20, y |-> 100], [x |-> 400, y |-> 100],
                          [x |-> 500, y |-> 180], Foreign, [x |-> 3, y |-> 9]>>],
     [defaultPoints |-> <<[x |-> 20, y |-> 50]>>]}

MCScreenFiles ==
    {Unparsable,
     [foldStatus |-> <<[foldStatus |-> 2]>>, displayModeData |-> <<Foreign, [displayMode |-> 2]>>]}

AutoInit ==
    /\ part \in {"buffer", "filter", "curve", "sensors"}
    /\ Init /\ ManagerInit /\ CalculationInit /\ SensorInit
    /\ part # "filter" => thresholdFile = Unparsable
    /\ part # "curve" => defaultPoints = DefaultPoints
    /\ part # "sensors" =>
           /\ isFoldable = FALSE /\ isSupported = TRUE /\ loose = {} /\ autoSetting = FALSE
           /\ displayModeMap = DefaultDisplayModes

AutoNext ==
    /\ UNCHANGED part
    /\ \/ part = "buffer" /\ Next /\ UNCHANGED <<managerVars, calculationVars, sensorVars>>
       \/ part = "filter" /\ ManagerNext /\ UNCHANGED <<vars, calculationVars, sensorVars>>
       \/ part = "curve" /\ CalculationNext /\ UNCHANGED <<vars, managerVars, sensorVars>>
       \/ part = "sensors" /\ SensorNext /\ UNCHANGED <<vars, managerVars, calculationVars>>

AutoSpec == AutoInit /\ [][AutoNext]_<<part, vars, managerVars, calculationVars, sensorVars>>
=============================================================================
