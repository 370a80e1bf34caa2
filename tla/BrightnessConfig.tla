--------------------------- MODULE BrightnessConfig -------------------------
(***************************************************************************)
(* The configuration files of the brightness manager and what the parsers  *)
(* make of them: which file is opened, which values a document leaves at   *)
(* their defaults, and which it empties.  A file is the JSON document it   *)
(* holds: Unparsable (none, not readable, or not JSON), Foreign (JSON of   *)
(* another shape than the parser's), or a function from the keys it has to *)
(* their values; an array that is no array is Foreign too.                 *)
(***************************************************************************)
EXTENDS Integers, Sequences, SequencesExt, FiniteSetsExt

CONSTANTS Unparsable, Foreign

DISPLAY_ID_MAX == 5

Document(file) == file \notin {Unparsable, Foreign}

\* A member of a document, or what the variable holds before it is parsed.
Member(object, key, default) == IF key \in DOMAIN object THEN object[key] ELSE default

-----------------------------------------------------------------------------
(* Points of a line: a sequence of [x, y]. *)

PointXy == [x : Int, y : Int]

\* An element that is not a pair ends the array there; a missing array empties the points.
ParsePointXy(object, key) ==
    LET array == Member(object, key, Foreign)
        first == Min({i \in DOMAIN array : array[i] = Foreign} \union {Len(array) + 1})
    IN  IF array = Foreign THEN << >> ELSE SubSeq(array, 1, first - 1)

\* The points up to and including the last one before the first that lies beyond lux.
Passed(points, lux) ==
    Cardinality({k \in DOMAIN points : \A i \in 1 .. k : points[i].x <= lux})

OnLine(p, q, x) == p.y + ((q.y - p.y) * (x - p.x)) \div (q.x - p.x)

Ascending(points) ==
    \A i, j \in DOMAIN points : i < j => points[i].x < points[j].x /\ points[i].y <= points[j].y

-----------------------------------------------------------------------------
(* The parsers. *)

\* Displays share directories: all but the full and the sub display use the main one's.
ConfigPath(displayId) ==
    CASE displayId = 1 -> "full" [] displayId = 3 -> "sub" [] OTHER -> "main"

\* brightness_curve_config: without a document the points in the header stay.
DefaultPoints ==
    <<[x |-> 0, y |-> 5], [x |-> 5, y |-> 17], [x |-> 20, y |-> 30], [x |-> 50, y |-> 36],
      [x |-> 200, y |-> 45], [x |-> 400, y |-> 54], [x |-> 1000, y |-> 81],
      [x |-> 2000, y |-> 123], [x |-> 7000, y |-> 255]>>
CalculationConfig(file) ==
    IF Document(file) THEN ParsePointXy(file, "defaultPoints") ELSE DefaultPoints

\* brightness_lux_filter_method_config, an array.  SetDefault knows one filter.
DefaultFilter == [filterName |-> "meanFilter", filterNoFilterNum |-> 7, filterNum |-> 5]
FilterNames(file) ==
    IF file = Unparsable THEN {DefaultFilter.filterName}
    ELSE IF file = Foreign THEN {}
    ELSE {file[i].filterName : i \in {k \in DOMAIN file :
              file[k] # Foreign /\ "filterName" \in DOMAIN file[k]}}

\* brightness_lux_threshold_config.  SetDefault is used only when there is no JSON at all:
\* a document of another shape leaves no mode, not even the default one.
DefaultMode ==
    [brightenDebounceTime |-> 1200, darkenDebounceTime |-> 1500,
     brightenPoints |->
        <<[x |-> 0, y |-> 5], [x |-> 3, y |-> 5], [x |-> 5, y |-> 10], [x |-> 10, y |-> 20],
          [x |-> 20, y |-> 50], [x |-> 30, y |-> 100], [x |-> 100, y |-> 300],
          [x |-> 500, y |-> 500], [x |-> 1000, y |-> 1000], [x |-> 2000, y |-> 2000],
          [x |-> 10000, y |-> 10000], [x |-> 70000, y |-> 10000]>>,
     darkenPoints |->
        <<[x |-> 0, y |-> 1], [x |-> 1, y |-> 1], [x |-> 3, y |-> 2], [x |-> 10, y |-> 7],
          [x |-> 20, y |-> 15], [x |-> 50, y |-> 35], [x |-> 100, y |-> 80],
          [x |-> 200, y |-> 170], [x |-> 500, y |-> 350], [x |-> 1000, y |-> 600],
          [x |-> 2000, y |-> 1200], [x |-> 10000, y |-> 8000], [x |-> 70000, y |-> 60000]>>]

\* One element of thresholdMode; a debounce time that is left out is INVALID_VALUE.
INVALID_VALUE == -1
ThresholdMode(item) ==
    [brightenDebounceTime |-> Member(item, "brightenDebounceTime", INVALID_VALUE),
     darkenDebounceTime |-> Member(item, "darkenDebounceTime", INVALID_VALUE),
     brightenPoints |-> ParsePointXy(item, "brightenPoints"),
     darkenPoints |-> ParsePointXy(item, "darkenPoints")]

NoDefault(file) == << >>                                                \* mutant
LuxThresholdConfig(file) ==
    LET array == IF Document(file) THEN Member(file, "thresholdMode", Foreign) ELSE Foreign
        Named(name) == {i \in DOMAIN array : Member(array[i], "modeName", "") = name}
        names == {array[i].modeName : i \in {k \in DOMAIN array : "modeName" \in DOMAIN array[k]}}
    IN  IF file = Unparsable THEN [name \in {"DefaultMode"} |-> DefaultMode]
        ELSE IF array = Foreign THEN << >>
        ELSE [name \in names |-> ThresholdMode(array[Min(Named(name))])]  \* insert keeps the first

\* brightness_config: from a display mode or a fold status to the light sensor to use.
DefaultDisplayModes == [mode \in 0 .. 2 |-> IF mode = 2 THEN 5 ELSE 16]
DefaultFoldStatuses == [status \in 0 .. 3 |-> IF status = 2 THEN 5 ELSE 16]

\* Later elements of the array replace earlier ones; what an element leaves out is 0.
ParseScreenData(object, key, param) ==
    LET array == Member(object, key, Foreign)
        Of(mode) == {i \in DOMAIN array : array[i] # Foreign /\ Member(array[i], param, 0) = mode}
        modes == {Member(array[i], param, 0) : i \in {k \in DOMAIN array : array[k] # Foreign}}
    IN  IF array = Foreign THEN << >>
        ELSE [mode \in modes |-> Member(array[Max(Of(mode))], "sensorId", 0)]

DisplayModes(file) ==
    IF Document(file) THEN ParseScreenData(file, "displayModeData", "displayMode")
    ELSE DefaultDisplayModes
FoldStatuses(file) ==
    IF Document(file) THEN ParseScreenData(file, "foldStatus", "foldStatus")
    ELSE DefaultFoldStatuses

DEFAULT_SENSOR_ID == 5
GetSensorId(map, mode) == Member(map, mode, DEFAULT_SENSOR_ID)

\* ConfigParse::Initialize reads the files of every display; those in force are display 0's.
BrightnessConfigs(files) ==
    [displayId \in 0 .. DISPLAY_ID_MAX - 1 |->
        LET of == files[ConfigPath(displayId)] IN
        [calculationConfig |-> CalculationConfig(of.curve),
         luxFilterConfig |-> FilterNames(of.filter),
         luxThresholdConfig |-> LuxThresholdConfig(of.threshold)]]
=============================================================================
