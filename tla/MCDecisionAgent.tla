--------------------------- MODULE MCDecisionAgent ---------------------------
(* Instances of DecisionAgent for TLC.                                     *)
EXTENDS DecisionAgent

KeyFor(iot, static, dynamic) ==
    [r \in Role |-> CASE r = "iot_sensor" -> iot
                      [] r = "static_dust" -> static
                      [] r = "dynamic_dust" -> dynamic]

\* Record 1: only the sensor is abnormal; every later one: only the anomaly
\* detection is.
Results ==
    [r \in Record |->
        [c \in Component |->
            IF c = (IF r = 1 THEN "sensor_analysis" ELSE "anomaly_detection")
            THEN "abnormal" ELSE "normal"]]

\* The roles of the two vision components are exchanged, one edit after the other.
SwapVision == {<<"static_dust", "object_detection">>,
               <<"dynamic_dust", "anomaly_detection">>}

\* The truth table lacks the row of record 1.
NoSensorRow == {KeyFor("abnormal", "normal", "normal")}

\* Edits when that row is missing.
TuneVision == {<<KeyFor("normal", "abnormal", "normal"), "normal">>}
=============================================================================
