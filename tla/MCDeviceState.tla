---------------------------- MODULE MCDeviceState -----------------------------
(* The seed's models, one of each type and both lights, with every alias   *)
(* the seed has and one for the thermostat.                                *)
EXTENDS DeviceState, Sequences, FiniteSets, SequencesExt

Bulb == [type |-> "light", caps |-> {"on_off", "brightness"},
         alias |-> [a \in {"power", "state", "dimmer"} |->
                        IF a = "dimmer" THEN "brightness" ELSE "on_off"],
         events |-> {"turned_on", "turned_off", "brightness_changed"}]
Hue == [type |-> "light", caps |-> {"on_off", "brightness", "color"},
        alias |-> [a \in {"hue"} |-> "color"],
        events |-> {"turned_on", "turned_off", "brightness_changed", "color_changed"}]
Nest == [type |-> "thermostat", caps |-> {"temperature", "target_temperature"},
         alias |-> [a \in {"temp"} |-> "temperature"],
         events |-> {"temperature_changed", "setpoint_changed", "mode_changed",
                     "humidity_changed"}]
Aqara == [type |-> "motion", caps |-> {"motion", "presence"}, alias |-> <<>>,
          events |-> {"motion_detected", "motion_cleared", "presence_detected",
                      "presence_cleared"}]

MCModels == {Bulb, Hue, Nest, Aqara}

MCOrder == <<"brightness", "color", "dimmer", "hue", "humidity", "mode", "motion",
             "on", "on_off", "power", "presence", "state", "target_temperature",
             "temp", "temperature", "unknown", "value">>
MCKeys == ToSet(MCOrder)
MCRank == [k \in MCKeys |-> CHOOSE i \in 1..Len(MCOrder) : MCOrder[i] = k]
MCValues == {"true", "false", "100", "#ffffff", "20.0", "21.0", "auto", "50.0"}
MCPayload == {"true", "100"}
MCNames == {{}, {"power", "state"}, {"dimmer", "brightness"}, {"on", "power"}, {"hue", "color"},
            {"mode", "temp"}, {"motion", "presence"}, {"value", "dimmer"}, {"unknown", "on_off"}}
           \cup {{k} : k \in MCKeys}
MCBodies == UNION {[names -> MCPayload] : names \in MCNames}
=============================================================================
