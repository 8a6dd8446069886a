-------------------------- MODULE MCDeviceRegistry ---------------------------
(* A seeded device of an unsupported type and an id free for the user; or  *)
(* a seeded light.  A light and a thermostat register for different types. *)
EXTENDS DeviceRegistry

MCIds == {"door", "extra"}
MCFewIds == {"lamp", "extra"}
MCModels == {"light", "thermostat", "contact"}
MCSupported == {"light", "thermostat"}
MCEventTypes == {"turned_on", "mode_changed"}
MCHandles == [m \in MCModels |->
    CASE m = "light"      -> {"turned_on"}
      [] m = "thermostat" -> {"mode_changed"}
      [] m = "contact"    -> {}]
MCSeed == [d \in MCIds |->
    IF d = "door" THEN "contact" ELSE NoModel]
MCFewSeed == [d \in MCFewIds |-> IF d = "lamp" THEN "light" ELSE NoModel]
=============================================================================
