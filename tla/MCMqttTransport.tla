--------------------------- MODULE MCMqttTransport ---------------------------
(* Three MQTT devices, one in a room called "+" and one in a room with a + *)
(* in its name, and a REST device.                                         *)
EXTENDS MqttTransport

CONSTANTS lamp, plus, bad, meter

MCIds == {lamp, plus, bad, meter}
MCProto == [d \in MCIds |-> IF d = meter THEN "rest" ELSE "mqtt"]
MCTopic == [d \in MCIds |-> CASE d = plus -> "filter"
                             [] d = bad  -> "malformed"
                             [] OTHER    -> "plain"]
MCPlain == [d \in MCIds |-> "plain"]
=============================================================================
