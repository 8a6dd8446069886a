----------------------------- MODULE MCEventFlow -----------------------------
(* A trigger whose items are a late light event and a trigger: an early     *)
(* change without a type, a malformed item, and one more.  And a message.   *)
EXTENDS EventFlow

CONSTANTS scene, late, nested, bad, last, early, message

MCEvents == {scene, late, nested, bad, last, early, message}
MCSubs ==
    [e \in MCEvents |-> CASE e = scene  -> <<late, nested>>
                          [] e = nested -> <<early, bad, last>>
                          [] OTHER      -> <<>>]
MCItem ==
    [e \in MCEvents |->
        CASE e = late   -> [type |-> <<"light", "turned_on">>, dev |-> "lamp", delay |-> 1]
          [] e = nested -> [type |-> Trigger, dev |-> Absent, delay |-> 0]
          [] e = early  -> [type |-> Absent, dev |-> "lamp", delay |-> -1]
          [] OTHER      -> [type |-> Absent, dev |-> "lamp", delay |-> 0]]
MCBroken == {bad}
MCEventTypes == [c \in {"light"} |-> {"turned_on"}]
MCIds == {"lamp"}
MCModels == {"bulb"}
MCHandlerTypes == [m \in MCModels |-> {<<"light", "turned_on">>}]
MCTopics ==
    {<<"home", "hall", "lamp">>,
     <<"home", "light", "lamp", "set">>,
     <<"home", "light", "lamp", "event", <<"turned_on">>>>,
     <<"home", "light", "lamp", "event", <<"trigger">>>>}
MCDelays == {1}
=============================================================================
