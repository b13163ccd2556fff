---------------------------- MODULE MCMqttBroker ----------------------------
(* MqttBroker with values for TLC, and the map of its subscriptions over    *)
(* bounded inputs.                                                          *)
EXTENDS MqttBroker

\* Each QoS and each use of the retained message.
MCKinds == <<{<<1, "no">>}, {<<2, "store">>}, {<<0, "erase">>}>>

MCExactlyOnce == <<{<<2, "no">>}, {<<2, "no">>}>>

Map == INSTANCE SubscriptionMap WITH SystemLevels <- {"$"}

MCFilters == {<<"a">>, <<"+">>, <<"#">>, <<"a", "a">>, <<"a", "+">>, <<"a", "#">>, <<"+", "a">>, <<"$", "#">>}
MCTopics  == {<<"a">>, <<"$">>} \cup ({"a", "b", "$"} \X {"a", "b"})

\* Two clients subscribe and erase three times, in any way.
MCOps == UNION {[1 .. n -> [insert : BOOLEAN, filter : MCFilters, client : 1 .. 2]] : n \in 0 .. 3}

ASSUME LookupIsExact == \A ops \in MCOps : Map!FindsMatches(ops, MCTopics) /\ Map!KeepsWhatItNeeds(ops)
=============================================================================
