---------------------------- MODULE MCMqttInbound ----------------------------
(* A small instance of MqttInbound: the first client has two messages, the *)
(* second one has one; the first try of message 1 may be stuck.            *)
EXTENDS MqttInbound

AllTries == Messages \X (1..MaxTries)

ClientOfTry == [t \in AllTries |-> IF t[1] = 3 THEN "b" ELSE "a"]

FirstTry == {<<1, 1>>}

=============================================================================
