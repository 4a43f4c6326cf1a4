---------------------------- MODULE MqttInbound ----------------------------
(***************************************************************************)
(* The MQTT channel's inbound path: publishes of the clients go through    *)
(* the keyed run queue, with the client id as key, and a publish is        *)
(* acknowledged when its handler has returned.                             *)
(*                                                                         *)
(* A task is one try <<m, n>> of a client to publish message m: until it   *)
(* has the PUBACK a client may send the message again.                     *)
(* External: the clients, their connections, and the handler's dispatch.   *)
(***************************************************************************)
EXTENDS KeyedRunQueue

CONSTANTS
  Messages,       \* of all the clients
  MaxTries,       \* bound: times a client sends a message
  MaxPerClient    \* maxPendingMessagesPerClient

ASSUME MqttAssumption ==
  /\ {MaxTries, MaxPerClient} \subseteq Nat \ {0}
  /\ Tasks = Messages \X (1..MaxTries)

VARIABLES
  broker,   \* on; stopping: sockets gone, the queue drains; off
  acked,    \* messages whose PUBACK the client has
  handled   \* history: messages whose handler returned without an error

mqttVars == <<queueVars, broker, acked, handled>>

MqttTypeOK ==
  /\ QueueTypeOK
  /\ broker \in {"on", "stopping", "off"}
  /\ acked \subseteq Messages
  /\ handled \subseteq Messages
  /\ broker = "on" <=> active

MqttInit ==
  /\ QueueInit
  /\ broker = "on"
  /\ acked = {}
  /\ handled = {}

(* A client's first try, or the next one: the connection was lost, or the  *)
(* answer is late.                                                         *)
Sends(t) ==
  /\ broker = "on"
  /\ t[1] \notin acked
  /\ t[2] > 1 => stage[<<t[1], t[2] - 1>>] # "new"

(* enqueueInboundMessage: the client's depth is looked at first.           *)
Publish(t) ==
  /\ Sends(t)
  /\ depth[KeyOf[t]] < MaxPerClient
  /\ Accept(t) \/ Refuse(t)
  /\ UNCHANGED <<broker, acked, handled>>

PublishOverLimit(t) ==
  /\ Sends(t)
  /\ stage[t] = "new"
  /\ depth[KeyOf[t]] >= MaxPerClient
  /\ stage' = [stage EXCEPT ![t] = "refused"]
  /\ caller' = [caller EXCEPT ![t] = "rejected"]
  /\ UNCHANGED <<active, prev, tails, depth, pendingTasks, awaited, place, accepted,
                 broker, acked, handled>>

(* The handler ends, in time or late.                                      *)
HandlerEnds(t, outcome) ==
  /\ TaskEnds(t, outcome)
  /\ handled' = IF outcome = "resolved" THEN handled \cup {t[1]} ELSE handled
  /\ UNCHANGED <<broker, acked>>

(* A slip, for mutation: the callback is called without an error when the  *)
(* queue is done with the task, however that came.                         *)
PubackWhenSettled(t) ==
  /\ broker = "on"
  /\ caller[t] \in {"resolved", "rejected"}
  /\ acked' = acked \cup {t[1]}
  /\ UNCHANGED <<queueVars, broker, handled>>

(* callback(null), over a connection that still exists.                    *)
Puback(t) ==
  /\ broker = "on"
  /\ caller[t] = "resolved"
  /\ acked' = acked \cup {t[1]}
  /\ UNCHANGED <<queueVars, broker, handled>>

StopBroker ==
  /\ broker = "on"
  /\ broker' = "stopping"
  /\ DeactivateAndDrain
  /\ UNCHANGED <<acked, handled>>

StopEnds ==
  /\ broker = "stopping"
  /\ Drained
  /\ broker' = "off"
  /\ UNCHANGED <<queueVars, acked, handled>>

Progress(t) ==
  \/ (Begin(t) \/ RejectQueued(t) \/ Timeout(t)) /\ UNCHANGED <<broker, acked, handled>>
  \/ \E outcome \in {"resolved", "rejected"} : HandlerEnds(t, outcome)

MqttNext ==
  \/ \E t \in Tasks : Publish(t) \/ PublishOverLimit(t) \/ Progress(t) \/ Puback(t)
  \/ StopBroker \/ StopEnds

MqttSpec == MqttInit /\ [][MqttNext]_mqttVars

(* Fairness.  A task whose turn came begins, a timer fires, a handler that *)
(* is not stuck ends, and stop goes on.  Nothing makes a client publish.   *)
FairMqttSpec ==
  /\ MqttSpec
  /\ \A t \in Tasks :
       /\ WF_mqttVars((Begin(t) \/ RejectQueued(t)) /\ UNCHANGED <<broker, acked, handled>>)
       /\ WF_mqttVars(Timeout(t) /\ UNCHANGED <<broker, acked, handled>>)
       /\ WF_mqttVars(\E outcome \in {"resolved", "rejected"} : HandlerEnds(t, outcome))
  /\ WF_mqttVars(StopEnds)

-----------------------------------------------------------------------------
(* Properties *)

(* A client has the PUBACK of a message only when a handler returned       *)
(* without an error for it: not when it timed out, was aborted or refused. *)
PubackMeansHandled == acked \subseteq handled

(* Every publish is answered, unless a stuck task of the same client is    *)
(* before it: one client never stops another.                              *)
EveryPublishAnswered ==
  \A t \in Tasks :
    caller[t] = "waiting" ~>
      \/ caller[t] # "waiting"
      \/ \E s \in Stuck : s # t /\ KeyOf[s] = KeyOf[t] /\ stage[s] = "running"

(* stop ends, unless a stuck task runs.                                    *)
StopReturns ==
  broker = "stopping" ~> broker = "off" \/ \E s \in Stuck : stage[s] = "running"

=============================================================================
