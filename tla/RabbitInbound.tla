--------------------------- MODULE RabbitInbound ---------------------------
(***************************************************************************)
(* The RabbitMQ channel's inbound path around dispatchChannelMessage: who  *)
(* keeps a message, from its delivery to the consumer until it is ACKed,   *)
(* requeued, filed in the dead-letter queue or dropped.                    *)
(*                                                                         *)
(* A message is an identity (its correlationId) with a fingerprint.  A     *)
(* call slot of ChannelDispatch handles one delivery: del[c] is its        *)
(* delivery handle.  The main queue has no dead-letter exchange, so a      *)
(* message rejected without requeue is gone.                               *)
(*                                                                         *)
(* External: the broker and amqplib.  A closed channel returns its         *)
(* unacknowledged deliveries to the queue, and ack and nack on it throw.   *)
(* Retry copies wait in the retry queue for a TTL and then come back: here *)
(* they are copies in the queue.                                           *)
(***************************************************************************)
EXTENDS ChannelDispatch

CONSTANTS
  Messages,        \* the published messages: a subset of Ids \X Fingerprints
  MaxCopies,       \* bound: copies of one message the producer sends
  MaxLosses,       \* bound: lost connections and stops with a drain timeout
  RequeueOnError   \* consume.requeueOnError (FALSE is the default)

ASSUME RabbitAssumption == /\ Messages \subseteq Ids \X Fingerprints
                           /\ MaxCopies \in Nat \ {0}
                           /\ MaxLosses \in Nat
                           /\ RequeueOnError \in BOOLEAN

VARIABLES
  queue,   \* ready copies of each message
  dlq,     \* messages with a copy in the dead-letter queue
  del,     \* the delivery handled in each call slot
  losses   \* connection losses and drain timeouts so far, for the bound

rabbitVars == <<queue, dlq, del, losses>>
allVars == <<vars, rabbitVars>>

(* live: unacknowledged on an open channel; stale: its channel is closed;  *)
(* settled: acked or nacked.                                               *)
Delivery == [step    : {"none", "handling", "acked", "filed", "done"},
             custody : {"none", "live", "stale", "settled"},
             msg     : Messages \cup {Null},
             pid     : Pids \cup {Null}]

NoDelivery == [step |-> "none", custody |-> "none", msg |-> Null, pid |-> Null]

RabbitTypeOK ==
  /\ TypeOK
  /\ queue \in [Messages -> Nat]
  /\ dlq \subseteq Messages
  /\ del \in [Calls -> Delivery]
  /\ losses \in Nat

RabbitInit ==
  /\ Init
  /\ queue \in [Messages -> 1..MaxCopies]
  /\ dlq = {}
  /\ del = [c \in Calls |-> NoDelivery]
  /\ losses = 0

Returned(c, results) ==
  del[c].step = "handling" /\ call[c].pc = "returned" /\ call[c].result \in results

-----------------------------------------------------------------------------
(* Delivery to the consumer, and the dispatch itself. *)

Deliver(c, m, p) ==
  /\ del[c] = NoDelivery
  /\ call[c] = IdleCall
  /\ p \in alive
  /\ queue[m] > 0
  /\ queue' = [queue EXCEPT ![m] = @ - 1]
  /\ del' = [del EXCEPT ![c] = [step |-> "handling", custody |-> "live", msg |-> m, pid |-> p]]
  /\ UNCHANGED <<vars, dlq, losses>>

ClaimDelivery(c) ==
  /\ del[c].step = "handling"
  /\ Claim(c, del[c].msg[1], del[c].msg[2], del[c].pid, TRUE)

Dispatch(c) ==
  /\ \/ ClaimDelivery(c)
     \/ StartAgent(c)
     \/ \E hash \in Hashes : StartSend(c, hash)
     \/ \E s \in call[c].flight : Publish(c, s) \/ ConfirmSend(c, s) \/ LoseSend(c, s)
     \/ \E kind \in Kinds : CoreReturns(c, kind)
     \/ CoreThrows(c)
  /\ UNCHANGED rabbitVars

-----------------------------------------------------------------------------
(* Settling the delivery. *)

(* Every ack and nack of a stale handle throws, up to the consumer         *)
(* callback, which tries to publish a retry (or dead-letter) copy.         *)
StaleFallback(c) ==
  /\ \/ UNCHANGED <<queue, dlq>>
     \/ queue' = [queue EXCEPT ![del[c].msg] = @ + 1] /\ UNCHANGED dlq
     \/ dlq' = dlq \cup {del[c].msg} /\ UNCHANGED queue
  /\ del' = [del EXCEPT ![c].step = "done"]

(* nack, when it does not throw: nothing happens on a settled handle.      *)
Nack(c, requeue) ==
  /\ del[c].custody # "stale"
  /\ queue' = IF requeue /\ del[c].custody = "live"
              THEN [queue EXCEPT ![del[c].msg] = @ + 1] ELSE queue
  /\ del' = [del EXCEPT ![c].step = "done", ![c].custody = "settled"]

(* An outcome prepared in the journal, or the duplicate of one, is ACKed.  *)
Ack(c) ==
  /\ Returned(c, {"prepared", "duplicate"})
  /\ \/ /\ del[c].custody = "live"
        /\ del' = [del EXCEPT ![c].step = "acked", ![c].custody = "settled"]
        /\ UNCHANGED <<queue, dlq>>
     \* ackImmediate skips a handle settled by someone else, and goes on
     \/ /\ del[c].custody = "settled"
        /\ del' = [del EXCEPT ![c].step = IF call[c].result = "duplicate" THEN "acked" ELSE "done"]
        /\ UNCHANGED <<queue, dlq>>
     \/ del[c].custody = "stale" /\ StaleFallback(c)
  /\ UNCHANGED <<vars, losses>>

(* confirmDelivery; it throws, to no effect, if the row moved on. *)
Commit(c) ==
  /\ del[c].step = "acked"
  /\ \/ ConfirmDelivery(c)
     \/ /\ \/ call[c].handle = Null
           \/ journal[call[c].id].status # AckPending(call[c].handle)
        /\ UNCHANGED vars
  /\ del' = [del EXCEPT ![c].step = "done"]
  /\ UNCHANGED <<queue, dlq, losses>>

(* A turn in doubt is first filed in the dead-letter queue, and confirmed  *)
(* there; only then is the delivery rejected.  Doubt that comes as an      *)
(* exception is not filed when the handle is settled already.              *)
InDoubt(c) ==
  \/ Returned(c, {"ambiguous"})
  \/ Returned(c, {"reconcile"}) /\ del[c].custody # "settled"

(* A slip, for mutation: a turn in doubt is requeued like any failure.     *)
RequeueDoubt(c) ==
  /\ InDoubt(c)
  /\ Nack(c, TRUE)
  /\ UNCHANGED <<vars, dlq, losses>>

FileDoubt(c) ==
  /\ InDoubt(c)
  /\ dlq' = dlq \cup {del[c].msg}
  /\ del' = [del EXCEPT ![c].step = "filed"]
  /\ UNCHANGED <<vars, queue, losses>>

RejectFiled(c) ==
  /\ del[c].step = "filed"
  /\ \/ Nack(c, FALSE) /\ UNCHANGED dlq
     \/ del[c].custody = "stale" /\ StaleFallback(c)
  /\ UNCHANGED <<vars, losses>>

(* A slip, for mutation: an unconfirmed copy counts as filed.              *)
DropUnfiledDoubt(c) ==
  /\ InDoubt(c)
  /\ \/ Nack(c, FALSE) /\ UNCHANGED dlq
     \/ del[c].custody = "stale" /\ StaleFallback(c)
  /\ UNCHANGED <<vars, losses>>

(* Without the broker's confirm the message stays with the broker: the     *)
(* copy may have been stored all the same.                                 *)
FileDoubtFails(c) ==
  /\ InDoubt(c)
  /\ \/ /\ Nack(c, TRUE)
        /\ dlq' \in {dlq, dlq \cup {del[c].msg}}
     \/ del[c].custody = "stale" /\ StaleFallback(c)
  /\ UNCHANGED <<vars, losses>>

(* Any other error is rejected by the policy.  One that comes before the   *)
(* dispatch has no handler of its own: it leaves the inbound handler.      *)
Unclaimed(c) == del[c].step = "handling" /\ call[c].pc = "idle"

Failed(c) ==
  \/ Returned(c, {"error", "conflict"})
  \/ Returned(c, {"reconcile"}) /\ del[c].custody = "settled"
  \/ Unclaimed(c)

(* maybeRetryMessage.  A retry copy takes the place of the delivery, or    *)
(* after the last attempt a copy in the dead-letter queue.  When the copy  *)
(* is not confirmed the delivery is requeued.                              *)
ReplaceByCopy(c) ==
  /\ del[c].custody = "live"
  /\ \/ Nack(c, TRUE) /\ dlq' \in {dlq, dlq \cup {del[c].msg}}
     \/ Nack(c, FALSE) /\ dlq' = dlq \cup {del[c].msg}

RejectFailed(c) ==
  /\ Failed(c)
  /\ \/ Nack(c, RequeueOnError) /\ UNCHANGED dlq
     \/ Unclaimed(c) /\ ReplaceByCopy(c)
     \/ del[c].custody = "stale" /\ StaleFallback(c)
  /\ UNCHANGED <<vars, losses>>

Done(c) ==
  /\ del[c].step = "done"
  /\ call[c].pc = "idle" \/ Forget(c)
  /\ call[c].pc = "idle" => UNCHANGED vars
  /\ del' = [del EXCEPT ![c] = NoDelivery]
  /\ UNCHANGED <<queue, dlq, losses>>

-----------------------------------------------------------------------------
(* Failures. *)

(* Copies of m that process p holds unacknowledged. *)
Held(p, m) == {c \in Calls : del[c].custody = "live" /\ del[c].pid = p /\ del[c].msg = m}

ReturnHeld(p) == queue' = [m \in Messages |-> queue[m] + Cardinality(Held(p, m))]

SetCustody(p, custody) ==
  del' = [c \in Calls |-> IF del[c].custody = "live" /\ del[c].pid = p
                          THEN [del[c] EXCEPT !.custody = custody] ELSE del[c]]

(* The connection is lost, or closed by a reconnect. *)
LoseConnection(p) ==
  /\ p \in alive
  /\ losses < MaxLosses
  /\ losses' = losses + 1
  /\ ReturnHeld(p)
  /\ SetCustody(p, "stale")
  /\ UNCHANGED <<vars, dlq>>

(* stop: the drain timed out, every unsettled delivery is requeued while   *)
(* its turn goes on.                                                       *)
StopAfterTimeout(p) ==
  /\ p \in alive
  /\ losses < MaxLosses
  /\ losses' = losses + 1
  /\ ReturnHeld(p)
  /\ SetCustody(p, "settled")
  /\ UNCHANGED <<vars, dlq>>

CrashConsumer(p) ==
  /\ Crash(p)
  /\ ReturnHeld(p)
  /\ del' = [c \in Calls |-> IF del[c].pid = p THEN NoDelivery ELSE del[c]]
  /\ UNCHANGED <<dlq, losses>>

RestartConsumer(p) == Restart(p) /\ UNCHANGED rabbitVars

-----------------------------------------------------------------------------
Handle(c) ==
  \/ Dispatch(c)
  \/ Ack(c)
  \/ Commit(c)
  \/ FileDoubt(c)
  \/ RejectFiled(c)
  \/ FileDoubtFails(c)
  \/ RejectFailed(c)
  \/ Done(c)

RabbitNext ==
  \/ \E c \in Calls : Handle(c) \/ \E m \in Messages, p \in Pids : Deliver(c, m, p)
  \/ \E p \in Pids : \/ LoseConnection(p) \/ StopAfterTimeout(p)
                     \/ CrashConsumer(p) \/ RestartConsumer(p)

RabbitSpec == RabbitInit /\ [][RabbitNext]_allVars

(* Fairness.  The consumer takes ready messages and goes on with what it   *)
(* handles; agent runs and sends end; processes restart.  Errors before    *)
(* the claim, errors between it and the agent's start, and refused         *)
(* publishes to the dead-letter exchange are transient: retried often      *)
(* enough, the step succeeds (SF).                                         *)
EndRun(c) ==
  /\ CoreThrows(c) \/ \E kind \in Kinds : CoreReturns(c, kind)
  /\ UNCHANGED rabbitVars

Fairness ==
  /\ \A c \in Calls :
       /\ WF_allVars(\E m \in Messages, p \in Pids : Deliver(c, m, p))
       /\ WF_allVars(Handle(c))
       /\ WF_allVars(EndRun(c))
       /\ SF_allVars(ClaimDelivery(c) /\ UNCHANGED rabbitVars)
       /\ SF_allVars(StartAgent(c) /\ UNCHANGED rabbitVars)
       /\ SF_allVars(FileDoubt(c))
  /\ \A p \in Pids : WF_allVars(RestartConsumer(p))

FairRabbitSpec == RabbitSpec /\ Fairness

-----------------------------------------------------------------------------
(* Properties *)

DecidedFor(m) == Decided(m[1]) /\ journal[m[1]].fp = m[2]

WithBroker(m) == \/ queue[m] > 0
                 \/ m \in dlq
                 \/ \E c \in Calls : del[c].msg = m /\ del[c].custody = "live"

(* Custody: whatever crashes, lost connections and stops with unfinished   *)
(* work do, the broker gives up its last copy of a message only when the   *)
(* journal holds that message's outcome.                                   *)
Custody == \A m \in Messages : WithBroker(m) \/ DecidedFor(m)

(* Every message ends with an outcome or in the dead-letter queue, whose   *)
(* entries are reconciled by hand.                                         *)
EveryMessageResolved == \A m \in Messages : <>(m \in dlq \/ DecidedFor(m))

=============================================================================
