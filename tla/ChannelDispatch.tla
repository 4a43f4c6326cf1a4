-------------------------- MODULE ChannelDispatch --------------------------
(***************************************************************************)
(* dispatchChannelMessage of message-sdk, with its delivery journal: calls *)
(* of any number of processes that share one state directory, each call    *)
(* handing one inbound message to the agent at most once and sending the   *)
(* agent's replies back through the transport's deliver callback.          *)
(*                                                                         *)
(* Granularity.  Each SQL statement is one step: another process, or a     *)
(* crash, can come between any two of them.  Code of one call between two  *)
(* awaits runs in one step with the statement it leads to.                 *)
(*                                                                         *)
(* The agent and the reply dispatcher are OpenClaw's (external).  They may *)
(* start sends that overlap, end the run with any outcome at any point     *)
(* after the agent started, and leave sends in flight behind them: this is *)
(* what the checks on the counters in dispatchChannelMessage defend from.  *)
(***************************************************************************)
EXTENDS DeliveryJournal, FiniteSets

CONSTANTS
  Calls,       \* slots for concurrent calls of dispatchChannelMessage
  MaxSends,    \* bound: sends one call starts
  MaxCrashes,  \* bound: process crashes
  PsMayFail    \* whether `ps` can fail to show a process's start time

ASSUME BoundsAssumption == /\ MaxSends \in Nat \ {0}
                           /\ MaxCrashes \in Nat
                           /\ PsMayFail \in BOOLEAN

VARIABLES
  alive,    \* the process ids that exist
  born,     \* when the latest process with this id started (a count of its starts)
  crashes,  \* crashes so far, for the bound
  call,     \* the calls
  turns,    \* history: agent turns started per identity
  shown     \* history: replies that reached the peer per identity

vars == <<journal, alive, born, crashes, call, turns, shown>>

Kinds == {"delivered", "no-reply", "retryable", "ambiguous", "cancelled"}

(* What a call answers its transport: a settled or prepared outcome, the   *)
(* duplicate of one, an outcome without settlement, or an exception.       *)
Results == Kinds \cup {"duplicate", "prepared", "reconcile", "conflict", "error"}

Send == [n : Nat, hash : Hashes]

Call == [pc        : {"idle", "core", "returned"},
         id        : Ids \cup {Null},
         pid       : Pids \cup {Null},
         defer     : BOOLEAN,                   \* deferDeliverySettlement
         agent     : BOOLEAN,                   \* agentStarted
         started   : Nat,                       \* sendsStarted
         confirmed : Nat,                       \* sendsConfirmed
         flight    : SUBSET Send,               \* sends whose deliver is pending
         published : SUBSET Nat,                \* those of them the peer has seen
         result    : Results \cup {Null},
         handle    : Outcomes \cup {Null}]      \* confirmDelivery callback

IdleCall == [pc |-> "idle", id |-> Null, pid |-> Null, defer |-> FALSE, agent |-> FALSE,
             started |-> 0, confirmed |-> 0, flight |-> {}, published |-> {},
             result |-> Null, handle |-> Null]

TypeOK ==
  /\ JournalTypeOK
  /\ alive \in SUBSET Pids
  /\ born \in [Pids -> Nat]
  /\ crashes \in Nat
  /\ call \in [Calls -> Call]
  /\ turns \in [Ids -> Nat]
  /\ shown \in [Ids -> Nat]

Init ==
  /\ JournalInit
  /\ alive = Pids
  /\ born = [p \in Pids |-> 0]
  /\ crashes = 0
  /\ call = [c \in Calls |-> IdleCall]
  /\ turns = [id \in Ids |-> 0]
  /\ shown = [id \in Ids |-> 0]

(* What processStart can read about a process. *)
StartSeen(p) == {born[p]} \cup (IF PsMayFail THEN {Null} ELSE {})

(* Reading the start time of a row's owner, if the owner exists. *)
OwnerSeen(id) ==
  IF journal[id].pid \in alive THEN StartSeen(journal[id].pid) ELSE {Null}

-----------------------------------------------------------------------------
(* A call claims its identity. *)

Return(c, id, p, result, handle) ==
  call' = [call EXCEPT ![c] = [IdleCall EXCEPT !.pc = "returned", !.id = id, !.pid = p,
                                               !.result = result, !.handle = handle]]

Enter(c, id, p, defer) ==
  call' = [call EXCEPT ![c] = [IdleCall EXCEPT !.pc = "core", !.id = id, !.pid = p,
                                               !.defer = defer]]

ClaimNew(c, id, fp, p, start, defer) ==
  /\ InsertClaim(id, fp, p, start)
  /\ Enter(c, id, p, defer)

ClaimAbandoned(c, id, fp, p, start, defer) ==
  /\ \E observed \in OwnerSeen(id) :
        RecoverClaim(id, fp, p, start, journal[id].pid \in alive, observed)
  /\ Enter(c, id, p, defer)

(* The identity was used for another payload or route. *)
ClaimConflict(c, id, fp, p) ==
  /\ Exists(id)
  /\ journal[id].fp # fp
  /\ Return(c, id, p, "conflict", Null)
  /\ UNCHANGED journal

(* Another turn is running, or ended in doubt. *)
ClaimPending(c, id, fp, p) ==
  /\ SameInbound(id, fp)
  /\ journal[id].status \in Open
  /\ \E observed \in OwnerSeen(id) : ~Recoverable(id, journal[id].pid \in alive, observed)
  /\ Return(c, id, p, "reconcile", Null)
  /\ UNCHANGED journal

(* The outcome is known: answer with it, without another agent turn. *)
ClaimSettled(c, id, fp, p) ==
  /\ SameInbound(id, fp)
  /\ \/ /\ journal[id].status \in Outcomes
        /\ Return(c, id, p, "duplicate", Null)
     \/ \E o \in Outcomes : /\ journal[id].status = AckPending(o)
                            /\ Return(c, id, p, "duplicate", o)
  /\ UNCHANGED journal

Claim(c, id, fp, p, defer) ==
  /\ call[c].pc = "idle"
  /\ p \in alive
  /\ \/ \E start \in StartSeen(p) : \/ ClaimNew(c, id, fp, p, start, defer)
                                    \/ ClaimAbandoned(c, id, fp, p, start, defer)
     \/ ClaimConflict(c, id, fp, p)
     \/ ClaimPending(c, id, fp, p)
     \/ ClaimSettled(c, id, fp, p)
  /\ UNCHANGED <<alive, born, crashes, turns, shown>>

-----------------------------------------------------------------------------
(* The agent turn and its replies. *)

StartAgent(c) ==
  LET id == call[c].id IN
  /\ call[c].pc = "core"
  /\ ~call[c].agent
  /\ MarkAgentStarted(id, call[c].pid)
  /\ call' = [call EXCEPT ![c].agent = TRUE]
  /\ turns' = [turns EXCEPT ![id] = @ + 1]
  /\ UNCHANGED <<alive, born, crashes, shown>>

StartSend(c, hash) ==
  LET n == call[c].started + 1 IN
  /\ call[c].pc = "core"
  /\ call[c].agent
  /\ n <= MaxSends
  /\ SendStarted(call[c].id, hash)
  /\ call' = [call EXCEPT ![c].started = n, ![c].flight = @ \cup {[n |-> n, hash |-> hash]}]
  /\ UNCHANGED <<alive, born, crashes, turns, shown>>

(* The transport puts the reply on the wire, also after the call returned. *)
Publish(c, s) ==
  LET id == call[c].id IN
  /\ s \in call[c].flight
  /\ s.n \notin call[c].published
  /\ call' = [call EXCEPT ![c].published = @ \cup {s.n}]
  /\ shown' = [shown EXCEPT ![id] = @ + 1]
  /\ UNCHANGED <<journal, alive, born, crashes, turns>>

(* deliver resolved and the journal accepts the confirmation. *)
ConfirmSend(c, s) ==
  /\ call[c].pc = "core"
  /\ s \in call[c].flight
  /\ s.n \in call[c].published
  /\ SendConfirmed(call[c].id, s.hash)
  /\ call' = [call EXCEPT ![c].confirmed = @ + 1, ![c].flight = @ \ {s}]
  /\ UNCHANGED <<alive, born, crashes, turns, shown>>

(* deliver rejected, published or not; or its confirmation was refused,    *)
(* because a later send overwrote the hash or the journal is closed.       *)
LoseSend(c, s) ==
  /\ s \in call[c].flight
  /\ call' = [call EXCEPT ![c].flight = @ \ {s}]
  /\ UNCHANGED <<journal, alive, born, crashes, turns, shown>>

-----------------------------------------------------------------------------
(* The core returns an outcome or throws. *)

NothingStarted(c) == ~call[c].agent /\ call[c].started = 0

(* A slip, for mutation: one confirmed send of several is enough.          *)
EscalatedIfNoneConfirmed(c, kind) ==
  \/ kind = "delivered" /\ call[c].confirmed = 0
  \/ ~NothingStarted(c) /\ kind \in {"retryable", "cancelled"}

(* An outcome the counters contradict, or one that invites a retry of a    *)
(* turn that already started, becomes ambiguous.                           *)
Escalated(c, kind) ==
  \/ /\ kind = "delivered"
     /\ call[c].confirmed = 0 \/ call[c].confirmed # call[c].started
  \/ /\ ~NothingStarted(c)
     /\ \/ kind \in {"retryable", "cancelled"}
        \/ kind = "no-reply" /\ call[c].confirmed # call[c].started

Leave(c, result, handle) ==
  call' = [call EXCEPT ![c].pc = "returned", ![c].result = result, ![c].handle = handle]

(* A slip, for mutation: the catch block keeps the claim.                  *)
FailKeepingClaim(c) ==
  /\ UNCHANGED journal
  /\ Leave(c, IF NothingStarted(c) THEN "error" ELSE "reconcile", Null)

(* The catch block: only a call that started nothing gives its claim back. *)
Fail(c) ==
  IF NothingStarted(c)
  THEN ReleaseBeforeSend(call[c].id, call[c].pid) /\ Leave(c, "error", Null)
  ELSE UNCHANGED journal /\ Leave(c, "reconcile", Null)

ReturnAmbiguous(c, kind) ==
  /\ Escalated(c, kind)
  /\ Leave(c, "ambiguous", Null)
  /\ UNCHANGED journal

ReturnPrepared(c, kind) ==
  /\ ~Escalated(c, kind)
  /\ kind \in Outcomes
  /\ call[c].defer
  /\ PrepareSettlement(call[c].id, kind)
  /\ Leave(c, "prepared", kind)

ReturnSettled(c, kind) ==
  /\ ~Escalated(c, kind)
  /\ kind \in Outcomes
  /\ ~call[c].defer
  /\ Settle(call[c].id, kind)
  /\ Leave(c, kind, Null)

ReturnUnsettled(c, kind) ==
  /\ ~Escalated(c, kind)
  /\ kind \notin Outcomes
  /\ IF NothingStarted(c) THEN ReleaseBeforeSend(call[c].id, call[c].pid) ELSE UNCHANGED journal
  /\ Leave(c, kind, Null)

(* Before the agent starts only a queue in front of it can end the call:   *)
(* with no-reply for a duplicate, with ambiguous when it took the message  *)
(* without running it.                                                     *)
CoreReturns(c, kind) ==
  /\ call[c].pc = "core"
  /\ call[c].agent \/ kind \in {"no-reply", "ambiguous"}
  /\ \/ ReturnAmbiguous(c, kind)
     \/ ReturnPrepared(c, kind)
     \/ ReturnSettled(c, kind)
     \/ ReturnUnsettled(c, kind)
  /\ UNCHANGED <<alive, born, crashes, turns, shown>>

(* The core throws, or canPrepareDeliverySettlement says no. *)
CoreThrows(c) ==
  /\ call[c].pc = "core"
  /\ Fail(c)
  /\ UNCHANGED <<alive, born, crashes, turns, shown>>

-----------------------------------------------------------------------------
(* The transport uses the answer. *)

(* confirmDelivery, which the transport calls after its ACK. *)
ConfirmDelivery(c) ==
  /\ call[c].pc = "returned"
  /\ call[c].handle # Null
  /\ ConfirmPreparedSettlement(call[c].id, call[c].handle)
  /\ call' = [call EXCEPT ![c].handle = Null]
  /\ UNCHANGED <<alive, born, crashes, turns, shown>>

(* The transport drops the answer, used or not. *)
Forget(c) ==
  /\ call[c].pc = "returned"
  /\ call[c].flight = {}
  /\ call' = [call EXCEPT ![c] = IdleCall]
  /\ UNCHANGED <<journal, alive, born, crashes, turns, shown>>

-----------------------------------------------------------------------------
(* Processes crash and come back; a process id may be taken by another     *)
(* program, which is a restart that makes no calls.                        *)

Crash(p) ==
  /\ p \in alive
  /\ crashes < MaxCrashes
  /\ alive' = alive \ {p}
  /\ crashes' = crashes + 1
  /\ call' = [c \in Calls |-> IF call[c].pid = p THEN IdleCall ELSE call[c]]
  /\ UNCHANGED <<journal, born, turns, shown>>

Restart(p) ==
  /\ p \notin alive
  /\ alive' = alive \cup {p}
  /\ born' = [born EXCEPT ![p] = @ + 1]
  /\ UNCHANGED <<journal, crashes, call, turns, shown>>

Next ==
  \/ \E c \in Calls :
       \/ \E id \in Ids, fp \in Fingerprints, p \in Pids, defer \in BOOLEAN :
            Claim(c, id, fp, p, defer)
       \/ StartAgent(c)
       \/ \E hash \in Hashes : StartSend(c, hash)
       \/ \E s \in call[c].flight : Publish(c, s) \/ ConfirmSend(c, s) \/ LoseSend(c, s)
       \/ \E kind \in Kinds : CoreReturns(c, kind)
       \/ CoreThrows(c)
       \/ ConfirmDelivery(c)
       \/ Forget(c)
  \/ \E p \in Pids : Crash(p) \/ Restart(p)

Spec == Init /\ [][Next]_vars

-----------------------------------------------------------------------------
(* Properties *)

(* However often the broker redelivers and processes crash, one inbound    *)
(* identity never gets a second agent turn: agent_started survives in the  *)
(* row, and no path releases or recovers a row that has it.                *)
AtMostOneTurn == \A id \in Ids : turns[id] <= 1

(* Two calls never work on one identity at the same time: claim hands a    *)
(* row over only when its owner is really gone.                            *)
OneActiveCall ==
  \A c, d \in Calls :
    call[c].pc = "core" /\ call[d].pc = "core" /\ call[c].id = call[d].id => c = d

Decided(id) == journal[id].status \in Outcomes \cup Prepared

SaysDelivered(id) == journal[id].status \in {"delivered", AckPending("delivered")}

(* A row carries a final or an ACK-ready outcome only when every send that *)
(* was started was confirmed, and "delivered" only when the peer got one.  *)
DecidedSendsConfirmed ==
  \A id \in Ids : Decided(id) =>
    /\ journal[id].started = journal[id].confirmed
    /\ SaysDelivered(id) => journal[id].confirmed > 0 /\ shown[id] > 0

Invites(result) == result \in {"retryable", "cancelled", "error"}

(* When a call ends with an answer that lets the broker deliver the        *)
(* message again, its agent did not start, it sent nothing, and its claim  *)
(* is gone, so that the redelivery is processed instead of quarantined.    *)
RetryLeavesNoTrace ==
  [][\A c \in Calls :
       call[c].pc = "core" /\ call'[c].pc = "returned" /\ Invites(call'[c].result) =>
         /\ turns[call[c].id] = 0
         /\ shown[call[c].id] = 0
         /\ journal'[call[c].id] = NoRow]_vars

(* A claim whose call died before the agent started never strands its      *)
(* message: whoever can read the start time of the process that has the    *)
(* owner's id now finds the claim recoverable, also when that id is in use *)
(* again, provided the claim recorded its owner's start time.              *)
NoStrandedClaim ==
  \A id \in Ids :
    /\ Untouched(journal[id])
    /\ journal[id].start # Null
    /\ \A c \in Calls : ~(call[c].pc = "core" /\ call[c].id = id)
    => Recoverable(id, journal[id].pid \in alive, born[journal[id].pid])

(* The journal and the dispatch keep what delivery settlement promises.    *)
Verdict(status) ==
  CASE status \in {"delivered", AckPending("delivered")} -> "delivered"
    [] status \in {"no-reply", AckPending("no-reply")}   -> "no-reply"
    [] OTHER                                             -> "open"

Turn == INSTANCE InboundTurn WITH verdict <- [id \in Ids |-> Verdict(journal[id].status)]

(* Every behaviour of the dispatch is a behaviour of InboundTurn: replies  *)
(* only before the verdict, a verdict only from an open turn, never undone.*)
ImplementsInboundTurn == Turn!Spec

=============================================================================
