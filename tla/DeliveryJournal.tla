-------------------------- MODULE DeliveryJournal --------------------------
(***************************************************************************)
(* The delivery journal of message-sdk: one SQLite row per inbound         *)
(* identity <<channel, account, inboundId>> (one element of Ids).          *)
(*                                                                         *)
(* Every operation is one SQL statement, or one BEGIN IMMEDIATE            *)
(* transaction for claim, so every operation is one atomic action.  An     *)
(* operation whose UPDATE touches no row throws in the code; here its      *)
(* guard is false and the caller takes its error path instead.             *)
(***************************************************************************)
EXTENDS Integers

CONSTANTS
  Ids,           \* inbound identities
  Fingerprints,  \* fingerprints of payload and route
  Hashes,        \* hashes of the wire payloads of replies
  Pids,          \* process ids of one host
  Null           \* SQL NULL

ASSUME NullAssumption == Null \notin (Ids \cup Fingerprints \cup Hashes \cup Pids \cup Nat)

VARIABLE journal

Outcomes == {"delivered", "no-reply"}

AckPending(o) == IF o = "delivered" THEN "ack-pending-delivered" ELSE "ack-pending-no-reply"

Open     == {"processing", "pending"}
Prepared == {AckPending(o) : o \in Outcomes}

Row == [status    : {"absent"} \cup Open \cup Prepared \cup Outcomes,
        started   : Nat,
        confirmed : Nat,
        hash      : Hashes \cup {Null},
        fp        : Fingerprints \cup {Null},
        agent     : BOOLEAN,
        pid       : Pids \cup {Null},
        start     : Nat \cup {Null}]   \* when that process started

NoRow == [status |-> "absent", started |-> 0, confirmed |-> 0, hash |-> Null,
          fp |-> Null, agent |-> FALSE, pid |-> Null, start |-> Null]

JournalTypeOK == journal \in [Ids -> Row]

JournalInit == journal = [id \in Ids |-> NoRow]

Exists(id) == journal[id].status # "absent"

-----------------------------------------------------------------------------
(* claim *)

(* Slips in the liveness test, for mutation: a start time that cannot be   *)
(* read counts as another process; the start time is not compared at all.  *)
OwnerAliveOnlyIfSame(row, exists, observed) == exists /\ observed = row.start

OwnerAliveIfPidExists(row, exists, observed) == exists

(* A process id that exists counts as the owner unless the start times are *)
(* both known and differ: an unreadable start never declares it dead.      *)
OwnerAlive(row, exists, observed) ==
  /\ exists
  /\ \/ row.start = Null
     \/ observed = Null
     \/ observed = row.start

(* A slip in it, for mutation: an agent that sent nothing is overlooked.   *)
UntouchedBySends(row) == row.status = "processing" /\ row.started = 0

(* Nothing irrevocable has happened under this row. *)
Untouched(row) == row.status = "processing" /\ ~row.agent /\ row.started = 0

(* A slip in it, for mutation: INSERT OR REPLACE.                          *)
InsertOrReplaceClaim(id, fp, pid, start) ==
  journal' = [journal EXCEPT ![id] =
     [NoRow EXCEPT !.status = "processing", !.fp = fp, !.pid = pid, !.start = start]]

InsertClaim(id, fp, pid, start) ==
  /\ ~Exists(id)
  /\ journal' = [journal EXCEPT ![id] =
        [NoRow EXCEPT !.status = "processing", !.fp = fp, !.pid = pid, !.start = start]]

SameInbound(id, fp) == Exists(id) /\ journal[id].fp = fp

Recoverable(id, exists, observed) ==
  Untouched(journal[id]) /\ ~OwnerAlive(journal[id], exists, observed)

RecoverClaim(id, fp, pid, start, exists, observed) ==
  /\ SameInbound(id, fp)
  /\ Recoverable(id, exists, observed)
  /\ journal' = [journal EXCEPT ![id].pid = pid, ![id].start = start]

-----------------------------------------------------------------------------
(* progress of a claimed delivery *)

MarkAgentStarted(id, pid) ==
  /\ journal[id].status = "processing"
  /\ ~journal[id].agent
  /\ journal[id].pid = pid
  /\ journal' = [journal EXCEPT ![id].agent = TRUE]

SendStarted(id, hash) ==
  /\ journal[id].status \in Open
  /\ journal' = [journal EXCEPT ![id].status = "pending", ![id].started = @ + 1, ![id].hash = hash]

SendConfirmed(id, hash) ==
  /\ journal[id].status = "pending"
  /\ journal[id].hash = hash
  /\ journal' = [journal EXCEPT ![id].confirmed = @ + 1]

-----------------------------------------------------------------------------
(* settlement *)

Settle(id, outcome) ==
  /\ journal[id].status \in Open
  /\ journal' = [journal EXCEPT ![id].status = outcome]

PrepareSettlement(id, outcome) ==
  /\ journal[id].status \in Open
  /\ journal[id].started = journal[id].confirmed
  /\ outcome = "no-reply" \/ journal[id].confirmed > 0
  /\ journal' = [journal EXCEPT ![id].status = AckPending(outcome)]

ConfirmPreparedSettlement(id, outcome) ==
  /\ journal[id].status = AckPending(outcome)
  /\ journal' = [journal EXCEPT ![id].status = outcome]

(* A DELETE that matches no row is not an error. *)
ReleaseBeforeSend(id, pid) ==
  journal' = IF Untouched(journal[id]) /\ journal[id].pid = pid
             THEN [journal EXCEPT ![id] = NoRow]
             ELSE journal

=============================================================================
