---------------------------- MODULE RedisStream ----------------------------
(***************************************************************************)
(* The Redis Stream channel: consume loops of several processes read one   *)
(* consumer group in batches, hand one entry after the other to the agent, *)
(* and take over entries that stayed pending too long.  An entry leaves    *)
(* the pending list with XACK, alone or together with its copy in the      *)
(* dead-letter stream.                                                     *)
(*                                                                         *)
(* Entries are the identities of DeliveryJournal, numbered as Redis orders *)
(* them; entries without a route are acknowledged unseen and left out.     *)
(* Of dispatchChannelMessage only what the loop depends on is here: its    *)
(* claim, the start of the agent and its verdict; ChannelDispatch has the  *)
(* rest.  A process may have several loops: one that outlived the stop of  *)
(* its connection, and the one of the next start.                          *)
(*                                                                         *)
(* The processes share one host and so one journal: consumers on other     *)
(* hosts have journals of their own, which know nothing of each other.     *)
(* Pending entries are reclaimed (pendingClaimIdleMs > 0).                 *)
(*                                                                         *)
(* External: Redis and its commands.  A transaction fails as a whole, and  *)
(* the dead-letter stream is not trimmed.                                  *)
(***************************************************************************)
EXTENDS DeliveryJournal, FiniteSets

CONSTANTS
  Loops,        \* slots for consume loops
  BatchSize,    \* stream.count
  MaxAttempts,  \* stream.maxAttempts
  MaxFaults     \* bound: crashes, stops and lost commands

ASSUME RedisAssumption ==
  /\ Ids \subseteq Nat
  /\ Pids # {} /\ Fingerprints # {}
  /\ {BatchSize, MaxAttempts} \subseteq Nat \ {0}
  /\ MaxFaults \in Nat

VARIABLES
  place,   \* an entry is unread, pending, or gone from the group
  dead,    \* entries with a copy in the dead-letter stream
  count,   \* their deliveries counter
  alive,   \* the processes that exist
  born,    \* when they started
  client,  \* on; draining: a stop waits for the loop; off
  loop,
  turns,   \* history: agent turns per entry
  faults   \* faults so far, for the bound

entryVars == <<place, dead, count>>
hostVars == <<alive, born, client>>
redisVars == <<journal, entryVars, hostVars, loop, turns, faults>>

(* none: no loop; poll: at the top of the loop; next: about to take the    *)
(* first entry of what is left of the batch; then the stations of that     *)
(* entry.                                                                  *)
Loop == [pid       : Pids \cup {Null},
         step      : {"none", "poll", "next", "claimed", "turn", "ack", "failed", "bury"},
         batch     : SUBSET Ids,
         first     : BOOLEAN,   \* nothing of the batch is dealt with
         reclaimed : BOOLEAN,   \* the batch came from XAUTOCLAIM
         stopped   : BOOLEAN]   \* the loop's signal is aborted

NoLoop == [pid |-> Null, step |-> "none", batch |-> {}, first |-> FALSE,
           reclaimed |-> FALSE, stopped |-> FALSE]

RedisTypeOK ==
  /\ JournalTypeOK
  /\ place \in [Ids -> {"unread", "pending", "gone"}]
  /\ dead \subseteq Ids
  /\ count \in [Ids -> Nat]
  /\ alive \subseteq Pids
  /\ born \in [Pids -> Nat]
  /\ client \in [Pids -> {"on", "draining", "off"}]
  /\ loop \in [Loops -> Loop]
  /\ turns \in [Ids -> Nat]
  /\ faults \in Nat
  /\ \A l \in Loops :
       /\ loop[l].step = "none" <=> loop[l].pid \notin alive
       /\ loop[l].batch = {} <=> loop[l].step \in {"none", "poll"}

(* Slots are alike, and so are processes: the first process has started. *)
FreeSlot(l) == loop[l] = NoLoop /\ l = CHOOSE k \in Loops : loop[k] = NoLoop

RedisInit ==
  /\ JournalInit
  /\ place = [e \in Ids |-> "unread"]
  /\ dead = {}
  /\ count = [e \in Ids |-> 0]
  /\ alive = Pids
  /\ born = [p \in Pids |-> 0]
  /\ LET p == CHOOSE p \in Pids : TRUE
         l == CHOOSE l \in Loops : TRUE
     IN /\ client = [q \in Pids |-> IF q = p THEN "on" ELSE "off"]
        /\ loop = [k \in Loops |-> IF k = l THEN [NoLoop EXCEPT !.pid = p, !.step = "poll"]
                                            ELSE NoLoop]
  /\ turns = [e \in Ids |-> 0]
  /\ faults = 0

Fault == faults < MaxFaults /\ faults' = faults + 1

-----------------------------------------------------------------------------
(* A batch. *)

Take(l, entries, reclaimed) ==
  loop' = [loop EXCEPT ![l].step = "next", ![l].batch = entries,
                       ![l].first = TRUE, ![l].reclaimed = reclaimed]

Polls(l) == loop[l].step = "poll" /\ client[loop[l].pid] = "on"

Unread == {e \in Ids : place[e] = "unread"}

(* What XREADGROUP delivers: the first BatchSize of the unread entries.    *)
Oldest(entries) ==
  /\ entries \in (SUBSET Unread) \ {{}}
  /\ Cardinality(entries) <= BatchSize
  /\ \A e \in entries, d \in Unread \ entries : e < d /\ Cardinality(entries) = BatchSize

Deliver(entries) ==
  /\ place' = [e \in Ids |-> IF e \in entries THEN "pending" ELSE place[e]]
  /\ count' = [e \in Ids |-> IF e \in entries THEN count[e] + 1 ELSE count[e]]
  /\ UNCHANGED dead

(* The reply can get lost: the entries are pending then, with no loop. *)
ReadNew(l) ==
  /\ Polls(l)
  /\ \E entries \in SUBSET Unread :
       /\ Oldest(entries)
       /\ Deliver(entries)
       /\ \/ Take(l, entries, FALSE) /\ UNCHANGED faults
          \/ Fault /\ UNCHANGED loop
  /\ UNCHANGED <<journal, hostVars, turns>>

First(entries) == CHOOSE e \in entries : \A d \in entries : e <= d

(* The entry the loop is at: Redis hands out a batch in order. *)
Entry(l) == First(loop[l].batch)

(* Whether pendingClaimIdleMs can have passed since the last delivery.  It *)
(* is longer than one turn, so that the first entry of a batch is not idle *)
(* in its turn; the later ones wait for the turns before theirs as well.   *)
MayBeIdle(e) ==
  /\ place[e] = "pending"
  /\ \A l \in Loops :
       loop[l].first /\ loop[l].step \in {"next", "claimed", "turn"} => Entry(l) # e

(* A slip, for mutation: entries at the limit are left alone.              *)
ReclaimBelowLimit(l) ==
  /\ Polls(l)
  /\ \E entries \in (SUBSET {e \in Ids : MayBeIdle(e) /\ count[e] < MaxAttempts}) \ {{}} :
       /\ Cardinality(entries) <= BatchSize
       /\ Deliver(entries)
       /\ \/ Take(l, entries, TRUE) /\ UNCHANGED faults
          \/ Fault /\ UNCHANGED loop
  /\ UNCHANGED <<journal, hostVars, turns>>

(* reclaimStalePendingEntries.  The cursor makes the loop get round to     *)
(* every idle entry; which ones come next is left open here.               *)
Reclaim(l) ==
  /\ Polls(l)
  /\ \E entries \in (SUBSET {e \in Ids : MayBeIdle(e)}) \ {{}} :
       /\ Cardinality(entries) <= BatchSize
       /\ Deliver(entries)
       /\ \/ Take(l, entries, TRUE) /\ UNCHANGED faults
          \/ Fault /\ UNCHANGED loop
  /\ UNCHANGED <<journal, hostVars, turns>>

(* A stop took the connection away, or was followed by a start: then the   *)
(* loop goes on polling beside the new one.                                *)
LoopEnds(l) ==
  /\ loop[l].step = "poll"
  /\ client[loop[l].pid] # "on"
  /\ loop' = [loop EXCEPT ![l] = NoLoop]
  /\ UNCHANGED <<journal, entryVars, hostVars, turns, faults>>

(* The entry is dealt with, as far as this batch goes. *)
NextEntry(l) ==
  loop' = [loop EXCEPT ![l].step = IF loop[l].batch = {Entry(l)} THEN "poll" ELSE "next",
                       ![l].batch = @ \ {Entry(l)}, ![l].first = FALSE]

(* An exception ends the batch: what is left of it stays pending.  The     *)
(* reclaim swallows it; the loop ends if it was stopped, and backs off and *)
(* goes on otherwise.                                                      *)
Abandon(l) ==
  loop' = [loop EXCEPT ![l] =
     IF ~@.reclaimed /\ (@.stopped \/ client[@.pid] # "on") THEN NoLoop
     ELSE [@ EXCEPT !.step = "poll", !.batch = {}, !.first = FALSE]]

-----------------------------------------------------------------------------
(* One entry. *)

GoTo(l, step) == loop' = [loop EXCEPT ![l].step = step]

(* handleInboundMessage up to the claim: granted; refused as long as the   *)
(* entry is another call's, or in doubt; or answered with the outcome.     *)
ClaimEntry(l) ==
  LET e == Entry(l)
      p == loop[l].pid
      owner == journal[e].pid
      recoverable == Recoverable(e, owner \in alive, born[owner])
  IN
  /\ loop[l].step = "next"
  /\ \/ /\ \/ InsertClaim(e, CHOOSE fp \in Fingerprints : TRUE, p, born[p])
           \/ recoverable /\ RecoverClaim(e, journal[e].fp, p, born[p], owner \in alive, born[owner])
        /\ GoTo(l, "claimed")
     \/ journal[e].status \in Open /\ ~recoverable /\ GoTo(l, "failed") /\ UNCHANGED journal
     \/ journal[e].status \in Outcomes /\ GoTo(l, "ack") /\ UNCHANGED journal
  /\ UNCHANGED <<entryVars, hostVars, turns, faults>>

(* An error before the claim, or between it and the start of the agent.    *)
FailsEarly(l) ==
  /\ \/ loop[l].step = "next" /\ UNCHANGED journal
     \/ loop[l].step = "claimed" /\ ReleaseBeforeSend(Entry(l), loop[l].pid)
  /\ GoTo(l, "failed")
  /\ UNCHANGED <<entryVars, hostVars, turns, faults>>

StartTurn(l) ==
  /\ loop[l].step = "claimed"
  /\ MarkAgentStarted(Entry(l), loop[l].pid)
  /\ turns' = [turns EXCEPT ![Entry(l)] = @ + 1]
  /\ GoTo(l, "turn")
  /\ UNCHANGED <<entryVars, hostVars, faults>>

(* A slip, for mutation: a turn in doubt gives its claim back.             *)
TurnEndsReleasing(l) ==
  /\ loop[l].step = "turn"
  /\ \/ Settle(Entry(l), "no-reply") /\ GoTo(l, "ack")
     \/ GoTo(l, "failed") /\ journal' = [journal EXCEPT ![Entry(l)] = NoRow]
  /\ UNCHANGED <<entryVars, hostVars, turns, faults>>

(* Settled, with or without a reply, or in doubt.                          *)
TurnEnds(l) ==
  /\ loop[l].step = "turn"
  /\ \/ Settle(Entry(l), "no-reply") /\ GoTo(l, "ack")
     \/ GoTo(l, "failed") /\ UNCHANGED journal
  /\ UNCHANGED <<entryVars, hostVars, turns, faults>>

LeaveGroup(e) == place' = [place EXCEPT ![e] = "gone"] /\ UNCHANGED count

Connected(l) == client[loop[l].pid] # "off"

(* ackEntry.  An XACK that removes nothing is an error, like one that is   *)
(* lost on the way there or back.                                          *)
Ack(l) ==
  LET e == Entry(l) IN
  /\ loop[l].step = "ack"
  /\ \/ /\ Connected(l) /\ place[e] = "pending"
        /\ LeaveGroup(e)
        /\ \/ NextEntry(l) /\ UNCHANGED faults
           \/ Abandon(l) /\ Fault
        /\ UNCHANGED dead
     \/ /\ ~Connected(l) \/ place[e] # "pending"
        /\ Abandon(l)
        /\ UNCHANGED <<entryVars, faults>>
     \/ Connected(l) /\ Abandon(l) /\ Fault /\ UNCHANGED entryVars
  /\ UNCHANGED <<journal, hostVars, turns>>

(* A slip, for mutation: the last attempt is acknowledged without a copy.  *)
DropExhausted(l) ==
  LET e == Entry(l) IN
  /\ loop[l].step = "failed"
  /\ \/ /\ Connected(l)
        /\ IF count[e] < MaxAttempts THEN UNCHANGED entryVars ELSE LeaveGroup(e) /\ UNCHANGED dead
        /\ NextEntry(l)
        /\ UNCHANGED faults
     \/ ~Connected(l) /\ Abandon(l) /\ UNCHANGED <<entryVars, faults>>
  /\ UNCHANGED <<journal, hostVars, turns>>

(* XPENDING shows how often the entry was delivered; nothing, if it was    *)
(* acknowledged meanwhile, counts as once.                                 *)
Deliveries(e) == IF place[e] = "pending" THEN count[e] ELSE 1

CheckAttempts(l) ==
  /\ loop[l].step = "failed"
  /\ \/ /\ Connected(l)
        /\ IF Deliveries(Entry(l)) < MaxAttempts THEN NextEntry(l) ELSE GoTo(l, "bury")
        /\ UNCHANGED faults
     \/ ~Connected(l) /\ Abandon(l) /\ UNCHANGED faults
     \/ Connected(l) /\ Abandon(l) /\ Fault
  /\ UNCHANGED <<journal, entryVars, hostVars, turns>>

(* XADD to the dead-letter stream and XACK, in one transaction.            *)
Bury(l) ==
  LET e == Entry(l) IN
  /\ loop[l].step = "bury"
  /\ \/ /\ Connected(l)
        /\ dead' = dead \cup {e}
        /\ LeaveGroup(e)
        /\ \/ NextEntry(l) /\ UNCHANGED faults
           \/ Abandon(l) /\ Fault
     \/ ~Connected(l) /\ Abandon(l) /\ UNCHANGED <<entryVars, faults>>
     \/ Connected(l) /\ Abandon(l) /\ Fault /\ UNCHANGED entryVars
  /\ UNCHANGED <<journal, hostVars, turns>>

-----------------------------------------------------------------------------
(* Stops and crashes. *)

(* startRedisServer, when the Gateway starts the account. *)
StartClient(p, l) ==
  /\ p \in alive
  /\ client[p] = "off"
  /\ FreeSlot(l)
  /\ client' = [client EXCEPT ![p] = "on"]
  /\ loop' = [loop EXCEPT ![l] = [NoLoop EXCEPT !.pid = p, !.step = "poll"]]
  /\ UNCHANGED <<journal, entryVars, alive, born, turns, faults>>

(* stopRedisServer: no more entries are read; loops finish their batch.    *)
StopClient(p) ==
  /\ client[p] = "on"
  /\ Fault
  /\ client' = [client EXCEPT ![p] = "draining"]
  /\ loop' = [l \in Loops |-> IF loop[l].pid = p THEN [loop[l] EXCEPT !.stopped = TRUE] ELSE loop[l]]
  /\ UNCHANGED <<journal, entryVars, alive, born, turns>>

(* The loop has ended, or the shutdown timeout is over. *)
StopEnds(p) ==
  /\ client[p] = "draining"
  /\ client' = [client EXCEPT ![p] = "off"]
  /\ UNCHANGED <<journal, entryVars, alive, born, loop, turns, faults>>

CrashHost(p) ==
  /\ p \in alive
  /\ Fault
  /\ alive' = alive \ {p}
  /\ client' = [client EXCEPT ![p] = "off"]
  /\ loop' = [l \in Loops |-> IF loop[l].pid = p THEN NoLoop ELSE loop[l]]
  /\ UNCHANGED <<journal, entryVars, born, turns>>

RestartHost(p) ==
  /\ p \notin alive
  /\ alive' = alive \cup {p}
  /\ born' = [born EXCEPT ![p] = @ + 1]
  /\ UNCHANGED <<journal, entryVars, client, loop, turns, faults>>

Handles(l) ==
  \/ ClaimEntry(l) \/ FailsEarly(l) \/ StartTurn(l) \/ TurnEnds(l)
  \/ Ack(l) \/ CheckAttempts(l) \/ Bury(l) \/ LoopEnds(l)

RedisNext ==
  \/ \E l \in Loops : \/ ReadNew(l)
                      \/ Reclaim(l)
                      \/ Handles(l)
                      \/ \E p \in Pids : StartClient(p, l)
  \/ \E p \in Pids : StopClient(p) \/ StopEnds(p) \/ CrashHost(p) \/ RestartHost(p)

RedisSpec == RedisInit /\ [][RedisNext]_redisVars

(* Fairness.  A loop polls and goes on with its batch, the cursor reaches  *)
(* every entry that stays pending, turns end, and the Gateway restarts     *)
(* what stopped.                                                           *)
Fairness ==
  /\ \A l \in Loops : /\ WF_redisVars(Handles(l))
                      /\ WF_redisVars(ReadNew(l))
  /\ \A e \in Ids : SF_redisVars(\E l \in Loops : Reclaim(l) /\ count'[e] > count[e])
  /\ \A p \in Pids : /\ WF_redisVars(\E l \in Loops : StartClient(p, l))
                     /\ WF_redisVars(StopEnds(p))
                     /\ WF_redisVars(RestartHost(p))

FairRedisSpec == RedisSpec /\ Fairness

-----------------------------------------------------------------------------
(* Properties *)

(* Loops of several processes take entries from each other while they are  *)
(* still at work on them, stopped loops live on beside their successors,   *)
(* and an XACK may be lost: no entry gets a second agent turn.             *)
OneTurnPerEntry == \A e \in Ids : turns[e] <= 1

(* The group forgets an entry only when the journal holds the outcome of   *)
(* its turn or the dead-letter stream holds the entry.                     *)
EntryKept ==
  \A e \in Ids : place[e] = "gone" => journal[e].status \in Outcomes \/ e \in dead

Settled == {e \in Ids : journal[e].status \in Outcomes}

Gone == {e \in Ids : place[e] = "gone"}

Custody == INSTANCE InboundCustody
             WITH Messages <- Ids, done <- Settled, filed <- dead, released <- Gone

(* An entry with an outcome gets no turn any more, in whatever batches of  *)
(* whatever loops it still is, and an entry that left the group stays      *)
(* away.                                                                   *)
ImplementsInboundCustody == Custody!Spec

(* Every entry leaves the group, whatever loop, stop or crash left it      *)
(* pending: entries in doubt after MaxAttempts deliveries.                 *)
EveryEntryLeaves == \A e \in Ids : <>(place[e] = "gone")

=============================================================================
