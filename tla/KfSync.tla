------------------------------- MODULE KfSync -------------------------------
(***************************************************************************)
(* The sync of one WeCom customer-service account: callbacks that are      *)
(* acknowledged at once, the account's queue of syncs behind them, and the *)
(* three things a sync keeps on disk: the cursor, the recovery entries and *)
(* the dedupe file.                                                        *)
(*                                                                         *)
(* WeCom's log is 1..sent, a cursor is a position in it.  Every message is *)
(* announced by a notice, which WeCom repeats until it is answered 200.    *)
(* External: WeCom, the agent's turn, and the file system, where a write   *)
(* can fail, or take effect and be reported as failed ("uncertain").       *)
(***************************************************************************)
EXTENDS Integers, Sequences, ClaimableDedupe

CONSTANTS
  Log,          \* bound: messages WeCom gets
  Events,       \* those that are system events; the others are customers'
  PageSize,     \* messages on a page of sync_msg
  MaxPages,     \* MAX_SYNC_PAGES
  Attempts,     \* syncRetryAttempts
  SlowReview,   \* may an account wait longer than the entries' 24 hours?
  MaxErrors,    \* bound: writes and requests that go wrong
  MaxStops,     \* bound: stops of the service
  MaxCrashes,   \* bound: crashes
  Null

ASSUME KfAssumption ==
  /\ {Log, MaxErrors, MaxStops, MaxCrashes} \subseteq Nat
  /\ {PageSize, MaxPages, Attempts} \subseteq Nat \ {0}
  /\ Events \subseteq 1..Log
  /\ SlowReview \in BOOLEAN
  /\ Null \notin 0..Log

VARIABLES
  sent,      \* messages in WeCom's log
  due,       \* notices WeCom has not got an answer for
  disk,      \* cursor, recovery entries, dedupe file
  mem,       \* cached cursor, dedupe memory, volatile quarantines
  service,   \* does the callback take notices?
  queue,     \* the account's waiting syncs: has each one's signal been aborted?
  task,      \* the sync that runs
  spent,     \* errors, stops and crashes so far, for the bounds
  turns,     \* history: agent turns started per message
  handled,   \* history: messages whose handling returned without an error
  dropped    \* history: the last answered notice was given up

kfVars == <<sent, due, disk, mem, service, queue, task, spent, turns, handled, dropped>>

Msgs == 1..Log

Results == {"ok", "failed", "uncertain"}

Steps == {"idle", "attempt", "fetch", "page", "claimed", "dispatch", "turn",
          "done", "committed", "forget", "doubt"}

Task == [step    : Steps,
         attempt : 1..Attempts,
         aborted : BOOLEAN,      \* its signal
         pages   : 0..MaxPages,
         at      : 0..Log,       \* the cursor the page was asked with
         to      : 0..Log,       \* next_cursor
         more    : BOOLEAN,      \* has_more
         msg     : 0..Log + 1]   \* the message of the page it is at

NoTask == [step |-> "idle", attempt |-> 1, aborted |-> FALSE, pages |-> 0,
           at |-> 0, to |-> 0, more |-> FALSE, msg |-> 0]

Disk == [cursor   : 0..Log,
         recovery : [Msgs -> {"none", "processing", "quarantined", "completed"}],
         seen     : SUBSET Msgs]

Memory == [cursor : 0..Log \cup {Null}, claims : [Msgs -> Claims], volatile : SUBSET Msgs]

NoMemory == [cursor |-> Null, claims |-> [m \in Msgs |-> "none"], volatile |-> {}]

Spent == [errors : 0..MaxErrors, stops : 0..MaxStops, crashes : 0..MaxCrashes]

KfTypeOK ==
  /\ sent \in 0..Log
  /\ due \in 0..Log
  /\ disk \in Disk
  /\ disk.cursor <= sent
  /\ mem \in Memory
  /\ service \in {"accepting", "stopping", "drained", "timedOut"}
  /\ queue \in Seq(BOOLEAN)
  /\ task \in Task
  /\ spent \in Spent
  /\ turns \in [Msgs -> Nat]
  /\ handled \subseteq Msgs
  /\ dropped \in BOOLEAN

Init ==
  /\ sent = 0
  /\ due = 0
  /\ disk = [cursor |-> 0, recovery |-> [m \in Msgs |-> "none"], seen |-> {}]
  /\ mem = NoMemory
  /\ service = "accepting"
  /\ queue = << >>
  /\ task = NoTask
  /\ spent = [errors |-> 0, stops |-> 0, crashes |-> 0]
  /\ turns = [m \in Msgs |-> 0]
  /\ handled = {}
  /\ dropped = FALSE

Spend(result) ==
  IF result = "ok" THEN UNCHANGED spent
  ELSE spent.errors < MaxErrors /\ spent' = [spent EXCEPT !.errors = @ + 1]

-----------------------------------------------------------------------------
(* Notices and the account's queue. *)

Arrive ==
  /\ sent < Log
  /\ sent' = sent + 1
  /\ due' = due + 1
  /\ UNCHANGED <<disk, mem, service, queue, task, spent, turns, handled, dropped>>

(* A slip, for mutation: a notice adds no sync to one that already runs.   *)
NoticeCoalesced(answer) ==
  /\ due > 0
  /\ service = "accepting"
  /\ Spend(answer)
  /\ due' = IF answer = "ok" THEN due - 1 ELSE due
  /\ queue' = IF task = NoTask THEN Append(queue, FALSE) ELSE queue
  /\ dropped' = FALSE
  /\ UNCHANGED <<sent, disk, mem, service, task, turns, handled>>

(* While the service stops, the answer is 503 and the notice stays due.    *)
(* An answer that gets lost is one of the errors: WeCom sends it again.    *)
Notice(answer) ==
  /\ due > 0
  /\ service = "accepting"
  /\ Spend(answer)
  /\ due' = IF answer = "ok" THEN due - 1 ELSE due
  /\ queue' = Append(queue, FALSE)
  /\ dropped' = FALSE
  /\ UNCHANGED <<sent, disk, mem, service, task, turns, handled>>

NextSync ==
  /\ task.step = "idle"
  /\ queue # << >>
  /\ task' = [NoTask EXCEPT !.step = "attempt", !.aborted = Head(queue)]
  /\ queue' = Tail(queue)
  /\ UNCHANGED <<sent, due, disk, mem, service, spent, turns, handled, dropped>>

(* A sync ends without having reached the end of the log: aborted, out of  *)
(* attempts, or KfInboundRecoveryRequiredError, which is not retried.      *)
GiveUp == task' = NoTask /\ dropped' = (queue = << >>)

(* retryAccountSync, for an error other than the need of a review.         *)
FailAttempt ==
  IF task.aborted \/ task.attempt = Attempts THEN GiveUp
  ELSE /\ task' = [NoTask EXCEPT !.step = "attempt", !.attempt = task.attempt + 1]
       /\ UNCHANGED dropped

-----------------------------------------------------------------------------
(* The pages of a sync. *)

At(step) == task.step = step

Going(step) == At(step) /\ ~task.aborted

(* A slip, for mutation: what no sync has cached yet counts as no cursor.  *)
BeginWithoutLoad ==
  /\ Going("attempt")
  /\ task' = [task EXCEPT !.step = "fetch", !.at = IF mem.cursor = Null THEN 0 ELSE mem.cursor]
  /\ UNCHANGED <<sent, due, disk, mem, service, queue, spent, turns, handled, dropped>>

BeginAttempt ==
  /\ Going("attempt")
  /\ LET cursor == IF mem.cursor = Null THEN disk.cursor ELSE mem.cursor IN
       /\ task' = [task EXCEPT !.step = "fetch", !.at = cursor]
       /\ mem' = [mem EXCEPT !.cursor = IF cursor = 0 THEN Null ELSE cursor]
  /\ UNCHANGED <<sent, due, disk, service, queue, spent, turns, handled, dropped>>

Fetch ==
  /\ Going("fetch")
  /\ LET last == IF sent - task.at > PageSize THEN task.at + PageSize ELSE sent IN
       task' = [task EXCEPT !.step = "page", !.pages = @ + 1, !.to = last,
                            !.more = last < sent, !.msg = task.at + 1]
  /\ UNCHANGED <<sent, due, disk, mem, service, queue, spent, turns, handled, dropped>>

FetchFails ==
  /\ Going("fetch")
  /\ Spend("failed")
  /\ FailAttempt
  /\ UNCHANGED <<sent, due, disk, mem, service, queue, turns, handled>>

(* throwIfAborted, before an attempt, a page and a message.                *)
NoticeAbort ==
  /\ task.step \in {"attempt", "fetch", "page"}
  /\ task.aborted
  /\ GiveUp
  /\ UNCHANGED <<sent, due, disk, mem, service, queue, spent, turns, handled>>

(* The cursor is cached only when the whole write succeeded.               *)
SavePage(result) ==
  /\ Going("page")
  /\ task.msg > task.to
  /\ Spend(result)
  /\ disk' = IF result = "failed" THEN disk ELSE [disk EXCEPT !.cursor = task.to]
  /\ mem' = IF result = "ok" THEN [mem EXCEPT !.cursor = task.to] ELSE mem
  /\ IF result # "ok" \/ (task.more /\ task.pages = MaxPages) THEN FailAttempt
     ELSE /\ task' = IF task.more THEN [task EXCEPT !.step = "fetch", !.at = task.to] ELSE NoTask
          /\ UNCHANGED dropped
  /\ UNCHANGED <<sent, due, service, queue, turns, handled>>

-----------------------------------------------------------------------------
(* A message of the page. *)

This == task.msg

AtMessage == Going("page") /\ This <= task.to

Customer == This \notin Events

NextMessage == task' = [task EXCEPT !.step = "page", !.msg = @ + 1]

UnderReview(m) == m \in mem.volatile \/ disk.recovery[m] \in {"processing", "quarantined"}

Finished(m) == m \notin mem.volatile /\ disk.recovery[m] = "completed"

Kind(m) == ClaimKind(mem.claims, disk.seen, m)

Claim(m) == mem' = [mem EXCEPT !.claims = AfterClaim(@, disk.seen, m)]

Release(m) == [mem EXCEPT !.claims = AfterRelease(@, m)]

SkipFinished ==
  /\ AtMessage
  /\ Finished(This)
  /\ NextMessage
  /\ UNCHANGED <<sent, due, disk, mem, service, queue, spent, turns, handled, dropped>>

MeetReview ==
  /\ AtMessage
  /\ UnderReview(This)
  /\ GiveUp
  /\ UNCHANGED <<sent, due, disk, mem, service, queue, spent, turns, handled>>

ClaimMessage ==
  /\ AtMessage
  /\ ~Finished(This) /\ ~UnderReview(This)
  /\ Claim(This)
  /\ IF Kind(This) = "claimed" THEN task' = [task EXCEPT !.step = "claimed"] ELSE NextMessage
  /\ UNCHANGED <<sent, due, disk, service, queue, spent, turns, handled, dropped>>

EventHandled ==
  /\ At("claimed")
  /\ ~Customer
  /\ task' = [task EXCEPT !.step = "done"]
  /\ handled' = handled \cup {This}
  /\ UNCHANGED <<sent, due, disk, mem, service, queue, spent, turns, dropped>>

(* A slip, for mutation: a failed event keeps its claim.                   *)
EventFailsClaimed ==
  /\ At("claimed")
  /\ ~Customer
  /\ Spend("failed")
  /\ FailAttempt
  /\ UNCHANGED <<sent, due, disk, mem, service, queue, turns, handled>>

EventFails ==
  /\ At("claimed")
  /\ ~Customer
  /\ Spend("failed")
  /\ mem' = Release(This)
  /\ FailAttempt
  /\ UNCHANGED <<sent, due, disk, service, queue, turns, handled>>

(* A slip, for mutation: only the memory remembers that the turn began.    *)
BeginInMemory(result) ==
  /\ At("claimed")
  /\ Customer
  /\ result = "ok"
  /\ task' = [task EXCEPT !.step = "dispatch"]
  /\ UNCHANGED <<sent, due, disk, mem, service, queue, spent, turns, handled, dropped>>

(* The entry is on disk before the host may start the turn.                *)
Begin(result) ==
  /\ At("claimed")
  /\ Customer
  /\ Spend(result)
  /\ disk' = IF result = "failed" THEN disk ELSE [disk EXCEPT !.recovery[This] = "processing"]
  /\ IF result = "ok"
     THEN task' = [task EXCEPT !.step = "dispatch"] /\ UNCHANGED <<mem, dropped>>
     ELSE mem' = Release(This) /\ FailAttempt
  /\ UNCHANGED <<sent, due, service, queue, turns, handled>>

(* The dispatcher turns the message down: its type, a policy, a session    *)
(* that a human took over.                                                 *)
Decline ==
  /\ Going("dispatch")
  /\ task' = [task EXCEPT !.step = "done"]
  /\ handled' = handled \cup {This}
  /\ UNCHANGED <<sent, due, disk, mem, service, queue, spent, turns, dropped>>

StartTurn ==
  /\ Going("dispatch")
  /\ task' = [task EXCEPT !.step = "turn"]
  /\ turns' = [turns EXCEPT ![This] = @ + 1]
  /\ UNCHANGED <<sent, due, disk, mem, service, queue, spent, handled, dropped>>

(* It fails before the turn: the error says so (not_started), or does not. *)
DispatchFails ==
  /\ At("dispatch")
  /\ \E step \in {"forget", "doubt"} : task' = [task EXCEPT !.step = step]
  /\ UNCHANGED <<sent, due, disk, mem, service, queue, spent, turns, handled, dropped>>

TurnEnds ==
  /\ At("turn")
  /\ task' = [task EXCEPT !.step = "done"]
  /\ handled' = handled \cup {This}
  /\ UNCHANGED <<sent, due, disk, mem, service, queue, spent, turns, dropped>>

TurnFails ==
  /\ At("turn")
  /\ task' = [task EXCEPT !.step = "doubt"]
  /\ UNCHANGED <<sent, due, disk, mem, service, queue, spent, turns, handled, dropped>>

Commit ==
  /\ Going("done")
  /\ mem' = [mem EXCEPT !.claims = AfterCommit(@, This)]
  /\ \E seen \in Recorded(disk.seen, This) :
       /\ disk' = [disk EXCEPT !.seen = seen]
       /\ Spend(IF This \in seen THEN "ok" ELSE "failed")
  /\ IF Customer THEN task' = [task EXCEPT !.step = "committed"] ELSE NextMessage
  /\ UNCHANGED <<sent, due, service, queue, turns, handled, dropped>>

(* The stop came before the commit: a turn that ended is in doubt.         *)
AbortBeforeCommit ==
  /\ At("done")
  /\ task.aborted
  /\ IF Customer
     THEN task' = [task EXCEPT !.step = "doubt"] /\ UNCHANGED <<mem, dropped>>
     ELSE mem' = Release(This) /\ GiveUp
  /\ UNCHANGED <<sent, due, disk, service, queue, spent, turns, handled>>

Complete(result) ==
  /\ At("committed")
  /\ Spend(result)
  /\ disk' = IF result = "failed" THEN disk ELSE [disk EXCEPT !.recovery[This] = "completed"]
  /\ IF result = "ok" THEN NextMessage ELSE task' = [task EXCEPT !.step = "doubt"]
  /\ UNCHANGED <<sent, due, mem, service, queue, turns, handled, dropped>>

(* finishKfInboundProcessing: the entry of a turn that was not started.    *)
Forget(result) ==
  /\ At("forget")
  /\ Spend(result)
  /\ disk' = IF result = "failed" THEN disk ELSE [disk EXCEPT !.recovery[This] = "none"]
  /\ IF result = "ok"
     THEN mem' = [Release(This) EXCEPT !.volatile = @ \ {This}] /\ FailAttempt
     ELSE mem' = Release(This) /\ GiveUp
  /\ UNCHANGED <<sent, due, service, queue, turns, handled>>

(* A slip, for mutation: an unclassified failure is retried like one       *)
(* before the turn.                                                        *)
DoubtForgotten(result) ==
  /\ At("doubt")
  /\ Spend(result)
  /\ disk' = IF result = "failed" THEN disk ELSE [disk EXCEPT !.recovery[This] = "none"]
  /\ mem' = Release(This)
  /\ FailAttempt
  /\ UNCHANGED <<sent, due, service, queue, turns, handled>>

(* putKfInboundRecovery: in memory at once, and until it is on disk.       *)
Doubt(result) ==
  /\ At("doubt")
  /\ Spend(result)
  /\ disk' = IF result = "failed" THEN disk ELSE [disk EXCEPT !.recovery[This] = "quarantined"]
  /\ mem' = IF result = "ok" THEN Release(This) ELSE [Release(This) EXCEPT !.volatile = @ \cup {This}]
  /\ GiveUp
  /\ UNCHANGED <<sent, due, service, queue, turns, handled>>

-----------------------------------------------------------------------------
(* Time, stops and crashes. *)

(* A day after a message was finished, its receipt and its dedupe entries  *)
(* expire.  The cursor is behind it by then, unless another message of its *)
(* page still waits for a review.                                          *)
Expire(m) ==
  /\ task.step \in {"idle", "attempt"} \/ m < task.msg
  /\ Finished(m)
  /\ \/ m <= disk.cursor /\ mem.cursor # Null /\ m <= mem.cursor
     \/ SlowReview /\ task.step = "idle" /\ queue = <<>> /\ \E k \in Msgs : UnderReview(k)
  /\ disk' = [disk EXCEPT !.recovery[m] = "none", !.seen = @ \ {m}]
  /\ mem' = [mem EXCEPT !.claims[m] = "none"]
  /\ UNCHANGED <<sent, due, service, queue, task, spent, turns, handled, dropped>>

Stop ==
  /\ service = "accepting"
  /\ spent.stops < MaxStops
  /\ spent' = [spent EXCEPT !.stops = @ + 1]
  /\ service' = "stopping"
  /\ queue' = [n \in DOMAIN queue |-> TRUE]
  /\ task' = IF task = NoTask THEN task ELSE [task EXCEPT !.aborted = TRUE]
  /\ UNCHANGED <<sent, due, disk, mem, turns, handled, dropped>>

(* stop resolves when the queue it found is done, or rejects.              *)
StopEnds ==
  /\ service = "stopping"
  /\ service' \in {"drained", "timedOut"}
  /\ service' = "drained" => task = NoTask /\ queue = << >>
  /\ UNCHANGED <<sent, due, disk, mem, queue, task, spent, turns, handled, dropped>>

Start ==
  /\ service \in {"drained", "timedOut"}
  /\ service' = "accepting"
  /\ UNCHANGED <<sent, due, disk, mem, queue, task, spent, turns, handled, dropped>>

Crash ==
  /\ spent.crashes < MaxCrashes
  /\ spent' = [spent EXCEPT !.crashes = @ + 1]
  /\ service' = "timedOut"
  /\ mem' = NoMemory
  /\ queue' = << >>
  /\ task' = NoTask
  /\ dropped' = (dropped \/ task # NoTask \/ queue # << >>)
  /\ UNCHANGED <<sent, due, disk, turns, handled>>

-----------------------------------------------------------------------------
Sync ==
  \/ NextSync \/ BeginAttempt \/ Fetch \/ FetchFails \/ NoticeAbort
  \/ SkipFinished \/ MeetReview \/ ClaimMessage
  \/ EventHandled \/ EventFails
  \/ Decline \/ StartTurn \/ DispatchFails \/ TurnEnds \/ TurnFails
  \/ Commit \/ AbortBeforeCommit
  \/ \E result \in Results :
       SavePage(result) \/ Begin(result) \/ Complete(result) \/ Forget(result) \/ Doubt(result)

Next ==
  \/ Arrive
  \/ \E answer \in {"ok", "failed"} : Notice(answer)
  \/ Sync
  \/ \E m \in Msgs : Expire(m)
  \/ Stop \/ StopEnds \/ Start \/ Crash

Spec == Init /\ [][Next]_kfVars

(* Fairness.  WeCom repeats its notices, the service is started again, a   *)
(* sync goes on and its turn ends by the agent's timeout.                  *)
FairSpec ==
  /\ Spec
  /\ WF_kfVars(Notice("ok"))
  /\ WF_kfVars(StopEnds)
  /\ WF_kfVars(Start)
  /\ WF_kfVars(Sync)

-----------------------------------------------------------------------------
(* Properties *)

(* A customer's message is answered by one turn at most, whatever is       *)
(* retried, restarted or announced again, as the recovery entries promise. *)
OneTurnPerMessage == \A m \in Msgs : turns[m] <= 1

(* The stored cursor passes no message whose handling did not return       *)
(* without an error: none is skipped because of a claim or an entry that   *)
(* an earlier sync left behind.                                            *)
NothingSkipped == \A m \in 1..disk.cursor : m \in handled

(* A turn that began and was not seen to end well is under review on disk, *)
(* so that a crash at any point leaves the trace that blocks its page.     *)
DoubtIsOnDisk ==
  \A m \in Msgs :
    turns[m] > 0 /\ m \notin handled => disk.recovery[m] \in {"processing", "quarantined"}

(* The messages of a notice that was answered are handled, unless a        *)
(* message under review blocks the account or the sync was given up (by a  *)
(* stop, a crash or its last attempt) and no later notice came.            *)
NoticeWorkedOff ==
  \A m \in Msgs : m <= sent ~> m \in handled \/ (\E k \in Msgs : UnderReview(k)) \/ dropped

(* A message is let go of when the stored cursor is behind it.             *)
Custody == INSTANCE InboundCustody
             WITH Messages <- Msgs, done <- handled, filed <- {}, released <- 1..disk.cursor

(* The stored cursor never goes back, also after a write of it that took   *)
(* effect and was reported as failed, and no turn begins for a message     *)
(* that is handled, whether an attempt, a restart or an expired entry      *)
(* brings it up again.                                                     *)
ImplementsInboundCustody == Custody!Spec

=============================================================================
