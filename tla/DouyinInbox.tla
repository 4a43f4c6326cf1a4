---------------------------- MODULE DouyinInbox ----------------------------
(***************************************************************************)
(* The durable inbox of one Douyin account: webhook messages are written   *)
(* to a file before they are answered 200, and a drain behind them gives   *)
(* each to the agent, with retries, dead letters and a review of whatever  *)
(* may have begun.                                                         *)
(*                                                                         *)
(* The inbox's lock makes each of its operations one step, which writes    *)
(* the whole state and then replaces the one in memory.  A write can fail, *)
(* or take effect and be reported as failed ("uncertain").                 *)
(* External: the platform, the agent's turn, the file system, the          *)
(* administrator.                                                          *)
(***************************************************************************)
EXTENDS Integers, FiniteSets, ClaimableDedupe

CONSTANTS
  Msgs,
  MaxPending, MaxDead, MaxCompleted, MaxAttempts,   \* the limits of the inbox
  MaxErrors,    \* bound: writes that go wrong
  MaxFailures,  \* bound: dispatches that fail before the turn starts
  MaxStops,     \* bound: stops of the account
  MaxCrashes,   \* bound: crashes
  Null

ASSUME InboxAssumption ==
  /\ IsFiniteSet(Msgs)
  /\ {MaxPending, MaxDead, MaxCompleted, MaxAttempts} \subseteq Nat \ {0}
  /\ {MaxErrors, MaxFailures, MaxStops, MaxCrashes} \subseteq Nat
  /\ Null \notin Msgs

VARIABLES
  disk, mem,    \* where each message is, and its failed attempts
  phase,        \* of the account; its signal is aborted while it stops
  suspended,    \* persistenceSuspended
  drain,        \* drainPromise: none, at work, or settled and not yet cleared
  scheduling,   \* a scheduleNext waits for the lock
  timer,        \* retryTimer
  later,        \* messages whose nextAttemptAt has not come
  task,         \* the message that is processed, and how far
  claims, seen, \* the dedupe's memory and file
  spent,        \* errors, failures, stops and crashes so far, for the bounds
  turns,        \* history: turns started per message
  settled,      \* history: messages whose turn ended, or whom the host or a policy declined
  acked         \* history: messages answered 200

dedupe == <<claims, seen>>
pump == <<drain, scheduling, timer>>
history == <<turns, settled, acked>>
inboxVars == <<disk, mem, phase, suspended, pump, later, task, dedupe, spent, history>>

(* "review" is a pending entry with a recoveryState, "deadReview" a dead   *)
(* letter with one.                                                        *)
Pending == {"pending", "processing", "review"}
Dead == {"dead", "deadReview"}
Places == {"absent", "completed", "expired"} \cup Pending \cup Dead

State == [Msgs -> [place : Places, tries : 0..MaxAttempts]]

Empty == [m \in Msgs |-> [place |-> "absent", tries |-> 0]]

NoTask == [msg |-> Null, step |-> "idle"]

(* "done", "failed" and "doubt" are the outcomes of a dispatch, to be      *)
(* stored; "block" follows an outcome that could not be stored.            *)
Steps == {"dispatch", "claimed", "turn", "done", "failed", "doubt", "block"}

In(state, places) == {m \in Msgs : state[m].place \in places}

Fits(state) ==
  /\ Cardinality(In(state, Pending)) <= MaxPending
  /\ Cardinality(In(state, Dead)) <= MaxDead
  /\ Cardinality(In(state, {"completed"})) <= MaxCompleted

InboxTypeOK ==
  /\ disk \in State
  /\ mem \in State
  /\ phase \in {"on", "stopping", "off"}
  /\ suspended \in BOOLEAN
  /\ drain \in {"none", "on", "ending"}
  /\ scheduling \in BOOLEAN
  /\ timer \in BOOLEAN
  /\ later \subseteq Msgs
  /\ task \in [msg : Msgs, step : Steps] \cup {NoTask}
  /\ claims \in [Msgs -> Claims]
  /\ seen \subseteq Msgs
  /\ spent \in [errors : 0..MaxErrors, failures : 0..MaxFailures,
                stops : 0..MaxStops, crashes : 0..MaxCrashes]
  /\ turns \in [Msgs -> Nat]
  /\ settled \subseteq Msgs
  /\ acked \subseteq Msgs
  /\ task # NoTask => drain = "on"
  /\ phase = "off" => drain = "none"

(* The capacities bound the stored state and the one in memory, also when  *)
(* dead letters are replayed while new messages come in.                   *)
WithinCapacity == Fits(disk) /\ Fits(mem)

Init ==
  /\ disk = Empty
  /\ mem = Empty
  /\ phase = "on"
  /\ suspended = FALSE
  /\ drain = "none"
  /\ scheduling = FALSE
  /\ timer = FALSE
  /\ later = {}
  /\ task = NoTask
  /\ claims = [m \in Msgs |-> "none"]
  /\ seen = {}
  /\ spent = [errors |-> 0, failures |-> 0, stops |-> 0, crashes |-> 0]
  /\ turns = [m \in Msgs |-> 0]
  /\ settled = {}
  /\ acked = {}

Results == {"ok", "failed", "uncertain"}

Limit == [errors |-> MaxErrors, failures |-> MaxFailures, stops |-> MaxStops, crashes |-> MaxCrashes]

Spend(kind) == spent[kind] < Limit[kind] /\ spent' = [spent EXCEPT ![kind] = @ + 1]

(* persist, and the assignment that follows a write without an error.      *)
Write(next, result) ==
  /\ disk' = IF result = "failed" THEN disk ELSE next
  /\ mem' = IF result = "ok" THEN next ELSE mem
  /\ IF result = "ok" THEN UNCHANGED spent ELSE Spend("errors")

Wake == drain' = IF phase = "on" /\ ~suspended /\ drain = "none" THEN "on" ELSE drain

-----------------------------------------------------------------------------
(* The webhook.  The platform may deliver any message at any time, until   *)
(* a day after it was completed.                                           *)

Duplicate(m) ==
  /\ phase = "on"
  /\ mem[m].place \in Places \ {"absent", "expired"}
  /\ acked' = acked \cup {m}
  /\ UNCHANGED <<disk, mem, phase, suspended, pump, later, task, dedupe, spent, turns, settled>>

(* A slip, for mutation: only what is still to be done is a duplicate.     *)
EnqueueFinished(m, result) ==
  /\ phase = "on"
  /\ mem[m].place \in {"absent", "completed"}
  /\ Cardinality(In(mem, Pending)) < MaxPending
  /\ Write([mem EXCEPT ![m] = [place |-> "pending", tries |-> 0]], result)
  /\ IF result = "ok" THEN Wake /\ acked' = acked \cup {m} ELSE UNCHANGED <<drain, acked>>
  /\ UNCHANGED <<phase, suspended, scheduling, timer, later, task, dedupe, turns, settled>>

Enqueue(m, result) ==
  /\ phase = "on"
  /\ mem[m].place = "absent"
  /\ Cardinality(In(mem, Pending)) < MaxPending
  /\ Cardinality(In(mem, {"completed"})) < MaxCompleted
  /\ Write([mem EXCEPT ![m] = [place |-> "pending", tries |-> 0]], result)
  /\ IF result = "ok" THEN Wake /\ acked' = acked \cup {m} ELSE UNCHANGED <<drain, acked>>
  /\ UNCHANGED <<phase, suspended, scheduling, timer, later, task, dedupe, turns, settled>>

-----------------------------------------------------------------------------
(* The drain. *)

Ready(m) == mem[m].place = "pending" /\ m \notin later

(* markProcessing, for the item the drain takes.                           *)
Mark(m, result) ==
  /\ drain = "on" /\ task = NoTask
  /\ phase = "on" /\ ~suspended
  /\ Ready(m)
  /\ Cardinality(In(mem, {"completed"})) < MaxCompleted
  /\ Write([mem EXCEPT ![m].place = "processing"], result)
  /\ IF result = "ok"
     THEN task' = [msg |-> m, step |-> "dispatch"] /\ UNCHANGED suspended
     ELSE suspended' = TRUE /\ UNCHANGED task
  /\ UNCHANGED <<phase, pump, later, dedupe, history>>

(* markProcessing throws: the completed entries of the day are at their    *)
(* limit.                                                                  *)
MarkFull ==
  /\ drain = "on" /\ task = NoTask
  /\ phase = "on" /\ ~suspended
  /\ \E m \in Msgs : Ready(m)
  /\ Cardinality(In(mem, {"completed"})) >= MaxCompleted
  /\ suspended' = TRUE
  /\ UNCHANGED <<disk, mem, phase, pump, later, task, dedupe, spent, history>>

DrainReturns ==
  /\ drain = "on" /\ task = NoTask
  /\ phase # "on" \/ suspended \/ \A m \in Msgs : ~Ready(m)
  /\ drain' = "ending"
  /\ UNCHANGED <<disk, mem, phase, suspended, scheduling, timer, later, task, dedupe, spent, history>>

(* A slip, for mutation: what came in meanwhile waits for the next message. *)
DrainEndsForGood ==
  /\ drain = "ending"
  /\ drain' = "none"
  /\ UNCHANGED <<disk, mem, phase, suspended, scheduling, timer, later, task, dedupe, spent, history>>

DrainEnds ==
  /\ drain = "ending"
  /\ drain' = "none"
  /\ scheduling' = (scheduling \/ phase = "on")
  /\ UNCHANGED <<disk, mem, phase, suspended, timer, later, task, dedupe, spent, history>>

(* scheduleNext.  The timer may be set while the inbox stops.              *)
ScheduleNext ==
  /\ scheduling
  /\ scheduling' = FALSE
  /\ timer' = (timer \/ \E m \in Msgs : mem[m].place = "pending")
  /\ UNCHANGED <<disk, mem, phase, suspended, drain, later, task, dedupe, spent, history>>

TimerFires ==
  /\ timer
  /\ timer' = FALSE
  /\ Wake
  /\ UNCHANGED <<disk, mem, phase, suspended, scheduling, later, task, dedupe, spent, history>>

(* nextAttemptAt of a message comes.                                       *)
Elapse(m) ==
  /\ m \in later
  /\ later' = later \ {m}
  /\ UNCHANGED <<disk, mem, phase, suspended, pump, task, dedupe, spent, history>>

-----------------------------------------------------------------------------
(* dispatchDouyinWebhookInbound, for the message of the task. *)

This == task.msg

Goto(step) == task' = [task EXCEPT !.step = step]

(* The abort signal, or an error of the authorization.                     *)
DispatchThrows ==
  /\ task.step = "dispatch"
  /\ Goto("doubt")
  /\ UNCHANGED <<disk, mem, phase, suspended, pump, later, dedupe, spent, history>>

(* No runtime yet: "skipped".                                              *)
Skip ==
  /\ task.step = "dispatch" /\ phase = "on"
  /\ Spend("failures")
  /\ Goto("failed")
  /\ UNCHANGED <<disk, mem, phase, suspended, pump, later, dedupe, history>>

(* The sender is not allowed: "blocked".                                   *)
Block ==
  /\ task.step = "dispatch" /\ phase = "on"
  /\ Goto("done")
  /\ settled' = settled \cup {This}
  /\ UNCHANGED <<disk, mem, phase, suspended, pump, later, dedupe, spent, turns, acked>>

(* A message that is claimed already is a "duplicate", which is done.      *)
ClaimMessage ==
  /\ task.step = "dispatch" /\ phase = "on"
  /\ Goto(IF ClaimKind(claims, seen, This) = "claimed" THEN "claimed" ELSE "done")
  /\ claims' = AfterClaim(claims, seen, This)
  /\ UNCHANGED <<disk, mem, phase, suspended, pump, later, seen, spent, history>>

(* A slip, for mutation: the claim of a dispatch that never started stays. *)
NotStartedClaimed ==
  /\ task.step = "claimed"
  /\ Spend("failures")
  /\ Goto("failed")
  /\ UNCHANGED <<disk, mem, phase, suspended, pump, later, dedupe, history>>

(* A null result, or an error that says not_started.                       *)
NotStarted ==
  /\ task.step = "claimed"
  /\ Spend("failures")
  /\ Goto("failed")
  /\ claims' = AfterRelease(claims, This)
  /\ UNCHANGED <<disk, mem, phase, suspended, pump, later, seen, history>>

(* The host admits no turn for it: handled, or dropped.                    *)
Decline ==
  /\ task.step = "claimed" /\ phase = "on"
  /\ Goto("done")
  /\ claims' = AfterRelease(claims, This)
  /\ settled' = settled \cup {This}
  /\ UNCHANGED <<disk, mem, phase, suspended, pump, later, seen, spent, turns, acked>>

StartTurn ==
  /\ task.step = "claimed"
  /\ Goto("turn")
  /\ turns' = [turns EXCEPT ![This] = @ + 1]
  /\ UNCHANGED <<disk, mem, phase, suspended, pump, later, dedupe, spent, settled, acked>>

(* The turn and the reply are done, and the claim is committed.            *)
TurnEnds ==
  /\ task.step = "turn" /\ phase = "on"
  /\ Goto("done")
  /\ claims' = AfterCommit(claims, This)
  /\ seen' \in Recorded(seen, This)
  /\ settled' = settled \cup {This}
  /\ UNCHANGED <<disk, mem, phase, suspended, pump, later, spent, turns, acked>>

(* Any other error, a timeout or the abort signal: the claim stays.  (The  *)
(* result timedOut, for which it would go, is thrown as an error before.)  *)
TurnFails ==
  /\ task.step \in {"claimed", "turn"}
  /\ Goto("doubt")
  /\ UNCHANGED <<disk, mem, phase, suspended, pump, later, dedupe, spent, history>>

-----------------------------------------------------------------------------
(* What a dispatch came to is stored. *)

(* The item is done with, or its outcome could not be stored.              *)
AfterStoring(result) ==
  /\ IF result = "ok" THEN task' = NoTask /\ UNCHANGED suspended
     ELSE Goto("block") /\ suspended' = TRUE
  /\ UNCHANGED <<phase, pump, dedupe, history>>

(* markProcessing has seen to the room: complete never finds it full.      *)
Complete(result) ==
  /\ task.step = "done"
  /\ Write([mem EXCEPT ![This].place = "completed"], result)
  /\ AfterStoring(result)
  /\ UNCHANGED later

(* A full dead-letter queue keeps the message pending.                     *)
Fail(result) ==
  /\ task.step = "failed"
  /\ LET tries == mem[This].tries + 1
         dead  == tries >= MaxAttempts /\ Cardinality(In(mem, Dead)) < MaxDead IN
       /\ Write([mem EXCEPT ![This] =
                   [place |-> IF dead THEN "dead" ELSE "pending",
                    tries |-> IF tries > MaxAttempts THEN MaxAttempts ELSE tries]], result)
       /\ later' = IF dead THEN later ELSE later \cup {This}
  /\ AfterStoring(result)

(* A slip, for mutation: a full dead-letter queue takes no message more.   *)
QuarantineOrDrop(result) ==
  /\ task.step = "doubt"
  /\ Write([mem EXCEPT ![This].place =
              IF Cardinality(In(mem, Dead)) < MaxDead THEN "deadReview" ELSE "absent"], result)
  /\ AfterStoring(result)
  /\ UNCHANGED later

Quarantine(result) ==
  /\ task.step = "doubt"
  /\ Write([mem EXCEPT ![This].place =
              IF Cardinality(In(mem, Dead)) < MaxDead THEN "deadReview" ELSE "review"], result)
  /\ AfterStoring(result)
  /\ UNCHANGED later

(* blockAfterWriteFailure, in memory.                                      *)
BlockAfterWriteFailure ==
  /\ task.step = "block"
  /\ mem' = [mem EXCEPT ![This].place = "review"]
  /\ task' = NoTask
  /\ UNCHANGED <<disk, phase, suspended, pump, later, dedupe, spent, history>>

-----------------------------------------------------------------------------
(* The administrator, time, stops and crashes. *)

(* A slip, for mutation: the room among the pending is not looked at.      *)
ReplayAll(which, result) ==
  /\ phase = "on"
  /\ which # {}
  /\ which \subseteq In(mem, {"dead"})
  /\ Write([m \in Msgs |-> IF m \in which THEN [place |-> "pending", tries |-> 0] ELSE mem[m]],
           result)
  /\ IF result = "ok" THEN Wake /\ later' = later \ which ELSE UNCHANGED <<drain, later>>
  /\ UNCHANGED <<phase, suspended, scheduling, timer, task, dedupe, history>>

(* Dead letters under review are not replayed.                             *)
ReplayDeadLetters(which, result) ==
  /\ phase = "on"
  /\ which # {}
  /\ which \subseteq In(mem, {"dead"})
  /\ Cardinality(In(mem, Pending)) + Cardinality(which) <= MaxPending
  /\ Write([m \in Msgs |-> IF m \in which THEN [place |-> "pending", tries |-> 0] ELSE mem[m]],
           result)
  /\ IF result = "ok" THEN Wake /\ later' = later \ which ELSE UNCHANGED <<drain, later>>
  /\ UNCHANGED <<phase, suspended, scheduling, timer, task, dedupe, history>>

(* retryPersistence, which only the tests call.                            *)
RetryPersistence(result) ==
  /\ phase = "on"
  /\ suspended
  /\ Write(mem, result)
  /\ IF result = "ok"
     THEN suspended' = FALSE /\ drain' = IF drain = "none" THEN "on" ELSE drain
     ELSE UNCHANGED <<suspended, drain>>
  /\ UNCHANGED <<phase, scheduling, timer, later, task, dedupe, history>>

(* A completed entry is a day old, and so is the dedupe's.                 *)
Expired(state, m) == IF state[m].place = "completed" THEN [state EXCEPT ![m].place = "expired"] ELSE state

Expire(m) ==
  /\ disk[m].place = "completed"
  /\ task.msg # m
  /\ disk' = Expired(disk, m)
  /\ mem' = Expired(mem, m)
  /\ claims' = [claims EXCEPT ![m] = "none"]
  /\ seen' = seen \ {m}
  /\ UNCHANGED <<phase, suspended, pump, later, task, spent, history>>

Stop ==
  /\ phase = "on"
  /\ Spend("stops")
  /\ phase' = "stopping"
  /\ timer' = FALSE
  /\ UNCHANGED <<disk, mem, suspended, drain, scheduling, later, task, dedupe, history>>

StopEnds ==
  /\ phase = "stopping"
  /\ drain = "none" /\ ~scheduling
  /\ phase' = "off"
  /\ mem' = Empty
  /\ suspended' = FALSE
  /\ timer' = FALSE
  /\ UNCHANGED <<disk, drain, scheduling, later, task, dedupe, spent, history>>

(* A slip, for mutation: what was processing is taken up again.            *)
StartResumes ==
  /\ phase = "off"
  /\ phase' = "on"
  /\ mem' = [m \in Msgs |-> IF disk[m].place = "processing"
                            THEN [disk[m] EXCEPT !.place = "pending"] ELSE disk[m]]
  /\ drain' = "on"
  /\ UNCHANGED <<disk, suspended, scheduling, timer, later, task, dedupe, spent, history>>

(* What was processing when its inbox ended is ambiguous.                  *)
Start ==
  /\ phase = "off"
  /\ phase' = "on"
  /\ mem' = [m \in Msgs |-> IF disk[m].place = "processing"
                            THEN [disk[m] EXCEPT !.place = "review"] ELSE disk[m]]
  /\ drain' = "on"
  /\ UNCHANGED <<disk, suspended, scheduling, timer, later, task, dedupe, spent, history>>

Crash ==
  /\ phase # "off"
  /\ Spend("crashes")
  /\ phase' = "off"
  /\ mem' = Empty
  /\ suspended' = FALSE
  /\ drain' = "none"
  /\ scheduling' = FALSE
  /\ timer' = FALSE
  /\ task' = NoTask
  /\ claims' = [m \in Msgs |-> "none"]
  /\ UNCHANGED <<disk, later, seen, history>>

-----------------------------------------------------------------------------
Dispatch ==
  \/ DispatchThrows \/ Skip \/ Block \/ ClaimMessage \/ NotStarted \/ Decline
  \/ StartTurn \/ TurnEnds \/ TurnFails

Drain ==
  \/ \E m \in Msgs, result \in Results : Mark(m, result)
  \/ MarkFull \/ DrainReturns \/ DrainEnds
  \/ Dispatch
  \/ \E result \in Results : Complete(result) \/ Fail(result) \/ Quarantine(result)
  \/ BlockAfterWriteFailure

Next ==
  \/ \E m \in Msgs : Duplicate(m) \/ Elapse(m) \/ Expire(m)
  \/ \E m \in Msgs, result \in Results : Enqueue(m, result)
  \/ Drain
  \/ ScheduleNext \/ TimerFires
  \/ \E which \in SUBSET Msgs, result \in Results : ReplayDeadLetters(which, result)
  \/ \E result \in Results : RetryPersistence(result)
  \/ Stop \/ StopEnds \/ Start \/ Crash

Spec == Init /\ [][Next]_inboxVars

(* Fairness.  The drain goes on and a turn ends by its timeout, times come *)
(* and timers fire, and an account that ended is started again.            *)
FairSpec ==
  /\ Spec
  /\ WF_inboxVars(Drain)
  /\ WF_inboxVars(ScheduleNext)
  /\ WF_inboxVars(TimerFires)
  /\ \A m \in Msgs : WF_inboxVars(Elapse(m)) /\ WF_inboxVars(Expire(m))
  /\ WF_inboxVars(StopEnds)
  /\ WF_inboxVars(Start)

-----------------------------------------------------------------------------
(* Properties *)

(* The agent has one turn at most for a message, whatever is delivered     *)
(* again, retried, replayed from the dead letters or found in the file     *)
(* after a crash.  This is what the code does: the documents promise more  *)
(* turns after a failed one (FailedTurnIsRetried).                         *)
OneTurn == \A m \in Msgs : turns[m] <= 1

(* A message whose turn failed or timed out becomes a dead letter only     *)
(* after its retries, as the README says.  The code files it for review at *)
(* once, because the turn may have begun to act.                           *)
FailedTurnIsRetried ==
  \A m \in Msgs : turns[m] > 0 /\ disk[m].place \in Dead => disk[m].tries = MaxAttempts

(* A message that was answered 200 is in the file from then on, pending,   *)
(* dead or completed, through every write that fails half way.             *)
AckedIsStored == \A m \in acked : disk[m].place # "absent"

(* A message is completed only when its turn ended or it was declined: no  *)
(* claim that an earlier attempt left behind passes for a duplicate.       *)
CompletedIsSettled == \A m \in In(disk, {"completed", "expired"}) : m \in settled

AtRest(m) == mem[m].place \in Dead \cup {"review", "completed", "expired"}

(* A message that was answered comes to rest, completed, dead or under     *)
(* review, unless a failed write suspends the inbox: no wake-up is lost    *)
(* between an ending drain, its timer and a new message.                   *)
AckedComesToRest == \A m \in Msgs : m \in acked ~> AtRest(m) \/ suspended

(* A message is let go of when it is over in the file and, while there is  *)
(* one, in the memory: from then on no restart takes it up again.          *)
Released ==
  LET over == {"completed", "expired"} IN
  {m \in Msgs : disk[m].place \in over /\ (phase # "off" => mem[m].place \in over)}

Custody == INSTANCE InboundCustody
             WITH Messages <- Msgs, done <- settled, filed <- {}, released <- Released

(* No turn begins for a message that is settled, whichever write of its    *)
(* outcome failed, and what is over stays so when the file comes back.     *)
ImplementsInboundCustody == Custody!Spec

=============================================================================
