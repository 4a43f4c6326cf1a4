---------------------------- MODULE RouterOutbox ----------------------------
(***************************************************************************)
(* The router's durable outbox (DurableRouteStore) and the dispatcher that *)
(* drains it (ReliableRouteDispatcher), in one process that may crash.     *)
(*                                                                         *)
(* The store serializes its operations and writes its state by renaming a  *)
(* file, so an operation of it is one step.  A commit can fail without     *)
(* effect, or take effect and be reported as an error (its directory could *)
(* not be synced: "uncertain").  A task is its id and its dedupe key.      *)
(* Who owns the state directory is the subject of RouterLease; here a      *)
(* store is open, and holds the lease, or closed.                          *)
(***************************************************************************)
EXTENDS Integers, Sequences, FiniteSets, SequencesExt

CONSTANTS
  Tasks,           \* what the rules produce for events
  Slots,           \* bound: deliveries in progress at the same time
  Concurrency,     \* delivery.concurrency
  MaxAttempts,     \* delivery.maxAttempts
  MaxPending,      \* delivery.maxPendingTasks
  MaxDeadLetters,  \* delivery.maxDeadLetters
  KeysExpire,      \* do dedupe keys of delivered tasks expire in time?
  LateEvents,      \* do events come when the service is not running?
  CommitErrors,    \* how a commit can go wrong: subset of {"failed", "uncertain"}
  MaxErrors,       \* bound: commits that go wrong
  MaxCrashes,      \* bound: crashes
  MaxReplays,      \* bound: replays of dead letters
  Null

ASSUME OutboxAssumption ==
  /\ {Concurrency, MaxAttempts, MaxPending, MaxDeadLetters} \subseteq Nat \ {0}
  /\ {MaxErrors, MaxCrashes, MaxReplays} \subseteq Nat
  /\ {KeysExpire, LateEvents} \subseteq BOOLEAN
  /\ CommitErrors \subseteq {"failed", "uncertain"}
  /\ IsFiniteSet(Slots)
  /\ Null \notin Tasks

VARIABLES
  store,      \* pending, delivered keys and dead letters
  open,       \* the store is initialized and holds the writer lease
  life,       \* the dispatcher's service
  drain,      \* drainPromise: none, fetching due tasks, waiting for a batch
  timer,      \* retryTimer is set
  worker,     \* the calls of processTask
  spent,      \* errors, crashes and replays so far, for the bounds
  accepted,   \* history: tasks whose enqueue was answered
  published   \* history: tasks the target has accepted

vars == <<store, open, life, drain, timer, worker, spent, accepted, published>>

Entry == [in : BOOLEAN, attempts : 0..MaxAttempts, due : BOOLEAN]

NoEntry == [in |-> FALSE, attempts |-> 0, due |-> FALSE]

Worker == [task     : Tasks \cup {Null},
           attempts : 0..MaxAttempts,    \* of the copy of the task it got
           step     : {"idle", "publish", "confirmed", "failed"},
           batch    : BOOLEAN]           \* the drain is waiting for it

Idle == [task |-> Null, attempts |-> 0, step |-> "idle", batch |-> FALSE]

OutboxTypeOK ==
  /\ store \in [pending : [Tasks -> Entry], delivered : SUBSET Tasks, dead : Seq(Tasks)]
  /\ Len(store.dead) <= MaxDeadLetters
  /\ open \in BOOLEAN
  /\ life \in {"stopped", "starting", "running", "stopping"}
  /\ drain \in {"none", "due", "wait"}
  /\ timer \in BOOLEAN
  /\ worker \in [Slots -> Worker]
  /\ spent \in [errors : 0..MaxErrors, crashes : 0..MaxCrashes, replays : 0..MaxReplays]
  /\ accepted \subseteq Tasks
  /\ published \subseteq Tasks

Init ==
  /\ store = [pending |-> [t \in Tasks |-> NoEntry], delivered |-> {}, dead |-> << >>]
  /\ open = FALSE
  /\ life = "stopped"
  /\ drain = "none"
  /\ timer = FALSE
  /\ worker = [s \in Slots |-> Idle]
  /\ spent = [errors |-> 0, crashes |-> 0, replays |-> 0]
  /\ accepted = {}
  /\ published = {}

IsPending(t) == store.pending[t].in

PendingTasks == {t \in Tasks : IsPending(t)}

IsDead(t) == Contains(store.dead, t)

Busy == {s \in Slots : worker[s].step # "idle"}

-----------------------------------------------------------------------------
(* commitState, and the results it can have.  Every operation initializes  *)
(* a closed store first.                                                   *)

Results == {"ok"} \cup CommitErrors

Commit(next, result) ==
  /\ open' = TRUE
  /\ store' = IF result = "failed" THEN store ELSE next
  /\ IF result = "ok" THEN UNCHANGED spent
     ELSE spent.errors < MaxErrors /\ spent' = [spent EXCEPT !.errors = @ + 1]

(* prune *)
Unexpired == IF KeysExpire THEN SUBSET store.delivered ELSE {store.delivered}

Put(t, entry) == [store.pending EXCEPT ![t] = entry]

(* wake *)
Wake == drain' = IF life = "running" /\ drain = "none" THEN "due" ELSE drain

-----------------------------------------------------------------------------
(* Operations of the hooks and the HTTP routes. *)

(* A slip, for mutation: a task in the dead letters is not a duplicate.    *)
KnownIfAlive(t, delivered) == IsPending(t) \/ t \in delivered

Known(t, delivered) == IsPending(t) \/ t \in delivered \/ IsDead(t)

EnqueueBatch(batch, delivered, result) ==
  LET new == {t \in batch : ~Known(t, delivered)}
      next == [store EXCEPT !.delivered = delivered,
                            !.pending = [t \in Tasks |-> IF t \in new
                                           THEN [in |-> TRUE, attempts |-> 0, due |-> TRUE]
                                           ELSE store.pending[t]]] IN
  /\ life = "running" \/ LateEvents
  /\ Cardinality(PendingTasks \cup new) <= MaxPending
  /\ IF new # {} THEN Commit(next, result)
                 ELSE result = "ok" /\ open' = TRUE /\ UNCHANGED <<store, spent>>
  /\ IF result = "ok" THEN accepted' = accepted \cup batch ELSE UNCHANGED accepted
  /\ IF result = "ok" /\ new # {} THEN Wake ELSE UNCHANGED drain
  /\ UNCHANGED <<life, timer, worker, published>>

ReplayDeadLetters(n, result) ==
  LET replayed == ToSet(SubSeq(store.dead, 1, n))
      next == [store EXCEPT !.dead = SubSeq(@, n + 1, Len(@)),
                            !.pending = [t \in Tasks |-> IF t \in replayed
                                           THEN [in |-> TRUE, attempts |-> 0, due |-> TRUE]
                                           ELSE store.pending[t]]] IN
  /\ life = "running" \/ LateEvents
  /\ spent.replays < MaxReplays
  /\ Cardinality(PendingTasks) + n <= MaxPending
  /\ open' = TRUE
  /\ store' = IF result = "failed" THEN store ELSE next
  /\ result # "ok" => spent.errors < MaxErrors
  /\ spent' = [spent EXCEPT !.replays = @ + 1, !.errors = IF result = "ok" THEN @ ELSE @ + 1]
  /\ IF result = "ok" THEN Wake ELSE UNCHANGED drain
  /\ UNCHANGED <<life, timer, worker, accepted, published>>

-----------------------------------------------------------------------------
(* runDrain *)

Fresh(t) == [task |-> t, attempts |-> store.pending[t].attempts, step |-> "publish", batch |-> TRUE]

(* Due tasks, as many as the concurrency allows, each for a free slot.     *)
Assignments ==
  LET due == {t \in PendingTasks : store.pending[t].due} IN
  {f \in [Slots -> due \cup {Null}] :
     /\ \A s \in Busy : f[s] = Null
     /\ \A s, u \in Slots : s # u /\ f[s] # Null => f[s] # f[u]
     /\ LET n == Cardinality({s \in Slots : f[s] # Null}) IN
        n > 0 /\ n = (IF Cardinality(due) < Concurrency THEN Cardinality(due) ELSE Concurrency)}

TakeDue ==
  /\ drain = "due"
  /\ life = "running"
  /\ \E f \in Assignments :
       worker' = [s \in Slots |-> IF f[s] = Null THEN worker[s] ELSE Fresh(f[s])]
  /\ drain' = "wait"
  /\ UNCHANGED <<store, open, life, timer, spent, accepted, published>>

(* A slip, for mutation: nobody wakes the dispatcher for what is pending.  *)
EndDrainSilently == drain' = "none" /\ UNCHANGED timer

(* The drain ends; a running dispatcher sets a timer for what is pending.  *)
EndDrain ==
  /\ drain' = "none"
  /\ timer' = IF life = "running" THEN PendingTasks # {} ELSE timer

NothingDue ==
  /\ drain = "due"
  /\ life = "running" => \A t \in PendingTasks : ~store.pending[t].due
  /\ EndDrain
  /\ UNCHANGED <<store, open, life, worker, spent, accepted, published>>

BatchDone ==
  /\ drain = "wait"
  /\ \A s \in Slots : ~worker[s].batch
  /\ drain' = "due"
  /\ UNCHANGED <<store, open, life, timer, worker, spent, accepted, published>>

-----------------------------------------------------------------------------
(* processTask *)

PublishSucceeds(s) ==
  /\ worker[s].step = "publish"
  /\ published' = published \cup {worker[s].task}
  /\ worker' = [worker EXCEPT ![s].step = "confirmed"]
  /\ UNCHANGED <<store, open, life, drain, timer, spent, accepted>>

(* Rejected or timed out: the target may have accepted it all the same.    *)
PublishFails(s) ==
  /\ worker[s].step = "publish"
  /\ published' \in {published, published \cup {worker[s].task}}
  /\ worker' = [worker EXCEPT ![s].step = "failed"]
  /\ UNCHANGED <<store, open, life, drain, timer, spent, accepted>>

(* A commit known to have taken effect counts as done.                     *)
MarkDelivered(s, kept, result) ==
  LET t == worker[s].task
      next == [store EXCEPT !.pending = Put(t, NoEntry), !.delivered = kept \cup {t}] IN
  /\ worker[s].step = "confirmed"
  /\ Commit(next, result)
  /\ worker' = [worker EXCEPT ![s] = IF result = "failed" THEN [@ EXCEPT !.step = "failed"] ELSE Idle]
  /\ UNCHANGED <<life, drain, timer, accepted, published>>

(* A slip, for mutation: the dead-letter queue drops what it cannot hold.  *)
FailureDropping(s) ==
  LET t == worker[s].task
      again == [in |-> TRUE, due |-> FALSE, attempts |-> worker[s].attempts + 1] IN
  IF worker[s].attempts + 1 < MaxAttempts
  THEN [store EXCEPT !.pending = Put(t, again)]
  ELSE [store EXCEPT !.pending = Put(t, NoEntry),
                     !.dead = IF Len(@) < MaxDeadLetters THEN Append(@, t) ELSE @]

(* Retry, dead letter, or blocked by a full dead-letter queue.             *)
Failure(s) ==
  LET t == worker[s].task
      attempts == worker[s].attempts + 1
      again == [in |-> TRUE, due |-> FALSE,
                attempts |-> IF attempts < MaxAttempts THEN attempts ELSE MaxAttempts] IN
  IF attempts >= MaxAttempts /\ Len(store.dead) < MaxDeadLetters
  THEN [store EXCEPT !.pending = Put(t, NoEntry), !.dead = Append(@, t)]
  ELSE [store EXCEPT !.pending = Put(t, again)]

MarkFailed(s) ==
  /\ worker[s].step = "failed"
  /\ Commit(Failure(s), "ok")
  /\ worker' = [worker EXCEPT ![s] = Idle]
  /\ UNCHANGED <<life, drain, timer, accepted, published>>

(* The error of markFailed rejects the batch: the drain ends, the other    *)
(* deliveries of the batch go on without it.                               *)
MarkFailedThrows(s, result) ==
  /\ worker[s].step = "failed"
  /\ result # "ok"
  /\ Commit(Failure(s), result)
  /\ IF worker[s].batch
     THEN /\ worker' = [u \in Slots |-> IF u = s THEN Idle ELSE [worker[u] EXCEPT !.batch = FALSE]]
          /\ drain' = "none"
          /\ timer' = IF life = "running" THEN \E t \in Tasks : store'.pending[t].in ELSE timer
     ELSE /\ worker' = [worker EXCEPT ![s] = Idle]
          /\ UNCHANGED <<drain, timer>>
  /\ UNCHANGED <<life, accepted, published>>

-----------------------------------------------------------------------------
(* Time *)

ComesDue(t) ==
  /\ IsPending(t) /\ ~store.pending[t].due
  /\ store' = [store EXCEPT !.pending[t].due = TRUE]
  /\ UNCHANGED <<open, life, drain, timer, worker, spent, accepted, published>>

TimerFires ==
  /\ timer
  /\ timer' = FALSE
  /\ Wake
  /\ UNCHANGED <<store, open, life, worker, spent, accepted, published>>

-----------------------------------------------------------------------------
(* start and stop; crash *)

Start ==
  /\ life = "stopped"
  /\ life' = "starting"
  /\ open' = TRUE
  /\ \E delivered \in Unexpired : store' = [store EXCEPT !.delivered = delivered]
  /\ UNCHANGED <<drain, timer, worker, spent, accepted, published>>

Started ==
  /\ life = "starting"
  /\ life' = "running"
  /\ drain' = IF drain = "none" THEN "due" ELSE drain
  /\ UNCHANGED <<store, open, timer, worker, spent, accepted, published>>

(* Also while the service starts.                                          *)
Stop ==
  /\ life \in {"starting", "running"}
  /\ life' = "stopping"
  /\ timer' = FALSE
  /\ UNCHANGED <<store, open, drain, worker, spent, accepted, published>>

(* A slip, for mutation: the store is closed under the running batch.      *)
CloseAtOnce ==
  /\ life = "stopping"
  /\ life' = "stopped"
  /\ open' = FALSE
  /\ UNCHANGED <<store, drain, timer, worker, spent, accepted, published>>

Stopped ==
  /\ life = "stopping"
  /\ drain = "none"
  /\ life' = "stopped"
  /\ open' = FALSE
  /\ UNCHANGED <<store, drain, timer, worker, spent, accepted, published>>

Crash ==
  /\ spent.crashes < MaxCrashes
  /\ spent' = [spent EXCEPT !.crashes = @ + 1]
  /\ open' = FALSE
  /\ life' = "stopped"
  /\ drain' = "none"
  /\ timer' = FALSE
  /\ worker' = [s \in Slots |-> Idle]
  /\ UNCHANGED <<store, accepted, published>>

Process(s) ==
  \/ PublishSucceeds(s) \/ PublishFails(s)
  \/ \E kept \in Unexpired, result \in Results : MarkDelivered(s, kept, result)
  \/ MarkFailed(s)
  \/ \E result \in Results : MarkFailedThrows(s, result)

Drain == TakeDue \/ NothingDue \/ BatchDone

Next ==
  \/ \E batch \in (SUBSET Tasks) \ {{}}, delivered \in Unexpired, result \in Results :
       EnqueueBatch(batch, delivered, result)
  \/ \E n \in 1..Len(store.dead), result \in Results : ReplayDeadLetters(n, result)
  \/ Drain
  \/ \E s \in Slots : Process(s)
  \/ \E t \in Tasks : ComesDue(t)
  \/ TimerFires
  \/ Start \/ Started \/ Stop \/ Stopped \/ Crash

Spec == Init /\ [][Next]_vars

(* Fairness.  The event loop runs what is ready, publishing ends by its    *)
(* timeout, retry delays and timers run out.                               *)
FairSpec ==
  /\ Spec
  /\ WF_vars(Drain)
  /\ \A s \in Slots : WF_vars(Process(s))
  /\ \A t \in Tasks : WF_vars(ComesDue(t))
  /\ WF_vars(TimerFires)

-----------------------------------------------------------------------------
(* Properties *)

(* A task whose enqueue was answered stays pending until the target has    *)
(* accepted it or it is in the dead-letter queue, as the README says of    *)
(* the outbox: whatever publishing, the store and the process do.          *)
NothingLost == \A t \in accepted : IsPending(t) \/ IsDead(t) \/ t \in published

(* At most delivery.concurrency deliveries are in progress, as the README  *)
(* says.  It holds while no commit goes wrong: the drain takes a batch     *)
(* only after the last one is done.  An error of markFailed ends the drain *)
(* while the rest of its batch goes on beside the next one.                *)
BoundedConcurrency == Cardinality(Busy) <= Concurrency

(* While no commit goes wrong, no task is delivered twice at the same      *)
(* time, and none comes back from a verdict: a task has one place, and     *)
(* its worker finds it pending, with the attempts its copy has.            *)
OnePlace ==
  /\ \A t \in Tasks : IsPending(t) => ~IsDead(t) /\ t \notin store.delivered
  /\ IsInjective(store.dead)
  /\ \A s, u \in Busy : worker[s].task = worker[u].task => s = u
  /\ \A s \in Busy : /\ IsPending(worker[s].task)
                     /\ worker[s].attempts = store.pending[worker[s].task].attempts

(* After stop returned, nothing holds the writer lease or works on.        *)
StopReleasesLease == life = "stopped" => ~open /\ Busy = {}

(* While the service runs, a pending task is delivered in the end, or      *)
(* filed, unless a full dead-letter queue blocks it.                       *)
PendingIsSettled ==
  \A t \in Tasks :
    IsPending(t) ~> ~IsPending(t) \/ life # "running" \/ Len(store.dead) = MaxDeadLetters

=============================================================================
