--------------------------- MODULE KeyedRunQueue ---------------------------
(***************************************************************************)
(* createKeyedRunQueue of message-sdk: the tasks of one key run one after  *)
(* another, those of different keys side by side.                          *)
(*                                                                         *)
(* tails maps a key to its last task, whose promise the next task of the   *)
(* key waits for.  A caller hears of its task once: that it ended, timed   *)
(* out, or was aborted with the queue.  A task that timed out or was       *)
(* aborted keeps its key until it really ends, which a Stuck one never     *)
(* does.                                                                   *)
(***************************************************************************)
EXTENDS Integers, FiniteSets

CONSTANTS
  Tasks,            \* calls of enqueue
  Keys, KeyOf,      \* and the key of each
  MaxPendingTasks, MaxKeys,
  Stuck,            \* the tasks that ignore their abort and never end
  Null

ASSUME QueueAssumption ==
  /\ IsFiniteSet(Tasks)
  /\ KeyOf \in [Tasks -> Keys]
  /\ {MaxPendingTasks, MaxKeys} \subseteq Nat \ {0}
  /\ Stuck \subseteq Tasks
  /\ Null \notin Tasks

VARIABLES
  active,        \* may tasks be enqueued?
  stage,         \* of each task
  prev,          \* the task whose tail an unfinished one waits for, if any
  tails,         \* the last task of each key that has any
  depth,         \* keyDepth
  pendingTasks,
  caller,        \* what the caller of enqueue was told
  awaited,       \* the tails that drain waits for
  place,         \* history: in which order the unfinished tasks were accepted
  accepted       \* history: how many were

queueVars == <<active, stage, prev, tails, depth, pendingTasks, caller, awaited, place, accepted>>

Unfinished == {"queued", "running"}

Of(k, stages) == {t \in Tasks : KeyOf[t] = k /\ stage[t] \in stages}

QueueTypeOK ==
  /\ active \in BOOLEAN
  /\ stage \in [Tasks -> {"new", "refused", "finished"} \cup Unfinished]
  /\ prev \in [Tasks -> Tasks \cup {Null}]
  /\ tails \in [Keys -> Tasks \cup {Null}]
  /\ depth \in [Keys -> Int]
  /\ pendingTasks \in Int
  /\ caller \in [Tasks -> {"none", "waiting", "resolved", "rejected"}]
  /\ awaited \subseteq Tasks
  /\ place \in [Tasks -> Nat]
  /\ accepted \in Nat

QueueInit ==
  /\ active = TRUE
  /\ stage = [t \in Tasks |-> "new"]
  /\ prev = [t \in Tasks |-> Null]
  /\ tails = [k \in Keys |-> Null]
  /\ depth = [k \in Keys |-> 0]
  /\ pendingTasks = 0
  /\ caller = [t \in Tasks |-> "none"]
  /\ awaited = {}
  /\ place = [t \in Tasks |-> 0]
  /\ accepted = 0

HasRoom(k) ==
  /\ pendingTasks < MaxPendingTasks
  /\ tails[k] # Null \/ Cardinality({l \in Keys : tails[l] # Null}) < MaxKeys

Accept(t) ==
  /\ stage[t] = "new"
  /\ active /\ HasRoom(KeyOf[t])
  /\ stage' = [stage EXCEPT ![t] = "queued"]
  /\ prev' = [prev EXCEPT ![t] = tails[KeyOf[t]]]
  /\ tails' = [tails EXCEPT ![KeyOf[t]] = t]
  /\ depth' = [depth EXCEPT ![KeyOf[t]] = @ + 1]
  /\ pendingTasks' = pendingTasks + 1
  /\ caller' = [caller EXCEPT ![t] = "waiting"]
  /\ place' = [place EXCEPT ![t] = accepted]
  /\ accepted' = accepted + 1
  /\ UNCHANGED <<active, awaited>>

(* KeyedRunQueueInactiveError, KeyedRunQueueCapacityError.                 *)
Refuse(t) ==
  /\ stage[t] = "new"
  /\ ~active \/ ~HasRoom(KeyOf[t])
  /\ stage' = [stage EXCEPT ![t] = "refused"]
  /\ caller' = [caller EXCEPT ![t] = "rejected"]
  /\ UNCHANGED <<active, prev, tails, depth, pendingTasks, awaited, place, accepted>>

(* The tail it waits for has settled.                                      *)
Turn(t) ==
  /\ stage[t] = "queued"
  /\ prev[t] # Null => stage[prev[t]] = "finished"

Begin(t) ==
  /\ Turn(t)
  /\ active
  /\ stage' = [stage EXCEPT ![t] = "running"]
  /\ UNCHANGED <<active, prev, tails, depth, pendingTasks, caller, awaited, place, accepted>>

(* A slip, for mutation: the key's entry is deleted whoever is its tail.   *)
ReleaseKey(t) ==
  /\ stage' = [stage EXCEPT ![t] = "finished"]
  /\ depth' = [depth EXCEPT ![KeyOf[t]] = @ - 1]
  /\ pendingTasks' = pendingTasks - 1
  /\ prev' = [prev EXCEPT ![t] = Null]
  /\ place' = [place EXCEPT ![t] = 0]
  /\ tails' = [tails EXCEPT ![KeyOf[t]] = Null]

Release(t) ==
  /\ stage' = [stage EXCEPT ![t] = "finished"]
  /\ depth' = [depth EXCEPT ![KeyOf[t]] = @ - 1]
  /\ pendingTasks' = pendingTasks - 1
  /\ prev' = [prev EXCEPT ![t] = Null]
  /\ place' = [place EXCEPT ![t] = 0]
  /\ tails' = [tails EXCEPT ![KeyOf[t]] = IF @ = t THEN Null ELSE @]

(* A slip, for mutation: the early return comes before the release.        *)
RejectUnreleased(t) ==
  /\ Turn(t)
  /\ ~active
  /\ stage' = [stage EXCEPT ![t] = "finished"]
  /\ caller' = [caller EXCEPT ![t] = "rejected"]
  /\ UNCHANGED <<active, prev, tails, depth, pendingTasks, awaited, place, accepted>>

(* Its turn comes after the queue was deactivated.                         *)
RejectQueued(t) ==
  /\ Turn(t)
  /\ ~active
  /\ Release(t)
  /\ caller' = [caller EXCEPT ![t] = "rejected"]
  /\ UNCHANGED <<active, awaited, accepted>>

Timeout(t) ==
  /\ stage[t] = "running"
  /\ caller[t] = "waiting"
  /\ caller' = [caller EXCEPT ![t] = "rejected"]
  /\ UNCHANGED <<active, stage, prev, tails, depth, pendingTasks, awaited, place, accepted>>

(* A slip, for mutation: nothing is left to do for a caller that was told.  *)
TaskEndsUnlessTold(t, outcome) ==
  /\ stage[t] = "running"
  /\ t \notin Stuck
  /\ caller[t] = "waiting"
  /\ Release(t)
  /\ caller' = [caller EXCEPT ![t] = outcome]
  /\ UNCHANGED <<active, awaited, accepted>>

TaskEnds(t, outcome) ==
  /\ stage[t] = "running"
  /\ t \notin Stuck
  /\ Release(t)
  /\ caller' = [caller EXCEPT ![t] = IF @ = "waiting" THEN outcome ELSE @]
  /\ UNCHANGED <<active, awaited, accepted>>

(* A slip, for mutation: drain waits for what runs, not for the tails.     *)
DrainOfRunning ==
  /\ active
  /\ active' = FALSE
  /\ caller' = [t \in Tasks |-> IF stage[t] = "running" /\ caller[t] = "waiting"
                                THEN "rejected" ELSE caller[t]]
  /\ awaited' = {t \in Tasks : stage[t] = "running"}
  /\ UNCHANGED <<stage, prev, tails, depth, pendingTasks, place, accepted>>

(* deactivate tells the callers of the running tasks; drain, called next,  *)
(* waits for the tails it finds.                                           *)
DeactivateAndDrain ==
  /\ active
  /\ active' = FALSE
  /\ caller' = [t \in Tasks |-> IF stage[t] = "running" /\ caller[t] = "waiting"
                                THEN "rejected" ELSE caller[t]]
  /\ awaited' = {tails[k] : k \in Keys} \ {Null}
  /\ UNCHANGED <<stage, prev, tails, depth, pendingTasks, place, accepted>>

Drained == ~active /\ \A t \in awaited : stage[t] = "finished"

Work(t) == \/ Begin(t) \/ RejectQueued(t) \/ Timeout(t)
           \/ \E outcome \in {"resolved", "rejected"} : TaskEnds(t, outcome)

QueueNext ==
  \/ \E t \in Tasks : Accept(t) \/ Refuse(t) \/ Work(t)
  \/ DeactivateAndDrain

QueueSpec == QueueInit /\ [][QueueNext]_queueVars

-----------------------------------------------------------------------------
(* Properties *)

(* A task begins only when every task of its key that was accepted before  *)
(* it has really ended, also one whose caller was told of a timeout long   *)
(* ago: the tasks of a key never overlap and begin in the order in which   *)
(* they were accepted.                                                     *)
BeginsInOrder ==
  \A t \in Tasks, u \in Tasks :
    /\ KeyOf[t] = KeyOf[u] /\ place[t] < place[u]
    /\ stage[t] \in Unfinished
    => stage[u] # "running"

(* The counters that bound the queue are the work that is really there,    *)
(* and a key without work has no entry.                                    *)
CountsAreReal ==
  /\ pendingTasks = Cardinality({t \in Tasks : stage[t] \in Unfinished})
  /\ \A k \in Keys : /\ depth[k] = Cardinality(Of(k, Unfinished))
                     /\ tails[k] # Null <=> Of(k, Unfinished) # {}

(* drain returns, after deactivate, when nothing runs and nothing is       *)
(* queued, though it looks at the tails only once.                         *)
DrainIsComplete == Drained => \A t \in Tasks : stage[t] \notin Unfinished

=============================================================================
