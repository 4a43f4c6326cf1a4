---------------------------- MODULE KfSyncProofs ----------------------------
(***************************************************************************)
(* Proofs about KfSync, for any log, page size, number of pages and        *)
(* attempts, and any number of errors, stops and crashes.                  *)
(***************************************************************************)
EXTENDS KfSync, SequenceTheorems, TLAPS

USE KfAssumption

-----------------------------------------------------------------------------
(* The inductive invariant. *)

InPage == task.step \notin {"idle", "attempt", "fetch"}

AtOne == task.step \notin {"idle", "attempt", "fetch", "page"}

(* The task's page: nothing of it is left over between attempts, and at a  *)
(* message it is a message of the log.                                     *)
PageOK ==
  /\ due <= sent
  /\ At("idle") => task = NoTask
  /\ At("attempt") => task.pages = 0 /\ task.msg = 0
  /\ At("fetch") => task.at <= sent /\ task.pages < MaxPages /\ task.msg \in {0, task.at + 1}
  /\ InPage => task.to <= sent /\ task.msg > 0 /\ task.msg <= task.to + 1
  /\ AtOne => task.msg <= task.to
  /\ mem.cursor # Null => mem.cursor <= sent

(* What says that a message is finished is true.                           *)
FinishedOK ==
  /\ \A m \in Msgs : disk.recovery[m] = "completed" => m \in handled
  /\ \A m \in Msgs : m \in disk.seen => m \in handled
  /\ \A m \in Msgs : mem.claims[m] = "committed" => m \in handled
  /\ task.step \in {"done", "committed"} => task.msg \in handled

(* Both cursors, and the place of the task, have only handled messages     *)
(* behind them.                                                            *)
Behind(c) == \A m \in Msgs : m <= c => m \in handled

BehindOK ==
  /\ Behind(disk.cursor)
  /\ mem.cursor # Null => Behind(mem.cursor)
  /\ At("fetch") => Behind(task.at)
  /\ InPage => Behind(task.msg - 1)

(* Only the message the task is at is claimed, until the commit.           *)
ClaimsOK ==
  \A m \in Msgs : mem.claims[m] = "inflight" => AtOne /\ ~At("committed") /\ m = task.msg

DoubtOK ==
  /\ DoubtIsOnDisk
  /\ At("claimed") => disk.recovery[task.msg] = "none"
  /\ task.step \in {"dispatch", "turn"} => disk.recovery[task.msg] = "processing"
  /\ task.step \in {"dispatch", "forget"} => turns[task.msg] = 0 \/ task.msg \in handled

(* No sync asks for a message again that is behind all of these.           *)
Passed(m) ==
  /\ m <= disk.cursor
  /\ mem.cursor # Null => m <= mem.cursor
  /\ At("fetch") => m <= task.at
  /\ InPage => m < task.msg

Begun(m) == turns[m] = 1 \/ (m \in handled /\ m \notin Events)

OnceOK ==
  \/ SlowReview
  \/ /\ \A m \in Msgs : turns[m] <= 1
     /\ \A m \in Msgs : Begun(m) => disk.recovery[m] # "none" \/ Passed(m)
     /\ task.step \in {"dispatch", "forget"} => turns[task.msg] = 0 /\ task.msg \notin handled

KfInv ==
  KfTypeOK /\ PageOK /\ FinishedOK /\ BehindOK /\ ClaimsOK /\ DoubtOK /\ OnceOK

-----------------------------------------------------------------------------
(* What the changes do to the records. *)

LEMMA NoTaskFields ==
  /\ NoTask \in Task /\ NoTask.step = "idle" /\ NoTask.attempt = 1 /\ NoTask.pages = 0
  /\ NoTask.msg = 0
BY DEF NoTask, Task, Steps

LEMMA StepFields ==
  ASSUME task \in Task, NEW step \in Steps, task' = [task EXCEPT !.step = step]
  PROVE  /\ task' \in Task /\ task'.step = step
         /\ task'.msg = task.msg /\ task'.to = task.to
BY DEF Task

LEMMA NextMessageFields ==
  ASSUME task \in Task, task.msg <= Log, NextMessage
  PROVE  /\ task' \in Task /\ task'.step = "page"
         /\ task'.msg = task.msg + 1 /\ task'.to = task.to
<1>1. task.msg + 1 \in 0..Log + 1
  BY DEF Task
<1> QED BY <1>1 DEF Task, Steps, NextMessage

LEMMA EndFields ==
  ASSUME task \in Task, dropped \in BOOLEAN, GiveUp \/ FailAttempt
  PROVE  /\ task' \in Task /\ dropped' \in BOOLEAN
         /\ (task'.step = "idle" /\ task' = NoTask) \/ task'.step = "attempt"
         /\ task'.pages = 0 /\ task'.msg = 0
<1>1. CASE GiveUp
  BY <1>1, NoTaskFields DEF GiveUp
<1>2. CASE FailAttempt /\ ~GiveUp
  <2>1. /\ task' = [NoTask EXCEPT !.step = "attempt", !.attempt = task.attempt + 1]
        /\ task.attempt # Attempts /\ UNCHANGED dropped
    BY <1>2 DEF FailAttempt
  <2>2. task.attempt + 1 \in 1..Attempts
    BY <2>1 DEF Task
  <2> DEFINE next == [NoTask EXCEPT !.step = "attempt", !.attempt = task.attempt + 1]
  <2>3. next \in Task /\ next.step = "attempt" /\ next.pages = 0 /\ next.msg = 0
    BY <2>2, NoTaskFields DEF Task, Steps
  <2> QED BY <2>1, <2>3
<1> QED BY <1>1, <1>2

LEMMA ReleaseFields ==
  ASSUME mem \in Memory, NEW m \in Msgs
  PROVE  /\ Release(m) \in Memory /\ Release(m).cursor = mem.cursor
         /\ Release(m).claims[m] # "inflight"
         /\ \A k \in Msgs : k # m => Release(m).claims[k] = mem.claims[k]
         /\ \A k \in Msgs : Release(m).claims[k] = "committed" => mem.claims[k] = "committed"
BY DEF Memory, Release, AfterRelease, Claims

LEMMA RecoveryFields ==
  ASSUME disk \in Disk, NEW m \in Msgs,
         NEW entry \in {"none", "processing", "quarantined", "completed"},
         disk' = [disk EXCEPT !.recovery[m] = entry]
  PROVE  /\ disk' \in Disk /\ disk'.cursor = disk.cursor /\ disk'.seen = disk.seen
         /\ disk'.recovery[m] = entry
         /\ \A k \in Msgs : k # m => disk'.recovery[k] = disk.recovery[k]
BY DEF Disk

LEMMA SpendType ==
  ASSUME spent \in Spent, NEW result, Spend(result)
  PROVE  spent' \in Spent
<1>1. CASE UNCHANGED spent
  BY <1>1
<1>2. CASE spent.errors < MaxErrors /\ spent' = [spent EXCEPT !.errors = @ + 1]
  <2>1. spent.errors + 1 \in 0..MaxErrors
    BY <1>2 DEF Spent
  <2> QED BY <1>2, <2>1 DEF Spent
<1> QED BY <1>1, <1>2 DEF Spend

-----------------------------------------------------------------------------
(* Three ways a step of the task can go. *)

(* The sync ends, or starts its next attempt.                              *)
LEMMA EndInv ==
  ASSUME KfInv, GiveUp \/ FailAttempt,
         UNCHANGED <<sent, due, service, queue, turns, handled>>, spent' \in Spent,
         mem' \in Memory, mem'.cursor = mem.cursor,
         \A m \in Msgs : /\ mem'.claims[m] # "inflight"
                         /\ mem'.claims[m] = "committed" => mem.claims[m] = "committed",
         disk' \in Disk, disk'.cursor = disk.cursor, disk'.seen = disk.seen,
         \A m \in Msgs : \/ disk'.recovery[m] \in {disk.recovery[m], "processing", "quarantined"}
                         \/ /\ disk'.recovery[m] = "none"
                            /\ turns[m] = 0 \/ m \in handled
                            /\ SlowReview \/ (turns[m] = 0 /\ m \notin handled)
  PROVE  KfInv'
<1>1. /\ task' \in Task /\ dropped' \in BOOLEAN
      /\ (task'.step = "idle" /\ task' = NoTask) \/ task'.step = "attempt"
      /\ task'.pages = 0 /\ task'.msg = 0
  BY EndFields DEF KfInv, KfTypeOK
<1>2. ~InPage' /\ ~AtOne' /\ ~At("fetch")' /\ ~At("claimed")'
  BY <1>1 DEF InPage, AtOne, At
<1>3. KfTypeOK'
  BY <1>1 DEF KfInv, KfTypeOK
<1>4. PageOK'
  BY <1>1, <1>2 DEF KfInv, PageOK, At
<1>5. FinishedOK'
  BY <1>1 DEF KfInv, FinishedOK
<1>6. BehindOK'
  BY <1>2 DEF KfInv, BehindOK, Behind
<1>7. ClaimsOK'
  BY DEF ClaimsOK
<1>8. DoubtOK'
  BY <1>1, <1>2 DEF KfInv, DoubtOK, DoubtIsOnDisk
<1>9. OnceOK'
  <2>1. \A m \in Msgs : Passed(m) => Passed(m)'
    BY <1>2 DEF Passed
  <2> QED BY <1>1, <2>1 DEF KfInv, OnceOK, Begun
<1> QED BY <1>3, <1>4, <1>5, <1>6, <1>7, <1>8, <1>9 DEF KfInv

(* The task goes on with its message.                                      *)
LEMMA StepInv ==
  ASSUME KfInv, AtOne,
         NEW step \in {"dispatch", "turn", "done", "committed", "forget", "doubt"},
         task' = [task EXCEPT !.step = step],
         UNCHANGED <<sent, due, service, queue, dropped>>, spent' \in Spent,
         mem' \in Memory, mem'.cursor = mem.cursor,
         \A m \in Msgs : mem'.claims[m] # mem.claims[m] =>
                          mem'.claims[m] = "committed" /\ m \in handled,
         step = "committed" => mem'.claims[task.msg] # "inflight",
         disk' \in Disk, disk'.cursor = disk.cursor,
         \A m \in disk'.seen \ disk.seen : m \in handled,
         \A m \in Msgs : m # task.msg => disk'.recovery[m] = disk.recovery[m],
         \/ disk'.recovery[task.msg] = disk.recovery[task.msg]
         \/ disk'.recovery[task.msg] = "processing"
         \/ disk'.recovery[task.msg] = "completed" /\ task.msg \in handled,
         handled' \in SUBSET Msgs, handled \subseteq handled',
         \/ handled' = handled
         \/ /\ handled' = handled \cup {task.msg}
            /\ task.msg \in Events \/ disk'.recovery[task.msg] # "none",
         step \in {"done", "committed"} => task.msg \in handled',
         turns' \in [Msgs -> Nat],
         \A m \in Msgs : m # task.msg => turns'[m] = turns[m],
         \/ turns'[task.msg] = turns[task.msg]
         \/ step = "turn" /\ (SlowReview \/ turns'[task.msg] = 1),
         step \in {"dispatch", "turn"} => disk'.recovery[task.msg] = "processing",
         step \in {"dispatch", "forget"} => /\ turns'[task.msg] = 0 \/ task.msg \in handled
                                            /\ \/ SlowReview
                                               \/ turns'[task.msg] = 0 /\ task.msg \notin handled'
  PROVE  KfInv'
<1>1. task' \in Task /\ task'.step = step /\ task'.msg = task.msg /\ task'.to = task.to
  BY StepFields DEF KfInv, KfTypeOK, Steps
<1>2. /\ InPage' /\ AtOne' /\ InPage /\ ~At("idle")' /\ ~At("attempt")'
      /\ ~At("fetch")' /\ ~At("claimed")'
  BY <1>1 DEF InPage, AtOne, At
<1>3. task.msg \in Msgs
  BY DEF KfInv, KfTypeOK, PageOK, Task, Msgs, InPage, AtOne
<1>4. KfTypeOK'
  BY <1>1 DEF KfInv, KfTypeOK
<1>5. PageOK'
  BY <1>1, <1>2 DEF KfInv, PageOK
<1>6. FinishedOK'
  BY <1>1, <1>3 DEF KfInv, FinishedOK
<1>7. BehindOK'
  BY <1>1, <1>2 DEF KfInv, BehindOK, Behind
<1>8. ClaimsOK'
  BY <1>1, <1>2 DEF KfInv, ClaimsOK, At
<1>9. DoubtOK'
  BY <1>1, <1>2, <1>3 DEF KfInv, DoubtOK, DoubtIsOnDisk
<1>10. OnceOK'
  <2>1. \A m \in Msgs : Passed(m) => Passed(m)'
    BY <1>1, <1>2 DEF Passed
  <2> QED BY <1>1, <1>3, <2>1 DEF KfInv, OnceOK, Begun
<1> QED BY <1>4, <1>5, <1>6, <1>7, <1>8, <1>9, <1>10 DEF KfInv

(* The task goes to the next message of its page.                          *)
LEMMA NextMessageInv ==
  ASSUME KfInv, InPage, task.msg <= task.to, NextMessage, task.msg \in handled,
         UNCHANGED <<sent, due, service, queue, turns, handled, dropped>>, spent' \in Spent,
         mem' \in Memory, mem'.cursor = mem.cursor,
         \A m \in Msgs : /\ mem'.claims[m] # "inflight"
                         /\ mem'.claims[m] = "committed" => m \in handled,
         disk' \in Disk, disk'.cursor = disk.cursor,
         \A m \in disk'.seen \ disk.seen : m \in handled,
         \A m \in Msgs : \/ disk'.recovery[m] = disk.recovery[m]
                         \/ disk'.recovery[m] = "completed" /\ m \in handled
  PROVE  KfInv'
<1>1. task.msg \in Msgs
  BY DEF KfInv, KfTypeOK, PageOK, Task, Msgs
<1>2. /\ task' \in Task /\ task'.step = "page"
      /\ task'.msg = task.msg + 1 /\ task'.to = task.to
  BY <1>1, NextMessageFields DEF KfInv, KfTypeOK, Msgs
<1>3. InPage' /\ ~AtOne' /\ ~At("fetch")' /\ ~At("claimed")' /\ ~At("idle")' /\ ~At("attempt")'
  BY <1>2 DEF InPage, AtOne, At
<1>4. KfTypeOK'
  BY <1>2 DEF KfInv, KfTypeOK
<1>5. PageOK'
  <2>1. task.msg \in Nat /\ task.to \in Nat
    BY DEF KfInv, KfTypeOK, Task
  <2>2. task'.msg > 0 /\ task'.msg <= task'.to + 1
    BY <1>2, <2>1 DEF KfInv, PageOK
  <2> QED BY <1>2, <1>3, <2>2 DEF KfInv, PageOK
<1>6. FinishedOK'
  BY <1>2 DEF KfInv, FinishedOK
<1>7. BehindOK'
  <2>1. \A m \in Msgs : m <= task.msg => m \in handled
    BY <1>1 DEF KfInv, BehindOK, Behind, Msgs
  <2> QED BY <1>1, <1>2, <1>3, <2>1 DEF KfInv, BehindOK, Behind, Msgs
<1>8. ClaimsOK'
  BY DEF ClaimsOK
<1>9. DoubtOK'
  BY <1>2, <1>3 DEF KfInv, DoubtOK, DoubtIsOnDisk
<1>10. OnceOK'
  <2>1. \A m \in Msgs : Passed(m) => Passed(m)'
    BY <1>1, <1>2, <1>3 DEF Passed, Msgs
  <2> QED BY <1>2, <2>1 DEF KfInv, OnceOK, Begun
<1> QED BY <1>4, <1>5, <1>6, <1>7, <1>8, <1>9, <1>10 DEF KfInv

-----------------------------------------------------------------------------
(* The actions of a sync. *)

LEMMA FailsInv ==
  ASSUME KfInv, FetchFails \/ NoticeAbort \/ MeetReview
  PROVE  KfInv'
<1>1. /\ GiveUp \/ FailAttempt
      /\ UNCHANGED <<sent, due, disk, mem, service, queue, turns, handled>>
      /\ spent' \in Spent
  BY SpendType DEF FetchFails, NoticeAbort, MeetReview, KfInv, KfTypeOK
<1>2. ~AtOne
  BY DEF FetchFails, NoticeAbort, MeetReview, AtMessage, Going, At, AtOne
<1>3. \A m \in Msgs : mem.claims[m] # "inflight"
  BY <1>2 DEF KfInv, ClaimsOK
<1> QED BY <1>1, <1>3, EndInv DEF KfInv, KfTypeOK

(* A claim that is given back leaves none behind.                          *)
LEMMA ReleaseThis ==
  ASSUME KfInv, AtOne
  PROVE  /\ This \in Msgs
         /\ Release(This) \in Memory /\ Release(This).cursor = mem.cursor
         /\ \A m \in Msgs : /\ Release(This).claims[m] # "inflight"
                            /\ Release(This).claims[m] = "committed" => mem.claims[m] = "committed"
<1>1. This \in Msgs
  BY DEF KfInv, KfTypeOK, PageOK, Task, Msgs, InPage, AtOne, This
<1>2. mem \in Memory
  BY DEF KfInv, KfTypeOK
<1>3. \A m \in Msgs : m # This => mem.claims[m] # "inflight"
  BY DEF KfInv, ClaimsOK, This
<1> QED BY <1>1, <1>2, <1>3, ReleaseFields

LEMMA EventFailsInv ==
  ASSUME KfInv, EventFails \/ (AbortBeforeCommit /\ ~Customer)
  PROVE  KfInv'
<1>1. /\ GiveUp \/ FailAttempt
      /\ mem' = Release(This)
      /\ UNCHANGED <<sent, due, disk, service, queue, turns, handled>>
      /\ spent' \in Spent
  BY SpendType DEF EventFails, AbortBeforeCommit, KfInv, KfTypeOK
<1>2. AtOne
  BY DEF EventFails, AbortBeforeCommit, At, AtOne
<1> QED BY <1>1, <1>2, ReleaseThis, EndInv DEF KfInv, KfTypeOK

LEMMA SkipFinishedInv ==
  ASSUME KfInv, SkipFinished
  PROVE  KfInv'
<1>1. /\ At("page") /\ task.msg <= task.to /\ disk.recovery[task.msg] = "completed"
      /\ NextMessage
      /\ UNCHANGED <<sent, due, disk, mem, service, queue, spent, turns, handled, dropped>>
  BY DEF SkipFinished, AtMessage, Going, Finished, This
<1>2. InPage /\ ~AtOne
  BY <1>1 DEF At, InPage, AtOne
<1>3. task.msg \in Msgs
  BY <1>1, <1>2 DEF KfInv, KfTypeOK, PageOK, Task, Msgs
<1>4. task.msg \in handled
  BY <1>1, <1>3 DEF KfInv, FinishedOK
<1> QED BY <1>1, <1>2, <1>4, NextMessageInv DEF KfInv, KfTypeOK, ClaimsOK, FinishedOK

LEMMA StepsInv ==
  ASSUME KfInv, EventHandled \/ Decline \/ TurnEnds \/ TurnFails
  PROVE  KfInv'
<1>1. /\ UNCHANGED <<sent, due, disk, mem, service, queue, spent, turns, dropped>>
      /\ \/ /\ task' = [task EXCEPT !.step = "done"] /\ handled' = handled \cup {task.msg}
            /\ task.msg \in Events \/ task.step \in {"dispatch", "turn"}
         \/ task' = [task EXCEPT !.step = "doubt"] /\ handled' = handled
  BY DEF EventHandled, Decline, TurnEnds, TurnFails, This, Customer, Going, At
<1>2. AtOne
  BY DEF EventHandled, Decline, TurnEnds, TurnFails, Going, At, AtOne
<1>3. task.msg \in Msgs
  BY <1>2, ReleaseThis DEF This
<1>4. CASE /\ task' = [task EXCEPT !.step = "done"] /\ handled' = handled \cup {task.msg}
           /\ task.msg \in Events \/ task.step \in {"dispatch", "turn"}
  <2>1. task.msg \in Events \/ disk.recovery[task.msg] = "processing"
    BY <1>4 DEF KfInv, DoubtOK
  <2> QED BY <1>1, <1>2, <1>3, <1>4, <2>1, StepInv DEF KfInv, KfTypeOK
<1>5. CASE task' = [task EXCEPT !.step = "doubt"] /\ handled' = handled
  BY <1>1, <1>2, <1>3, <1>5, StepInv DEF KfInv, KfTypeOK
<1> QED BY <1>1, <1>4, <1>5

LEMMA StartTurnInv ==
  ASSUME KfInv, StartTurn
  PROVE  KfInv'
<1>1. /\ At("dispatch") /\ task' = [task EXCEPT !.step = "turn"]
      /\ turns' = [turns EXCEPT ![task.msg] = @ + 1]
      /\ UNCHANGED <<sent, due, disk, mem, service, queue, spent, handled, dropped>>
  BY DEF StartTurn, Going, This
<1>2. AtOne
  BY <1>1 DEF At, AtOne
<1>3. task.msg \in Msgs /\ turns \in [Msgs -> Nat]
  BY <1>2, ReleaseThis DEF This, KfInv, KfTypeOK
<1>4. disk.recovery[task.msg] = "processing" /\ (SlowReview \/ turns[task.msg] = 0)
  BY <1>1 DEF KfInv, DoubtOK, OnceOK, At
<1>5. /\ turns' \in [Msgs -> Nat]
      /\ \A m \in Msgs : m # task.msg => turns'[m] = turns[m]
      /\ SlowReview \/ turns'[task.msg] = 1
  BY <1>1, <1>3, <1>4
<1> QED BY <1>1, <1>2, <1>4, <1>5, StepInv DEF KfInv, KfTypeOK

LEMMA DispatchFailsInv ==
  ASSUME KfInv, DispatchFails
  PROVE  KfInv'
<1>1. PICK step \in {"forget", "doubt"} : task' = [task EXCEPT !.step = step]
  BY DEF DispatchFails
<1>2. At("dispatch") /\ UNCHANGED <<sent, due, disk, mem, service, queue, spent, turns, handled, dropped>>
  BY DEF DispatchFails
<1>3. AtOne
  BY <1>2 DEF At, AtOne
<1>4. /\ turns[task.msg] = 0 \/ task.msg \in handled
      /\ SlowReview \/ (turns[task.msg] = 0 /\ task.msg \notin handled)
  BY <1>2 DEF KfInv, DoubtOK, OnceOK, At
<1> QED BY <1>1, <1>2, <1>3, <1>4, StepInv DEF KfInv, KfTypeOK

LEMMA ClaimMessageInv ==
  ASSUME KfInv, ClaimMessage
  PROVE  KfInv'
<1> DEFINE m == task.msg
<1>1. /\ At("page") /\ m <= task.to
      /\ ~Finished(m) /\ ~UnderReview(m)
      /\ mem' = [mem EXCEPT !.claims = AfterClaim(mem.claims, disk.seen, m)]
      /\ UNCHANGED <<sent, due, disk, service, queue, spent, turns, handled, dropped>>
  BY DEF ClaimMessage, AtMessage, Going, Claim, This
<1>2. InPage /\ ~AtOne
  BY <1>1 DEF At, InPage, AtOne
<1>3. m \in Msgs
  BY <1>1, <1>2 DEF KfInv, KfTypeOK, PageOK, Task, Msgs
<1>4. \A k \in Msgs : mem.claims[k] \in Claims \ {"inflight"}
  BY <1>2 DEF KfInv, KfTypeOK, ClaimsOK, Memory
<1>5. CASE Kind(m) = "claimed"
  <2>1. task' = [task EXCEPT !.step = "claimed"]
    BY <1>5 DEF ClaimMessage, This
  <2>2. AfterClaim(mem.claims, disk.seen, m) = [mem.claims EXCEPT ![m] = "inflight"]
    BY <1>5 DEF AfterClaim, Kind
  <2>3. /\ mem' \in Memory /\ mem'.cursor = mem.cursor
        /\ \A k \in Msgs : k # m => mem'.claims[k] = mem.claims[k]
        /\ mem'.claims[m] = "inflight"
    BY <1>1, <1>3, <2>2 DEF KfInv, KfTypeOK, Memory, Claims
  <2>4. task' \in Task /\ task'.step = "claimed" /\ task'.msg = m /\ task'.to = task.to
    BY <2>1, StepFields DEF KfInv, KfTypeOK, Steps
  <2>5. InPage' /\ AtOne' /\ ~At("fetch")' /\ ~At("idle")' /\ ~At("attempt")'
    BY <2>4 DEF InPage, AtOne, At
  <2>6. disk.recovery[m] = "none"
    BY <1>1, <1>3 DEF Finished, UnderReview, KfInv, KfTypeOK, Disk
  <2>7. KfTypeOK'
    BY <1>1, <2>3, <2>4 DEF KfInv, KfTypeOK
  <2>8. PageOK'
    BY <1>1, <1>2, <2>3, <2>4, <2>5 DEF KfInv, PageOK
  <2>9. FinishedOK'
    BY <1>1, <2>3, <2>4 DEF KfInv, FinishedOK
  <2>10. BehindOK'
    BY <1>1, <1>2, <2>3, <2>4, <2>5 DEF KfInv, BehindOK, Behind
  <2>11. ClaimsOK'
    BY <1>4, <2>3, <2>4, <2>5 DEF ClaimsOK, At
  <2>12. DoubtOK'
    BY <1>1, <2>4, <2>6 DEF KfInv, DoubtOK, DoubtIsOnDisk
  <2>13. OnceOK'
    <3>1. \A k \in Msgs : Passed(k) => Passed(k)'
      BY <1>1, <1>2, <2>3, <2>4, <2>5 DEF Passed
    <3> QED BY <1>1, <2>4, <3>1 DEF KfInv, OnceOK, Begun
  <2> QED BY <2>7, <2>8, <2>9, <2>10, <2>11, <2>12, <2>13 DEF KfInv
<1>6. CASE Kind(m) # "claimed"
  <2>1. NextMessage
    BY <1>6 DEF ClaimMessage, This
  <2>2. Kind(m) = "duplicate" /\ (mem.claims[m] = "committed" \/ m \in disk.seen)
    BY <1>3, <1>4, <1>6 DEF Kind, ClaimKind, Claims
  <2>3. m \in handled
    BY <1>3, <2>2 DEF KfInv, FinishedOK
  <2>4. AfterClaim(mem.claims, disk.seen, m) = [mem.claims EXCEPT ![m] = "committed"]
    BY <2>2 DEF AfterClaim, Kind
  <2>5. /\ mem' \in Memory /\ mem'.cursor = mem.cursor
        /\ \A k \in Msgs : k # m => mem'.claims[k] = mem.claims[k]
        /\ mem'.claims[m] = "committed"
    BY <1>1, <1>3, <2>4 DEF KfInv, KfTypeOK, Memory, Claims
  <2>6. \A k \in Msgs : /\ mem'.claims[k] # "inflight"
                        /\ mem'.claims[k] = "committed" => k \in handled
    BY <1>4, <2>3, <2>5 DEF KfInv, FinishedOK
  <2> QED BY <1>1, <1>2, <2>1, <2>3, <2>5, <2>6, NextMessageInv DEF KfInv, KfTypeOK
<1> QED BY <1>5, <1>6

(* A write of the entry of the message the task is at.                     *)
LEMMA EntryWritten ==
  ASSUME KfInv, AtOne, NEW result,
         NEW entry \in {"none", "processing", "quarantined", "completed"},
         disk' = IF result = "failed" THEN disk ELSE [disk EXCEPT !.recovery[This] = entry]
  PROVE  /\ disk' \in Disk /\ disk'.cursor = disk.cursor /\ disk'.seen = disk.seen
         /\ disk'.recovery[This] = IF result = "failed" THEN disk.recovery[This] ELSE entry
         /\ \A m \in Msgs : m # This => disk'.recovery[m] = disk.recovery[m]
<1>1. disk \in Disk /\ This \in Msgs
  BY ReleaseThis DEF KfInv, KfTypeOK
<1>2. CASE result = "failed"
  BY <1>1, <1>2
<1>3. CASE result # "failed"
  BY <1>1, <1>3, RecoveryFields
<1> QED BY <1>2, <1>3

LEMMA BeginInv ==
  ASSUME KfInv, NEW result \in Results, Begin(result)
  PROVE  KfInv'
<1>1. /\ At("claimed")
      /\ UNCHANGED <<sent, due, service, queue, turns, handled>>
      /\ disk' = IF result = "failed" THEN disk ELSE [disk EXCEPT !.recovery[This] = "processing"]
      /\ spent' \in Spent
  BY SpendType DEF Begin, KfInv, KfTypeOK
<1>2. AtOne
  BY <1>1 DEF At, AtOne
<1>3. /\ disk' \in Disk /\ disk'.cursor = disk.cursor /\ disk'.seen = disk.seen
      /\ disk'.recovery[This] = IF result = "failed" THEN disk.recovery[This] ELSE "processing"
      /\ \A m \in Msgs : m # This => disk'.recovery[m] = disk.recovery[m]
  BY <1>1, <1>2, EntryWritten
<1>4. This \in Msgs
  BY <1>2, ReleaseThis
<1>5. CASE result = "ok"
  <2>1. task' = [task EXCEPT !.step = "dispatch"] /\ UNCHANGED <<mem, dropped>>
    BY <1>5 DEF Begin
  <2>2. disk.recovery[This] = "none"
    BY <1>1 DEF KfInv, DoubtOK, This
  <2>3. turns[This] = 0 \/ This \in handled
    BY <1>4, <2>2 DEF KfInv, KfTypeOK, DoubtOK, DoubtIsOnDisk
  <2>4. SlowReview \/ (turns[This] = 0 /\ This \notin handled)
    <3>1. ~Passed(This)
      BY <1>1, <1>4 DEF Passed, InPage, At, This, Msgs
    <3>2. This \notin Events
      BY DEF Begin, Customer
    <3> QED BY <1>4, <2>2, <3>1, <3>2 DEF KfInv, KfTypeOK, OnceOK, Begun
  <2>5. disk'.recovery[This] = "processing"
    BY <1>3, <1>5
  <2> QED BY <1>1, <1>2, <1>3, <1>4, <2>1, <2>3, <2>4, <2>5, StepInv DEF KfInv, KfTypeOK, This
<1>6. CASE result # "ok"
  <2>1. mem' = Release(This) /\ FailAttempt
    BY <1>6 DEF Begin
  <2> QED BY <1>1, <1>2, <1>3, <2>1, ReleaseThis, EndInv
<1> QED BY <1>5, <1>6

LEMMA CommitInv ==
  ASSUME KfInv, Commit
  PROVE  KfInv'
<1>1. /\ At("done")
      /\ mem' = [mem EXCEPT !.claims = AfterCommit(mem.claims, This)]
      /\ UNCHANGED <<sent, due, service, queue, turns, handled, dropped>>
      /\ IF Customer THEN task' = [task EXCEPT !.step = "committed"] ELSE NextMessage
  BY DEF Commit, Going
<1>2. AtOne /\ InPage
  BY <1>1 DEF At, AtOne, InPage
<1>3. This \in Msgs /\ This \in handled
  BY <1>1, <1>2, ReleaseThis DEF KfInv, FinishedOK, At, This
<1>4. PICK seen \in Recorded(disk.seen, This) :
         /\ disk' = [disk EXCEPT !.seen = seen]
         /\ Spend(IF This \in seen THEN "ok" ELSE "failed")
  BY DEF Commit
<1>5. spent' \in Spent
  BY <1>4, SpendType DEF KfInv, KfTypeOK
<1>6. /\ disk' \in Disk /\ disk'.cursor = disk.cursor /\ disk'.recovery = disk.recovery
      /\ \A m \in disk'.seen \ disk.seen : m = This
  <2>1. disk \in Disk /\ seen \in {disk.seen \cup {This}, disk.seen}
    BY <1>4 DEF KfInv, KfTypeOK, Recorded
  <2>2. seen \in SUBSET Msgs
    BY <1>3, <2>1 DEF Disk
  <2>3. disk'.seen = seen
    BY <1>4, <2>1 DEF Disk
  <2> QED BY <1>4, <2>1, <2>2, <2>3 DEF Disk
<1>7. /\ mem' \in Memory /\ mem'.cursor = mem.cursor
      /\ mem'.claims[This] = "committed"
      /\ \A m \in Msgs : m # This => mem'.claims[m] = mem.claims[m]
  BY <1>1, <1>3 DEF KfInv, KfTypeOK, Memory, AfterCommit, Claims
<1>8. CASE Customer
  BY <1>1, <1>2, <1>3, <1>5, <1>6, <1>7, <1>8, StepInv DEF KfInv, KfTypeOK, This
<1>9. CASE ~Customer
  <2>1. \A m \in Msgs : /\ mem'.claims[m] # "inflight"
                        /\ mem'.claims[m] = "committed" => m \in handled
    BY <1>3, <1>7 DEF KfInv, ClaimsOK, FinishedOK, This
  <2>2. task.msg <= task.to
    BY <1>2 DEF KfInv, PageOK
  <2> QED BY <1>1, <1>2, <1>3, <1>5, <1>6, <1>7, <1>9, <2>1, <2>2, NextMessageInv DEF This
<1> QED BY <1>8, <1>9

LEMMA AbortBeforeCommitInv ==
  ASSUME KfInv, AbortBeforeCommit
  PROVE  KfInv'
<1>1. CASE ~Customer
  BY <1>1, EventFailsInv
<1>2. CASE Customer
  <2>1. /\ At("done") /\ task' = [task EXCEPT !.step = "doubt"]
        /\ UNCHANGED <<sent, due, disk, mem, service, queue, spent, turns, handled, dropped>>
    BY <1>2 DEF AbortBeforeCommit
  <2>2. AtOne
    BY <2>1 DEF At, AtOne
  <2> QED BY <2>1, <2>2, StepInv DEF KfInv, KfTypeOK
<1> QED BY <1>1, <1>2

LEMMA CompleteInv ==
  ASSUME KfInv, NEW result \in Results, Complete(result)
  PROVE  KfInv'
<1>1. /\ At("committed")
      /\ UNCHANGED <<sent, due, mem, service, queue, turns, handled, dropped>>
      /\ disk' = IF result = "failed" THEN disk ELSE [disk EXCEPT !.recovery[This] = "completed"]
      /\ spent' \in Spent
      /\ IF result = "ok" THEN NextMessage ELSE task' = [task EXCEPT !.step = "doubt"]
  BY SpendType DEF Complete, KfInv, KfTypeOK
<1>2. AtOne /\ InPage
  BY <1>1 DEF At, AtOne, InPage
<1>3. This \in Msgs /\ This \in handled
  BY <1>1, <1>2, ReleaseThis DEF KfInv, FinishedOK, At, This
<1>4. /\ disk' \in Disk /\ disk'.cursor = disk.cursor /\ disk'.seen = disk.seen
      /\ disk'.recovery[This] = IF result = "failed" THEN disk.recovery[This] ELSE "completed"
      /\ \A m \in Msgs : m # This => disk'.recovery[m] = disk.recovery[m]
  BY <1>1, <1>2, EntryWritten
<1>5. CASE result = "ok"
  <2>1. task.msg <= task.to
    BY <1>2 DEF KfInv, PageOK
  <2>2. \A m \in Msgs : /\ mem.claims[m] # "inflight"
                        /\ mem.claims[m] = "committed" => m \in handled
    BY <1>1, <1>3 DEF KfInv, ClaimsOK, FinishedOK, This
  <2> QED BY <1>1, <1>2, <1>3, <1>4, <1>5, <2>1, <2>2, NextMessageInv DEF KfInv, KfTypeOK, This
<1>6. CASE result # "ok"
  BY <1>1, <1>2, <1>3, <1>4, <1>6, StepInv DEF KfInv, KfTypeOK, This
<1> QED BY <1>5, <1>6

LEMMA ForgetInv ==
  ASSUME KfInv, NEW result \in Results, Forget(result)
  PROVE  KfInv'
<1>1. /\ At("forget")
      /\ UNCHANGED <<sent, due, service, queue, turns, handled>>
      /\ disk' = IF result = "failed" THEN disk ELSE [disk EXCEPT !.recovery[This] = "none"]
      /\ spent' \in Spent
      /\ GiveUp \/ FailAttempt
      /\ \/ mem' = [Release(This) EXCEPT !.volatile = @ \ {This}]
         \/ mem' = Release(This)
  BY SpendType DEF Forget, KfInv, KfTypeOK
<1>2. AtOne
  BY <1>1 DEF At, AtOne
<1>3. /\ disk' \in Disk /\ disk'.cursor = disk.cursor /\ disk'.seen = disk.seen
      /\ disk'.recovery[This] = IF result = "failed" THEN disk.recovery[This] ELSE "none"
      /\ \A m \in Msgs : m # This => disk'.recovery[m] = disk.recovery[m]
  BY <1>1, <1>2, EntryWritten
<1>4. /\ turns[This] = 0 \/ This \in handled
      /\ SlowReview \/ (turns[This] = 0 /\ This \notin handled)
  BY <1>1 DEF KfInv, DoubtOK, OnceOK, At, This
<1>5. mem' \in Memory /\ mem'.cursor = Release(This).cursor /\ mem'.claims = Release(This).claims
  BY <1>1, <1>2, ReleaseThis DEF Memory
<1> QED BY <1>1, <1>2, <1>3, <1>4, <1>5, ReleaseThis, EndInv

LEMMA DoubtInv ==
  ASSUME KfInv, NEW result \in Results, Doubt(result)
  PROVE  KfInv'
<1>1. /\ At("doubt")
      /\ UNCHANGED <<sent, due, service, queue, turns, handled>>
      /\ disk' = IF result = "failed" THEN disk ELSE [disk EXCEPT !.recovery[This] = "quarantined"]
      /\ spent' \in Spent
      /\ GiveUp
      /\ \/ mem' = [Release(This) EXCEPT !.volatile = @ \cup {This}]
         \/ mem' = Release(This)
  BY SpendType DEF Doubt, KfInv, KfTypeOK
<1>2. AtOne
  BY <1>1 DEF At, AtOne
<1>3. /\ disk' \in Disk /\ disk'.cursor = disk.cursor /\ disk'.seen = disk.seen
      /\ disk'.recovery[This] = IF result = "failed" THEN disk.recovery[This] ELSE "quarantined"
      /\ \A m \in Msgs : m # This => disk'.recovery[m] = disk.recovery[m]
  BY <1>1, <1>2, EntryWritten
<1>4. mem' \in Memory /\ mem'.cursor = Release(This).cursor /\ mem'.claims = Release(This).claims
  BY <1>1, <1>2, ReleaseThis DEF Memory
<1> QED BY <1>1, <1>2, <1>3, <1>4, ReleaseThis, EndInv

LEMMA BeginAttemptInv ==
  ASSUME KfInv, BeginAttempt
  PROVE  KfInv'
<1> DEFINE cursor == IF mem.cursor = Null THEN disk.cursor ELSE mem.cursor
<1>1. /\ At("attempt")
      /\ task' = [task EXCEPT !.step = "fetch", !.at = cursor]
      /\ mem' = [mem EXCEPT !.cursor = IF cursor = 0 THEN Null ELSE cursor]
      /\ UNCHANGED <<sent, due, disk, service, queue, spent, turns, handled, dropped>>
  BY DEF BeginAttempt, Going
<1>2. /\ cursor \in 0..Log /\ cursor <= sent /\ Behind(cursor)
      /\ \A m \in Msgs : Passed(m) => m <= cursor
  BY DEF KfInv, KfTypeOK, PageOK, BehindOK, Passed, Disk, Memory
<1>3. /\ task' \in Task /\ task'.step = "fetch" /\ task'.at = cursor
      /\ task'.pages = 0 /\ task'.msg = 0
  BY <1>1, <1>2 DEF KfInv, KfTypeOK, PageOK, At, Task, Steps
<1>4. /\ mem' \in Memory /\ mem'.claims = mem.claims
      /\ mem'.cursor # Null => mem'.cursor = cursor
  BY <1>1, <1>2 DEF KfInv, KfTypeOK, Memory
<1> HIDE DEF cursor
<1>5. ~InPage' /\ ~AtOne' /\ ~AtOne /\ ~At("idle")' /\ ~At("attempt")' /\ ~At("claimed")'
  BY <1>1, <1>3 DEF InPage, AtOne, At
<1>6. KfTypeOK'
  BY <1>1, <1>3, <1>4 DEF KfInv, KfTypeOK
<1>7. PageOK'
  BY <1>1, <1>2, <1>3, <1>4, <1>5 DEF KfInv, PageOK
<1>8. FinishedOK'
  BY <1>1, <1>3, <1>4 DEF KfInv, FinishedOK
<1>9. BehindOK'
  BY <1>1, <1>2, <1>3, <1>4, <1>5 DEF KfInv, BehindOK, Behind
<1>10. ClaimsOK'
  BY <1>4, <1>5 DEF KfInv, ClaimsOK
<1>11. DoubtOK'
  BY <1>1, <1>3, <1>5 DEF KfInv, DoubtOK, DoubtIsOnDisk
<1>12. OnceOK'
  <2>1. \A m \in Msgs : Passed(m) => Passed(m)'
    BY <1>1, <1>2, <1>3, <1>4, <1>5 DEF Passed
  <2> QED BY <1>1, <1>3, <2>1 DEF KfInv, OnceOK, Begun
<1> QED BY <1>6, <1>7, <1>8, <1>9, <1>10, <1>11, <1>12 DEF KfInv

LEMMA FetchInv ==
  ASSUME KfInv, Fetch
  PROVE  KfInv'
<1> DEFINE last == IF sent - task.at > PageSize THEN task.at + PageSize ELSE sent
           next == task.at + 1
           pages == task.pages + 1
           more == last < sent
<1>1. /\ At("fetch")
      /\ task' = [task EXCEPT !.step = "page", !.pages = pages, !.to = last,
                              !.more = more, !.msg = next]
      /\ UNCHANGED <<sent, due, disk, mem, service, queue, spent, turns, handled, dropped>>
  BY DEF Fetch, Going
<1>2. /\ last \in 0..Log /\ last <= sent /\ next \in 0..Log + 1 /\ next > 0 /\ next <= last + 1
      /\ pages \in 0..MaxPages /\ next - 1 = task.at
      /\ more \in BOOLEAN
  <2>1. /\ task.at \in 0..Log /\ sent \in 0..Log /\ task.pages \in 0..MaxPages
        /\ task.at <= sent /\ task.pages < MaxPages
    BY <1>1 DEF KfInv, KfTypeOK, PageOK, Task
  <2> QED BY <2>1
<1> HIDE DEF last, next, pages, more
<1>3. task' \in Task /\ task'.step = "page" /\ task'.to = last /\ task'.msg = next
  BY <1>1, <1>2 DEF KfInv, KfTypeOK, Task, Steps
<1>4. /\ InPage' /\ ~AtOne' /\ ~AtOne /\ ~At("idle")' /\ ~At("attempt")' /\ ~At("fetch")'
      /\ ~At("claimed")'
  BY <1>1, <1>3 DEF InPage, AtOne, At
<1>5. KfTypeOK'
  BY <1>1, <1>3 DEF KfInv, KfTypeOK
<1>6. PageOK'
  BY <1>1, <1>2, <1>3, <1>4 DEF KfInv, PageOK
<1>7. FinishedOK'
  BY <1>1, <1>3 DEF KfInv, FinishedOK
<1>8. BehindOK'
  BY <1>1, <1>2, <1>3, <1>4 DEF KfInv, BehindOK, Behind
<1>9. ClaimsOK'
  BY <1>1, <1>4 DEF KfInv, ClaimsOK
<1>10. DoubtOK'
  BY <1>1, <1>3, <1>4 DEF KfInv, DoubtOK, DoubtIsOnDisk
<1>11. OnceOK'
  <2>1. \A m \in Msgs : Passed(m) => m <= task.at
    BY <1>1 DEF Passed
  <2>2. \A m \in Msgs : m <= task.at => m < next
    BY <1>2 DEF KfInv, KfTypeOK, Task, Msgs
  <2>3. \A m \in Msgs : Passed(m) => Passed(m)'
    BY <1>1, <1>3, <1>4, <2>1, <2>2 DEF Passed
  <2> QED BY <1>1, <1>3, <2>3 DEF KfInv, OnceOK, Begun
<1> QED BY <1>5, <1>6, <1>7, <1>8, <1>9, <1>10, <1>11 DEF KfInv

(* The page is behind the task when its cursor is stored.                  *)
LEMMA SavePageInv ==
  ASSUME KfInv, NEW result \in Results, SavePage(result)
  PROVE  KfInv'
<1>1. /\ At("page") /\ task.msg > task.to
      /\ UNCHANGED <<sent, due, service, queue, turns, handled>>
      /\ disk' = IF result = "failed" THEN disk ELSE [disk EXCEPT !.cursor = task.to]
      /\ mem' = IF result = "ok" THEN [mem EXCEPT !.cursor = task.to] ELSE mem
      /\ spent' \in Spent
  BY SpendType DEF SavePage, Going, KfInv, KfTypeOK
<1>2. InPage /\ ~AtOne /\ ~At("fetch")
  BY <1>1 DEF At, InPage, AtOne
<1>3. /\ task.to \in 0..Log /\ task.to <= sent /\ task.to = task.msg - 1 /\ task.pages \in 0..MaxPages
  BY <1>1, <1>2 DEF KfInv, KfTypeOK, PageOK, Task
<1>4. Behind(task.to)
  BY <1>2, <1>3 DEF KfInv, BehindOK
<1>5. /\ disk' \in Disk /\ disk'.cursor \in {disk.cursor, task.to}
      /\ disk'.recovery = disk.recovery /\ disk'.seen = disk.seen
  BY <1>1, <1>3 DEF KfInv, KfTypeOK, Disk
<1>6. /\ mem' \in Memory /\ mem'.cursor \in {mem.cursor, task.to} /\ mem'.claims = mem.claims
  BY <1>1, <1>3 DEF KfInv, KfTypeOK, Memory
<1>7. /\ task' \in Task /\ dropped' \in BOOLEAN
      /\ \/ task'.step = "idle" /\ task' = NoTask
         \/ task'.step = "attempt" /\ task'.pages = 0 /\ task'.msg = 0
         \/ /\ task'.step = "fetch" /\ task'.at = task.to
            /\ task'.pages < MaxPages /\ task'.msg = task'.at + 1
  <2>1. CASE FailAttempt
    BY <2>1, EndFields DEF KfInv, KfTypeOK
  <2>2. CASE task' = NoTask /\ UNCHANGED dropped
    BY <2>2, NoTaskFields DEF KfInv, KfTypeOK
  <2>3. CASE task.pages # MaxPages /\ task' = [task EXCEPT !.step = "fetch", !.at = task.to] /\ UNCHANGED dropped
    <3>1. task'.step = "fetch" /\ task'.at = task.to /\ task'.msg = task.msg /\ task'.pages = task.pages
      BY <2>3 DEF KfInv, KfTypeOK, Task
    <3>2. task' \in Task
      BY <1>3, <2>3 DEF KfInv, KfTypeOK, Task, Steps
    <3>3. task.msg \in Nat
      BY DEF KfInv, KfTypeOK, Task
    <3> QED BY <1>3, <2>3, <3>1, <3>2, <3>3 DEF KfInv, KfTypeOK
  <2> QED BY <2>1, <2>2, <2>3 DEF SavePage
<1>8. ~InPage' /\ ~AtOne' /\ ~At("claimed")'
  BY <1>7 DEF InPage, AtOne, At
<1>9. KfTypeOK'
  BY <1>1, <1>3, <1>5, <1>6, <1>7 DEF KfInv, KfTypeOK
<1>10. PageOK'
  BY <1>1, <1>3, <1>6, <1>7, <1>8 DEF KfInv, PageOK, At
<1>11. FinishedOK'
  BY <1>1, <1>5, <1>6, <1>7 DEF KfInv, FinishedOK
<1>12. BehindOK'
  BY <1>1, <1>4, <1>5, <1>6, <1>7, <1>8 DEF KfInv, BehindOK, Behind, At
<1>13. ClaimsOK'
  BY <1>2, <1>6 DEF KfInv, ClaimsOK
<1>14. DoubtOK'
  BY <1>1, <1>5, <1>7, <1>8 DEF KfInv, DoubtOK, DoubtIsOnDisk
<1>15. OnceOK'
  <2>1. \A m \in Msgs : Passed(m) => m <= task.to
    BY <1>2, <1>3 DEF Passed, Msgs, KfInv, KfTypeOK, Task
  <2>2. \A m \in Msgs : Passed(m) => Passed(m)'
    BY <1>5, <1>6, <1>7, <1>8, <2>1 DEF Passed, At
  <2> QED BY <1>1, <1>5, <1>7, <2>2 DEF KfInv, OnceOK, Begun
<1> QED BY <1>9, <1>10, <1>11, <1>12, <1>13, <1>14, <1>15 DEF KfInv

-----------------------------------------------------------------------------
(* Notices, time, stops and crashes. *)

(* What changes only the notices, the service or the bounds.               *)
LEMMA AsideInv ==
  ASSUME KfInv, UNCHANGED <<disk, mem, task, turns, handled>>, KfTypeOK',
         due' <= sent', sent <= sent'
  PROVE  KfInv'
<1>1. UNCHANGED <<InPage, AtOne>>
  BY DEF InPage, AtOne
<1>2. PageOK'
  <2>1. task \in Task /\ mem \in Memory /\ sent \in Nat /\ sent' \in Nat
    BY DEF KfInv, KfTypeOK
  <2> QED BY <1>1, <2>1 DEF KfInv, PageOK, At, Task, Memory
<1>3. FinishedOK' /\ BehindOK'
  BY <1>1 DEF KfInv, FinishedOK, BehindOK, Behind, At
<1>4. ClaimsOK' /\ DoubtOK'
  BY <1>1 DEF KfInv, ClaimsOK, DoubtOK, DoubtIsOnDisk, At
<1>5. OnceOK'
  BY <1>1 DEF KfInv, OnceOK, Begun, Passed, At
<1> QED BY <1>2, <1>3, <1>4, <1>5 DEF KfInv

LEMMA ArriveInv ==
  ASSUME KfInv, Arrive
  PROVE  KfInv'
<1>1. /\ sent < Log /\ sent' = sent + 1 /\ due' = due + 1
      /\ UNCHANGED <<disk, mem, service, queue, task, spent, turns, handled, dropped>>
  BY DEF Arrive
<1>2. sent \in 0..Log /\ due \in 0..Log /\ due <= sent /\ disk.cursor \in 0..Log /\ disk.cursor <= sent
  BY DEF KfInv, KfTypeOK, PageOK, Disk
<1>3. sent' \in 0..Log /\ due' \in 0..Log /\ due' <= sent' /\ sent <= sent' /\ disk'.cursor <= sent'
  BY <1>1, <1>2
<1>4. KfTypeOK'
  BY <1>1, <1>3 DEF KfInv, KfTypeOK
<1> QED BY <1>1, <1>3, <1>4, AsideInv

LEMMA NoticeInv ==
  ASSUME KfInv, NEW answer \in {"ok", "failed"}, Notice(answer)
  PROVE  KfInv'
<1>1. /\ due > 0 /\ due' \in {due - 1, due} /\ queue' = Append(queue, FALSE) /\ dropped' = FALSE
      /\ UNCHANGED <<sent, disk, mem, service, task, turns, handled>>
      /\ spent' \in Spent
  BY SpendType DEF Notice, KfInv, KfTypeOK
<1>2. sent \in 0..Log /\ due \in 0..Log /\ due <= sent
  BY DEF KfInv, KfTypeOK, PageOK
<1>3. due' \in 0..Log /\ due' <= sent' /\ sent <= sent'
  BY <1>1, <1>2
<1>4. queue' \in Seq(BOOLEAN)
  BY <1>1 DEF KfInv, KfTypeOK
<1>5. KfTypeOK'
  BY <1>1, <1>3, <1>4 DEF KfInv, KfTypeOK
<1> QED BY <1>1, <1>3, <1>5, AsideInv

LEMMA ServiceInv ==
  ASSUME KfInv, StopEnds \/ Start
  PROVE  KfInv'
<1>1. /\ UNCHANGED <<sent, due, disk, mem, queue, task, spent, turns, handled, dropped>>
      /\ service' \in {"accepting", "drained", "timedOut"}
  BY DEF StopEnds, Start
<1>2. KfTypeOK' /\ due' <= sent' /\ sent <= sent'
  BY <1>1 DEF KfInv, KfTypeOK, PageOK
<1> QED BY <1>1, <1>2, AsideInv

LEMMA NextSyncInv ==
  ASSUME KfInv, NextSync
  PROVE  KfInv'
<1>1. /\ At("idle") /\ queue # << >>
      /\ task' = [NoTask EXCEPT !.step = "attempt", !.aborted = Head(queue)]
      /\ queue' = Tail(queue)
      /\ UNCHANGED <<sent, due, disk, mem, service, spent, turns, handled, dropped>>
  BY DEF NextSync, At
<1>2. Head(queue) \in BOOLEAN /\ queue' \in Seq(BOOLEAN)
  BY <1>1 DEF KfInv, KfTypeOK
<1>3. task' \in Task /\ task'.step = "attempt" /\ task'.pages = 0 /\ task'.msg = 0
  BY <1>1, <1>2, NoTaskFields DEF Task, Steps
<1>4. ~InPage' /\ ~AtOne' /\ ~AtOne /\ ~At("idle")' /\ ~At("fetch")' /\ ~At("claimed")'
  BY <1>1, <1>3 DEF InPage, AtOne, At
<1>5. KfTypeOK'
  BY <1>1, <1>2, <1>3 DEF KfInv, KfTypeOK
<1>6. PageOK'
  BY <1>1, <1>3, <1>4 DEF KfInv, PageOK
<1>7. FinishedOK' /\ BehindOK'
  BY <1>1, <1>3, <1>4 DEF KfInv, FinishedOK, BehindOK, Behind
<1>8. ClaimsOK' /\ DoubtOK'
  BY <1>1, <1>3, <1>4 DEF KfInv, ClaimsOK, DoubtOK, DoubtIsOnDisk
<1>9. OnceOK'
  <2>1. \A m \in Msgs : Passed(m) => Passed(m)'
    BY <1>1, <1>4 DEF Passed
  <2> QED BY <1>1, <1>3, <2>1 DEF KfInv, OnceOK, Begun
<1> QED BY <1>5, <1>6, <1>7, <1>8, <1>9 DEF KfInv

(* A stop sets signals.                                                    *)
LEMMA StopInv ==
  ASSUME KfInv, Stop
  PROVE  KfInv'
<1>1. /\ spent.stops < MaxStops /\ spent' = [spent EXCEPT !.stops = @ + 1]
      /\ service' = "stopping"
      /\ queue' = [n \in DOMAIN queue |-> TRUE]
      /\ task' = IF task = NoTask THEN task ELSE [task EXCEPT !.aborted = TRUE]
      /\ UNCHANGED <<sent, due, disk, mem, turns, handled, dropped>>
  BY DEF Stop
<1>2. queue' \in Seq(BOOLEAN)
  <2>1. queue \in Seq(BOOLEAN)
    BY DEF KfInv, KfTypeOK
  <2>2. PICK n \in Nat : DOMAIN queue = 1..n
    BY <2>1
  <2>3. queue' \in [1..n -> BOOLEAN]
    BY <1>1, <2>2
  <2> QED BY <2>3, SeqDef
<1>3. spent' \in Spent
  <2>1. spent \in Spent
    BY DEF KfInv, KfTypeOK
  <2>2. spent.stops + 1 \in 0..MaxStops
    BY <1>1, <2>1 DEF Spent
  <2> QED BY <1>1, <2>1, <2>2 DEF Spent
<1>4. /\ task' \in Task /\ task'.step = task.step /\ task'.msg = task.msg /\ task'.at = task.at
      /\ task'.to = task.to /\ task'.pages = task.pages
      /\ task = NoTask => task' = NoTask
  BY <1>1 DEF KfInv, KfTypeOK, Task
<1>5. UNCHANGED <<InPage, AtOne>> /\ \A step \in Steps : At(step)' <=> At(step)
  BY <1>4 DEF InPage, AtOne, At
<1>6. KfTypeOK'
  BY <1>1, <1>2, <1>3, <1>4 DEF KfInv, KfTypeOK
<1>7. PageOK'
  BY <1>1, <1>4, <1>5 DEF KfInv, PageOK, At
<1>8. FinishedOK' /\ BehindOK'
  BY <1>1, <1>4, <1>5 DEF KfInv, FinishedOK, BehindOK, Behind, At
<1>9. ClaimsOK' /\ DoubtOK'
  BY <1>1, <1>4, <1>5 DEF KfInv, ClaimsOK, DoubtOK, DoubtIsOnDisk, At
<1>10. OnceOK'
  BY <1>1, <1>4, <1>5 DEF KfInv, OnceOK, Begun, Passed, At
<1> QED BY <1>6, <1>7, <1>8, <1>9, <1>10 DEF KfInv

(* The memory is gone, the disk is as it is.                               *)
LEMMA CrashInv ==
  ASSUME KfInv, Crash
  PROVE  KfInv'
<1>1. /\ spent.crashes < MaxCrashes /\ spent' = [spent EXCEPT !.crashes = @ + 1]
      /\ service' = "timedOut" /\ mem' = NoMemory /\ queue' = << >> /\ task' = NoTask
      /\ dropped' = (dropped \/ task # NoTask \/ queue # << >>)
      /\ UNCHANGED <<sent, due, disk, turns, handled>>
  BY DEF Crash
<1>2. spent' \in Spent
  <2>1. spent \in Spent
    BY DEF KfInv, KfTypeOK
  <2>2. spent.crashes + 1 \in 0..MaxCrashes
    BY <1>1, <2>1 DEF Spent
  <2> QED BY <1>1, <2>1, <2>2 DEF Spent
<1>3. /\ mem' \in Memory /\ mem'.cursor = Null
      /\ \A m \in Msgs : mem'.claims[m] = "none"
  BY <1>1 DEF NoMemory, Memory, Claims
<1>4. ~InPage' /\ ~AtOne' /\ ~At("attempt")' /\ ~At("fetch")' /\ ~At("claimed")' /\ task'.step = "idle"
  BY <1>1, NoTaskFields DEF InPage, AtOne, At
<1>5. KfTypeOK'
  <2>1. dropped' \in BOOLEAN
    BY <1>1
  <2>2. queue' \in Seq(BOOLEAN)
    BY <1>1
  <2> QED BY <1>1, <1>2, <1>3, <2>1, <2>2, NoTaskFields DEF KfInv, KfTypeOK
<1>6. PageOK'
  BY <1>1, <1>3, <1>4 DEF KfInv, PageOK
<1>7. FinishedOK' /\ BehindOK'
  BY <1>1, <1>3, <1>4 DEF KfInv, FinishedOK, BehindOK, Behind
<1>8. ClaimsOK' /\ DoubtOK'
  BY <1>1, <1>3, <1>4 DEF KfInv, ClaimsOK, DoubtOK, DoubtIsOnDisk
<1>9. OnceOK'
  <2>1. \A m \in Msgs : Passed(m) => Passed(m)'
    BY <1>1, <1>3, <1>4 DEF Passed
  <2> QED BY <1>1, <1>4, <2>1 DEF KfInv, OnceOK, Begun
<1> QED BY <1>5, <1>6, <1>7, <1>8, <1>9 DEF KfInv

(* Without slow reviews, what expires is behind the cursors and the task.  *)
LEMMA ExpireInv ==
  ASSUME KfInv, NEW m \in Msgs, Expire(m)
  PROVE  KfInv'
<1>1. /\ task.step \in {"idle", "attempt"} \/ m < task.msg
      /\ disk.recovery[m] = "completed"
      /\ SlowReview \/ (m <= disk.cursor /\ mem.cursor # Null /\ m <= mem.cursor)
      /\ disk' = [disk EXCEPT !.recovery[m] = "none", !.seen = @ \ {m}]
      /\ mem' = [mem EXCEPT !.claims[m] = "none"]
      /\ UNCHANGED <<sent, due, service, queue, task, spent, turns, handled, dropped>>
  BY DEF Expire, Finished
<1>2. UNCHANGED <<InPage, AtOne>> /\ \A step \in Steps : At(step)' <=> At(step)
  BY <1>1 DEF InPage, AtOne, At
<1>3. /\ disk' \in Disk /\ disk'.cursor = disk.cursor /\ disk'.seen \subseteq disk.seen
      /\ disk'.recovery[m] = "none"
      /\ \A k \in Msgs : k # m => disk'.recovery[k] = disk.recovery[k]
  BY <1>1 DEF KfInv, KfTypeOK, Disk
<1>4. /\ mem' \in Memory /\ mem'.cursor = mem.cursor /\ mem'.claims[m] = "none"
      /\ \A k \in Msgs : k # m => mem'.claims[k] = mem.claims[k]
  BY <1>1 DEF KfInv, KfTypeOK, Memory, Claims
<1>5. m \in handled
  BY <1>1 DEF KfInv, FinishedOK
<1>6. AtOne => m # task.msg
  BY <1>1 DEF AtOne, Msgs
<1>7. KfTypeOK'
  BY <1>1, <1>3, <1>4 DEF KfInv, KfTypeOK
<1>8. PageOK'
  BY <1>1, <1>2, <1>4 DEF KfInv, PageOK, At
<1>9. FinishedOK' /\ BehindOK'
  BY <1>1, <1>2, <1>3, <1>4, <1>5 DEF KfInv, FinishedOK, BehindOK, Behind, At
<1>10. ClaimsOK'
  BY <1>1, <1>2, <1>4 DEF KfInv, ClaimsOK, At
<1>11. DoubtOK'
  <2>1. task.step \in {"claimed", "dispatch", "turn"} => task.msg \in Msgs /\ task.msg # m
    BY <1>6, ReleaseThis DEF AtOne, This
  <2> QED BY <1>1, <1>3, <1>5, <2>1 DEF KfInv, DoubtOK, DoubtIsOnDisk, At
<1>12. OnceOK'
  <2>1. \A k \in Msgs : Passed(k) => Passed(k)'
    BY <1>1, <1>2, <1>3, <1>4 DEF Passed, At
  <2>2. SlowReview \/ Passed(m)'
    <3>1. At("fetch") => m <= task.at
      BY <1>1 DEF KfInv, KfTypeOK, PageOK, At, Task, Msgs
    <3> QED BY <1>1, <1>2, <1>3, <1>4, <3>1 DEF Passed, InPage, At
  <2> QED BY <1>1, <1>3, <2>1, <2>2 DEF KfInv, OnceOK, Begun
<1> QED BY <1>7, <1>8, <1>9, <1>10, <1>11, <1>12 DEF KfInv

-----------------------------------------------------------------------------
(* The theorems. *)

LEMMA InitInv == Init => KfInv
<1> SUFFICES ASSUME Init PROVE KfInv
  OBVIOUS
<1>1. /\ disk \in Disk /\ disk.cursor = 0 /\ disk.seen = {}
      /\ \A m \in Msgs : disk.recovery[m] = "none"
  BY DEF Init, Disk
<1>2. mem \in Memory /\ mem.cursor = Null /\ \A m \in Msgs : mem.claims[m] = "none"
  BY DEF Init, NoMemory, Memory, Claims
<1>3. task \in Task /\ task = NoTask /\ task.step = "idle"
  BY NoTaskFields DEF Init
<1>4. ~InPage /\ ~AtOne /\ ~At("attempt") /\ ~At("fetch") /\ ~At("claimed")
  BY <1>3 DEF InPage, AtOne, At
<1>5. spent \in Spent
  BY DEF Init, Spent
<1>6. /\ sent = 0 /\ due = 0 /\ turns \in [Msgs -> Nat] /\ \A m \in Msgs : turns[m] = 0
      /\ handled = {} /\ dropped = FALSE /\ queue = << >> /\ service = "accepting"
  BY DEF Init
<1>7. KfTypeOK
  <2>1. queue \in Seq(BOOLEAN)
    BY <1>6
  <2>2. sent \in 0..Log /\ due \in 0..Log /\ disk.cursor <= sent
    BY <1>1, <1>6
  <2>3. service \in {"accepting", "stopping", "drained", "timedOut"} /\ handled \subseteq Msgs
        /\ dropped \in BOOLEAN
    BY <1>6
  <2> QED BY <1>1, <1>2, <1>3, <1>5, <1>6, <2>1, <2>2, <2>3 DEF KfTypeOK
<1>8. PageOK
  BY <1>2, <1>3, <1>4, <1>6 DEF PageOK
<1>9. FinishedOK /\ BehindOK
  BY <1>1, <1>2, <1>3, <1>4 DEF FinishedOK, BehindOK, Behind, Msgs
<1>10. ClaimsOK /\ DoubtOK /\ OnceOK
  BY <1>1, <1>2, <1>3, <1>4, <1>6 DEF ClaimsOK, DoubtOK, DoubtIsOnDisk, OnceOK, Begun
<1> QED BY <1>7, <1>8, <1>9, <1>10 DEF KfInv

LEMMA NextInv == KfInv /\ [Next]_kfVars => KfInv'
<1> SUFFICES ASSUME KfInv, [Next]_kfVars PROVE KfInv'
  OBVIOUS
<1>1. CASE UNCHANGED kfVars
  <2>1. UNCHANGED <<sent, due, disk, mem, service, queue, task, spent, turns, handled, dropped>>
    BY <1>1 DEF kfVars
  <2>2. KfTypeOK' /\ due' <= sent' /\ sent <= sent'
    BY <2>1 DEF KfInv, KfTypeOK, PageOK
  <2> QED BY <2>1, <2>2, AsideInv
<1>2. CASE Sync
  <2>1. ASSUME NEW result \in Results, SavePage(result) \/ Begin(result) \/ Complete(result)
                                        \/ Forget(result) \/ Doubt(result)
        PROVE  KfInv'
    BY <2>1, SavePageInv, BeginInv, CompleteInv, ForgetInv, DoubtInv
  <2>2. CASE \/ NextSync \/ BeginAttempt \/ Fetch \/ FetchFails \/ NoticeAbort
             \/ SkipFinished \/ MeetReview \/ ClaimMessage
    BY <2>2, NextSyncInv, BeginAttemptInv, FetchInv, FailsInv, SkipFinishedInv, ClaimMessageInv
  <2>3. CASE EventHandled \/ EventFails \/ Decline \/ TurnEnds \/ TurnFails
    BY <2>3, StepsInv, EventFailsInv
  <2>4. CASE StartTurn \/ DispatchFails \/ Commit \/ AbortBeforeCommit
    BY <2>4, StartTurnInv, DispatchFailsInv, CommitInv, AbortBeforeCommitInv
  <2> QED BY <1>2, <2>1, <2>2, <2>3, <2>4, Zenon DEF Sync
<1>3. ASSUME NEW answer \in {"ok", "failed"}, Notice(answer) PROVE KfInv'
  BY <1>3, NoticeInv
<1>4. ASSUME NEW m \in Msgs, Expire(m) PROVE KfInv'
  BY <1>4, ExpireInv
<1>5. CASE Arrive \/ Stop \/ StopEnds \/ Start \/ Crash
  BY <1>5, ArriveInv, StopInv, ServiceInv, CrashInv
<1> QED BY <1>1, <1>2, <1>3, <1>4, <1>5 DEF Next

LEMMA Invariant == Spec => []KfInv
<1> QED BY InitInv, NextInv, PTL DEF Spec

(* In particular the stored cursor is never ahead of the log, and a page   *)
(* has no more than MaxPages before it.                                    *)
THEOREM KfTypeCorrect == Spec => []KfTypeOK
<1>1. KfInv => KfTypeOK
  BY DEF KfInv
<1> QED BY <1>1, Invariant, PTL

(* The cursor passes only messages whose handling returned, whatever was   *)
(* claimed, retried, stopped or crashed before.                            *)
THEOREM KfNothingSkipped == Spec => []NothingSkipped
<1>1. KfInv => NothingSkipped
  BY DEF KfInv, KfTypeOK, Disk, BehindOK, Behind, NothingSkipped, Msgs
<1> QED BY <1>1, Invariant, PTL

(* A turn in doubt has its entry on disk, also when the write that should  *)
(* put it under review failed.                                             *)
THEOREM KfDoubtIsOnDisk == Spec => []DoubtIsOnDisk
<1>1. KfInv => DoubtIsOnDisk
  BY DEF KfInv, DoubtOK
<1> QED BY <1>1, Invariant, PTL

(* One turn per message, if no review takes longer than the entries keep.  *)
THEOREM KfOneTurn == ~SlowReview /\ Spec => []OneTurnPerMessage
<1>1. ~SlowReview /\ KfInv => OneTurnPerMessage
  BY DEF KfInv, OnceOK, OneTurnPerMessage
<1>2. CASE SlowReview
  BY <1>2
<1>3. CASE ~SlowReview
  <2>1. KfInv => OneTurnPerMessage
    BY <1>1, <1>3
  <2> QED BY <2>1, Invariant, PTL
<1> QED BY <1>2, <1>3

-----------------------------------------------------------------------------
(* KfSync implements InboundCustody. *)

(* A page that is fetched again, because its cursor was stored and the     *)
(* write reported as failed, ends no earlier than that cursor: the cursor  *)
(* in memory is at most a page behind it.                                  *)
CursorOK ==
  /\ mem.cursor # Null => disk.cursor <= mem.cursor + PageSize
  /\ At("fetch") => disk.cursor <= task.at + PageSize
  /\ InPage => disk.cursor <= task.to /\ task.to <= task.at + PageSize
  /\ At("fetch") \/ InPage => mem.cursor \in {Null, task.at}

CustodyInv == KfInv /\ CursorOK

LEMMA CursorKept ==
  ASSUME CursorOK, disk'.cursor = disk.cursor, mem'.cursor = mem.cursor,
         \/ ~At("fetch")' /\ ~InPage'
         \/ /\ At("fetch")' => At("fetch")
            /\ InPage' => InPage
            /\ task'.at = task.at /\ task'.to = task.to
  PROVE  CursorOK'
BY DEF CursorOK

LEMMA Ended ==
  ASSUME KfInv, GiveUp \/ FailAttempt
  PROVE  ~At("fetch")' /\ ~InPage'
<1>1. task'.step \in {"idle", "attempt"}
  BY EndFields DEF KfInv, KfTypeOK
<1> QED BY <1>1 DEF At, InPage

LEMMA GoesOn ==
  ASSUME KfInv, AtOne \/ At("page"),
         NextMessage \/ (\E step \in Steps \ {"idle", "attempt", "fetch"} :
                           task' = [task EXCEPT !.step = step])
  PROVE  /\ ~At("fetch")' /\ InPage
         /\ task'.at = task.at /\ task'.to = task.to
<1>1. task \in Task
  BY DEF KfInv, KfTypeOK
<1>2. InPage
  BY DEF AtOne, At, InPage
<1>3. CASE NextMessage
  BY <1>1, <1>2, <1>3 DEF NextMessage, Task, At
<1>4. ASSUME NEW step \in Steps \ {"idle", "attempt", "fetch"}, task' = [task EXCEPT !.step = step]
      PROVE  ~At("fetch")' /\ task'.at = task.at /\ task'.to = task.to
  BY <1>1, <1>4 DEF Task, At
<1> QED BY <1>2, <1>3, <1>4

LEMMA MemoryCursor ==
  ASSUME KfInv, AtOne,
         \/ mem' = mem
         \/ mem' = Release(This)
         \/ \E messages : mem' = [Release(This) EXCEPT !.volatile = messages]
         \/ \E states : mem' = [mem EXCEPT !.claims = states]
  PROVE  mem'.cursor = mem.cursor
<1>1. mem \in Memory /\ Release(This) \in Memory /\ Release(This).cursor = mem.cursor
  BY ReleaseThis DEF KfInv, KfTypeOK
<1> QED BY <1>1 DEF Memory

LEMMA MessageCursor ==
  ASSUME CustodyInv,
         \/ SkipFinished \/ MeetReview \/ ClaimMessage \/ EventHandled \/ EventFails
         \/ Decline \/ StartTurn \/ DispatchFails \/ TurnEnds \/ TurnFails \/ AbortBeforeCommit
  PROVE  CursorOK' /\ disk' = disk
<1>1. disk' = disk
  BY DEF SkipFinished, MeetReview, ClaimMessage, EventHandled, EventFails, Decline, StartTurn,
         DispatchFails, TurnEnds, TurnFails, AbortBeforeCommit
<1>2. AtOne \/ At("page")
  BY DEF SkipFinished, MeetReview, ClaimMessage, EventHandled, EventFails, Decline, StartTurn,
         DispatchFails, TurnEnds, TurnFails, AbortBeforeCommit, AtMessage, Going, At, AtOne
<1>3. mem'.cursor = mem.cursor
  <2>1. CASE SkipFinished \/ MeetReview \/ EventHandled \/ Decline \/ StartTurn \/ DispatchFails
             \/ TurnEnds \/ TurnFails
    BY <2>1 DEF SkipFinished, MeetReview, EventHandled, Decline, StartTurn, DispatchFails,
                TurnEnds, TurnFails
  <2>2. CASE EventFails \/ AbortBeforeCommit
    <3>1. AtOne /\ (mem' = mem \/ mem' = Release(This))
      BY <2>2 DEF EventFails, AbortBeforeCommit, At, AtOne
    <3> QED BY <3>1, MemoryCursor DEF CustodyInv
  <2>3. CASE ClaimMessage
    BY <2>3 DEF ClaimMessage, Claim, CustodyInv, KfInv, KfTypeOK, Memory
  <2> QED BY <2>1, <2>2, <2>3
<1>4. \/ GiveUp \/ FailAttempt \/ NextMessage
      \/ \E step \in Steps \ {"idle", "attempt", "fetch"} : task' = [task EXCEPT !.step = step]
  BY DEF SkipFinished, MeetReview, ClaimMessage, EventHandled, EventFails, Decline, StartTurn,
         DispatchFails, TurnEnds, TurnFails, AbortBeforeCommit, Steps
<1>5. CASE GiveUp \/ FailAttempt
  BY <1>1, <1>3, <1>5, Ended, CursorKept DEF CustodyInv
<1>6. CASE \/ NextMessage
           \/ \E step \in Steps \ {"idle", "attempt", "fetch"} : task' = [task EXCEPT !.step = step]
  BY <1>1, <1>2, <1>3, <1>6, GoesOn, CursorKept DEF CustodyInv
<1> QED BY <1>1, <1>4, <1>5, <1>6

LEMMA EntryCursor ==
  ASSUME CustodyInv, NEW result \in Results,
         Commit \/ Begin(result) \/ Complete(result) \/ Forget(result) \/ Doubt(result)
  PROVE  CursorOK' /\ disk'.cursor = disk.cursor
<1>1. AtOne
  BY DEF Commit, Begin, Complete, Forget, Doubt, Going, At, AtOne
<1>2. disk'.cursor = disk.cursor
  BY DEF Commit, Begin, Complete, Forget, Doubt, CustodyInv, KfInv, KfTypeOK, Disk
<1>3. mem'.cursor = mem.cursor
  <2>1. \/ mem' = mem
        \/ mem' = Release(This)
        \/ \E messages : mem' = [Release(This) EXCEPT !.volatile = messages]
        \/ \E states : mem' = [mem EXCEPT !.claims = states]
    BY DEF Commit, Begin, Complete, Forget, Doubt
  <2> QED BY <1>1, <2>1, MemoryCursor DEF CustodyInv
<1>4. \/ GiveUp \/ FailAttempt \/ NextMessage
      \/ \E step \in Steps \ {"idle", "attempt", "fetch"} : task' = [task EXCEPT !.step = step]
  BY DEF Commit, Begin, Complete, Forget, Doubt, Steps
<1>5. CASE GiveUp \/ FailAttempt
  BY <1>2, <1>3, <1>5, Ended, CursorKept DEF CustodyInv
<1>6. CASE \/ NextMessage
           \/ \E step \in Steps \ {"idle", "attempt", "fetch"} : task' = [task EXCEPT !.step = step]
  BY <1>1, <1>2, <1>3, <1>6, GoesOn, CursorKept DEF CustodyInv
<1> QED BY <1>2, <1>4, <1>5, <1>6

LEMMA AttemptCursor ==
  ASSUME CustodyInv, BeginAttempt
  PROVE  CursorOK' /\ disk' = disk
<1> DEFINE cursor == IF mem.cursor = Null THEN disk.cursor ELSE mem.cursor
<1>1. /\ task' = [task EXCEPT !.step = "fetch", !.at = cursor]
      /\ mem' = [mem EXCEPT !.cursor = IF cursor = 0 THEN Null ELSE cursor]
      /\ disk' = disk
  BY DEF BeginAttempt
<1>2. cursor \in Nat /\ disk.cursor \in Nat /\ disk.cursor <= cursor + PageSize
  BY DEF CustodyInv, CursorOK, KfInv, KfTypeOK, Disk, Memory
<1> HIDE DEF cursor
<1>3. task'.step = "fetch" /\ task'.at = cursor
  BY <1>1 DEF CustodyInv, KfInv, KfTypeOK, Task
<1>4. mem'.cursor \in {Null, cursor}
  BY <1>1 DEF CustodyInv, KfInv, KfTypeOK, Memory
<1> QED BY <1>1, <1>2, <1>3, <1>4 DEF CursorOK, At, InPage

LEMMA FetchCursor ==
  ASSUME CustodyInv, Fetch
  PROVE  CursorOK' /\ disk' = disk
<1> DEFINE last == IF sent - task.at > PageSize THEN task.at + PageSize ELSE sent
<1>1. /\ At("fetch") /\ UNCHANGED <<disk, mem>>
      /\ task' = [task EXCEPT !.step = "page", !.pages = @ + 1, !.to = last,
                              !.more = last < sent, !.msg = task.at + 1]
  BY DEF Fetch, Going
<1>2. last <= task.at + PageSize /\ disk.cursor <= last
  BY <1>1 DEF CustodyInv, CursorOK, KfInv, KfTypeOK, Disk, Task
<1> HIDE DEF last
<1>3. task'.step = "page" /\ task'.at = task.at /\ task'.to = last
  BY <1>1 DEF CustodyInv, KfInv, KfTypeOK, Task
<1> QED BY <1>1, <1>2, <1>3 DEF CustodyInv, CursorOK, At, InPage

(* The only step that moves the stored cursor, and it moves forward.       *)
LEMMA SaveCursor ==
  ASSUME CustodyInv, NEW result \in Results, SavePage(result)
  PROVE  CursorOK' /\ disk.cursor <= disk'.cursor
<1>1. /\ At("page")
      /\ disk' = IF result = "failed" THEN disk ELSE [disk EXCEPT !.cursor = task.to]
      /\ mem' = IF result = "ok" THEN [mem EXCEPT !.cursor = task.to] ELSE mem
  BY DEF SavePage, Going
<1>2. InPage
  BY <1>1 DEF At, InPage
<1>3. /\ disk.cursor \in Nat /\ task.to \in Nat /\ task.at \in Nat
      /\ disk.cursor <= task.to /\ task.to <= task.at + PageSize
      /\ mem.cursor \in {Null, task.at}
  BY <1>2 DEF CustodyInv, CursorOK, KfInv, KfTypeOK, Disk, Task
<1>4. /\ disk'.cursor = IF result = "failed" THEN disk.cursor ELSE task.to
      /\ mem'.cursor = IF result = "ok" THEN task.to ELSE mem.cursor
  BY <1>1 DEF CustodyInv, KfInv, KfTypeOK, Disk, Memory
<1>5. mem'.cursor # Null => disk'.cursor <= mem'.cursor + PageSize
  BY <1>3, <1>4 DEF CustodyInv, CursorOK
<1>6. CASE FailAttempt
  BY <1>3, <1>4, <1>5, <1>6, Ended DEF CustodyInv, CursorOK
<1>7. CASE task' = NoTask
  BY <1>3, <1>4, <1>5, <1>7, NoTaskFields DEF CursorOK, At, InPage
<1>8. CASE result = "ok" /\ task' = [task EXCEPT !.step = "fetch", !.at = task.to]
  <2>1. task'.step = "fetch" /\ task'.at = task.to
    BY <1>8 DEF CustodyInv, KfInv, KfTypeOK, Task
  <2> QED BY <1>3, <1>4, <1>5, <1>8, <2>1 DEF CursorOK, At, InPage
<1>9. FailAttempt \/ task' = NoTask
      \/ (result = "ok" /\ task' = [task EXCEPT !.step = "fetch", !.at = task.to])
  BY DEF SavePage
<1> QED BY <1>3, <1>4, <1>6, <1>7, <1>8, <1>9

LEMMA AroundCursor ==
  ASSUME CustodyInv,
         \/ NextSync \/ FetchFails \/ NoticeAbort \/ Arrive \/ Stop \/ StopEnds \/ Start \/ Crash
         \/ \E answer \in {"ok", "failed"} : Notice(answer)
         \/ \E m \in Msgs : Expire(m)
  PROVE  CursorOK' /\ disk'.cursor = disk.cursor
<1>1. disk'.cursor = disk.cursor
  BY DEF NextSync, FetchFails, NoticeAbort, Arrive, Stop, StopEnds, Start, Crash, Notice, Expire,
         CustodyInv, KfInv, KfTypeOK, Disk
<1>2. CASE Crash
  BY <1>1, <1>2, NoTaskFields DEF Crash, NoMemory, CursorOK, At, InPage
<1>3. CASE ~Crash
  <2>1. mem'.cursor = mem.cursor
    BY <1>3 DEF NextSync, FetchFails, NoticeAbort, Arrive, Stop, StopEnds, Start, Notice, Expire,
                CustodyInv, KfInv, KfTypeOK, Memory
  <2>2. CASE NextSync
    <3>1. task'.step = "attempt"
      BY <2>2 DEF NextSync, NoTask
    <3> QED BY <1>1, <2>1, <3>1, CursorKept DEF CustodyInv, At, InPage
  <2>3. CASE FetchFails \/ NoticeAbort
    BY <1>1, <2>1, <2>3, Ended, CursorKept DEF CustodyInv, FetchFails, NoticeAbort
  <2>4. CASE ~NextSync /\ ~FetchFails /\ ~NoticeAbort
    <3>1. task'.step = task.step /\ task'.at = task.at /\ task'.to = task.to
      BY <1>3, <2>4 DEF Arrive, Stop, StopEnds, Start, Notice, Expire, CustodyInv, KfInv, KfTypeOK, Task
    <3> QED BY <1>1, <2>1, <3>1, CursorKept DEF CustodyInv, At, InPage
  <2> QED BY <2>2, <2>3, <2>4
<1> QED BY <1>1, <1>2, <1>3

LEMMA CursorStep ==
  ASSUME CustodyInv, [Next]_kfVars
  PROVE  /\ CustodyInv' /\ disk.cursor <= disk'.cursor
         /\ disk'.cursor = disk.cursor \/ (\E result \in Results : SavePage(result))
<1>1. KfInv'
  BY NextInv DEF CustodyInv
<1>2. disk.cursor \in Nat
  BY DEF CustodyInv, KfInv, KfTypeOK, Disk
<1>3. CASE UNCHANGED kfVars
  BY <1>1, <1>2, <1>3, CursorKept DEF CustodyInv, kfVars, At, InPage
<1>4. CASE \E result \in Results : SavePage(result)
  BY <1>1, <1>4, SaveCursor DEF CustodyInv
<1>5. CASE Next /\ ~(\E result \in Results : SavePage(result))
  <2>1. CursorOK' /\ disk'.cursor = disk.cursor
    <3>1. ASSUME NEW result \in Results,
                 Commit \/ Begin(result) \/ Complete(result) \/ Forget(result) \/ Doubt(result)
          PROVE  CursorOK' /\ disk'.cursor = disk.cursor
      BY <3>1, EntryCursor
    <3>2. "ok" \in Results
      BY DEF Results
    <3>3. CASE \/ SkipFinished \/ MeetReview \/ ClaimMessage \/ EventHandled \/ EventFails
               \/ Decline \/ StartTurn \/ DispatchFails \/ TurnEnds \/ TurnFails \/ AbortBeforeCommit
      BY <3>3, MessageCursor
    <3>4. CASE BeginAttempt \/ Fetch
      BY <3>4, AttemptCursor, FetchCursor
    <3>5. CASE \/ NextSync \/ FetchFails \/ NoticeAbort \/ Arrive \/ Stop \/ StopEnds \/ Start \/ Crash
               \/ \E answer \in {"ok", "failed"} : Notice(answer)
               \/ \E m \in Msgs : Expire(m)
      BY <3>5, AroundCursor
    <3> QED BY <1>5, <3>1, <3>2, <3>3, <3>4, <3>5, Zenon DEF Next, Sync
  <2> QED BY <1>1, <1>2, <2>1 DEF CustodyInv
<1> QED BY <1>3, <1>4, <1>5

LEMMA StepCustody ==
  ASSUME ~SlowReview, CustodyInv, [Next]_kfVars
  PROVE  [Custody!Next]_(Custody!custodyVars)
<1>1. /\ disk.cursor \in Nat /\ disk'.cursor \in Nat /\ disk.cursor <= disk'.cursor
      /\ disk'.cursor = disk.cursor \/ (\E result \in Results : SavePage(result))
  BY CursorStep DEF CustodyInv, KfInv, KfTypeOK, Disk
<1>2. CASE disk'.cursor # disk.cursor
  <2>1. UNCHANGED <<turns, handled>>
    BY <1>1, <1>2 DEF SavePage
  <2>2. 1..disk'.cursor \subseteq handled
    BY <1>1, <2>1, NextInv DEF CustodyInv, KfInv, KfTypeOK, BehindOK, Behind, Disk, Msgs
  <2>3. 1..disk'.cursor = (1..disk.cursor) \cup (1..disk'.cursor)
    BY <1>1
  <2>4. 1..disk'.cursor \subseteq Msgs
    BY <2>2 DEF CustodyInv, KfInv, KfTypeOK
  <2>5. Custody!LetGo(1..disk'.cursor, {})
    BY <2>1, <2>2, <2>3 DEF Custody!LetGo
  <2> QED BY <2>4, <2>5 DEF Custody!Next
<1>3. CASE disk'.cursor = disk.cursor /\ UNCHANGED <<turns, handled>>
  BY <1>3 DEF Custody!custodyVars
<1>4. CASE StartTurn
  <2>1. /\ At("dispatch") /\ turns' = [turns EXCEPT ![This] = @ + 1]
        /\ UNCHANGED <<disk, handled>>
    BY <1>4 DEF StartTurn, Going
  <2>2. This \in Msgs /\ turns \in [Msgs -> Nat] /\ turns[This] = 0 /\ This \notin handled
    BY <2>1, ReleaseThis DEF CustodyInv, KfInv, KfTypeOK, OnceOK, At, AtOne, This
  <2>3. turns' = [turns EXCEPT ![This] = 1]
    BY <2>1, <2>2
  <2>4. Custody!Begin(This)
    BY <2>1, <2>2, <2>3 DEF Custody!Begin
  <2> QED BY <2>2, <2>4 DEF Custody!Next
<1>5. CASE EventHandled \/ Decline \/ TurnEnds
  <2>1. UNCHANGED <<disk, turns>> /\ handled' = handled \cup {This}
    BY <1>5 DEF EventHandled, Decline, TurnEnds
  <2>2. This \in Msgs
    BY <1>5, ReleaseThis DEF CustodyInv, EventHandled, Decline, TurnEnds, Going, At, AtOne
  <2>3. CASE This \in handled
    BY <2>1, <2>3 DEF Custody!custodyVars
  <2>4. CASE This \notin handled
    <3>1. Custody!Finish(This)
      BY <2>1, <2>4 DEF Custody!Finish
    <3> QED BY <2>2, <3>1 DEF Custody!Next
  <2> QED BY <2>3, <2>4
<1>6. StartTurn \/ EventHandled \/ Decline \/ TurnEnds \/ UNCHANGED <<turns, handled>>
  <2>1. CASE UNCHANGED kfVars
    BY <2>1 DEF kfVars
  <2>2. CASE Sync
    BY <2>2 DEF Sync, NextSync, BeginAttempt, Fetch, FetchFails, NoticeAbort, SkipFinished,
                MeetReview, ClaimMessage, EventFails, DispatchFails, TurnFails, Commit,
                AbortBeforeCommit, SavePage, Begin, Complete, Forget, Doubt
  <2>3. CASE Next /\ ~Sync
    BY <2>3 DEF Next, Arrive, Notice, Expire, Stop, StopEnds, Start, Crash
  <2> QED BY <2>1, <2>2, <2>3
<1> QED BY <1>2, <1>3, <1>4, <1>5, <1>6

LEMMA InitCustody == Init => CustodyInv /\ Custody!Init
<1> SUFFICES ASSUME Init PROVE CustodyInv /\ Custody!Init
  OBVIOUS
<1>1. disk.cursor = 0 /\ mem.cursor = Null /\ task.step = "idle"
  BY NoTaskFields DEF Init, NoMemory
<1>2. CursorOK
  BY <1>1 DEF CursorOK, At, InPage
<1>3. 1..disk.cursor = {}
  BY <1>1
<1> QED BY <1>2, <1>3, InitInv DEF CustodyInv, Init, Custody!Init

(* The cursor, the recovery entries and the dedupe file keep the promise   *)
(* of InboundCustody, if no review takes longer than the entries keep.     *)
THEOREM KfImplementsInboundCustody == ~SlowReview => (Spec => ImplementsInboundCustody)
<1> SUFFICES ASSUME ~SlowReview PROVE Spec => ImplementsInboundCustody
  OBVIOUS
<1>1. CustodyInv /\ [Next]_kfVars => CustodyInv' /\ [Custody!Next]_(Custody!custodyVars)
  BY CursorStep, StepCustody
<1> QED BY <1>1, InitCustody, PTL DEF Spec, ImplementsInboundCustody, Custody!Spec

=============================================================================
