------------------------- MODULE DouyinInboxProofs -------------------------
(***************************************************************************)
(* Proofs about DouyinInbox, for any number of messages, any capacities    *)
(* and any number of failed writes, failures, stops and crashes.           *)
(***************************************************************************)
EXTENDS DouyinInbox, FiniteSetTheorems, TLAPS

USE InboxAssumption

-----------------------------------------------------------------------------
(* The inductive invariant. *)

(* Where a message is once its turn may have begun: what is there is never *)
(* dispatched again.                                                       *)
Parked == {"processing", "review", "deadReview"}

(* What a state of the inbox, on disk or in memory, says of a message fits *)
(* what happened to it.                                                    *)
Truthful(state) ==
  \A m \in Msgs :
    /\ turns[m] > 0 \/ m \in settled => state[m].place \in Parked \cup {"completed", "expired"}
    /\ claims[m] = "inflight" => state[m].place \in Parked
    /\ state[m].place \in {"completed", "expired"} => m \in settled
    /\ m \in acked => state[m].place # "absent"

StatesTruthful == Truthful(disk) /\ (phase # "off" => Truthful(mem))

(* A write that was reported as failed can put more on disk than is in     *)
(* memory, never less.                                                     *)
MemoryIsStored ==
  phase # "off" => \A m \in Msgs : mem[m].place # "absent" => disk[m].place # "absent"

(* Who passes for a duplicate was settled.                                 *)
DuplicatesSettled ==
  \A m \in Msgs : claims[m] = "committed" \/ m \in seen => m \in settled

(* What the task knows of its message.                                     *)
TaskTruthful ==
  task # NoTask =>
    /\ mem[task.msg].place = "processing"
    /\ task.step # "block" => disk[task.msg].place = "processing"
    /\ task.step \in {"dispatch", "claimed", "failed"} => turns[task.msg] = 0 /\ task.msg \notin settled
    /\ task.step \in {"dispatch", "failed", "done"} => claims[task.msg] # "inflight"
    /\ task.step = "done" => task.msg \in settled

Inv ==
  /\ InboxTypeOK
  /\ StatesTruthful
  /\ MemoryIsStored
  /\ DuplicatesSettled
  /\ TaskTruthful
  /\ OneTurn

-----------------------------------------------------------------------------
(* Types. *)

Entry == [place : Places, tries : 0..MaxAttempts]

LEMMA EmptyState == Empty \in State /\ \A m \in Msgs : Empty[m].place = "absent"
  BY DEF Empty, State, Places

LEMMA NoTaskStep == NoTask.step = "idle" /\ NoTask.msg \notin Msgs
  BY DEF NoTask

LEMMA PutEntry ==
  ASSUME NEW state \in State, NEW m \in Msgs, NEW entry \in Entry
  PROVE  /\ [state EXCEPT ![m] = entry] \in State
         /\ [state EXCEPT ![m] = entry][m] = entry
         /\ \A n \in Msgs \ {m} : [state EXCEPT ![m] = entry][n] = state[n]
  BY DEF State, Entry

LEMMA PutPlace ==
  ASSUME NEW state \in State, NEW m \in Msgs, NEW p \in Places
  PROVE  /\ [state EXCEPT ![m].place = p] \in State
         /\ [state EXCEPT ![m].place = p][m].place = p
         /\ \A n \in Msgs \ {m} : [state EXCEPT ![m].place = p][n] = state[n]
<1> DEFINE entry == [state[m] EXCEPT !.place = p]
<1>1. entry \in Entry /\ entry.place = p
  BY DEF State, Entry
<1>2. [state EXCEPT ![m].place = p] = [state EXCEPT ![m] = entry]
  OBVIOUS
<1> HIDE DEF entry
<1>3. /\ [state EXCEPT ![m] = entry] \in State
      /\ [state EXCEPT ![m] = entry][m] = entry
      /\ \A n \in Msgs \ {m} : [state EXCEPT ![m] = entry][n] = state[n]
  BY <1>1, PutEntry
<1> QED BY <1>1, <1>2, <1>3

LEMMA SpendType ==
  ASSUME InboxTypeOK, NEW kind \in {"errors", "failures", "stops", "crashes"}, Spend(kind)
  PROVE  spent' \in [errors : 0..MaxErrors, failures : 0..MaxFailures,
                     stops : 0..MaxStops, crashes : 0..MaxCrashes]
<1>1. CASE kind = "errors"
  BY <1>1 DEF InboxTypeOK, Spend, Limit
<1>2. CASE kind = "failures"
  BY <1>2 DEF InboxTypeOK, Spend, Limit
<1>3. CASE kind = "stops"
  BY <1>3 DEF InboxTypeOK, Spend, Limit
<1>4. CASE kind = "crashes"
  BY <1>4 DEF InboxTypeOK, Spend, Limit
<1> QED BY <1>1, <1>2, <1>3, <1>4

LEMMA WriteType ==
  ASSUME InboxTypeOK, NEW next \in State, NEW result \in Results, Write(next, result)
  PROVE  /\ disk' \in State
         /\ mem' \in State
         /\ spent' \in [errors : 0..MaxErrors, failures : 0..MaxFailures,
                        stops : 0..MaxStops, crashes : 0..MaxCrashes]
  BY SpendType DEF Write, InboxTypeOK

LEMMA TaskType ==
  ASSUME InboxTypeOK, task.step # "idle"
  PROVE  /\ task \in [msg : Msgs, step : Steps]
         /\ task # NoTask /\ task.msg \in Msgs
         /\ drain = "on" /\ phase # "off"
  BY NoTaskStep DEF InboxTypeOK

LEMMA GotoType ==
  ASSUME InboxTypeOK, task.step # "idle", NEW step \in Steps, Goto(step)
  PROVE  /\ task' = [msg |-> task.msg, step |-> step]
         /\ task' \in [msg : Msgs, step : Steps]
         /\ task' # NoTask /\ task'.msg = task.msg /\ task'.step = step
<1>1. task \in [msg : Msgs, step : Steps] /\ task.msg \in Msgs
  BY TaskType
<1>2. task' = [msg |-> task.msg, step |-> step]
  BY <1>1 DEF Goto
<1>3. step # "idle"
  BY DEF Steps
<1> QED BY <1>1, <1>2, <1>3, NoTaskStep

LEMMA ClaimsType ==
  ASSUME claims \in [Msgs -> Claims], NEW m \in Msgs
  PROVE  /\ AfterClaim(claims, seen, m) \in [Msgs -> Claims]
         /\ AfterCommit(claims, m) \in [Msgs -> Claims]
         /\ AfterRelease(claims, m) \in [Msgs -> Claims]
         /\ \A n \in Msgs \ {m} : /\ AfterClaim(claims, seen, m)[n] = claims[n]
                                  /\ AfterCommit(claims, m)[n] = claims[n]
                                  /\ AfterRelease(claims, m)[n] = claims[n]
         /\ AfterCommit(claims, m)[m] = "committed"
         /\ AfterRelease(claims, m)[m] = IF claims[m] = "inflight" THEN "none" ELSE claims[m]
         /\ IF ClaimKind(claims, seen, m) = "claimed"
            THEN AfterClaim(claims, seen, m)[m] = "inflight"
            ELSE \/ AfterClaim(claims, seen, m)[m] = "committed"
                    /\ (claims[m] = "committed" \/ m \in seen)
                 \/ claims[m] = "inflight"
<1> USE DEF Claims
<1>1. CASE claims[m] = "committed"
  BY <1>1 DEF AfterClaim, AfterCommit, AfterRelease, ClaimKind
<1>2. CASE claims[m] = "inflight"
  BY <1>2 DEF AfterClaim, AfterCommit, AfterRelease, ClaimKind
<1>3. CASE claims[m] = "none" /\ m \in seen
  BY <1>3 DEF AfterClaim, AfterCommit, AfterRelease, ClaimKind
<1>4. CASE claims[m] = "none" /\ m \notin seen
  BY <1>4 DEF AfterClaim, AfterCommit, AfterRelease, ClaimKind
<1> QED BY <1>1, <1>2, <1>3, <1>4

LEMMA InitInv == Init => Inv
<1> SUFFICES ASSUME Init
             PROVE  Inv
  OBVIOUS
<1>1. InboxTypeOK
  <2>1. spent \in [errors : 0..MaxErrors, failures : 0..MaxFailures,
                   stops : 0..MaxStops, crashes : 0..MaxCrashes]
    BY DEF Init
  <2>2. claims \in [Msgs -> Claims] /\ turns \in [Msgs -> Nat]
    BY DEF Init, Claims
  <2> QED BY <2>1, <2>2, EmptyState DEF Init, InboxTypeOK
<1>2. StatesTruthful /\ MemoryIsStored
  BY EmptyState DEF Init, StatesTruthful, Truthful, MemoryIsStored
<1>3. DuplicatesSettled /\ TaskTruthful /\ OneTurn
  BY DEF Init, DuplicatesSettled, TaskTruthful, OneTurn
<1> QED BY <1>1, <1>2, <1>3 DEF Inv

-----------------------------------------------------------------------------
(* Writes. *)

LEMMA PutTruthful ==
  ASSUME NEW state \in State, Truthful(state), NEW m \in Msgs, NEW entry \in Entry,
         turns[m] > 0 \/ m \in settled => entry.place \in Parked \cup {"completed", "expired"},
         claims[m] = "inflight" => entry.place \in Parked,
         entry.place \in {"completed", "expired"} => m \in settled,
         m \in acked => entry.place # "absent"
  PROVE  Truthful([state EXCEPT ![m] = entry])
<1> DEFINE next == [state EXCEPT ![m] = entry]
<1>1. /\ next \in State
      /\ next[m] = entry
      /\ \A n \in Msgs \ {m} : next[n] = state[n]
  BY PutEntry
<1> HIDE DEF next
<1>2. Truthful(next)
  BY <1>1 DEF Truthful
<1> QED BY <1>2 DEF next

(* A write of a truthful state, whatever it comes to, leaves the file and  *)
(* the memory truthful.                                                    *)
LEMMA WriteKeeps ==
  ASSUME Inv, phase # "off", NEW next \in State, NEW result \in Results,
         Write(next, result), Truthful(next),
         \A m \in Msgs : mem[m].place # "absent" => next[m].place # "absent",
         UNCHANGED <<phase, turns, settled, claims>>,
         \A m \in acked' : m \in acked \/ (result = "ok" /\ next[m].place # "absent")
  PROVE  StatesTruthful' /\ MemoryIsStored'
<1>1. Truthful(disk) /\ Truthful(mem) /\ MemoryIsStored
  BY DEF Inv, StatesTruthful
<1>2. CASE result = "ok"
  <2>1. disk' = next /\ mem' = next
    BY <1>2 DEF Write
  <2> QED BY <2>1 DEF StatesTruthful, Truthful, MemoryIsStored
<1>3. CASE result = "failed"
  <2>1. disk' = disk /\ mem' = mem /\ \A m \in acked' : m \in acked
    BY <1>3 DEF Write
  <2> QED BY <1>1, <2>1 DEF StatesTruthful, Truthful, MemoryIsStored
<1>4. CASE result = "uncertain"
  <2>1. disk' = next /\ mem' = mem /\ \A m \in acked' : m \in acked
    BY <1>4 DEF Write
  <2> QED BY <1>1, <2>1 DEF StatesTruthful, Truthful, MemoryIsStored
<1> QED BY <1>2, <1>3, <1>4 DEF Results

(* It does not touch what the task knows, unless it changes its message.   *)
LEMMA WriteKeepsTask ==
  ASSUME Inv, NEW next \in State, NEW result \in Results, Write(next, result),
         task # NoTask => next[task.msg] = mem[task.msg],
         UNCHANGED <<task, turns, settled, claims>>
  PROVE  TaskTruthful'
<1>1. task # NoTask => /\ mem'[task.msg] = mem[task.msg]
                       /\ disk'[task.msg] \in {mem[task.msg], disk[task.msg]}
  BY DEF Write
<1>2. TaskTruthful
  BY DEF Inv
<1> QED BY <1>1, <1>2 DEF TaskTruthful

-----------------------------------------------------------------------------
(* The webhook and the pump. *)

LEMMA EnqueueKeeps ==
  ASSUME Inv, NEW m \in Msgs, NEW result \in Results, Enqueue(m, result)
  PROVE  Inv'
<1> DEFINE entry == [place |-> "pending", tries |-> 0]
           next == [mem EXCEPT ![m] = entry]
<1>1. mem \in State /\ phase = "on" /\ mem[m].place = "absent" /\ Truthful(mem) /\ InboxTypeOK
  BY DEF Inv, InboxTypeOK, Enqueue, StatesTruthful
<1>2. entry \in Entry /\ entry.place = "pending"
  BY DEF Entry, Places, Pending
<1> HIDE DEF entry
<1>3. next \in State /\ next[m] = entry /\ \A n \in Msgs \ {m} : next[n] = mem[n]
  BY <1>1, <1>2, PutEntry
<1>4. Write(next, result)
  BY DEF Enqueue, entry
<1>5. turns[m] = 0 /\ m \notin settled /\ claims[m] # "inflight"
  BY <1>1 DEF Truthful, Parked, InboxTypeOK
<1>6. Truthful(next)
  BY <1>1, <1>2, <1>5, PutTruthful
<1> HIDE DEF next
<1>7. UNCHANGED <<phase, turns, settled, claims, seen, task, suspended, scheduling, timer, later>>
  BY DEF Enqueue, dedupe
<1>8. \A n \in acked' : n \in acked \/ (result = "ok" /\ next[n].place # "absent")
  BY <1>2, <1>3 DEF Enqueue
<1>9. StatesTruthful' /\ MemoryIsStored'
  BY <1>1, <1>2, <1>3, <1>4, <1>6, <1>7, <1>8, WriteKeeps
<1>10. task # NoTask => task.msg # m /\ task.msg \in Msgs
  BY <1>1 DEF Inv, TaskTruthful, InboxTypeOK
<1>11. TaskTruthful'
  BY <1>3, <1>4, <1>7, <1>10, WriteKeepsTask
<1>12. drain' \in {drain, "on"} /\ acked' \subseteq acked \cup {m}
  BY DEF Enqueue, Wake
<1>13. InboxTypeOK'
  BY <1>1, <1>3, <1>4, <1>7, <1>12, WriteType DEF InboxTypeOK
<1>14. DuplicatesSettled' /\ OneTurn'
  BY <1>7 DEF Inv, DuplicatesSettled, OneTurn
<1> QED BY <1>9, <1>11, <1>13, <1>14 DEF Inv

LEMMA DuplicateKeeps ==
  ASSUME Inv, NEW m \in Msgs, Duplicate(m)
  PROVE  Inv'
<1>1. /\ UNCHANGED <<disk, mem, phase, turns, settled, claims, seen, task>>
      /\ acked' = acked \cup {m}
      /\ phase = "on" /\ mem[m].place # "absent" /\ disk[m].place # "absent"
  BY DEF Duplicate, dedupe, Inv, MemoryIsStored
<1>2. InboxTypeOK'
  BY DEF Inv, InboxTypeOK, Duplicate, pump, dedupe
<1>3. StatesTruthful'
  BY <1>1 DEF Inv, StatesTruthful, Truthful
<1>4. MemoryIsStored' /\ DuplicatesSettled' /\ TaskTruthful' /\ OneTurn'
  BY <1>1 DEF Inv, MemoryIsStored, DuplicatesSettled, TaskTruthful, OneTurn
<1> QED BY <1>2, <1>3, <1>4 DEF Inv

(* What the account's own machinery does without touching any message.     *)
LEMMA PumpKeeps ==
  ASSUME Inv,
         \/ MarkFull \/ DrainReturns \/ DrainEnds \/ ScheduleNext \/ TimerFires \/ Stop
         \/ \E m \in Msgs : Elapse(m)
  PROVE  Inv'
<1>1. /\ UNCHANGED <<disk, mem, turns, settled, acked, claims, seen, task>>
      /\ phase' = phase \/ (phase = "on" /\ phase' = "stopping")
  BY DEF MarkFull, DrainReturns, DrainEnds, ScheduleNext, TimerFires, Stop, Elapse, dedupe, history
<1>2. StatesTruthful' /\ MemoryIsStored' /\ DuplicatesSettled' /\ TaskTruthful' /\ OneTurn'
  BY <1>1 DEF Inv, StatesTruthful, Truthful, MemoryIsStored, DuplicatesSettled, TaskTruthful, OneTurn
<1>3. InboxTypeOK
  BY DEF Inv
<1>4. CASE Stop
  <2>1. spent' \in [errors : 0..MaxErrors, failures : 0..MaxFailures,
                    stops : 0..MaxStops, crashes : 0..MaxCrashes]
    BY <1>3, <1>4, SpendType DEF Stop
  <2> QED BY <1>2, <1>3, <1>4, <2>1 DEF Stop, InboxTypeOK, Inv, dedupe, history
<1>5. CASE MarkFull \/ DrainReturns \/ DrainEnds
  BY <1>2, <1>3, <1>5 DEF MarkFull, DrainReturns, DrainEnds, InboxTypeOK, Inv, dedupe, history, pump
<1>6. CASE ScheduleNext \/ TimerFires \/ \E m \in Msgs : Elapse(m)
  BY <1>2, <1>3, <1>6 DEF ScheduleNext, TimerFires, Elapse, Wake, InboxTypeOK, Inv, dedupe, history, pump
<1> QED BY <1>4, <1>5, <1>6

-----------------------------------------------------------------------------
(* The dispatch. *)

(* Nothing but the turn and the claim of its own message changes.          *)
LEMMA DispatchStates ==
  ASSUME Inv, task.step \notin {"idle", "block"},
         UNCHANGED <<disk, mem, phase, acked>>,
         settled \subseteq settled', settled' \subseteq settled \cup {task.msg},
         \A n \in Msgs \ {task.msg} : turns'[n] = turns[n] /\ claims'[n] = claims[n]
  PROVE  StatesTruthful' /\ MemoryIsStored'
<1>1. task # NoTask /\ task.msg \in Msgs
  BY TaskType DEF Inv
<1>2. disk[task.msg].place = "processing" /\ mem[task.msg].place = "processing"
  BY <1>1 DEF Inv, TaskTruthful
<1>3. "processing" \in Parked /\ "processing" \notin {"absent", "completed", "expired"}
  BY DEF Parked
<1>4. \A n \in Msgs : \/ turns'[n] = turns[n] /\ claims'[n] = claims[n] /\ (n \in settled' => n \in settled)
                      \/ disk[n].place = "processing" /\ mem[n].place = "processing"
  BY <1>2
<1>5. ASSUME Truthful(disk) PROVE Truthful(disk)'
  BY <1>3, <1>4, <1>5 DEF Truthful
<1>6. ASSUME Truthful(mem) PROVE Truthful(mem)'
  BY <1>3, <1>4, <1>6 DEF Truthful
<1>7. MemoryIsStored'
  BY DEF Inv, MemoryIsStored
<1> QED BY <1>5, <1>6, <1>7 DEF Inv, StatesTruthful

(* The steps that touch neither claim nor turn.                            *)
LEMMA PassKeeps ==
  ASSUME Inv, DispatchThrows \/ Skip \/ Block \/ TurnFails
  PROVE  Inv'
<1>1. /\ task.step \in {"dispatch", "claimed", "turn"}
      /\ UNCHANGED <<disk, mem, phase, suspended, drain, scheduling, timer, later, claims, seen, turns, acked>>
      /\ settled' \in {settled, settled \cup {task.msg}}
  BY DEF DispatchThrows, Skip, Block, TurnFails, This, pump, dedupe, history
<1>2. InboxTypeOK /\ task.msg \in Msgs /\ task # NoTask /\ task.step \notin {"idle", "block"}
  BY <1>1, TaskType DEF Inv
<1>3. /\ \E step \in {"doubt", "failed", "done"} :
           /\ task' = [msg |-> task.msg, step |-> step]
           /\ step \in {"failed", "done"} => task.step = "dispatch"
           /\ step = "failed" => settled' = settled
           /\ step = "done" => task.msg \in settled'
      /\ task' \in [msg : Msgs, step : Steps] /\ task' # NoTask
  BY <1>1, <1>2, GotoType DEF DispatchThrows, Skip, Block, TurnFails, This, Steps, history
<1>4. spent' \in [errors : 0..MaxErrors, failures : 0..MaxFailures,
                  stops : 0..MaxStops, crashes : 0..MaxCrashes]
  <2>1. CASE Skip
    BY <1>2, <2>1, SpendType DEF Skip
  <2>2. CASE DispatchThrows \/ Block \/ TurnFails
    BY <1>2, <2>2 DEF DispatchThrows, Block, TurnFails, InboxTypeOK
  <2> QED BY <2>1, <2>2
<1>5. StatesTruthful' /\ MemoryIsStored'
  BY <1>1, <1>2, DispatchStates
<1>6. InboxTypeOK'
  BY <1>1, <1>2, <1>3, <1>4 DEF InboxTypeOK
<1>7. TaskTruthful'
  BY <1>1, <1>2, <1>3 DEF Inv, TaskTruthful
<1>8. DuplicatesSettled' /\ OneTurn'
  BY <1>1 DEF Inv, DuplicatesSettled, OneTurn
<1> QED BY <1>5, <1>6, <1>7, <1>8 DEF Inv

LEMMA ClaimMessageKeeps ==
  ASSUME Inv, ClaimMessage
  PROVE  Inv'
<1>1. /\ task.step = "dispatch" /\ task.step \notin {"idle", "block"}
      /\ UNCHANGED <<disk, mem, phase, suspended, drain, scheduling, timer, later, seen, spent,
                     turns, settled, acked>>
      /\ claims' = AfterClaim(claims, seen, task.msg)
  BY DEF ClaimMessage, This, pump, history
<1>2. InboxTypeOK /\ task.msg \in Msgs /\ task # NoTask
  BY <1>1, TaskType DEF Inv
<1>3. claims[task.msg] # "inflight" /\ turns[task.msg] = 0 /\ DuplicatesSettled /\ TaskTruthful
  BY <1>1, <1>2 DEF Inv, TaskTruthful
<1>4. /\ claims' \in [Msgs -> Claims]
      /\ \A n \in Msgs \ {task.msg} : claims'[n] = claims[n]
      /\ IF ClaimKind(claims, seen, task.msg) = "claimed"
         THEN claims'[task.msg] = "inflight"
         ELSE /\ claims'[task.msg] = "committed"
              /\ claims[task.msg] = "committed" \/ task.msg \in seen
  BY <1>1, <1>2, <1>3, ClaimsType DEF InboxTypeOK
<1>5. \/ /\ task' = [msg |-> task.msg, step |-> "claimed"] /\ task' \in [msg : Msgs, step : Steps]
         /\ claims'[task.msg] = "inflight" /\ task' # NoTask
      \/ /\ task' = [msg |-> task.msg, step |-> "done"] /\ task' \in [msg : Msgs, step : Steps]
         /\ claims'[task.msg] = "committed" /\ task' # NoTask
         /\ task.msg \in settled
  <2>1. CASE ClaimKind(claims, seen, task.msg) = "claimed"
    BY <1>1, <1>2, <1>4, <2>1, GotoType DEF ClaimMessage, This, Steps
  <2>2. CASE ClaimKind(claims, seen, task.msg) # "claimed"
    BY <1>1, <1>2, <1>3, <1>4, <2>2, GotoType DEF ClaimMessage, This, Steps, DuplicatesSettled
  <2> QED BY <2>1, <2>2
<1>6. StatesTruthful' /\ MemoryIsStored'
  BY <1>1, <1>4, DispatchStates
<1>7. InboxTypeOK'
  BY <1>1, <1>2, <1>4, <1>5 DEF InboxTypeOK
<1>8. TaskTruthful'
  BY <1>1, <1>2, <1>3, <1>5 DEF TaskTruthful
<1>9. DuplicatesSettled'
  BY <1>1, <1>2, <1>3, <1>4, <1>5 DEF DuplicatesSettled
<1>10. OneTurn'
  BY <1>1 DEF Inv, OneTurn
<1> QED BY <1>6, <1>7, <1>8, <1>9, <1>10 DEF Inv

LEMMA ReleaseKeeps ==
  ASSUME Inv, NotStarted \/ Decline
  PROVE  Inv'
<1>1. /\ task.step = "claimed" /\ task.step \notin {"idle", "block"}
      /\ UNCHANGED <<disk, mem, phase, suspended, drain, scheduling, timer, later, seen, turns, acked>>
      /\ claims' = AfterRelease(claims, task.msg)
      /\ settled' \in {settled, settled \cup {task.msg}}
  BY DEF NotStarted, Decline, This, pump, history
<1>2. InboxTypeOK /\ task.msg \in Msgs /\ task # NoTask
  BY <1>1, TaskType DEF Inv
<1>3. turns[task.msg] = 0 /\ task.msg \notin settled /\ DuplicatesSettled /\ TaskTruthful
  BY <1>1, <1>2 DEF Inv, TaskTruthful
<1>4. /\ claims' \in [Msgs -> Claims]
      /\ \A n \in Msgs \ {task.msg} : claims'[n] = claims[n]
      /\ claims'[task.msg] = IF claims[task.msg] = "inflight" THEN "none" ELSE claims[task.msg]
  BY <1>1, <1>2, ClaimsType DEF InboxTypeOK
<1>5. /\ \E step \in {"failed", "done"} :
           /\ task' = [msg |-> task.msg, step |-> step]
           /\ step = "done" => task.msg \in settled'
           /\ step = "failed" => settled' = settled
      /\ task' \in [msg : Msgs, step : Steps] /\ task' # NoTask
  BY <1>1, <1>2, GotoType DEF NotStarted, Decline, This, Steps, history
<1>6. spent' \in [errors : 0..MaxErrors, failures : 0..MaxFailures,
                  stops : 0..MaxStops, crashes : 0..MaxCrashes]
  <2>1. CASE NotStarted
    BY <1>2, <2>1, SpendType DEF NotStarted
  <2>2. CASE Decline
    BY <1>2, <2>2 DEF Decline, InboxTypeOK
  <2> QED BY <2>1, <2>2
<1>7. StatesTruthful' /\ MemoryIsStored'
  BY <1>1, <1>4, DispatchStates
<1>8. InboxTypeOK'
  BY <1>1, <1>2, <1>4, <1>5, <1>6 DEF InboxTypeOK
<1>9. TaskTruthful'
  BY <1>1, <1>2, <1>3, <1>4, <1>5 DEF TaskTruthful
<1>10. DuplicatesSettled'
  <2>1. \A n \in Msgs : claims'[n] = "committed" => claims[n] = "committed"
    BY <1>4
  <2> QED BY <1>1, <1>3, <2>1 DEF DuplicatesSettled
<1>11. OneTurn'
  BY <1>1 DEF Inv, OneTurn
<1> QED BY <1>7, <1>8, <1>9, <1>10, <1>11 DEF Inv

LEMMA TurnKeeps ==
  ASSUME Inv, StartTurn \/ TurnEnds
  PROVE  Inv'
<1>1. /\ task.step \in {"claimed", "turn"} /\ task.step \notin {"idle", "block"}
      /\ UNCHANGED <<disk, mem, phase, suspended, drain, scheduling, timer, later, spent, acked>>
  BY DEF StartTurn, TurnEnds, pump, dedupe
<1>2. InboxTypeOK /\ task.msg \in Msgs /\ task # NoTask /\ DuplicatesSettled /\ TaskTruthful /\ OneTurn
  BY <1>1, TaskType DEF Inv
<1>3. CASE StartTurn
  <2>1. /\ UNCHANGED <<claims, seen, settled>> /\ turns[task.msg] = 0
        /\ turns' = [turns EXCEPT ![task.msg] = @ + 1]
    BY <1>2, <1>3 DEF StartTurn, This, dedupe, TaskTruthful
  <2>2. /\ turns' \in [Msgs -> Nat] /\ turns'[task.msg] = 1
        /\ \A n \in Msgs \ {task.msg} : turns'[n] = turns[n]
    BY <1>2, <2>1 DEF InboxTypeOK
  <2>3. task' = [msg |-> task.msg, step |-> "turn"] /\ task' \in [msg : Msgs, step : Steps] /\ task' # NoTask
    BY <1>1, <1>2, <1>3, GotoType DEF StartTurn, Steps
  <2>4. StatesTruthful' /\ MemoryIsStored'
    BY <1>1, <2>1, <2>2, DispatchStates
  <2>5. InboxTypeOK'
    BY <1>1, <1>2, <2>1, <2>2, <2>3 DEF InboxTypeOK
  <2>6. TaskTruthful'
    BY <1>1, <1>2, <2>3 DEF TaskTruthful
  <2>7. DuplicatesSettled' /\ OneTurn'
    BY <1>2, <2>1, <2>2 DEF DuplicatesSettled, OneTurn
  <2> QED BY <2>4, <2>5, <2>6, <2>7 DEF Inv
<1>4. CASE TurnEnds
  <2>1. /\ UNCHANGED turns /\ settled' = settled \cup {task.msg}
        /\ claims' = AfterCommit(claims, task.msg) /\ seen' \in {seen, seen \cup {task.msg}}
    BY <1>2, <1>4 DEF TurnEnds, This, Recorded
  <2>2. /\ claims' \in [Msgs -> Claims] /\ claims'[task.msg] = "committed"
        /\ \A n \in Msgs \ {task.msg} : claims'[n] = claims[n]
    BY <1>2, <2>1, ClaimsType DEF InboxTypeOK
  <2>3. task' = [msg |-> task.msg, step |-> "done"] /\ task' \in [msg : Msgs, step : Steps] /\ task' # NoTask
    BY <1>1, <1>2, <1>4, GotoType DEF TurnEnds, Steps
  <2>4. StatesTruthful' /\ MemoryIsStored'
    BY <1>1, <2>1, <2>2, DispatchStates
  <2>5. InboxTypeOK'
    BY <1>1, <1>2, <2>1, <2>2, <2>3 DEF InboxTypeOK
  <2>6. TaskTruthful'
    BY <1>1, <1>2, <2>1, <2>2, <2>3 DEF TaskTruthful
  <2>7. DuplicatesSettled' /\ OneTurn'
    BY <1>2, <2>1, <2>2 DEF DuplicatesSettled, OneTurn
  <2> QED BY <2>4, <2>5, <2>6, <2>7 DEF Inv
<1> QED BY <1>3, <1>4

-----------------------------------------------------------------------------
(* What the drain and the administrator write. *)

LEMMA MarkKeeps ==
  ASSUME Inv, NEW m \in Msgs, NEW result \in Results, Mark(m, result)
  PROVE  Inv'
<1> DEFINE next == [mem EXCEPT ![m].place = "processing"]
<1>1. mem \in State /\ mem[m].place = "pending" /\ Truthful(mem) /\ InboxTypeOK
      /\ task = NoTask /\ phase = "on" /\ drain = "on"
  BY DEF Inv, InboxTypeOK, Mark, Ready, StatesTruthful
<1>2. next \in State /\ next[m].place = "processing" /\ \A n \in Msgs \ {m} : next[n] = mem[n]
  BY <1>1, PutPlace DEF Places, Pending
<1>3. Write(next, result)
  BY DEF Mark
<1> HIDE DEF next
<1>4. turns[m] = 0 /\ m \notin settled /\ claims[m] # "inflight"
  BY <1>1 DEF Truthful, Parked, InboxTypeOK
<1>5. Truthful(next)
  BY <1>1, <1>2, <1>4 DEF Truthful, Parked
<1>6. UNCHANGED <<phase, turns, settled, claims, acked, seen, drain, scheduling, timer, later>>
  BY DEF Mark, dedupe, pump, history
<1>7. StatesTruthful' /\ MemoryIsStored'
  BY <1>1, <1>2, <1>3, <1>5, <1>6, WriteKeeps
<1>8. CASE result = "ok"
  <2>1. task' = [msg |-> m, step |-> "dispatch"] /\ disk' = next /\ mem' = next
        /\ UNCHANGED <<suspended, spent>>
    BY <1>3, <1>8 DEF Mark, Write
  <2>2. TaskTruthful'
    BY <1>2, <1>4, <1>6, <2>1 DEF TaskTruthful
  <2>3. InboxTypeOK'
    BY <1>1, <1>2, <1>6, <2>1 DEF InboxTypeOK, Steps
  <2> QED BY <1>6, <1>7, <2>2, <2>3 DEF Inv, DuplicatesSettled, OneTurn
<1>9. CASE result # "ok"
  <2>1. UNCHANGED task /\ suspended' = TRUE
    BY <1>9 DEF Mark
  <2>2. TaskTruthful'
    BY <1>1, <2>1 DEF TaskTruthful
  <2>3. InboxTypeOK'
    BY <1>1, <1>2, <1>3, <1>6, <2>1, WriteType DEF InboxTypeOK
  <2> QED BY <1>6, <1>7, <2>2, <2>3 DEF Inv, DuplicatesSettled, OneTurn
<1> QED BY <1>8, <1>9

(* The outcome of a dispatch is stored: what is written puts the message   *)
(* where its history allows it.                                            *)
LEMMA StoringKeeps ==
  ASSUME Inv, task.step \in {"done", "failed", "doubt"},
         NEW entry \in Entry, NEW result \in Results,
         Write([mem EXCEPT ![task.msg] = entry], result), AfterStoring(result),
         later' \subseteq Msgs,
         entry.place # "absent",
         turns[task.msg] > 0 \/ task.msg \in settled => entry.place \in Parked \cup {"completed"},
         claims[task.msg] = "inflight" => entry.place \in Parked,
         entry.place \in {"completed", "expired"} => task.msg \in settled
  PROVE  Inv'
<1> DEFINE next == [mem EXCEPT ![task.msg] = entry]
<1>1. InboxTypeOK /\ mem \in State /\ task.step # "idle"
  BY DEF Inv, InboxTypeOK
<1>2. task.msg \in Msgs /\ task # NoTask /\ phase # "off" /\ drain = "on"
  BY <1>1, TaskType
<1>3. Truthful(mem) /\ mem[task.msg].place = "processing"
  BY <1>2 DEF Inv, StatesTruthful, TaskTruthful
<1>4. next \in State /\ next[task.msg] = entry /\ \A n \in Msgs \ {task.msg} : next[n] = mem[n]
  BY <1>1, <1>2, PutEntry
<1>5. Write(next, result)
  OBVIOUS
<1> HIDE DEF next
<1>6. Truthful(next)
  BY <1>2, <1>3, <1>4 DEF Truthful
<1>7. UNCHANGED <<phase, turns, settled, claims, acked, seen, drain, scheduling, timer>>
  BY DEF AfterStoring, dedupe, pump, history
<1>8. StatesTruthful' /\ MemoryIsStored'
  BY <1>2, <1>4, <1>5, <1>6, <1>7, WriteKeeps
<1>9. CASE result = "ok"
  <2>1. task' = NoTask /\ UNCHANGED suspended
    BY <1>9 DEF AfterStoring
  <2>2. TaskTruthful'
    BY <2>1 DEF TaskTruthful, NoTask
  <2>3. InboxTypeOK'
    BY <1>1, <1>2, <1>4, <1>5, <1>7, <2>1, WriteType DEF InboxTypeOK, NoTask
  <2> QED BY <1>7, <1>8, <2>2, <2>3 DEF Inv, DuplicatesSettled, OneTurn
<1>10. CASE result # "ok"
  <2>1. Goto("block") /\ suspended' = TRUE /\ mem' = mem
    BY <1>5, <1>10 DEF AfterStoring, Write
  <2>2. task' = [msg |-> task.msg, step |-> "block"] /\ task' \in [msg : Msgs, step : Steps]
    BY <1>1, <2>1, GotoType DEF Steps
  <2>3. TaskTruthful'
    BY <1>3, <1>7, <2>1, <2>2 DEF TaskTruthful
  <2>4. InboxTypeOK'
    BY <1>1, <1>2, <1>4, <1>5, <1>7, <2>1, <2>2, WriteType DEF InboxTypeOK
  <2> QED BY <1>7, <1>8, <2>3, <2>4 DEF Inv, DuplicatesSettled, OneTurn
<1> QED BY <1>9, <1>10

LEMMA CompleteKeeps ==
  ASSUME Inv, NEW result \in Results, Complete(result)
  PROVE  Inv'
<1>1. InboxTypeOK /\ task.step = "done" /\ task.msg \in Msgs /\ task # NoTask /\ mem \in State
  BY TaskType DEF Complete, Inv, InboxTypeOK
<1>2. claims[task.msg] # "inflight" /\ task.msg \in settled
  BY <1>1 DEF Inv, TaskTruthful
<1> DEFINE entry == [mem[task.msg] EXCEPT !.place = "completed"]
<1>3. entry \in Entry /\ entry.place = "completed"
  BY <1>1 DEF State, Entry, Places
<1>4. [mem EXCEPT ![task.msg].place = "completed"] = [mem EXCEPT ![task.msg] = entry]
  OBVIOUS
<1>5. Write([mem EXCEPT ![task.msg] = entry], result) /\ AfterStoring(result) /\ later' \subseteq Msgs
  BY <1>1, <1>4 DEF Complete, This, InboxTypeOK
<1> HIDE DEF entry
<1> QED BY <1>1, <1>2, <1>3, <1>5, StoringKeeps

LEMMA QuarantineKeeps ==
  ASSUME Inv, NEW result \in Results, Quarantine(result)
  PROVE  Inv'
<1> DEFINE place == IF Cardinality(In(mem, Dead)) < MaxDead THEN "deadReview" ELSE "review"
           entry == [mem[task.msg] EXCEPT !.place = place]
<1>1. InboxTypeOK /\ task.step = "doubt" /\ task.msg \in Msgs /\ mem \in State
  BY TaskType DEF Quarantine, Inv, InboxTypeOK
<1>2. place \in Parked /\ place \in Places /\ place \notin {"absent", "completed", "expired"}
  BY DEF Parked, Places, Pending, Dead
<1>3. [mem EXCEPT ![task.msg].place = place] = [mem EXCEPT ![task.msg] = entry]
  OBVIOUS
<1>4. Write([mem EXCEPT ![task.msg] = entry], result) /\ AfterStoring(result) /\ later' \subseteq Msgs
  BY <1>1, <1>3 DEF Quarantine, This, InboxTypeOK
<1> HIDE DEF place
<1>5. entry \in Entry /\ entry.place = place
  BY <1>1, <1>2 DEF State, Entry
<1> HIDE DEF entry
<1> QED BY <1>1, <1>2, <1>4, <1>5, StoringKeeps

LEMMA FailKeeps ==
  ASSUME Inv, NEW result \in Results, Fail(result)
  PROVE  Inv'
<1> DEFINE tries == mem[task.msg].tries + 1
           dead == tries >= MaxAttempts /\ Cardinality(In(mem, Dead)) < MaxDead
           entry == [place |-> IF dead THEN "dead" ELSE "pending",
                     tries |-> IF tries > MaxAttempts THEN MaxAttempts ELSE tries]
<1>1. InboxTypeOK /\ task.step = "failed" /\ task.msg \in Msgs /\ task # NoTask /\ mem \in State
  BY TaskType DEF Fail, Inv, InboxTypeOK
<1>2. claims[task.msg] # "inflight" /\ turns[task.msg] = 0 /\ task.msg \notin settled
  BY <1>1 DEF Inv, TaskTruthful
<1>3. Write([mem EXCEPT ![task.msg] = entry], result) /\ AfterStoring(result) /\ later' \subseteq Msgs
  BY <1>1 DEF Fail, This, InboxTypeOK
<1>4. mem[task.msg].tries \in 0..MaxAttempts /\ MaxAttempts \in Nat
  BY <1>1 DEF State
<1> HIDE DEF dead
<1>5. entry \in Entry /\ entry.place \in {"dead", "pending"}
  BY <1>4 DEF Entry, Places, Pending, Dead
<1> HIDE DEF entry, tries
<1> QED BY <1>1, <1>2, <1>3, <1>5, StoringKeeps

LEMMA BlockKeeps ==
  ASSUME Inv, BlockAfterWriteFailure
  PROVE  Inv'
<1>1. /\ InboxTypeOK /\ task.msg \in Msgs /\ task # NoTask /\ mem \in State /\ phase # "off"
      /\ UNCHANGED <<disk, phase, suspended, drain, scheduling, timer, later, claims, seen, spent,
                     turns, settled, acked>>
      /\ task' = NoTask
  BY TaskType DEF BlockAfterWriteFailure, Inv, InboxTypeOK, pump, dedupe, history
<1>2. /\ mem' \in State /\ mem'[task.msg].place = "review"
      /\ \A n \in Msgs \ {task.msg} : mem'[n] = mem[n]
  <2>1. "review" \in Places
    BY DEF Places, Pending
  <2>2. mem' = [mem EXCEPT ![task.msg].place = "review"]
    BY DEF BlockAfterWriteFailure, This
  <2> DEFINE next == [mem EXCEPT ![task.msg].place = "review"]
  <2>3. /\ next \in State /\ next[task.msg].place = "review"
        /\ \A n \in Msgs \ {task.msg} : next[n] = mem[n]
    BY <1>1, <2>1, PutPlace
  <2> HIDE DEF next
  <2> QED BY <2>2, <2>3 DEF next
<1>3. mem[task.msg].place = "processing" /\ Truthful(mem) /\ Truthful(disk) /\ MemoryIsStored
  BY <1>1 DEF Inv, TaskTruthful, StatesTruthful
<1>4. Truthful(mem)' /\ Truthful(disk)'
  BY <1>1, <1>2, <1>3 DEF Truthful, Parked
<1>5. MemoryIsStored'
  BY <1>1, <1>2, <1>3 DEF MemoryIsStored
<1>6. InboxTypeOK'
  BY <1>1, <1>2 DEF InboxTypeOK, NoTask
<1>7. TaskTruthful' /\ DuplicatesSettled' /\ OneTurn'
  BY <1>1 DEF Inv, TaskTruthful, DuplicatesSettled, OneTurn, NoTask
<1> QED BY <1>4, <1>5, <1>6, <1>7 DEF Inv, StatesTruthful

LEMMA ReplayKeeps ==
  ASSUME Inv, NEW which \in SUBSET Msgs, NEW result \in Results, ReplayDeadLetters(which, result)
  PROVE  Inv'
<1> DEFINE next == [m \in Msgs |-> IF m \in which THEN [place |-> "pending", tries |-> 0] ELSE mem[m]]
<1>1. /\ InboxTypeOK /\ mem \in State /\ phase = "on" /\ Truthful(mem)
      /\ \A m \in which : mem[m].place = "dead"
  BY DEF Inv, InboxTypeOK, StatesTruthful, ReplayDeadLetters, In
<1>2. next \in State
  BY <1>1 DEF State, Places, Pending
<1>3. Write(next, result)
  BY DEF ReplayDeadLetters
<1>4. \A m \in Msgs : IF m \in which THEN next[m].place = "pending" ELSE next[m] = mem[m]
  OBVIOUS
<1> HIDE DEF next
<1>5. \A m \in which : turns[m] = 0 /\ m \notin settled /\ claims[m] # "inflight"
  BY <1>1 DEF Truthful, Parked, InboxTypeOK
<1>6. Truthful(next)
  BY <1>1, <1>4, <1>5 DEF Truthful
<1>7. UNCHANGED <<phase, turns, settled, claims, acked, seen, suspended, scheduling, timer, task>>
  BY DEF ReplayDeadLetters, dedupe, history
<1>8. StatesTruthful' /\ MemoryIsStored'
  BY <1>1, <1>2, <1>3, <1>4, <1>6, <1>7, WriteKeeps
<1>9. task # NoTask => task.msg \in Msgs /\ task.msg \notin which
  BY <1>1 DEF Inv, TaskTruthful, InboxTypeOK
<1>10. TaskTruthful'
  BY <1>2, <1>3, <1>4, <1>7, <1>9, WriteKeepsTask
<1>11. drain' \in {drain, "on"} /\ later' \subseteq later
  BY DEF ReplayDeadLetters, Wake
<1>12. InboxTypeOK'
  BY <1>1, <1>2, <1>3, <1>7, <1>11, WriteType DEF InboxTypeOK
<1> QED BY <1>7, <1>8, <1>10, <1>12 DEF Inv, DuplicatesSettled, OneTurn

LEMMA RetryKeeps ==
  ASSUME Inv, NEW result \in Results, RetryPersistence(result)
  PROVE  Inv'
<1>1. InboxTypeOK /\ mem \in State /\ phase = "on" /\ Truthful(mem) /\ Write(mem, result)
  BY DEF Inv, InboxTypeOK, StatesTruthful, RetryPersistence
<1>2. /\ UNCHANGED <<phase, turns, settled, claims, acked, seen, scheduling, timer, later, task>>
      /\ drain' \in {drain, "on"} /\ suspended' \in {suspended, FALSE}
  BY DEF RetryPersistence, dedupe, history
<1>3. StatesTruthful' /\ MemoryIsStored'
  BY <1>1, <1>2, WriteKeeps
<1>4. TaskTruthful'
  BY <1>1, <1>2, WriteKeepsTask
<1>5. InboxTypeOK'
  BY <1>1, <1>2, WriteType DEF InboxTypeOK
<1> QED BY <1>2, <1>3, <1>4, <1>5 DEF Inv, DuplicatesSettled, OneTurn

-----------------------------------------------------------------------------
(* Time, stops and crashes. *)

LEMMA ExpireKeeps ==
  ASSUME Inv, NEW m \in Msgs, Expire(m)
  PROVE  Inv'
<1>1. /\ InboxTypeOK /\ disk \in State /\ mem \in State
      /\ UNCHANGED <<phase, suspended, drain, scheduling, timer, later, task, spent, turns, settled, acked>>
      /\ seen' = seen \ {m} /\ task.msg # m
  BY DEF Expire, Inv, InboxTypeOK, pump, history
<1>2. /\ claims' \in [Msgs -> Claims] /\ claims'[m] = "none"
      /\ \A n \in Msgs \ {m} : claims'[n] = claims[n]
  BY <1>1 DEF Expire, InboxTypeOK, Claims
<1>3. ASSUME NEW state \in State
      PROVE  /\ Expired(state, m) \in State
             /\ \A n \in Msgs : \/ Expired(state, m)[n] = state[n]
                                \/ n = m /\ state[n].place = "completed" /\ Expired(state, m)[n].place = "expired"
  <2>1. /\ [state EXCEPT ![m].place = "expired"] \in State
        /\ [state EXCEPT ![m].place = "expired"][m].place = "expired"
        /\ \A n \in Msgs \ {m} : [state EXCEPT ![m].place = "expired"][n] = state[n]
    BY PutPlace DEF Places
  <2> QED BY <2>1 DEF Expired
<1>4. /\ disk' \in State /\ mem' \in State
      /\ \A n \in Msgs : \/ disk'[n] = disk[n]
                         \/ n = m /\ disk[n].place = "completed" /\ disk'[n].place = "expired"
      /\ \A n \in Msgs : \/ mem'[n] = mem[n]
                         \/ n = m /\ mem[n].place = "completed" /\ mem'[n].place = "expired"
  BY <1>1, <1>3 DEF Expire
<1>5. ASSUME Truthful(disk) PROVE Truthful(disk)'
  BY <1>1, <1>2, <1>4, <1>5 DEF Truthful
<1>6. ASSUME Truthful(mem) PROVE Truthful(mem)'
  BY <1>1, <1>2, <1>4, <1>6 DEF Truthful
<1>7. StatesTruthful'
  BY <1>1, <1>5, <1>6 DEF Inv, StatesTruthful
<1>8. MemoryIsStored'
  <2>1. \A n \in Msgs : disk'[n].place = "absent" => disk[n].place = "absent"
    BY <1>4
  <2>2. \A n \in Msgs : mem[n].place = "absent" => mem'[n].place = "absent"
    BY <1>4
  <2> QED BY <1>1, <2>1, <2>2 DEF Inv, MemoryIsStored
<1>9. TaskTruthful'
  <2>1. task # NoTask => mem'[task.msg] = mem[task.msg] /\ disk'[task.msg] = disk[task.msg]
                         /\ claims'[task.msg] = claims[task.msg]
    BY <1>1, <1>2, <1>4 DEF InboxTypeOK
  <2> QED BY <1>1, <2>1 DEF Inv, TaskTruthful
<1>10. DuplicatesSettled' /\ OneTurn'
  BY <1>1, <1>2 DEF Inv, DuplicatesSettled, OneTurn
<1>11. InboxTypeOK'
  BY <1>1, <1>2, <1>4 DEF InboxTypeOK
<1> QED BY <1>7, <1>8, <1>9, <1>10, <1>11 DEF Inv

(* Stopping waits for the drain, so no task is left behind.                *)
LEMMA EndKeeps ==
  ASSUME Inv, StopEnds \/ Crash
  PROVE  Inv'
<1>1. InboxTypeOK
  BY DEF Inv
<1>2. /\ UNCHANGED <<disk, later, seen, turns, settled, acked>>
      /\ phase' = "off" /\ mem' = Empty /\ suspended' = FALSE /\ timer' = FALSE
      /\ drain' = "none" /\ scheduling' \in BOOLEAN
  BY <1>1 DEF StopEnds, Crash, dedupe, history, InboxTypeOK
<1>3. task' = NoTask
  BY <1>1 DEF StopEnds, Crash, InboxTypeOK
<1>4. /\ claims' \in [Msgs -> Claims]
      /\ \A m \in Msgs : claims'[m] \in {claims[m], "none"}
  BY <1>1 DEF StopEnds, Crash, dedupe, InboxTypeOK, Claims
<1>5. spent' \in [errors : 0..MaxErrors, failures : 0..MaxFailures,
                  stops : 0..MaxStops, crashes : 0..MaxCrashes]
  <2>1. CASE StopEnds
    BY <1>1, <2>1 DEF StopEnds, InboxTypeOK
  <2>2. CASE Crash
    BY <1>1, <2>2, SpendType DEF Crash
  <2> QED BY <2>1, <2>2
<1>6. InboxTypeOK'
  BY <1>1, <1>2, <1>3, <1>4, <1>5, EmptyState DEF InboxTypeOK
<1>7. Truthful(disk)'
  BY <1>2, <1>4 DEF Inv, StatesTruthful, Truthful
<1>8. StatesTruthful' /\ MemoryIsStored' /\ TaskTruthful'
  BY <1>2, <1>3, <1>7 DEF StatesTruthful, MemoryIsStored, TaskTruthful
<1>9. DuplicatesSettled' /\ OneTurn'
  BY <1>2, <1>4 DEF Inv, DuplicatesSettled, OneTurn
<1> QED BY <1>6, <1>8, <1>9 DEF Inv

LEMMA StartKeeps ==
  ASSUME Inv, Start
  PROVE  Inv'
<1>1. /\ InboxTypeOK /\ disk \in State /\ phase = "off" /\ phase' = "on"
      /\ UNCHANGED <<disk, suspended, scheduling, timer, later, task, claims, seen, spent, turns, settled, acked>>
      /\ task = NoTask /\ drain' = "on"
  BY DEF Start, dedupe, history, Inv, InboxTypeOK
<1>2. /\ mem' \in State
      /\ \A m \in Msgs : IF disk[m].place = "processing" THEN mem'[m].place = "review"
                        ELSE mem'[m] = disk[m]
  BY <1>1 DEF Start, State, Places, Pending
<1>3. Truthful(disk)
  BY DEF Inv, StatesTruthful
<1>4. Truthful(mem)' /\ Truthful(disk)'
  BY <1>1, <1>2, <1>3 DEF Truthful, Parked
<1>5. MemoryIsStored' /\ TaskTruthful'
  BY <1>1, <1>2 DEF MemoryIsStored, TaskTruthful
<1>6. InboxTypeOK'
  BY <1>1, <1>2 DEF InboxTypeOK
<1> QED BY <1>1, <1>4, <1>5, <1>6 DEF Inv, StatesTruthful, DuplicatesSettled, OneTurn

-----------------------------------------------------------------------------
LEMMA StutterInv == Inv /\ UNCHANGED inboxVars => Inv'
<1> SUFFICES ASSUME Inv, UNCHANGED inboxVars
             PROVE  Inv'
  OBVIOUS
<1>1. UNCHANGED <<disk, mem, phase, suspended, drain, scheduling, timer, later, task, claims, seen,
                  spent, turns, settled, acked>>
  BY DEF inboxVars, pump, dedupe, history
<1>2. InboxTypeOK'
  BY <1>1 DEF Inv, InboxTypeOK
<1>3. StatesTruthful' /\ MemoryIsStored'
  BY <1>1 DEF Inv, StatesTruthful, Truthful, MemoryIsStored
<1>4. DuplicatesSettled' /\ TaskTruthful' /\ OneTurn'
  BY <1>1 DEF Inv, DuplicatesSettled, TaskTruthful, OneTurn
<1> QED BY <1>2, <1>3, <1>4 DEF Inv

LEMMA StepInv == Inv /\ [Next]_inboxVars => Inv'
<1> SUFFICES ASSUME Inv, [Next]_inboxVars
             PROVE  Inv'
  OBVIOUS
<1>1. CASE UNCHANGED inboxVars
  BY <1>1, StutterInv
<1>2. CASE \E m \in Msgs : Duplicate(m) \/ Elapse(m) \/ Expire(m)
  BY <1>2, DuplicateKeeps, PumpKeeps, ExpireKeeps
<1>3. CASE \E m \in Msgs, result \in Results : Enqueue(m, result)
  BY <1>3, EnqueueKeeps
<1>4. CASE Drain
  <2>1. CASE \E m \in Msgs, result \in Results : Mark(m, result)
    BY <2>1, MarkKeeps
  <2>2. CASE MarkFull \/ DrainReturns \/ DrainEnds
    BY <2>2, PumpKeeps
  <2>3. CASE Dispatch
    BY <2>3, PassKeeps, ClaimMessageKeeps, ReleaseKeeps, TurnKeeps DEF Dispatch
  <2>4. CASE \E result \in Results : Complete(result) \/ Fail(result) \/ Quarantine(result)
    BY <2>4, CompleteKeeps, FailKeeps, QuarantineKeeps
  <2>5. CASE BlockAfterWriteFailure
    BY <2>5, BlockKeeps
  <2> QED BY <1>4, <2>1, <2>2, <2>3, <2>4, <2>5 DEF Drain
<1>5. CASE ScheduleNext \/ TimerFires \/ Stop
  BY <1>5, PumpKeeps
<1>6. CASE \E which \in SUBSET Msgs, result \in Results : ReplayDeadLetters(which, result)
  BY <1>6, ReplayKeeps
<1>7. CASE \E result \in Results : RetryPersistence(result)
  BY <1>7, RetryKeeps
<1>8. CASE StopEnds \/ Crash
  BY <1>8, EndKeeps
<1>9. CASE Start
  BY <1>9, StartKeeps
<1> QED BY <1>1, <1>2, <1>3, <1>4, <1>5, <1>6, <1>7, <1>8, <1>9 DEF Next

LEMMA InvHolds == Spec => []Inv
  BY InitInv, StepInv, PTL DEF Spec

(* The state of the inbox keeps its shape.                                 *)
THEOREM InboxTypeCorrect == Spec => []InboxTypeOK
<1>1. Inv => InboxTypeOK
  BY DEF Inv
<1> QED BY <1>1, InvHolds, PTL

(* However often a message is delivered, retried, replayed or found in the *)
(* file after a crash, the agent gets it in one turn at most.              *)
THEOREM AtMostOneTurn == Spec => []OneTurn
<1>1. Inv => OneTurn
  BY DEF Inv
<1> QED BY <1>1, InvHolds, PTL

(* What the platform was told was received never leaves the file.          *)
THEOREM AnsweredIsStored == Spec => []AckedIsStored
<1>1. Inv => AckedIsStored
  BY DEF Inv, InboxTypeOK, StatesTruthful, Truthful, AckedIsStored
<1> QED BY <1>1, InvHolds, PTL

(* Nothing is completed on the word of a claim that an earlier attempt     *)
(* left behind.                                                            *)
THEOREM CompletedWasSettled == Spec => []CompletedIsSettled
<1>1. Inv => CompletedIsSettled
  BY DEF Inv, StatesTruthful, Truthful, CompletedIsSettled, In
<1> QED BY <1>1, InvHolds, PTL

-----------------------------------------------------------------------------
(* The capacities.  Room among the completed is looked for before a        *)
(* message is taken, and is still there when it is completed.              *)

RoomForTask == task # NoTask => Cardinality(In(mem, {"completed"})) < MaxCompleted

CapacityInv == WithinCapacity /\ RoomForTask

LEMMA InFinite ==
  ASSUME NEW state, NEW places
  PROVE  IsFiniteSet(In(state, places)) /\ Cardinality(In(state, places)) \in Nat
<1>1. In(state, places) \subseteq Msgs
  BY DEF In
<1> QED BY <1>1, FS_Subset, FS_CardinalityType

LEMMA InBounded ==
  ASSUME NEW state, NEW next, NEW places, In(next, places) \subseteq In(state, places)
  PROVE  Cardinality(In(next, places)) <= Cardinality(In(state, places))
  BY InFinite, FS_Subset

LEMMA InGrowsByOne ==
  ASSUME NEW state, NEW next, NEW places, NEW m,
         In(next, places) \subseteq In(state, places) \cup {m}
  PROVE  Cardinality(In(next, places)) <= Cardinality(In(state, places)) + 1
<1> DEFINE more == In(state, places) \cup {m}
<1>1. IsFiniteSet(more) /\ Cardinality(more) <= Cardinality(In(state, places)) + 1
  BY InFinite, FS_AddElement
<1>2. Cardinality(In(next, places)) <= Cardinality(more)
  BY <1>1, FS_Subset
<1>3. Cardinality(more) \in Nat
  BY <1>1, FS_CardinalityType
<1> QED BY <1>1, <1>2, <1>3, InFinite

(* A state with no more in any of the limited places fits as well.         *)
LEMMA FewerFit ==
  ASSUME NEW state, NEW next, Fits(state),
         In(next, Pending) \subseteq In(state, Pending),
         In(next, Dead) \subseteq In(state, Dead),
         In(next, {"completed"}) \subseteq In(state, {"completed"})
  PROVE  Fits(next)
  BY InBounded, InFinite, InboxAssumption DEF Fits

(* So does one in which a single message moved to where there was room.    *)
LEMMA MoveFits ==
  ASSUME NEW state \in State, Fits(state), NEW m \in Msgs, NEW entry \in Entry,
         \/ entry.place \in Pending /\ state[m].place \in Pending
         \/ entry.place \in Pending /\ Cardinality(In(state, Pending)) < MaxPending
         \/ entry.place \in Dead /\ Cardinality(In(state, Dead)) < MaxDead
         \/ entry.place = "completed" /\ Cardinality(In(state, {"completed"})) < MaxCompleted
  PROVE  Fits([state EXCEPT ![m] = entry])
<1> DEFINE next == [state EXCEPT ![m] = entry]
<1>1. /\ next \in State
      /\ next[m] = entry
      /\ \A n \in Msgs \ {m} : next[n] = state[n]
  BY PutEntry
<1> HIDE DEF next
<1>2. \A places : In(next, places) \subseteq In(state, places) \cup {m}
  BY <1>1 DEF In
<1>3. \A places : entry.place \notin places \/ state[m].place \in places
                    => In(next, places) \subseteq In(state, places)
  BY <1>1 DEF In
<1>4. /\ Cardinality(In(next, Pending)) <= Cardinality(In(state, Pending)) + 1
      /\ Cardinality(In(next, Dead)) <= Cardinality(In(state, Dead)) + 1
      /\ Cardinality(In(next, {"completed"})) <= Cardinality(In(state, {"completed"})) + 1
  BY <1>2, InGrowsByOne
<1>5. \A places : entry.place \notin places \/ state[m].place \in places
                    => Cardinality(In(next, places)) <= Cardinality(In(state, places))
  BY <1>3, InBounded
<1>6. \A s, places : Cardinality(In(s, places)) \in Nat
  BY InFinite
<1>7. Cardinality(In(next, Pending)) <= MaxPending
  <2>1. CASE entry.place \notin Pending \/ state[m].place \in Pending
    BY <1>5, <1>6, <2>1 DEF Fits
  <2>2. CASE entry.place \in Pending /\ state[m].place \notin Pending
    BY <1>4, <1>6, <2>2 DEF Pending, Dead
  <2> QED BY <2>1, <2>2
<1>8. Cardinality(In(next, Dead)) <= MaxDead
  <2>1. CASE entry.place \notin Dead
    BY <1>5, <1>6, <2>1 DEF Fits
  <2>2. CASE entry.place \in Dead
    BY <1>4, <1>6, <2>2 DEF Pending, Dead
  <2> QED BY <2>1, <2>2
<1>9. Cardinality(In(next, {"completed"})) <= MaxCompleted
  <2>1. CASE entry.place # "completed"
    BY <1>5, <1>6, <2>1 DEF Fits
  <2>2. CASE entry.place = "completed"
    BY <1>4, <1>6, <2>2 DEF Pending, Dead
  <2> QED BY <2>1, <2>2
<1>10. Fits(next)
  BY <1>7, <1>8, <1>9 DEF Fits
<1> QED BY <1>10 DEF next

LEMMA WriteFits ==
  ASSUME WithinCapacity, NEW next, NEW result \in Results, Write(next, result), Fits(next)
  PROVE  WithinCapacity'
<1>1. disk' \in {disk, next} /\ mem' \in {mem, next}
  BY DEF Write
<1>2. Fits(disk') /\ Fits(mem')
  BY <1>1 DEF WithinCapacity
<1> QED BY <1>2 DEF WithinCapacity, Fits, In

(* What is written, and what becomes of the task: the room it found stays. *)
LEMMA WriteRoom ==
  ASSUME RoomForTask, NEW next, NEW result, Write(next, result),
         task' # NoTask => task # NoTask,
         In(next, {"completed"}) \subseteq In(mem, {"completed"}) \/ task' = NoTask \/ result # "ok"
  PROVE  RoomForTask'
<1>1. CASE task' = NoTask
  BY <1>1 DEF RoomForTask
<1>2. CASE mem' = mem
  BY <1>2 DEF RoomForTask, In
<1>3. CASE task' # NoTask /\ mem' # mem
  <2>1. mem' = next /\ In(next, {"completed"}) \subseteq In(mem, {"completed"})
    BY <1>3 DEF Write
  <2>2. /\ Cardinality(In(next, {"completed"})) <= Cardinality(In(mem, {"completed"}))
        /\ Cardinality(In(next, {"completed"})) \in Nat
        /\ Cardinality(In(mem, {"completed"})) \in Nat
    BY <2>1, InBounded, InFinite
  <2>3. Cardinality(In(next, {"completed"})) < MaxCompleted
    BY <1>3, <2>2 DEF RoomForTask
  <2> QED BY <2>1, <2>3 DEF RoomForTask, In
<1> QED BY <1>1, <1>2, <1>3

LEMMA SameStatesFit ==
  ASSUME CapacityInv, UNCHANGED <<disk, mem>>, task' # NoTask => task # NoTask
  PROVE  CapacityInv'
  BY DEF CapacityInv, WithinCapacity, RoomForTask, Fits, In

LEMMA EnqueueFits ==
  ASSUME Inv, CapacityInv, NEW m \in Msgs, NEW result \in Results, Enqueue(m, result)
  PROVE  CapacityInv'
<1> DEFINE entry == [place |-> "pending", tries |-> 0]
           next == [mem EXCEPT ![m] = entry]
<1>1. mem \in State /\ entry \in Entry /\ entry.place \in Pending
  BY DEF Inv, InboxTypeOK, Entry, Places, Pending
<1>2. Fits(next)
  BY <1>1, MoveFits DEF CapacityInv, WithinCapacity, Enqueue
<1>3. In(next, {"completed"}) \subseteq In(mem, {"completed"})
  BY <1>1, PutEntry DEF In
<1> QED BY <1>2, <1>3, WriteFits, WriteRoom DEF CapacityInv, Enqueue

(* A step that writes another place for the message of the task.           *)
LEMMA PlaceFits ==
  ASSUME Inv, CapacityInv, NEW m \in Msgs, NEW p \in Places,
         \/ p \in Pending /\ mem[m].place \in Pending
         \/ p \in Dead /\ Cardinality(In(mem, Dead)) < MaxDead
         \/ p = "completed" /\ Cardinality(In(mem, {"completed"})) < MaxCompleted
  PROVE  /\ Fits([mem EXCEPT ![m].place = p])
         /\ p # "completed" =>
              In([mem EXCEPT ![m].place = p], {"completed"}) \subseteq In(mem, {"completed"})
<1> DEFINE entry == [mem[m] EXCEPT !.place = p]
<1>1. mem \in State
  BY DEF Inv, InboxTypeOK
<1>2. entry \in Entry /\ entry.place = p
  BY <1>1 DEF State, Entry
<1>3. [mem EXCEPT ![m].place = p] = [mem EXCEPT ![m] = entry]
  OBVIOUS
<1> HIDE DEF entry
<1>4. Fits([mem EXCEPT ![m] = entry])
  BY <1>1, <1>2, MoveFits DEF CapacityInv, WithinCapacity
<1>5. p # "completed" => In([mem EXCEPT ![m].place = p], {"completed"}) \subseteq In(mem, {"completed"})
  BY <1>1, PutPlace DEF In
<1> QED BY <1>3, <1>4, <1>5

LEMMA MarkFits ==
  ASSUME Inv, CapacityInv, NEW m \in Msgs, NEW result \in Results, Mark(m, result)
  PROVE  CapacityInv'
<1> DEFINE next == [mem EXCEPT ![m].place = "processing"]
<1>1. mem[m].place \in Pending /\ "processing" \in Pending \cap Places
  BY DEF Mark, Ready, Pending, Places
<1>2. Fits(next) /\ In(next, {"completed"}) \subseteq In(mem, {"completed"})
  BY <1>1, PlaceFits
<1>3. WithinCapacity'
  BY <1>2, WriteFits DEF CapacityInv, Mark
<1>4. /\ Cardinality(In(next, {"completed"})) <= Cardinality(In(mem, {"completed"}))
      /\ Cardinality(In(next, {"completed"})) \in Nat
      /\ Cardinality(In(mem, {"completed"})) \in Nat
      /\ Cardinality(In(mem, {"completed"})) < MaxCompleted
  BY <1>2, InBounded, InFinite DEF Mark
<1>5. mem' \in {mem, next}
  BY DEF Mark, Write
<1>6. Cardinality(In(mem', {"completed"})) < MaxCompleted
  BY <1>4, <1>5
<1> QED BY <1>3, <1>6 DEF CapacityInv, RoomForTask, In

(* The outcome of the message of the task is stored.                       *)
LEMMA StoringFits ==
  ASSUME Inv, CapacityInv, NEW next, NEW result \in Results, Write(next, result),
         AfterStoring(result), Fits(next), task # NoTask
  PROVE  CapacityInv'
<1>1. result = "ok" => task' = NoTask
  BY DEF AfterStoring
<1> QED BY <1>1, WriteFits, WriteRoom DEF CapacityInv

LEMMA OutcomeFits ==
  ASSUME Inv, CapacityInv, NEW result \in Results,
         Complete(result) \/ Fail(result) \/ Quarantine(result)
  PROVE  CapacityInv'
<1>1. task # NoTask /\ task.msg \in Msgs /\ mem[task.msg].place = "processing"
  BY TaskType DEF Inv, Complete, Fail, Quarantine, TaskTruthful
<1>2. Cardinality(In(mem, {"completed"})) < MaxCompleted /\ "processing" \in Pending
  BY <1>1 DEF CapacityInv, RoomForTask, Pending
<1>3. CASE Complete(result)
  <2>1. Fits([mem EXCEPT ![task.msg].place = "completed"])
    BY <1>1, <1>2, PlaceFits DEF Places
  <2> QED BY <1>1, <1>3, <2>1, StoringFits DEF Complete, This
<1>4. CASE Quarantine(result)
  <2> DEFINE p == IF Cardinality(In(mem, Dead)) < MaxDead THEN "deadReview" ELSE "review"
  <2>1. /\ p \in Places
        /\ p \in Pending \/ (p \in Dead /\ Cardinality(In(mem, Dead)) < MaxDead)
    <3>1. CASE Cardinality(In(mem, Dead)) < MaxDead
      BY <3>1 DEF Places, Pending, Dead
    <3>2. CASE ~(Cardinality(In(mem, Dead)) < MaxDead)
      BY <3>2 DEF Places, Pending, Dead
    <3> QED BY <3>1, <3>2
  <2> HIDE DEF p
  <2>2. Fits([mem EXCEPT ![task.msg].place = p])
    BY <1>1, <1>2, <2>1, PlaceFits
  <2> QED BY <1>1, <1>4, <2>2, StoringFits DEF Quarantine, This, p
<1>5. CASE Fail(result)
  <2> DEFINE tries == mem[This].tries + 1
             dead == tries >= MaxAttempts /\ Cardinality(In(mem, Dead)) < MaxDead
             entry == [place |-> IF dead THEN "dead" ELSE "pending",
                       tries |-> IF tries > MaxAttempts THEN MaxAttempts ELSE tries]
  <2>1. mem \in State /\ mem[This].tries \in Nat
    BY <1>1 DEF Inv, InboxTypeOK, State, This
  <2>2. entry \in Entry
    <3>1. (IF tries > MaxAttempts THEN MaxAttempts ELSE tries) \in 0..MaxAttempts
      BY <2>1, InboxAssumption
    <3>2. (IF dead THEN "dead" ELSE "pending") \in Places
      BY DEF Places, Pending, Dead
    <3> QED BY <3>1, <3>2 DEF Entry
  <2>3. entry.place \in Pending \/ (entry.place \in Dead /\ Cardinality(In(mem, Dead)) < MaxDead)
    <3>1. CASE dead
      BY <3>1 DEF Dead
    <3>2. CASE ~dead
      BY <3>2 DEF Pending
    <3> QED BY <3>1, <3>2
  <2>4. Write([mem EXCEPT ![This] = entry], result) /\ AfterStoring(result)
    BY <1>5 DEF Fail
  <2> HIDE DEF entry
  <2>5. Fits([mem EXCEPT ![This] = entry])
    BY <1>1, <1>2, <2>1, <2>2, <2>3, MoveFits DEF CapacityInv, WithinCapacity, This
  <2> QED BY <1>1, <2>4, <2>5, StoringFits
<1> QED BY <1>3, <1>4, <1>5

LEMMA BlockFits ==
  ASSUME Inv, CapacityInv, BlockAfterWriteFailure
  PROVE  CapacityInv'
<1>1. task.msg \in Msgs /\ mem[task.msg].place = "processing"
  BY TaskType DEF Inv, BlockAfterWriteFailure, TaskTruthful
<1>2. Fits([mem EXCEPT ![task.msg].place = "review"])
  BY <1>1, PlaceFits DEF Pending, Places
<1>3. Fits(mem') /\ Fits(disk')
  BY <1>2 DEF BlockAfterWriteFailure, CapacityInv, WithinCapacity, This
<1>4. task' = NoTask
  BY DEF BlockAfterWriteFailure
<1> QED BY <1>3, <1>4 DEF CapacityInv, WithinCapacity, RoomForTask, Fits, In

(* A replay looks for room for all it takes from the dead letters.         *)
LEMMA ReplayFits ==
  ASSUME Inv, CapacityInv, NEW which \in SUBSET Msgs, NEW result \in Results,
         ReplayDeadLetters(which, result)
  PROVE  CapacityInv'
<1> DEFINE next == [m \in Msgs |-> IF m \in which THEN [place |-> "pending", tries |-> 0] ELSE mem[m]]
<1>1. /\ In(next, Pending) \subseteq In(mem, Pending) \cup which
      /\ In(next, Dead) \subseteq In(mem, Dead)
      /\ In(next, {"completed"}) \subseteq In(mem, {"completed"})
  BY DEF In, Pending, Dead
<1>2. IsFiniteSet(which) /\ Cardinality(which) \in Nat
  BY FS_Subset, FS_CardinalityType
<1>3. /\ IsFiniteSet(In(mem, Pending) \cup which)
      /\ Cardinality(In(mem, Pending) \cup which) <= Cardinality(In(mem, Pending)) + Cardinality(which)
  <2> DEFINE old == In(mem, Pending)
  <2>1. IsFiniteSet(old) /\ Cardinality(old) \in Nat
    BY InFinite
  <2> HIDE DEF old
  <2>2. IsFiniteSet(old \cap which)
    BY <2>1, FS_Intersection
  <2>3. Cardinality(old \cap which) \in Nat
    BY <2>2, FS_CardinalityType
  <2>4. /\ IsFiniteSet(old \cup which)
        /\ Cardinality(old \cup which) =
             Cardinality(old) + Cardinality(which) - Cardinality(old \cap which)
    BY <1>2, <2>1, FS_Union
  <2>5. Cardinality(old \cup which) <= Cardinality(old) + Cardinality(which)
    BY <1>2, <2>1, <2>3, <2>4
  <2> QED BY <2>4, <2>5 DEF old
<1>4. /\ Cardinality(In(next, Pending)) <= Cardinality(In(mem, Pending) \cup which)
      /\ Cardinality(In(mem, Pending) \cup which) \in Nat
  BY <1>1, <1>3, FS_Subset, FS_CardinalityType
<1>5. Cardinality(In(mem, Pending)) + Cardinality(which) <= MaxPending
  BY DEF ReplayDeadLetters
<1>6. Cardinality(In(next, Pending)) <= MaxPending
  BY <1>2, <1>3, <1>4, <1>5, InFinite
<1>7. /\ Cardinality(In(next, Dead)) <= Cardinality(In(mem, Dead))
      /\ Cardinality(In(next, {"completed"})) <= Cardinality(In(mem, {"completed"}))
  BY <1>1, InBounded
<1> HIDE DEF next
<1>8. Fits(next)
  BY <1>6, <1>7, InFinite DEF Fits, CapacityInv, WithinCapacity
<1>9. Write(next, result) /\ task' = task
  BY DEF ReplayDeadLetters, next
<1> QED BY <1>1, <1>8, <1>9, WriteFits, WriteRoom DEF CapacityInv

LEMMA RetryFits ==
  ASSUME CapacityInv, NEW result \in Results, RetryPersistence(result)
  PROVE  CapacityInv'
  BY WriteFits, WriteRoom DEF RetryPersistence, CapacityInv, WithinCapacity

LEMMA ExpireFits ==
  ASSUME Inv, CapacityInv, NEW m \in Msgs, Expire(m)
  PROVE  CapacityInv'
<1>1. ASSUME NEW state \in State, Fits(state)
      PROVE  /\ Fits(Expired(state, m))
             /\ In(Expired(state, m), {"completed"}) \subseteq In(state, {"completed"})
  <2>1. CASE state[m].place = "completed"
    <3> DEFINE next == [state EXCEPT ![m].place = "expired"]
    <3>0. "expired" \in Places
      BY DEF Places
    <3>1. /\ next \in State
          /\ next[m].place = "expired"
          /\ \A n \in Msgs \ {m} : next[n] = state[n]
      BY <1>1, <3>0, PutPlace
    <3> HIDE DEF next
    <3>2. /\ In(next, Pending) \subseteq In(state, Pending)
          /\ In(next, Dead) \subseteq In(state, Dead)
          /\ In(next, {"completed"}) \subseteq In(state, {"completed"})
      BY <3>1 DEF In, Pending, Dead
    <3> QED BY <1>1, <2>1, <3>2, FewerFit DEF Expired, next
  <2>2. CASE state[m].place # "completed"
    BY <1>1, <2>2 DEF Expired
  <2> QED BY <2>1, <2>2
<1>2. /\ disk \in State /\ mem \in State /\ Fits(disk) /\ Fits(mem)
      /\ disk' = Expired(disk, m) /\ mem' = Expired(mem, m) /\ task' = task
  BY DEF Inv, InboxTypeOK, CapacityInv, WithinCapacity, Expire
<1>3. Fits(disk') /\ Fits(mem') /\ In(mem', {"completed"}) \subseteq In(mem, {"completed"})
  BY <1>1, <1>2
<1>4. task # NoTask => Cardinality(In(mem', {"completed"})) < MaxCompleted
  BY <1>3, InBounded, InFinite DEF CapacityInv, RoomForTask
<1> QED BY <1>2, <1>3, <1>4 DEF CapacityInv, WithinCapacity, RoomForTask, Fits, In

(* What an account that starts finds in the file fits.                     *)
LEMMA RestartFits ==
  ASSUME Inv, CapacityInv, Start \/ StopEnds \/ Crash
  PROVE  CapacityInv'
<1>1. task' = NoTask /\ disk' = disk
  BY DEF Inv, InboxTypeOK, Start, StopEnds, Crash
<1>2. Fits(mem')
  <2>1. CASE Start
    <3>1. /\ In(mem', Pending) \subseteq In(disk, Pending)
          /\ In(mem', Dead) \subseteq In(disk, Dead)
          /\ In(mem', {"completed"}) \subseteq In(disk, {"completed"})
      <4>1. ASSUME NEW m \in Msgs
            PROVE  \/ mem'[m].place = disk[m].place
                   \/ mem'[m].place = "review" /\ disk[m].place = "processing"
        <5>1. CASE disk[m].place = "processing"
          <6>1. mem'[m] = [disk[m] EXCEPT !.place = "review"] /\ disk[m] \in Entry
            BY <2>1, <5>1 DEF Start, Inv, InboxTypeOK, State, Entry
          <6> QED BY <5>1, <6>1 DEF Entry
        <5>2. CASE disk[m].place # "processing"
          BY <2>1, <5>2 DEF Start
        <5> QED BY <5>1, <5>2
      <4> QED BY <4>1 DEF In, Pending, Dead
    <3> QED BY <3>1, FewerFit DEF CapacityInv, WithinCapacity
  <2>2. CASE StopEnds \/ Crash
    <3>1. mem' = Empty
      BY <2>2 DEF StopEnds, Crash
    <3>2. \A places : "absent" \notin places => In(mem', places) = {}
      BY <3>1, EmptyState DEF In
    <3> QED BY <3>2, FewerFit DEF CapacityInv, WithinCapacity, Pending, Dead
  <2> QED BY <2>1, <2>2
<1> QED BY <1>1, <1>2 DEF CapacityInv, WithinCapacity, RoomForTask, Fits, In

LEMMA CapacityInit == Init => CapacityInv
<1> SUFFICES ASSUME Init PROVE CapacityInv
  OBVIOUS
<1>1. \A places : "absent" \notin places => In(Empty, places) = {}
  BY EmptyState DEF In
<1>2. Fits(Empty)
  BY <1>1, FS_EmptySet, InboxAssumption DEF Fits, Pending, Dead
<1> QED BY <1>2 DEF Init, CapacityInv, WithinCapacity, RoomForTask

LEMMA CapacityStep ==
  ASSUME Inv, CapacityInv, [Next]_inboxVars
  PROVE  CapacityInv'
<1>1. CASE UNCHANGED inboxVars
  BY <1>1, SameStatesFit DEF inboxVars
<1>2. CASE \E m \in Msgs : Duplicate(m) \/ Elapse(m) \/ Expire(m)
  BY <1>2, SameStatesFit, ExpireFits DEF Duplicate, Elapse
<1>3. CASE \E m \in Msgs, result \in Results : Enqueue(m, result)
  BY <1>3, EnqueueFits
<1>4. CASE Drain
  <2>1. CASE \E m \in Msgs, result \in Results : Mark(m, result)
    BY <2>1, MarkFits
  <2>2. CASE MarkFull \/ DrainReturns \/ DrainEnds
    BY <2>2, SameStatesFit DEF MarkFull, DrainReturns, DrainEnds
  <2>3. CASE Dispatch
    <3>1. task # NoTask /\ UNCHANGED <<disk, mem>>
      BY <2>3, NoTaskStep DEF Dispatch, DispatchThrows, Skip, Block, ClaimMessage, NotStarted, Decline,
                  StartTurn, TurnEnds, TurnFails
    <3> QED BY <3>1, SameStatesFit
  <2>4. CASE \E result \in Results : Complete(result) \/ Fail(result) \/ Quarantine(result)
    BY <2>4, OutcomeFits
  <2>5. CASE BlockAfterWriteFailure
    BY <2>5, BlockFits
  <2> QED BY <1>4, <2>1, <2>2, <2>3, <2>4, <2>5 DEF Drain
<1>5. CASE ScheduleNext \/ TimerFires \/ Stop
  BY <1>5, SameStatesFit DEF ScheduleNext, TimerFires, Stop
<1>6. CASE \E which \in SUBSET Msgs, result \in Results : ReplayDeadLetters(which, result)
  BY <1>6, ReplayFits
<1>7. CASE \E result \in Results : RetryPersistence(result)
  BY <1>7, RetryFits
<1>8. CASE Start \/ StopEnds \/ Crash
  BY <1>8, RestartFits
<1> QED BY <1>1, <1>2, <1>3, <1>4, <1>5, <1>6, <1>7, <1>8 DEF Next

(* No limit of the inbox is exceeded, on disk or in memory, whatever is    *)
(* replayed, fails half way or is found in the file by the next start.     *)
THEOREM InboxStaysWithinCapacity == Spec => []WithinCapacity
<1>1. CapacityInv => WithinCapacity
  BY DEF CapacityInv
<1> QED BY <1>1, InvHolds, CapacityInit, CapacityStep, PTL DEF Spec

-----------------------------------------------------------------------------
(* DouyinInbox implements InboundCustody. *)

(* What a state says is over stays over: the file and the memory only ever *)
(* go to each other's state or to one in which it is.                      *)
Over(state) == In(state, {"completed", "expired"})

LEMMA OverOf ==
  Released = {m \in Msgs : m \in Over(disk) /\ (phase # "off" => m \in Over(mem))}
BY DEF Released, Over, In

LEMMA WriteReleases ==
  ASSUME phase # "off", phase' = phase, NEW next, NEW result \in Results, Write(next, result),
         Over(mem) \subseteq Over(next)
  PROVE  Released \subseteq Released'
<1>1. /\ disk' \in {disk, next} /\ mem' \in {mem, next}
  BY DEF Write
<1>2. \A m \in Released : m \in Over(disk') /\ m \in Over(mem')
  BY <1>1, OverOf
<1>3. \A m \in Msgs : m \in Over(disk') /\ m \in Over(mem') => m \in Released'
  BY DEF Released, Over, In
<1> QED BY <1>2, <1>3, OverOf

(* A write that changes one message, which was not over.                   *)
LEMMA PutReleases ==
  ASSUME mem \in State, phase # "off", phase' = phase, NEW m \in Msgs,
         mem[m].place \notin {"completed", "expired"},
         NEW next, \A n \in Msgs \ {m} : next[n] = mem[n],
         NEW result \in Results, Write(next, result)
  PROVE  Released \subseteq Released'
<1>1. Over(mem) \subseteq Over(next)
  BY DEF Over, In
<1> QED BY <1>1, WriteReleases

LEMMA StoringReleases ==
  ASSUME Inv, NEW result \in Results, Complete(result) \/ Fail(result) \/ Quarantine(result)
  PROVE  Released \subseteq Released'
<1>1. task.step \in {"done", "failed", "doubt"} /\ task.step \notin {"idle", "block"}
  BY DEF Complete, Fail, Quarantine
<1>2. /\ mem \in State /\ task.msg \in Msgs /\ task # NoTask /\ phase # "off"
  BY <1>1, TaskType DEF Inv, InboxTypeOK
<1>3. mem[task.msg].place = "processing"
  BY <1>2 DEF Inv, TaskTruthful
<1>4. phase' = phase
  BY DEF Complete, Fail, Quarantine, AfterStoring
<1>5. PICK entry : Write([mem EXCEPT ![task.msg] = entry], result)
  <2>1. CASE Complete(result)
    <3>1. Write([mem EXCEPT ![task.msg] = [mem[task.msg] EXCEPT !.place = "completed"]], result)
      BY <2>1 DEF Complete, This
    <3> QED BY <3>1
  <2>2. CASE Fail(result)
    BY <2>2 DEF Fail, This
  <2>3. CASE Quarantine(result)
    <3> DEFINE place == IF Cardinality(In(mem, Dead)) < MaxDead THEN "deadReview" ELSE "review"
    <3>1. Write([mem EXCEPT ![task.msg] = [mem[task.msg] EXCEPT !.place = place]], result)
      BY <2>3 DEF Quarantine, This
    <3> QED BY <3>1
  <2> QED BY <2>1, <2>2, <2>3
<1>6. \A n \in Msgs \ {task.msg} : [mem EXCEPT ![task.msg] = entry][n] = mem[n]
  BY <1>2 DEF State
<1> QED BY <1>2, <1>3, <1>4, <1>5, <1>6, PutReleases

LEMMA EnqueueReleases ==
  ASSUME Inv, NEW m \in Msgs, NEW result \in Results, Enqueue(m, result) \/ Mark(m, result)
  PROVE  Released \subseteq Released'
<1>1. mem \in State /\ phase = "on" /\ phase' = phase /\ mem[m].place \in {"absent", "pending"}
  BY DEF Enqueue, Mark, Ready, Inv, InboxTypeOK
<1>2. PICK entry : Write([mem EXCEPT ![m] = entry], result)
  <2>1. CASE Enqueue(m, result)
    BY <2>1 DEF Enqueue
  <2>2. CASE Mark(m, result)
    <3>1. Write([mem EXCEPT ![m] = [mem[m] EXCEPT !.place = "processing"]], result)
      BY <2>2 DEF Mark
    <3> QED BY <3>1
  <2> QED BY <2>1, <2>2
<1>3. \A n \in Msgs \ {m} : [mem EXCEPT ![m] = entry][n] = mem[n]
  BY <1>1 DEF State
<1> QED BY <1>1, <1>2, <1>3, PutReleases

LEMMA AdministratorReleases ==
  ASSUME Inv, NEW result \in Results,
         RetryPersistence(result) \/ (\E which \in SUBSET Msgs : ReplayDeadLetters(which, result))
  PROVE  Released \subseteq Released'
<1>1. phase = "on" /\ phase' = phase
  BY DEF RetryPersistence, ReplayDeadLetters
<1>2. CASE RetryPersistence(result)
  BY <1>1, <1>2, WriteReleases DEF RetryPersistence
<1>3. ASSUME NEW which \in SUBSET Msgs, ReplayDeadLetters(which, result)
      PROVE  Released \subseteq Released'
  <2> DEFINE next == [m \in Msgs |-> IF m \in which THEN [place |-> "pending", tries |-> 0] ELSE mem[m]]
  <2>1. Write(next, result) /\ \A m \in which : mem[m].place = "dead"
    BY <1>3 DEF ReplayDeadLetters, In
  <2>2. \A m \in Msgs \ which : next[m] = mem[m]
    OBVIOUS
  <2> HIDE DEF next
  <2>3. Over(mem) \subseteq Over(next)
    BY <2>1, <2>2 DEF Over, In
  <2> QED BY <1>1, <2>1, <2>3, WriteReleases
<1> QED BY <1>2, <1>3

LEMMA ExpireReleases ==
  ASSUME Inv, NEW m \in Msgs, Expire(m)
  PROVE  Released \subseteq Released'
<1>1. /\ disk \in State /\ mem \in State /\ phase' = phase
      /\ disk' = Expired(disk, m) /\ mem' = Expired(mem, m)
  BY DEF Expire, Inv, InboxTypeOK
<1>2. ASSUME NEW state \in State PROVE Over(state) \subseteq Over(Expired(state, m))
  <2>1. /\ [state EXCEPT ![m].place = "expired"] \in State
        /\ [state EXCEPT ![m].place = "expired"][m].place = "expired"
        /\ \A n \in Msgs \ {m} : [state EXCEPT ![m].place = "expired"][n] = state[n]
    BY PutPlace DEF Places
  <2> QED BY <2>1 DEF Over, In, Expired
<1>3. \A n \in Released : n \in Over(disk') /\ (phase # "off" => n \in Over(mem'))
  BY <1>1, <1>2, OverOf
<1>4. \A n \in Msgs : n \in Over(disk') /\ (phase # "off" => n \in Over(mem')) => n \in Released'
  BY <1>1 DEF Released, Over, In
<1> QED BY <1>3, <1>4, OverOf

(* The account ends and starts: what comes back is the file.               *)
LEMMA AccountReleases ==
  ASSUME Inv, StopEnds \/ Crash \/ Start \/ BlockAfterWriteFailure
  PROVE  Released \subseteq Released'
<1>1. disk' = disk /\ disk \in State /\ mem \in State
  BY DEF StopEnds, Crash, Start, BlockAfterWriteFailure, Inv, InboxTypeOK
<1>2. CASE StopEnds \/ Crash
  BY <1>1, <1>2 DEF StopEnds, Crash, Released
<1>3. CASE Start
  <2>1. \A m \in Msgs : disk[m].place # "processing" => mem'[m] = disk[m]
    BY <1>3 DEF Start
  <2> QED BY <1>1, <2>1 DEF Released
<1>4. CASE BlockAfterWriteFailure
  <2>1. task.msg \in Msgs /\ task # NoTask
    BY <1>4, TaskType DEF BlockAfterWriteFailure, Inv
  <2>2. mem[task.msg].place = "processing" /\ phase # "off"
    BY <1>4, <2>1, TaskType DEF BlockAfterWriteFailure, Inv, TaskTruthful
  <2>3. phase' = phase /\ \A n \in Msgs \ {task.msg} : mem'[n] = mem[n]
    BY <1>1, <1>4 DEF BlockAfterWriteFailure, This, State
  <2> QED BY <1>1, <2>2, <2>3 DEF Released
<1> QED BY <1>2, <1>3, <1>4

(* The steps that release messages are none of the agent's.                *)
LEMMA ReleaseCustody ==
  ASSUME Inv, Inv', UNCHANGED <<turns, settled>>, Released \subseteq Released'
  PROVE  Custody!Next
<1>1. Released' \subseteq settled
  BY DEF Inv, StatesTruthful, Truthful, Released
<1>2. Released' \subseteq Msgs
  BY DEF Released
<1>3. Released' = Released \cup Released'
  OBVIOUS
<1>4. Custody!LetGo(Released', {})
  BY <1>1, <1>3 DEF Custody!LetGo
<1> QED BY <1>2, <1>4 DEF Custody!Next

LEMMA DispatchCustody ==
  ASSUME Inv, Dispatch
  PROVE  Custody!Next \/ UNCHANGED Custody!custodyVars
<1>1. UNCHANGED <<disk, mem, phase>>
  BY DEF Dispatch, DispatchThrows, Skip, Block, ClaimMessage, NotStarted, Decline, StartTurn,
         TurnEnds, TurnFails
<1>2. UNCHANGED Released
  BY <1>1 DEF Released
<1>3. task.msg \in Msgs /\ task # NoTask /\ turns \in [Msgs -> Nat]
  BY TaskType DEF Dispatch, DispatchThrows, Skip, Block, ClaimMessage, NotStarted, Decline,
                  StartTurn, TurnEnds, TurnFails, Inv, InboxTypeOK
<1>4. CASE StartTurn
  <2>1. turns[task.msg] = 0 /\ task.msg \notin settled /\ UNCHANGED settled
    BY <1>3, <1>4 DEF StartTurn, Inv, TaskTruthful
  <2>2. turns' = [turns EXCEPT ![task.msg] = 1]
    BY <1>3, <1>4, <2>1 DEF StartTurn, This
  <2>3. Custody!Begin(task.msg)
    BY <1>2, <2>1, <2>2 DEF Custody!Begin
  <2> QED BY <1>3, <2>3 DEF Custody!Next
<1>5. CASE UNCHANGED <<turns, settled>>
  BY <1>2, <1>5 DEF Custody!custodyVars
<1>6. CASE UNCHANGED turns /\ settled' = settled \cup {task.msg} /\ task.msg \notin settled
  <2>1. Custody!Finish(task.msg)
    BY <1>2, <1>6 DEF Custody!Finish
  <2> QED BY <1>3, <2>1 DEF Custody!Next
<1>7. StartTurn \/ (UNCHANGED turns /\ settled' \in {settled, settled \cup {task.msg}})
  BY DEF Dispatch, DispatchThrows, Skip, Block, ClaimMessage, NotStarted, Decline, TurnEnds,
         TurnFails, This, history
<1> QED BY <1>4, <1>5, <1>6, <1>7

LEMMA StepCustody ==
  ASSUME Inv, [Next]_inboxVars
  PROVE  Custody!Next \/ UNCHANGED Custody!custodyVars
<1>1. Inv'
  BY StepInv
<1>2. CASE \/ UNCHANGED inboxVars
           \/ MarkFull \/ DrainReturns \/ DrainEnds \/ ScheduleNext \/ TimerFires \/ Stop
           \/ \E m \in Msgs : Duplicate(m) \/ Elapse(m)
  <2>1. UNCHANGED <<disk, mem, turns, settled>> /\ (phase' = phase \/ Stop)
    BY <1>2 DEF MarkFull, DrainReturns, DrainEnds, ScheduleNext, TimerFires, Stop, Duplicate, Elapse,
                inboxVars, history
  <2>2. UNCHANGED Released
    BY <2>1 DEF Released, Stop
  <2> QED BY <2>1, <2>2 DEF Custody!custodyVars
<1>3. CASE Dispatch
  BY <1>3, DispatchCustody
<1>4. ASSUME NEW result \in Results,
             \/ \E m \in Msgs : Enqueue(m, result) \/ Mark(m, result)
             \/ Complete(result) \/ Fail(result) \/ Quarantine(result)
             \/ RetryPersistence(result)
             \/ \E which \in SUBSET Msgs : ReplayDeadLetters(which, result)
      PROVE  Custody!Next
  <2>1. UNCHANGED <<turns, settled>>
    BY <1>4 DEF Enqueue, Mark, Complete, Fail, Quarantine, AfterStoring, RetryPersistence,
                ReplayDeadLetters, history
  <2>2. Released \subseteq Released'
    BY <1>4, EnqueueReleases, StoringReleases, AdministratorReleases
  <2> QED BY <1>1, <2>1, <2>2, ReleaseCustody
<1>5. CASE \/ StopEnds \/ Crash \/ Start \/ BlockAfterWriteFailure
           \/ \E m \in Msgs : Expire(m)
  <2>1. UNCHANGED <<turns, settled>>
    BY <1>5 DEF StopEnds, Crash, Start, BlockAfterWriteFailure, Expire, history
  <2>2. Released \subseteq Released'
    BY <1>5, AccountReleases, ExpireReleases
  <2> QED BY <1>1, <2>1, <2>2, ReleaseCustody
<1> QED BY <1>2, <1>3, <1>4, <1>5 DEF Next, Drain

LEMMA InitCustody == Init => Custody!Init
<1> SUFFICES ASSUME Init PROVE Custody!Init
  OBVIOUS
<1>1. Released = {}
  BY EmptyState DEF Init, Released
<1> QED BY <1>1 DEF Init, Custody!Init

(* The file, the memory and the dedupe keep the promise of InboundCustody  *)
(* through failed writes, stops, crashes and replayed dead letters.        *)
THEOREM InboxImplementsInboundCustody == Spec => ImplementsInboundCustody
<1>1. Inv /\ [Next]_inboxVars => [Custody!Next]_(Custody!custodyVars)
  BY StepCustody
<1> QED BY <1>1, InitCustody, InvHolds, PTL DEF Spec, ImplementsInboundCustody, Custody!Spec

=============================================================================
