------------------------- MODULE RouterOutboxProofs -------------------------
(***************************************************************************)
(* Proofs about RouterOutbox, for any tasks, limits and numbers of errors, *)
(* crashes and replays, and any finite number of slots.                    *)
(***************************************************************************)
EXTENDS RouterOutbox, FiniteSetTheorems, SequenceTheorems, TLAPS

USE OutboxAssumption

-----------------------------------------------------------------------------
(* The dead-letter queue. *)

LEMMA DeadAppend ==
  ASSUME NEW S, NEW s \in Seq(S), NEW e \in S, NEW x
  PROVE  Contains(Append(s, e), x) <=> Contains(s, x) \/ x = e
<1>1. /\ Append(s, e) \in Seq(S) /\ Len(Append(s, e)) = Len(s) + 1 /\ Len(s) \in Nat
      /\ Append(s, e)[Len(s) + 1] = e
      /\ \A i \in 1..Len(s) : Append(s, e)[i] = s[i]
  OBVIOUS
<1>2. ASSUME Contains(s, x) PROVE Contains(Append(s, e), x)
  BY <1>1, <1>2 DEF Contains
<1>3. ASSUME x = e PROVE Contains(Append(s, e), x)
  <2>1. Len(s) + 1 \in 1..Len(Append(s, e))
    BY <1>1
  <2> QED BY <1>1, <1>3, <2>1 DEF Contains
<1>4. ASSUME Contains(Append(s, e), x) PROVE Contains(s, x) \/ x = e
  <2>1. PICK i \in 1..Len(s) + 1 : Append(s, e)[i] = x
    BY <1>1, <1>4 DEF Contains
  <2>2. i = Len(s) + 1 \/ i \in 1..Len(s)
    BY <1>1
  <2> QED BY <1>1, <2>1, <2>2 DEF Contains
<1> QED BY <1>2, <1>3, <1>4

LEMMA DeadAppendInjective ==
  ASSUME NEW S, NEW s \in Seq(S), NEW e \in S, IsInjective(s), ~Contains(s, e)
  PROVE  IsInjective(Append(s, e))
<1>1. /\ DOMAIN Append(s, e) = 1..Len(s) + 1 /\ DOMAIN s = 1..Len(s) /\ Len(s) \in Nat
      /\ Append(s, e)[Len(s) + 1] = e
      /\ \A i \in 1..Len(s) : Append(s, e)[i] = s[i]
  OBVIOUS
<1>2. \A i \in 1..Len(s) : s[i] # e
  BY DEF Contains
<1>3. \A i \in 1..Len(s) + 1 : i = Len(s) + 1 \/ i \in 1..Len(s)
  BY <1>1
<1> QED BY <1>1, <1>2, <1>3 DEF IsInjective

(* What is replayed and what is left.                                      *)
Replayed(s, n) == ToSet(SubSeq(s, 1, n))

Left(s, n) == SubSeq(s, n + 1, Len(s))

LEMMA DeadSplit ==
  ASSUME NEW S, NEW s \in Seq(S), NEW n \in 1..Len(s)
  PROVE  /\ Left(s, n) \in Seq(S) /\ Len(Left(s, n)) <= Len(s)
         /\ Replayed(s, n) \subseteq S
         /\ \A x : Contains(s, x) <=> x \in Replayed(s, n) \/ Contains(Left(s, n), x)
         /\ IsInjective(s) => /\ IsInjective(Left(s, n))
                              /\ \A x \in Replayed(s, n) : ~Contains(Left(s, n), x)
<1> DEFINE first == SubSeq(s, 1, n)
           replayed == Replayed(s, n)
           left == Left(s, n)
<1>1. /\ Len(s) \in Nat /\ n \in Nat /\ DOMAIN s = 1..Len(s)
      /\ \A i \in 1..Len(s) : s[i] \in S
  OBVIOUS
<1>2. first \in Seq(S) /\ DOMAIN first = 1..n /\ \A i \in 1..n : first[i] = s[i]
  OBVIOUS
<1>3. /\ left \in Seq(S) /\ Len(left) = Len(s) - n /\ DOMAIN left = 1..Len(s) - n
      /\ \A i \in 1..Len(s) - n : left[i] = s[i + n]
  BY DEF Left
<1>4. \A x : x \in replayed <=> \E i \in 1..n : s[i] = x
  BY <1>2 DEF ToSet, Replayed
<1>5. \A x : Contains(left, x) <=> \E i \in n + 1..Len(s) : s[i] = x
  <2> SUFFICES ASSUME NEW x PROVE Contains(left, x) <=> \E i \in n + 1..Len(s) : s[i] = x
    OBVIOUS
  <2>1. ASSUME NEW i \in n + 1..Len(s), s[i] = x PROVE Contains(left, x)
    <3>1. i - n \in 1..Len(s) - n /\ (i - n) + n = i
      BY <1>1
    <3>2. i - n \in 1..Len(left) /\ left[i - n] = s[i]
      BY <1>3, <3>1
    <3> QED BY <2>1, <3>2 DEF Contains
  <2>2. ASSUME NEW i \in 1..Len(left), left[i] = x PROVE \E j \in n + 1..Len(s) : s[j] = x
    <3>1. i \in 1..Len(s) - n
      BY <1>3
    <3>2. i + n \in n + 1..Len(s)
      BY <1>1, <3>1
    <3>3. s[i + n] = x
      BY <1>3, <2>2, <3>1
    <3> QED BY <3>2, <3>3
  <2> QED BY <2>1, <2>2 DEF Contains
<1> HIDE DEF first, replayed, left
<1>6. replayed \subseteq S
  BY <1>1, <1>4
<1>7. \A x : Contains(s, x) <=> x \in replayed \/ Contains(left, x)
  <2>1. \A i : i \in 1..Len(s) <=> i \in 1..n \/ i \in n + 1..Len(s)
    BY <1>1
  <2> QED BY <1>4, <1>5, <2>1 DEF Contains
<1>8. ASSUME IsInjective(s) PROVE IsInjective(left) /\ \A x \in replayed : ~Contains(left, x)
  <2>1. \A a, b \in 1..Len(s) : s[a] = s[b] => a = b
    BY <1>1, <1>8 DEF IsInjective
  <2>2. IsInjective(left)
    <3>1. ASSUME NEW a \in 1..Len(s) - n, NEW b \in 1..Len(s) - n, left[a] = left[b] PROVE a = b
      <4>1. a + n \in 1..Len(s) /\ b + n \in 1..Len(s) /\ s[a + n] = s[b + n]
        BY <1>1, <1>3, <3>1
      <4>2. a + n = b + n
        BY <2>1, <4>1
      <4> QED BY <1>1, <4>2
    <3> QED BY <1>3, <3>1 DEF IsInjective
  <2>3. ASSUME NEW x \in replayed, Contains(left, x) PROVE FALSE
    <3>1. PICK i \in 1..n : s[i] = x
      BY <1>4
    <3>2. PICK j \in n + 1..Len(s) : s[j] = x
      BY <1>5, <2>3
    <3>3. i \in 1..Len(s) /\ j \in 1..Len(s) /\ i # j
      BY <1>1
    <3> QED BY <2>1, <3>1, <3>2, <3>3
  <2> QED BY <2>2, <2>3
<1> QED BY <1>1, <1>3, <1>6, <1>7, <1>8 DEF replayed, left

-----------------------------------------------------------------------------
(* The inductive invariant: no task is lost, because what the store calls  *)
(* delivered and what a worker has confirmed was published.                *)

Store == [pending : [Tasks -> Entry], delivered : SUBSET Tasks, dead : Seq(Tasks)]

StoreOK(st) == st \in Store /\ Len(st.dead) <= MaxDeadLetters

Kept(st, t) == st.pending[t].in \/ Contains(st.dead, t)

WorkersOK ==
  \A s \in Slots : /\ worker[s].step # "idle" => worker[s].task \in Tasks
                   /\ worker[s].step = "confirmed" => worker[s].task \in published

OutboxInv ==
  /\ OutboxTypeOK
  /\ WorkersOK
  /\ store.delivered \subseteq published
  /\ NothingLost

LEMMA InitInv == Init => OutboxInv
<1> SUFFICES ASSUME Init PROVE OutboxInv
  OBVIOUS
<1>1. NoEntry \in Entry /\ Idle \in Worker
  BY DEF NoEntry, Entry, Idle, Worker
<1>2. << >> \in Seq(Tasks) /\ Len(<< >>) <= MaxDeadLetters
  OBVIOUS
<1>3. store \in Store /\ Len(store.dead) <= MaxDeadLetters
  BY <1>1, <1>2 DEF Init, Store
<1>4. spent \in [errors : 0..MaxErrors, crashes : 0..MaxCrashes, replays : 0..MaxReplays]
  BY DEF Init
<1>5. OutboxTypeOK
  BY <1>1, <1>3, <1>4 DEF Init, OutboxTypeOK, Store
<1> QED BY <1>5 DEF Init, OutboxInv, WorkersOK, NothingLost, Idle

(* A commit that leaves nothing out of the store keeps the invariant.      *)
LEMMA CommitKeeps ==
  ASSUME OutboxInv, NEW next, NEW result \in Results, Commit(next, result),
         StoreOK(next), next.delivered \subseteq published,
         \A t \in Tasks : Kept(store, t) => Kept(next, t) \/ t \in published
  PROVE  /\ open' \in BOOLEAN
         /\ StoreOK(store')
         /\ store'.delivered \subseteq published
         /\ spent' \in [errors : 0..MaxErrors, crashes : 0..MaxCrashes, replays : 0..MaxReplays]
         /\ \A t \in accepted : Kept(store', t) \/ t \in published
<1>1. open' \in BOOLEAN
  BY DEF Commit
<1>2. store' = store \/ store' = next
  BY DEF Commit
<1>3. StoreOK(store) /\ store.delivered \subseteq published /\ accepted \subseteq Tasks
  BY DEF OutboxInv, OutboxTypeOK, StoreOK, Store
<1>4. \A t \in accepted : Kept(store, t) \/ t \in published
  BY DEF OutboxInv, NothingLost, Kept, IsPending, IsDead
<1>5. spent' \in [errors : 0..MaxErrors, crashes : 0..MaxCrashes, replays : 0..MaxReplays]
  BY DEF Commit, OutboxInv, OutboxTypeOK
<1> QED BY <1>1, <1>2, <1>3, <1>4, <1>5

(* What is left of the invariant when the parts are known.                 *)
LEMMA Assemble ==
  ASSUME StoreOK(store'), store'.delivered \subseteq published',
         \A t \in accepted' : Kept(store', t) \/ t \in published',
         open' \in BOOLEAN, life' \in {"stopped", "starting", "running", "stopping"},
         drain' \in {"none", "due", "wait"}, timer' \in BOOLEAN, worker' \in [Slots -> Worker],
         spent' \in [errors : 0..MaxErrors, crashes : 0..MaxCrashes, replays : 0..MaxReplays],
         accepted' \subseteq Tasks, published' \subseteq Tasks, WorkersOK'
  PROVE  OutboxInv'
<1>1. OutboxTypeOK'
  BY DEF OutboxTypeOK, StoreOK, Store
<1>2. NothingLost'
  BY DEF NothingLost, Kept, IsPending, IsDead
<1> QED BY <1>1, <1>2 DEF OutboxInv

LEMMA StoreFacts ==
  ASSUME OutboxInv
  PROVE  /\ StoreOK(store) /\ store.delivered \subseteq published
         /\ \A t \in accepted : Kept(store, t) \/ t \in published
         /\ \A t \in Tasks : store.pending[t] \in Entry
         /\ accepted \subseteq Tasks /\ published \subseteq Tasks
         /\ worker \in [Slots -> Worker]
<1> QED BY DEF OutboxInv, OutboxTypeOK, NothingLost, Kept, IsPending, IsDead, StoreOK, Store

LEMMA UnexpiredInv ==
  ASSUME OutboxInv, NEW d \in Unexpired
  PROVE  d \subseteq store.delivered /\ d \subseteq Tasks /\ d \subseteq published
<1>1. d \subseteq store.delivered
  BY DEF Unexpired
<1> QED BY <1>1 DEF OutboxInv, OutboxTypeOK

LEMMA WakeDrain ==
  ASSUME OutboxInv, Wake
  PROVE  drain' \in {"none", "due", "wait"}
<1> QED BY DEF Wake, OutboxInv, OutboxTypeOK

LEMMA EnqueueInv ==
  ASSUME OutboxInv, NEW batch \in SUBSET Tasks, NEW d \in Unexpired, NEW result \in Results,
         EnqueueBatch(batch, d, result)
  PROVE  OutboxInv'
<1> DEFINE new == {t \in batch : ~Known(t, d)}
           fresh == [in |-> TRUE, attempts |-> 0, due |-> TRUE]
           next == [store EXCEPT !.delivered = d,
                                 !.pending = [t \in Tasks |-> IF t \in new THEN fresh ELSE store.pending[t]]]
<1> USE StoreFacts, UnexpiredInv
<1>1. fresh \in Entry
  BY DEF Entry
<1>2. StoreOK(next) /\ next.delivered = d /\ next.dead = store.dead
  <2>1. [t \in Tasks |-> IF t \in new THEN fresh ELSE store.pending[t]] \in [Tasks -> Entry]
    BY <1>1
  <2> QED BY <2>1 DEF StoreOK, Store
<1>3. \A t \in Tasks : next.pending[t] = IF t \in new THEN fresh ELSE store.pending[t]
  BY DEF StoreOK, Store
<1>4. \A t \in Tasks : Kept(store, t) => Kept(next, t)
  BY <1>2, <1>3 DEF Kept
<1>5. \A t \in batch : Kept(next, t) \/ t \in published
  BY <1>2, <1>3 DEF Kept, Known, IsPending, IsDead
<1>6. /\ IF new # {} THEN Commit(next, result)
                     ELSE result = "ok" /\ open' = TRUE /\ UNCHANGED <<store, spent>>
      /\ IF result = "ok" THEN accepted' = accepted \cup batch ELSE UNCHANGED accepted
      /\ IF result = "ok" /\ new # {} THEN Wake ELSE UNCHANGED drain
      /\ UNCHANGED <<life, timer, worker, published>>
  BY DEF EnqueueBatch
<1>7. /\ open' \in BOOLEAN /\ StoreOK(store') /\ store'.delivered \subseteq published
      /\ spent' \in [errors : 0..MaxErrors, crashes : 0..MaxCrashes, replays : 0..MaxReplays]
      /\ \A t \in accepted : Kept(store', t) \/ t \in published
  <2>1. CASE new # {}
    <3>1. Commit(next, result)
      BY <1>6, <2>1
    <3> HIDE DEF next
    <3> QED BY <1>2, <1>4, <3>1, CommitKeeps
  <2>2. CASE new = {}
    BY <1>6, <2>2 DEF OutboxInv, OutboxTypeOK
  <2> QED BY <2>1, <2>2
<1>8. result = "ok" => \A t \in batch : Kept(store', t) \/ t \in published
  <2>1. CASE new # {}
    BY <1>5, <1>6, <2>1 DEF Commit
  <2>2. CASE new = {}
    BY <1>6, <2>2 DEF Kept, Known, IsPending, IsDead
  <2> QED BY <2>1, <2>2
<1> HIDE DEF new, next
<1>9. drain' \in {"none", "due", "wait"}
  BY <1>6, WakeDrain DEF OutboxInv, OutboxTypeOK
<1>10. accepted' \subseteq Tasks /\ \A t \in accepted' : Kept(store', t) \/ t \in published'
  BY <1>6, <1>7, <1>8
<1>11. WorkersOK'
  BY <1>6 DEF OutboxInv, WorkersOK
<1> QED BY <1>6, <1>7, <1>9, <1>10, <1>11, Assemble DEF OutboxInv, OutboxTypeOK

LEMMA ReplayInv ==
  ASSUME OutboxInv, NEW n \in 1..Len(store.dead), NEW result \in Results, ReplayDeadLetters(n, result)
  PROVE  OutboxInv'
<1> DEFINE fresh == [in |-> TRUE, attempts |-> 0, due |-> TRUE]
           next == [store EXCEPT !.dead = Left(store.dead, n),
                                 !.pending = [t \in Tasks |-> IF t \in Replayed(store.dead, n)
                                                THEN fresh ELSE store.pending[t]]]
<1> USE StoreFacts
<1>1. fresh \in Entry
  BY DEF Entry
<1>2. store.dead \in Seq(Tasks) /\ Len(store.dead) \in Nat /\ store \in Store
  BY DEF StoreOK, Store
<1>3. /\ Left(store.dead, n) \in Seq(Tasks) /\ Len(Left(store.dead, n)) <= Len(store.dead)
      /\ \A x : Contains(store.dead, x) <=> x \in Replayed(store.dead, n) \/ Contains(Left(store.dead, n), x)
  BY <1>2, DeadSplit
<1>4. StoreOK(next) /\ next.delivered = store.delivered /\ next.dead = Left(store.dead, n)
  <2>1. [t \in Tasks |-> IF t \in Replayed(store.dead, n) THEN fresh ELSE store.pending[t]]
          \in [Tasks -> Entry]
    BY <1>1
  <2>2. Len(Left(store.dead, n)) <= MaxDeadLetters
    BY <1>2, <1>3, LenProperties DEF StoreOK
  <2> QED BY <1>3, <2>1, <2>2 DEF StoreOK, Store
<1>5. \A t \in Tasks : next.pending[t] = IF t \in Replayed(store.dead, n) THEN fresh ELSE store.pending[t]
  BY <1>2 DEF Store
<1>6. \A t \in Tasks : Kept(store, t) => Kept(next, t)
  BY <1>3, <1>4, <1>5 DEF Kept
<1>7. /\ open' = TRUE
      /\ store' = IF result = "failed" THEN store ELSE next
      /\ IF result = "ok" THEN Wake ELSE UNCHANGED drain
      /\ UNCHANGED <<life, timer, worker, accepted, published>>
  BY DEF ReplayDeadLetters, Left, Replayed
<1>8. spent' \in [errors : 0..MaxErrors, crashes : 0..MaxCrashes, replays : 0..MaxReplays]
  <2>1. spent.replays + 1 \in 0..MaxReplays
    BY DEF ReplayDeadLetters, OutboxInv, OutboxTypeOK
  <2>2. (IF result = "ok" THEN spent.errors ELSE spent.errors + 1) \in 0..MaxErrors
    BY DEF ReplayDeadLetters, OutboxInv, OutboxTypeOK
  <2>3. spent' = [spent EXCEPT !.replays = @ + 1,
                               !.errors = IF result = "ok" THEN spent.errors ELSE spent.errors + 1]
    BY DEF ReplayDeadLetters
  <2> QED BY <2>1, <2>2, <2>3 DEF OutboxInv, OutboxTypeOK
<1> HIDE DEF next
<1>9. drain' \in {"none", "due", "wait"}
  BY <1>7, WakeDrain DEF OutboxInv, OutboxTypeOK
<1>10. StoreOK(store') /\ store'.delivered \subseteq published
  BY <1>4, <1>7
<1>11. \A t \in accepted' : Kept(store', t) \/ t \in published'
  BY <1>6, <1>7
<1>12. WorkersOK'
  BY <1>7 DEF OutboxInv, WorkersOK
<1> QED BY <1>7, <1>8, <1>9, <1>10, <1>11, <1>12, Assemble DEF OutboxInv, OutboxTypeOK

LEMMA TakeDueInv ==
  ASSUME OutboxInv, TakeDue
  PROVE  OutboxInv'
<1> USE StoreFacts
<1>1. PICK f \in Assignments : worker' = [s \in Slots |-> IF f[s] = Null THEN worker[s] ELSE Fresh(f[s])]
  BY DEF TakeDue
<1>2. \A s \in Slots : f[s] # Null => f[s] \in Tasks
  BY DEF Assignments, PendingTasks
<1>3. \A t \in Tasks : Fresh(t) \in Worker /\ Fresh(t).task = t /\ Fresh(t).step = "publish"
  BY DEF Fresh, Worker, Entry
<1>4. worker' \in [Slots -> Worker]
  BY <1>1, <1>2, <1>3
<1>5. WorkersOK'
  BY <1>1, <1>2, <1>3 DEF OutboxInv, WorkersOK, TakeDue
<1> QED BY <1>4, <1>5, Assemble DEF TakeDue, OutboxInv, OutboxTypeOK

(* The verdict on a task goes into the store; its worker ends.             *)
LEMMA FailureFacts ==
  ASSUME OutboxInv, NEW s \in Slots, worker[s].step = "failed"
  PROVE  /\ StoreOK(Failure(s)) /\ Failure(s).delivered = store.delivered
         /\ \A t \in Tasks : Kept(store, t) => Kept(Failure(s), t)
<1> DEFINE t == worker[s].task
           attempts == worker[s].attempts + 1
           again == [in |-> TRUE, due |-> FALSE,
                     attempts |-> IF attempts < MaxAttempts THEN attempts ELSE MaxAttempts]
           filed == attempts >= MaxAttempts /\ Len(store.dead) < MaxDeadLetters
<1> USE StoreFacts
<1>1. t \in Tasks /\ worker[s].attempts \in 0..MaxAttempts
  BY DEF OutboxInv, WorkersOK, Worker
<1>2. again \in Entry /\ NoEntry \in Entry /\ again.in
  BY <1>1 DEF Entry, NoEntry
<1>3. store \in Store /\ store.dead \in Seq(Tasks) /\ Len(store.dead) \in Nat
  BY DEF StoreOK, Store
<1>4. Failure(s) = IF filed
                   THEN [store EXCEPT !.pending = Put(t, NoEntry), !.dead = Append(@, t)]
                   ELSE [store EXCEPT !.pending = Put(t, again)]
  BY DEF Failure
<1> HIDE DEF again
<1>5. CASE filed
  <2>1. /\ Failure(s).pending = Put(t, NoEntry) /\ Failure(s).dead = Append(store.dead, t)
        /\ Failure(s).delivered = store.delivered /\ Failure(s) \in Store
    <3>1. Put(t, NoEntry) \in [Tasks -> Entry]
      BY <1>2, <1>3 DEF Store, Put
    <3>2. Append(store.dead, t) \in Seq(Tasks)
      BY <1>1, <1>3
    <3>3. Failure(s) = [store EXCEPT !.pending = Put(t, NoEntry), !.dead = Append(@, t)]
      BY <1>4, <1>5
    <3> QED BY <1>3, <3>1, <3>2, <3>3 DEF Store
  <2>2. Len(Append(store.dead, t)) <= MaxDeadLetters
    BY <1>1, <1>3, <1>5
  <2>3. \A x : Contains(Append(store.dead, t), x) <=> Contains(store.dead, x) \/ x = t
    BY <1>1, <1>3, DeadAppend
  <2>4. \A x \in Tasks : x # t => Put(t, NoEntry)[x] = store.pending[x]
    BY DEF Put, StoreOK, Store
  <2> QED BY <2>1, <2>2, <2>3, <2>4 DEF StoreOK, Kept
<1>6. CASE ~filed
  <2>1. /\ Failure(s).pending = Put(t, again) /\ Failure(s).dead = store.dead
        /\ Failure(s).delivered = store.delivered /\ Failure(s) \in Store
    <3>1. Put(t, again) \in [Tasks -> Entry]
      BY <1>2, <1>3 DEF Store, Put
    <3>2. Failure(s) = [store EXCEPT !.pending = Put(t, again)]
      BY <1>4, <1>6
    <3> QED BY <1>3, <3>1, <3>2 DEF Store
  <2>2. \A x \in Tasks : Put(t, again)[x] = IF x = t THEN again ELSE store.pending[x]
    BY DEF Put, StoreOK, Store
  <2> QED BY <1>2, <2>1, <2>2 DEF StoreOK, Kept
<1> QED BY <1>5, <1>6

LEMMA MarkDeliveredInv ==
  ASSUME OutboxInv, NEW s \in Slots, NEW kept \in Unexpired, NEW result \in Results,
         MarkDelivered(s, kept, result)
  PROVE  OutboxInv'
<1> DEFINE t == worker[s].task
           next == [store EXCEPT !.pending = Put(t, NoEntry), !.delivered = kept \cup {t}]
<1> USE StoreFacts, UnexpiredInv
<1>1. t \in Tasks /\ t \in published /\ worker[s].step = "confirmed"
  BY DEF OutboxInv, WorkersOK, MarkDelivered
<1>2. store \in Store /\ NoEntry \in Entry
  BY DEF StoreOK, Store, NoEntry, Entry
<1>3. /\ next.pending = Put(t, NoEntry) /\ next.dead = store.dead /\ next.delivered = kept \cup {t}
      /\ StoreOK(next)
  BY <1>1, <1>2 DEF StoreOK, Store, Put
<1>4. \A x \in Tasks : x # t => Put(t, NoEntry)[x] = store.pending[x]
  BY <1>2 DEF Put, Store
<1>5. \A x \in Tasks : Kept(store, x) => Kept(next, x) \/ x \in published
  BY <1>1, <1>3, <1>4 DEF Kept
<1>6. /\ Commit(next, result)
      /\ worker' = [worker EXCEPT ![s] = IF result = "failed" THEN [@ EXCEPT !.step = "failed"] ELSE Idle]
      /\ UNCHANGED <<life, drain, timer, accepted, published>>
  BY DEF MarkDelivered
<1>7. next.delivered \subseteq published
  BY <1>1, <1>3
<1> HIDE DEF next
<1>8. /\ open' \in BOOLEAN /\ StoreOK(store') /\ store'.delivered \subseteq published
      /\ spent' \in [errors : 0..MaxErrors, crashes : 0..MaxCrashes, replays : 0..MaxReplays]
      /\ \A x \in accepted : Kept(store', x) \/ x \in published
  BY <1>3, <1>5, <1>6, <1>7, CommitKeeps
<1>9. worker' \in [Slots -> Worker]
  BY <1>6 DEF Worker, Idle
<1>10. WorkersOK'
  <2>1. \A u \in Slots : u # s => worker'[u] = worker[u]
    BY <1>6
  <2>2. worker'[s].step \in {"idle", "failed"} /\ (worker'[s].step # "idle" => worker'[s].task = t)
    <3>1. CASE result = "failed"
      BY <1>6, <3>1 DEF Worker
    <3>2. CASE result # "failed"
      BY <1>6, <3>2 DEF Idle
    <3> QED BY <3>1, <3>2
  <2> QED BY <1>1, <1>6, <2>1, <2>2 DEF OutboxInv, WorkersOK
<1> QED BY <1>6, <1>8, <1>9, <1>10, Assemble DEF OutboxInv, OutboxTypeOK

LEMMA MarkFailedInv ==
  ASSUME OutboxInv, NEW s \in Slots, MarkFailed(s)
  PROVE  OutboxInv'
<1> USE StoreFacts
<1>1. /\ worker[s].step = "failed" /\ Commit(Failure(s), "ok") /\ "ok" \in Results
      /\ worker' = [worker EXCEPT ![s] = Idle]
      /\ UNCHANGED <<life, drain, timer, accepted, published>>
  BY DEF MarkFailed, Results
<1>2. /\ open' \in BOOLEAN /\ StoreOK(store') /\ store'.delivered \subseteq published
      /\ spent' \in [errors : 0..MaxErrors, crashes : 0..MaxCrashes, replays : 0..MaxReplays]
      /\ \A t \in accepted : Kept(store', t) \/ t \in published
  BY <1>1, FailureFacts, CommitKeeps
<1>3. worker' \in [Slots -> Worker]
  BY <1>1 DEF Worker, Idle
<1>4. WorkersOK'
  BY <1>1 DEF OutboxInv, WorkersOK, Worker, Idle
<1> QED BY <1>1, <1>2, <1>3, <1>4, Assemble DEF OutboxInv, OutboxTypeOK

LEMMA MarkFailedThrowsInv ==
  ASSUME OutboxInv, NEW s \in Slots, NEW result \in Results, MarkFailedThrows(s, result)
  PROVE  OutboxInv'
<1> USE StoreFacts
<1>1. /\ worker[s].step = "failed" /\ Commit(Failure(s), result)
      /\ UNCHANGED <<life, accepted, published>>
  BY DEF MarkFailedThrows
<1>2. /\ open' \in BOOLEAN /\ StoreOK(store') /\ store'.delivered \subseteq published
      /\ spent' \in [errors : 0..MaxErrors, crashes : 0..MaxCrashes, replays : 0..MaxReplays]
      /\ \A t \in accepted : Kept(store', t) \/ t \in published
  BY <1>1, FailureFacts, CommitKeeps
<1>3. \/ worker' = [u \in Slots |-> IF u = s THEN Idle ELSE [worker[u] EXCEPT !.batch = FALSE]]
      \/ worker' = [worker EXCEPT ![s] = Idle]
  BY DEF MarkFailedThrows
<1>4. worker' \in [Slots -> Worker]
  <2>1. Idle \in Worker
    BY DEF Idle, Worker
  <2>2. \A u \in Slots : [worker[u] EXCEPT !.batch = FALSE] \in Worker
    BY DEF Worker
  <2>3. CASE worker' = [u \in Slots |-> IF u = s THEN Idle ELSE [worker[u] EXCEPT !.batch = FALSE]]
    BY <2>1, <2>2, <2>3
  <2>4. CASE worker' = [worker EXCEPT ![s] = Idle]
    BY <2>1, <2>4
  <2> QED BY <1>3, <2>3, <2>4
<1>5. WorkersOK'
  BY <1>1, <1>3 DEF OutboxInv, WorkersOK, Worker, Idle
<1>6. drain' \in {"none", "due", "wait"}
  BY DEF MarkFailedThrows, OutboxInv, OutboxTypeOK
<1>7. timer' \in BOOLEAN
  <2>1. (\E t \in Tasks : store'.pending[t].in) \in BOOLEAN
    OBVIOUS
  <2> QED BY <2>1 DEF MarkFailedThrows, OutboxInv, OutboxTypeOK
<1> QED BY <1>1, <1>2, <1>4, <1>5, <1>6, <1>7, Assemble DEF OutboxInv, OutboxTypeOK

LEMMA PublishInv ==
  ASSUME OutboxInv, NEW s \in Slots, PublishSucceeds(s) \/ PublishFails(s)
  PROVE  OutboxInv'
<1> USE StoreFacts
<1>1. worker[s].step = "publish" /\ worker[s].task \in Tasks
  BY DEF PublishSucceeds, PublishFails, OutboxInv, WorkersOK
<1>2. /\ published \subseteq published' /\ published' \subseteq Tasks
      /\ UNCHANGED <<store, open, life, drain, timer, spent, accepted>>
  BY <1>1 DEF PublishSucceeds, PublishFails
<1>3. worker' \in [Slots -> Worker]
  BY DEF PublishSucceeds, PublishFails, Worker
<1>4. WorkersOK'
  BY <1>1, <1>2 DEF PublishSucceeds, PublishFails, OutboxInv, WorkersOK, Worker
<1> QED BY <1>2, <1>3, <1>4, Assemble DEF OutboxInv, OutboxTypeOK

LEMMA ComesDueInv ==
  ASSUME OutboxInv, NEW t \in Tasks, ComesDue(t)
  PROVE  OutboxInv'
<1> USE StoreFacts
<1>1. store' = [store EXCEPT !.pending[t].due = TRUE]
  BY DEF ComesDue
<1>2. /\ StoreOK(store') /\ store'.delivered = store.delivered /\ store'.dead = store.dead
      /\ \A x \in Tasks : store'.pending[x].in = store.pending[x].in
  BY <1>1 DEF StoreOK, Store, Entry
<1>3. \A x \in accepted' : Kept(store', x) \/ x \in published'
  BY <1>2 DEF Kept, ComesDue
<1>4. WorkersOK'
  BY DEF ComesDue, OutboxInv, WorkersOK
<1> QED BY <1>2, <1>3, <1>4, Assemble DEF ComesDue, OutboxInv, OutboxTypeOK

(* Steps that leave the tasks alone.                                       *)
LEMMA LifeInv ==
  ASSUME OutboxInv,
         \/ NothingDue \/ BatchDone \/ TimerFires
         \/ Start \/ Started \/ Stop \/ Stopped \/ Crash
  PROVE  OutboxInv'
<1> USE StoreFacts
<1>1. Idle \in Worker /\ Idle.step = "idle"
  BY DEF Idle, Worker
<1>2. StoreOK(store') /\ store'.delivered \subseteq published /\ store'.pending = store.pending
      /\ store'.dead = store.dead
  <2>1. CASE Start
    <3>1. PICK d \in Unexpired : store' = [store EXCEPT !.delivered = d]
      BY <2>1 DEF Start
    <3>2. d \subseteq Tasks /\ d \subseteq published
      BY UnexpiredInv
    <3> QED BY <3>1, <3>2 DEF StoreOK, Store
  <2>2. CASE store' = store
    BY <2>2
  <2> QED BY <2>1, <2>2 DEF NothingDue, BatchDone, TimerFires, Started, Stop, Stopped, Crash
<1>3. accepted' = accepted /\ published' = published
  BY DEF NothingDue, BatchDone, TimerFires, Start, Started, Stop, Stopped, Crash
<1>4. worker' = worker \/ worker' = [s \in Slots |-> Idle]
  BY DEF NothingDue, BatchDone, TimerFires, Start, Started, Stop, Stopped, Crash
<1>5. worker' \in [Slots -> Worker]
  BY <1>1, <1>4
<1>6. WorkersOK'
  BY <1>1, <1>3, <1>4 DEF OutboxInv, WorkersOK
<1>7. drain' \in {"none", "due", "wait"}
  BY DEF NothingDue, BatchDone, TimerFires, Start, Started, Stop, Stopped, Crash, EndDrain, Wake,
         OutboxInv, OutboxTypeOK
<1>8. timer' \in BOOLEAN
  BY DEF NothingDue, BatchDone, TimerFires, Start, Started, Stop, Stopped, Crash, EndDrain,
         OutboxInv, OutboxTypeOK
<1>9. open' \in BOOLEAN /\ life' \in {"stopped", "starting", "running", "stopping"}
  BY DEF NothingDue, BatchDone, TimerFires, Start, Started, Stop, Stopped, Crash, EndDrain,
         OutboxInv, OutboxTypeOK
<1>10. spent' \in [errors : 0..MaxErrors, crashes : 0..MaxCrashes, replays : 0..MaxReplays]
  BY DEF NothingDue, BatchDone, TimerFires, Start, Started, Stop, Stopped, Crash, OutboxInv, OutboxTypeOK
<1>11. \A t \in accepted' : Kept(store', t) \/ t \in published'
  BY <1>2, <1>3 DEF Kept
<1> QED BY <1>2, <1>3, <1>5, <1>6, <1>7, <1>8, <1>9, <1>10, <1>11, Assemble

LEMMA NextInv ==
  ASSUME OutboxInv, [Next]_vars
  PROVE  OutboxInv'
<1>1. CASE \E batch \in (SUBSET Tasks) \ {{}}, d \in Unexpired, result \in Results :
             EnqueueBatch(batch, d, result)
  BY <1>1, EnqueueInv
<1>2. CASE \E n \in 1..Len(store.dead), result \in Results : ReplayDeadLetters(n, result)
  BY <1>2, ReplayInv
<1>3. CASE TakeDue
  BY <1>3, TakeDueInv
<1>4. CASE \E s \in Slots : Process(s)
  BY <1>4, PublishInv, MarkDeliveredInv, MarkFailedInv, MarkFailedThrowsInv DEF Process
<1>5. CASE \E t \in Tasks : ComesDue(t)
  BY <1>5, ComesDueInv
<1>6. CASE \/ NothingDue \/ BatchDone \/ TimerFires
           \/ Start \/ Started \/ Stop \/ Stopped \/ Crash
  BY <1>6, LifeInv
<1>7. CASE UNCHANGED vars
  BY <1>7 DEF vars, OutboxInv, OutboxTypeOK, WorkersOK, NothingLost, IsPending, IsDead
<1> QED BY <1>1, <1>2, <1>3, <1>4, <1>5, <1>6, <1>7 DEF Next, Drain

LEMMA Invariant == Spec => []OutboxInv
<1> QED BY InitInv, NextInv, PTL DEF Spec

(* Every reachable state of the outbox is well typed; in particular the    *)
(* dead-letter queue never exceeds its limit.                              *)
THEOREM OutboxTypeCorrect == Spec => []OutboxTypeOK
<1>1. OutboxInv => OutboxTypeOK
  BY DEF OutboxInv
<1> QED BY <1>1, Invariant, PTL

(* No accepted task is lost, whatever commits, publishing and the process  *)
(* do.                                                                     *)
THEOREM OutboxLosesNothing == Spec => []NothingLost
<1>1. OutboxInv => NothingLost
  BY DEF OutboxInv
<1> QED BY <1>1, Invariant, PTL

-----------------------------------------------------------------------------
(* While no commit goes wrong: the drain waits for every delivery that is  *)
(* in progress, and the service stops only without a drain.                *)

DrainOK ==
  /\ \A s \in Slots : worker[s].step # "idle" => worker[s].batch
  /\ drain # "wait" => Busy = {}
  /\ life = "stopped" => drain = "none"
  /\ ~LateEvents /\ life = "stopped" => ~open

LEMMA InitDrain == Init => DrainOK
<1> QED BY DEF Init, DrainOK, Busy, Idle

LEMMA DrainNext ==
  ASSUME CommitErrors = {}, OutboxInv, DrainOK, [Next]_vars
  PROVE  DrainOK'
<1> USE StoreFacts
<1>0. Results = {"ok"}
  BY DEF Results
<1>1. ASSUME NEW batch \in SUBSET Tasks, NEW d \in Unexpired, EnqueueBatch(batch, d, "ok")
      PROVE  DrainOK'
  BY <1>1 DEF EnqueueBatch, Wake, DrainOK, Busy
<1>2. ASSUME NEW n \in 1..Len(store.dead), ReplayDeadLetters(n, "ok") PROVE DrainOK'
  BY <1>2 DEF ReplayDeadLetters, Wake, DrainOK, Busy
<1>3. CASE TakeDue
  <2>1. PICK f \in Assignments : worker' = [s \in Slots |-> IF f[s] = Null THEN worker[s] ELSE Fresh(f[s])]
    BY <1>3 DEF TakeDue
  <2> QED BY <1>3, <2>1 DEF TakeDue, DrainOK, Fresh
<1>4. CASE NothingDue \/ BatchDone
  BY <1>4 DEF NothingDue, EndDrain, BatchDone, DrainOK, Busy
<1>5. ASSUME NEW s \in Slots, Process(s) PROVE DrainOK'
  <2>1. worker[s].step # "idle" /\ drain = "wait" /\ life # "stopped"
    BY <1>5 DEF Process, PublishSucceeds, PublishFails, MarkDelivered, MarkFailed, MarkFailedThrows,
                DrainOK, Busy
  <2>2. drain' = drain /\ life' = life
    BY <1>0, <1>5 DEF Process, PublishSucceeds, PublishFails, MarkDelivered, MarkFailed, MarkFailedThrows
  <2>3. \/ \E step \in {"confirmed", "failed"} : worker' = [worker EXCEPT ![s].step = step]
        \/ worker' = [worker EXCEPT ![s] = Idle]
    BY <1>0, <1>5 DEF Process, PublishSucceeds, PublishFails, MarkDelivered, MarkFailed, MarkFailedThrows
  <2>4. \A u \in Slots : worker'[u].step # "idle" => worker'[u].batch
    BY <2>1, <2>3 DEF DrainOK, Worker, Idle
  <2> QED BY <2>1, <2>2, <2>4 DEF DrainOK
<1>6. ASSUME NEW t \in Tasks, ComesDue(t) PROVE DrainOK'
  BY <1>6 DEF ComesDue, DrainOK, Busy
<1>7. CASE TimerFires
  BY <1>7 DEF TimerFires, Wake, DrainOK, Busy
<1>8. CASE Start \/ Started \/ Stop \/ Stopped
  BY <1>8 DEF Start, Started, Stop, Stopped, DrainOK, Busy
<1>9. CASE Crash
  BY <1>9 DEF Crash, DrainOK, Busy, Idle
<1>10. CASE UNCHANGED vars
  BY <1>10 DEF vars, DrainOK, Busy
<1> QED BY <1>0, <1>1, <1>2, <1>3, <1>4, <1>5, <1>6, <1>7, <1>8, <1>9, <1>10 DEF Next, Drain

(* A batch is taken only when nothing is in progress, and has no more      *)
(* tasks than the concurrency.                                             *)
LEMMA InitBounded == Init => BoundedConcurrency
<1> SUFFICES ASSUME Init PROVE BoundedConcurrency
  OBVIOUS
<1>1. Busy = {}
  BY DEF Init, Busy, Idle
<1> QED BY <1>1, FS_EmptySet DEF BoundedConcurrency

LEMMA BusyFinite == IsFiniteSet(Busy) /\ Cardinality(Busy) \in Nat
<1> QED BY FS_Subset, FS_CardinalityType DEF Busy

LEMMA BoundedNext ==
  ASSUME CommitErrors = {}, OutboxInv, DrainOK, BoundedConcurrency, [Next]_vars
  PROVE  BoundedConcurrency'
<1> USE StoreFacts
<1>1. ASSUME Busy' \subseteq Busy PROVE BoundedConcurrency'
  <2>1. Cardinality(Busy') <= Cardinality(Busy) /\ Cardinality(Busy') \in Nat
    BY <1>1, BusyFinite, FS_Subset, FS_CardinalityType
  <2> QED BY <2>1, BusyFinite DEF BoundedConcurrency
<1>2. CASE TakeDue
  <2>1. PICK f \in Assignments : worker' = [s \in Slots |-> IF f[s] = Null THEN worker[s] ELSE Fresh(f[s])]
    BY <1>2 DEF TakeDue
  <2> DEFINE taken == {s \in Slots : f[s] # Null}
             due == {t \in PendingTasks : store.pending[t].due}
  <2>2. Busy = {}
    BY <1>2 DEF TakeDue, DrainOK
  <2>3. Busy' = taken
    BY <2>1, <2>2 DEF Busy, Fresh
  <2>4. Cardinality(taken) \in Nat
    BY FS_Subset, FS_CardinalityType
  <2>5. Cardinality(taken) = IF Cardinality(due) < Concurrency THEN Cardinality(due) ELSE Concurrency
    BY DEF Assignments
  <2> HIDE DEF taken, due
  <2>6. Cardinality(taken) <= Concurrency
    BY <2>4, <2>5
  <2> QED BY <2>3, <2>6 DEF BoundedConcurrency
<1>3. ASSUME NEW s \in Slots, Process(s) PROVE Busy' \subseteq Busy
  <2>1. worker[s].step # "idle"
    BY <1>3 DEF Process, PublishSucceeds, PublishFails, MarkDelivered, MarkFailed, MarkFailedThrows
  <2>2. Results = {"ok"}
    BY DEF Results
  <2>3. \/ \E step \in {"confirmed", "failed"} : worker' = [worker EXCEPT ![s].step = step]
        \/ worker' = [worker EXCEPT ![s] = Idle]
    BY <1>3, <2>2 DEF Process, PublishSucceeds, PublishFails, MarkDelivered, MarkFailed, MarkFailedThrows
  <2>4. \A u \in Slots : u # s => worker'[u] = worker[u]
    BY <2>3
  <2> QED BY <2>1, <2>4 DEF Busy
<1>4. CASE Crash
  BY <1>1, <1>4 DEF Crash, Busy, Idle
<1>5. CASE worker' = worker
  BY <1>1, <1>5 DEF Busy
<1>6. \/ TakeDue \/ Crash \/ worker' = worker
      \/ \E s \in Slots : Process(s)
  BY DEF Next, Drain, EnqueueBatch, ReplayDeadLetters, NothingDue, BatchDone, ComesDue, TimerFires,
         Start, Started, Stop, Stopped, vars
<1> QED BY <1>1, <1>2, <1>3, <1>4, <1>5, <1>6

-----------------------------------------------------------------------------
(* A task has one place. *)

PlaceOK == OnePlace /\ \A t \in Tasks : IsDead(t) => t \notin store.delivered

LEMMA InitPlace == Init => PlaceOK
<1> SUFFICES ASSUME Init PROVE PlaceOK
  OBVIOUS
<1>1. \A t : ~Contains(<< >>, t)
  BY DEF Contains
<1>2. IsInjective(<< >>)
  BY DEF IsInjective
<1> QED BY <1>1, <1>2 DEF Init, PlaceOK, OnePlace, IsPending, IsDead, NoEntry, Busy, Idle

LEMMA EnqueuePlace ==
  ASSUME OutboxInv, PlaceOK, NEW batch \in SUBSET Tasks, NEW d \in Unexpired, EnqueueBatch(batch, d, "ok")
  PROVE  PlaceOK'
<1> DEFINE new == {t \in batch : ~Known(t, d)}
           fresh == [in |-> TRUE, attempts |-> 0, due |-> TRUE]
<1> USE StoreFacts, UnexpiredInv
<1>1. CASE new = {}
  BY <1>1 DEF EnqueueBatch, PlaceOK, OnePlace, IsPending, IsDead, Busy
<1>2. CASE new # {}
  <2>1. /\ store' = [store EXCEPT !.delivered = d,
                       !.pending = [t \in Tasks |-> IF t \in new THEN fresh ELSE store.pending[t]]]
        /\ worker' = worker
    BY <1>2 DEF EnqueueBatch, Commit
  <2>2. /\ store'.delivered = d /\ store'.dead = store.dead
        /\ \A t \in Tasks : store'.pending[t] = IF t \in new THEN fresh ELSE store.pending[t]
    BY <2>1 DEF StoreOK, Store
  <2>3. \A t \in new : ~store.pending[t].in /\ ~Contains(store.dead, t) /\ t \notin d
    BY DEF Known, IsPending, IsDead
  <2>4. Busy' = Busy /\ \A s \in Busy : worker[s].task \in Tasks /\ worker[s].task \notin new
    BY <2>1, <2>3 DEF Busy, OutboxInv, WorkersOK, PlaceOK, OnePlace, IsPending
  <2> HIDE DEF new, fresh
  <2> QED BY <2>1, <2>2, <2>3, <2>4 DEF PlaceOK, OnePlace, IsPending, IsDead
<1> QED BY <1>1, <1>2

LEMMA ReplayPlace ==
  ASSUME OutboxInv, PlaceOK, NEW n \in 1..Len(store.dead), ReplayDeadLetters(n, "ok")
  PROVE  PlaceOK'
<1> DEFINE fresh == [in |-> TRUE, attempts |-> 0, due |-> TRUE]
           again == Replayed(store.dead, n)
<1> USE StoreFacts
<1>1. store.dead \in Seq(Tasks) /\ IsInjective(store.dead)
  BY DEF StoreOK, Store, PlaceOK, OnePlace
<1>2. /\ again \subseteq Tasks /\ IsInjective(Left(store.dead, n))
      /\ \A x : Contains(store.dead, x) <=> x \in again \/ Contains(Left(store.dead, n), x)
      /\ \A x \in again : ~Contains(Left(store.dead, n), x)
  BY <1>1, DeadSplit
<1>3. /\ store' = [store EXCEPT !.dead = Left(store.dead, n),
                     !.pending = [t \in Tasks |-> IF t \in again THEN fresh ELSE store.pending[t]]]
      /\ worker' = worker
  BY DEF ReplayDeadLetters, Left, Replayed
<1>4. /\ store'.delivered = store.delivered /\ store'.dead = Left(store.dead, n)
      /\ \A t \in Tasks : store'.pending[t] = IF t \in again THEN fresh ELSE store.pending[t]
  BY <1>3 DEF StoreOK, Store
<1>5. Busy' = Busy /\ \A s \in Busy : worker[s].task \in Tasks /\ worker[s].task \notin again
  BY <1>2, <1>3 DEF Busy, OutboxInv, WorkersOK, PlaceOK, OnePlace, IsPending, IsDead
<1> HIDE DEF again, fresh
<1> QED BY <1>2, <1>3, <1>4, <1>5 DEF PlaceOK, OnePlace, IsPending, IsDead

LEMMA TakeDuePlace ==
  ASSUME OutboxInv, DrainOK, PlaceOK, TakeDue
  PROVE  PlaceOK'
<1> USE StoreFacts
<1>1. PICK f \in Assignments : worker' = [s \in Slots |-> IF f[s] = Null THEN worker[s] ELSE Fresh(f[s])]
  BY DEF TakeDue
<1>2. Busy = {} /\ store' = store
  BY DEF TakeDue, DrainOK
<1>3. \A s \in Busy' : s \in Slots /\ f[s] # Null /\ worker'[s] = Fresh(f[s])
  BY <1>1, <1>2 DEF Busy
<1>4. \A s \in Slots : f[s] # Null => f[s] \in Tasks /\ IsPending(f[s])
  BY DEF Assignments, PendingTasks
<1>5. \A s, u \in Slots : s # u /\ f[s] # Null => f[s] # f[u]
  BY DEF Assignments
<1>6. \A t : Fresh(t).task = t /\ Fresh(t).attempts = store.pending[t].attempts
  BY DEF Fresh
<1> QED BY <1>2, <1>3, <1>4, <1>5, <1>6 DEF PlaceOK, OnePlace, IsPending, IsDead

(* What a busy worker has is in one place only, and no other has it.       *)
LEMMA WorkersPlace ==
  ASSUME OutboxInv, PlaceOK, NEW s \in Slots, worker[s].step # "idle"
  PROVE  /\ worker[s].task \in Tasks /\ store.pending[worker[s].task].in
         /\ ~Contains(store.dead, worker[s].task) /\ worker[s].task \notin store.delivered
         /\ \A u \in Busy : worker[u].task = worker[s].task => u = s
<1>1. s \in Busy /\ worker[s].task \in Tasks
  BY DEF Busy, OutboxInv, WorkersOK
<1> QED BY <1>1 DEF PlaceOK, OnePlace, IsPending, IsDead

LEMMA PublishPlace ==
  ASSUME OutboxInv, PlaceOK, NEW s \in Slots, PublishSucceeds(s) \/ PublishFails(s)
  PROVE  PlaceOK'
<1> USE StoreFacts
<1>1. /\ store' = store /\ worker[s].step = "publish"
      /\ \E step \in {"confirmed", "failed"} : worker' = [worker EXCEPT ![s].step = step]
  BY DEF PublishSucceeds, PublishFails
<1>2. Busy' = Busy
  BY <1>1 DEF Busy, Worker
<1>3. \A u \in Slots : worker'[u].task = worker[u].task /\ worker'[u].attempts = worker[u].attempts
  BY <1>1 DEF Worker
<1> QED BY <1>1, <1>2, <1>3 DEF PlaceOK, OnePlace, IsPending, IsDead, Busy

(* The end of a delivery leaves the other workers as they are.             *)
LEMMA WorkerEnds ==
  ASSUME OutboxInv, NEW s \in Slots, worker' = [worker EXCEPT ![s] = Idle]
  PROVE  \A u \in Busy' : u \in Busy /\ u # s /\ worker'[u] = worker[u]
<1> QED BY StoreFacts DEF Busy, Idle

LEMMA MarkDeliveredPlace ==
  ASSUME OutboxInv, PlaceOK, NEW s \in Slots, NEW kept \in Unexpired, MarkDelivered(s, kept, "ok")
  PROVE  PlaceOK'
<1> DEFINE t == worker[s].task
<1> USE StoreFacts, UnexpiredInv
<1>1. /\ worker[s].step = "confirmed" /\ worker' = [worker EXCEPT ![s] = Idle]
      /\ store' = [store EXCEPT !.pending = Put(t, NoEntry), !.delivered = kept \cup {t}]
  BY DEF MarkDelivered, Commit
<1>2. /\ t \in Tasks /\ ~Contains(store.dead, t)
      /\ \A u \in Busy : worker[u].task = t => u = s
  BY <1>1, WorkersPlace
<1>3. \A u \in Busy' : u \in Busy /\ u # s /\ worker'[u] = worker[u]
  BY <1>1, WorkerEnds
<1>4. /\ store'.delivered = kept \cup {t} /\ store'.dead = store.dead
      /\ \A x \in Tasks : store'.pending[x] = IF x = t THEN NoEntry ELSE store.pending[x]
  BY <1>1 DEF StoreOK, Store, Put
<1>5. \A u \in Busy : worker[u].task \in Tasks
  BY DEF Busy, OutboxInv, WorkersOK
<1> HIDE DEF t
<1> QED BY <1>2, <1>3, <1>4, <1>5 DEF PlaceOK, OnePlace, IsPending, IsDead, NoEntry

LEMMA MarkFailedPlace ==
  ASSUME OutboxInv, PlaceOK, NEW s \in Slots, MarkFailed(s)
  PROVE  PlaceOK'
<1> DEFINE t == worker[s].task
           attempts == worker[s].attempts + 1
           again == [in |-> TRUE, due |-> FALSE,
                     attempts |-> IF attempts < MaxAttempts THEN attempts ELSE MaxAttempts]
           filed == attempts >= MaxAttempts /\ Len(store.dead) < MaxDeadLetters
<1> USE StoreFacts
<1>1. /\ worker[s].step = "failed" /\ worker' = [worker EXCEPT ![s] = Idle]
      /\ store' = Failure(s)
  BY DEF MarkFailed, Commit
<1>2. /\ t \in Tasks /\ store.pending[t].in /\ ~Contains(store.dead, t) /\ t \notin store.delivered
      /\ \A u \in Busy : worker[u].task = t => u = s
  BY <1>1, WorkersPlace
<1>3. \A u \in Busy' : u \in Busy /\ u # s /\ worker'[u] = worker[u]
  BY <1>1, WorkerEnds
<1>4. \A u \in Busy : worker[u].task \in Tasks
  BY DEF Busy, OutboxInv, WorkersOK
<1>5. store.dead \in Seq(Tasks) /\ IsInjective(store.dead)
  BY DEF StoreOK, Store, PlaceOK, OnePlace
<1>6. Failure(s) = IF filed
                   THEN [store EXCEPT !.pending = Put(t, NoEntry), !.dead = Append(@, t)]
                   ELSE [store EXCEPT !.pending = Put(t, again)]
  BY DEF Failure
<1>7. again.in /\ ~NoEntry.in
  BY DEF NoEntry
<1> HIDE DEF t, again
<1>8. CASE filed
  <2>1. /\ store'.delivered = store.delivered /\ store'.dead = Append(store.dead, t)
        /\ \A x \in Tasks : store'.pending[x] = IF x = t THEN NoEntry ELSE store.pending[x]
    BY <1>1, <1>6, <1>8 DEF StoreOK, Store, Put
  <2>2. \A x : Contains(store'.dead, x) <=> Contains(store.dead, x) \/ x = t
    BY <1>2, <1>5, <2>1, DeadAppend
  <2>3. IsInjective(store'.dead)
    BY <1>2, <1>5, <2>1, DeadAppendInjective
  <2> QED BY <1>2, <1>3, <1>4, <1>7, <2>1, <2>2, <2>3 DEF PlaceOK, OnePlace, IsPending, IsDead
<1>9. CASE ~filed
  <2>1. /\ store'.delivered = store.delivered /\ store'.dead = store.dead
        /\ \A x \in Tasks : store'.pending[x] = IF x = t THEN again ELSE store.pending[x]
    BY <1>1, <1>6, <1>9 DEF StoreOK, Store, Put
  <2> QED BY <1>2, <1>3, <1>4, <1>5, <1>7, <2>1 DEF PlaceOK, OnePlace, IsPending, IsDead
<1> QED BY <1>8, <1>9

LEMMA ComesDuePlace ==
  ASSUME OutboxInv, PlaceOK, NEW t \in Tasks, ComesDue(t)
  PROVE  PlaceOK'
<1> USE StoreFacts
<1>1. store' = [store EXCEPT !.pending[t].due = TRUE] /\ worker' = worker
  BY DEF ComesDue
<1>2. /\ store'.delivered = store.delivered /\ store'.dead = store.dead
      /\ \A x \in Tasks : /\ store'.pending[x].in = store.pending[x].in
                          /\ store'.pending[x].attempts = store.pending[x].attempts
  BY <1>1 DEF StoreOK, Store, Entry
<1>3. \A u \in Busy : worker[u].task \in Tasks
  BY DEF Busy, OutboxInv, WorkersOK
<1> QED BY <1>1, <1>2, <1>3 DEF PlaceOK, OnePlace, IsPending, IsDead, Busy

LEMMA PlaceNext ==
  ASSUME CommitErrors = {}, OutboxInv, DrainOK, PlaceOK, [Next]_vars
  PROVE  PlaceOK'
<1>0. Results = {"ok"}
  BY DEF Results
<1>1. CASE \E batch \in (SUBSET Tasks) \ {{}}, d \in Unexpired, result \in Results :
             EnqueueBatch(batch, d, result)
  BY <1>0, <1>1, EnqueuePlace
<1>2. CASE \E n \in 1..Len(store.dead), result \in Results : ReplayDeadLetters(n, result)
  BY <1>0, <1>2, ReplayPlace
<1>3. CASE TakeDue
  BY <1>3, TakeDuePlace
<1>4. CASE \E s \in Slots : Process(s)
  <2>1. ASSUME NEW s \in Slots, NEW result \in Results, MarkFailedThrows(s, result) PROVE FALSE
    BY <1>0, <2>1 DEF MarkFailedThrows
  <2> QED BY <1>0, <1>4, <2>1, PublishPlace, MarkDeliveredPlace, MarkFailedPlace DEF Process
<1>5. CASE \E t \in Tasks : ComesDue(t)
  BY <1>5, ComesDuePlace
<1>6. CASE Start
  <2>1. PICK d \in Unexpired : store' = [store EXCEPT !.delivered = d]
    BY <1>6 DEF Start
  <2>2. d \subseteq store.delivered /\ worker' = worker
    BY <1>6, UnexpiredInv DEF Start
  <2>3. store'.delivered = d /\ store'.pending = store.pending /\ store'.dead = store.dead
    BY <2>1, StoreFacts DEF StoreOK, Store
  <2> QED BY <2>2, <2>3 DEF PlaceOK, OnePlace, IsPending, IsDead, Busy
<1>7. CASE Crash
  BY <1>7 DEF Crash, PlaceOK, OnePlace, IsPending, IsDead, Busy, Idle
<1>8. CASE store' = store /\ worker' = worker
  BY <1>8 DEF PlaceOK, OnePlace, IsPending, IsDead, Busy
<1> QED BY <1>1, <1>2, <1>3, <1>4, <1>5, <1>6, <1>7, <1>8
        DEF Next, Drain, NothingDue, BatchDone, TimerFires, Started, Stop, Stopped, vars

-----------------------------------------------------------------------------
(* Theorems for stores whose commits succeed. *)

CalmInv == OutboxInv /\ DrainOK /\ BoundedConcurrency /\ PlaceOK

LEMMA CalmInvariant == CommitErrors = {} => (Spec => []CalmInv)
<1> SUFFICES ASSUME CommitErrors = {} PROVE Spec => []CalmInv
  OBVIOUS
<1>1. Init => CalmInv
  BY InitInv, InitDrain, InitBounded, InitPlace DEF CalmInv
<1>2. CalmInv /\ [Next]_vars => CalmInv'
  BY NextInv, DrainNext, BoundedNext, PlaceNext DEF CalmInv
<1> QED BY <1>1, <1>2, PTL DEF Spec

(* No more deliveries are in progress than delivery.concurrency says.      *)
THEOREM OutboxBounded == CommitErrors = {} => (Spec => []BoundedConcurrency)
<1>1. CalmInv => BoundedConcurrency
  BY DEF CalmInv
<1> QED BY <1>1, CalmInvariant, PTL

(* A task has one place and one worker, which finds it as it was taken.    *)
THEOREM OutboxOnePlace == CommitErrors = {} => (Spec => []OnePlace)
<1>1. CalmInv => OnePlace
  BY DEF CalmInv, PlaceOK
<1> QED BY <1>1, CalmInvariant, PTL

(* After a stop nothing holds the lease or works on, if no event comes     *)
(* when the service is not running.                                        *)
THEOREM OutboxStops ==
  (CommitErrors = {} /\ ~LateEvents) => (Spec => []StopReleasesLease)
<1> SUFFICES ASSUME CommitErrors = {}, ~LateEvents PROVE Spec => []StopReleasesLease
  OBVIOUS
<1>1. CalmInv => StopReleasesLease
  BY DEF CalmInv, DrainOK, StopReleasesLease
<1> QED BY <1>1, CalmInvariant, PTL

=============================================================================
