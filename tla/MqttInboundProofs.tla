------------------------- MODULE MqttInboundProofs -------------------------
(***************************************************************************)
(* Proofs about KeyedRunQueue, as the MQTT channel drives it: for any      *)
(* number of clients, messages and tries, any limits and any stuck tasks.  *)
(***************************************************************************)
EXTENDS MqttInbound, FiniteSetTheorems, TLAPS

USE QueueAssumption, MqttAssumption

Live(t) == stage[t] \in Unfinished

(* Tasks t and u of one key, t accepted before u.                          *)
Before(t, u) == KeyOf[t] = KeyOf[u] /\ place[t] < place[u]

(* The unfinished tasks of a key have different places.                    *)
PlacesDiffer ==
  /\ \A t \in Tasks : Live(t) => place[t] < accepted
  /\ \A t \in Tasks, u \in Tasks :
       Live(t) /\ Live(u) /\ KeyOf[t] = KeyOf[u] /\ place[t] = place[u] => t = u

(* While anything is before u, u waits for an unfinished task of its key   *)
(* that is not before any of it.                                           *)
WaitsForLast ==
  \A t \in Tasks, u \in Tasks :
    Live(t) /\ Live(u) /\ Before(t, u) =>
      /\ prev[u] \in Tasks
      /\ Live(prev[u])
      /\ KeyOf[prev[u]] = KeyOf[u]
      /\ place[t] <= place[prev[u]]

(* The tail of a key is its last unfinished task.                          *)
TailIsLast ==
  /\ \A t \in Tasks : Live(t) =>
       /\ tails[KeyOf[t]] \in Tasks
       /\ place[t] <= place[tails[KeyOf[t]]]
  /\ \A k \in Keys : tails[k] # Null => Live(tails[k]) /\ KeyOf[tails[k]] = k

(* A drain waits for the tail of every key that has work.                  *)
TailsAwaited == ~active => \A t \in Tasks : Live(t) => tails[KeyOf[t]] \in awaited

QueueInv ==
  /\ QueueTypeOK
  /\ PlacesDiffer
  /\ WaitsForLast
  /\ BeginsInOrder
  /\ TailIsLast
  /\ TailsAwaited

LEMMA QueueInitInv == QueueInit => QueueInv
  BY SMTT(30) DEF QueueInit, QueueInv, QueueTypeOK, PlacesDiffer, WaitsForLast, BeginsInOrder,
     TailIsLast, TailsAwaited, Live, Before, Unfinished

-----------------------------------------------------------------------------
(* Every step of the queue preserves the invariant. *)

(* What a step that leaves the order of the tasks alone preserves, when no *)
(* task becomes unfinished, or finished.                                   *)
LEMMA SameOrder ==
  ASSUME QueueInv, QueueTypeOK',
         \A t \in Tasks : Live(t)' <=> Live(t),
         \A t \in Tasks : stage'[t] = "running" /\ stage[t] # "running" =>
            \A s \in Tasks : Live(s) => ~Before(s, t),
         UNCHANGED <<prev, tails, place, accepted>>,
         ~active' => TailsAwaited'
  PROVE  QueueInv'
<1>1. PlacesDiffer'
  BY DEF QueueInv, PlacesDiffer, Live
<1>2. WaitsForLast'
  BY DEF QueueInv, WaitsForLast, Before
<1>3. BeginsInOrder'
  BY DEF QueueInv, BeginsInOrder, Live, Before
<1>4. TailIsLast'
  BY DEF QueueInv, TailIsLast, QueueTypeOK
<1>5. TailsAwaited'
  BY DEF TailsAwaited
<1> QED BY <1>1, <1>2, <1>3, <1>4, <1>5 DEF QueueInv

LEMMA AcceptInv ==
  ASSUME QueueInv, NEW t \in Tasks, Accept(t)
  PROVE  QueueInv'
<1> USE DEF Accept
<1> DEFINE k == KeyOf[t]
<1>0. QueueTypeOK /\ k \in Keys
  BY DEF QueueInv
<1>1. QueueTypeOK'
  BY <1>0 DEF QueueTypeOK, Unfinished
<1>2. /\ Live(t)' /\ ~Live(t) /\ place'[t] = accepted
      /\ \A u \in Tasks \ {t} : (Live(u)' <=> Live(u)) /\ place'[u] = place[u] /\ stage'[u] = stage[u]
  BY <1>0 DEF QueueTypeOK, Live, Unfinished
<1>3. PlacesDiffer'
  BY <1>0, <1>2 DEF QueueInv, PlacesDiffer, QueueTypeOK
<1>4. \A u \in Tasks : Live(u) => u # t /\ place[u] < accepted
  BY <1>2 DEF QueueInv, PlacesDiffer
<1>5. WaitsForLast'
  <2> SUFFICES ASSUME NEW s \in Tasks, NEW u \in Tasks, Live(s)', Live(u)', Before(s, u)'
               PROVE  /\ prev'[u] \in Tasks /\ stage'[prev'[u]] \in Unfinished
                      /\ KeyOf[prev'[u]] = KeyOf[u] /\ place'[s] <= place'[prev'[u]]
    BY DEF WaitsForLast, Live
  <2>1. s # t
    BY <1>0, <1>2, <1>4 DEF Before, QueueTypeOK
  <2>2. CASE u = t
    <3>1. Live(s) /\ KeyOf[s] = k
      BY <1>2, <2>1, <2>2 DEF Before
    <3>2. tails[k] \in Tasks /\ Live(tails[k]) /\ KeyOf[tails[k]] = k /\ place[s] <= place[tails[k]]
      BY <1>0, <3>1 DEF QueueInv, TailIsLast
    <3>3. prev'[u] = tails[k]
      BY <1>0, <2>2 DEF QueueTypeOK
    <3> QED BY <1>2, <1>4, <2>1, <2>2, <3>2, <3>3 DEF Live
  <2>3. CASE u # t
    <3>1. Live(s) /\ Live(u) /\ Before(s, u)
      BY <1>2, <2>1, <2>3 DEF Before
    <3>2. prev[u] \in Tasks /\ Live(prev[u]) /\ KeyOf[prev[u]] = KeyOf[u] /\ place[s] <= place[prev[u]]
      BY <3>1 DEF QueueInv, WaitsForLast
    <3>3. prev'[u] = prev[u]
      BY <1>0, <2>3 DEF QueueTypeOK
    <3> QED BY <1>2, <1>4, <2>1, <3>2, <3>3 DEF Live
  <2> QED BY <2>2, <2>3
<1>6. BeginsInOrder'
  <2> SUFFICES ASSUME NEW s \in Tasks, NEW u \in Tasks, KeyOf[s] = KeyOf[u],
                      place'[s] < place'[u], Live(s)'
               PROVE  stage'[u] # "running"
    BY DEF BeginsInOrder, Live
  <2>1. CASE u = t
    BY <1>0, <2>1 DEF QueueTypeOK
  <2>2. CASE u # t /\ s = t
    <3>1. ~Live(u)
      BY <1>0, <1>2, <1>4, <2>2 DEF QueueTypeOK
    <3> QED BY <1>2, <2>2, <3>1 DEF Live, Unfinished
  <2>3. CASE u # t /\ s # t
    BY <1>2, <2>3 DEF QueueInv, BeginsInOrder, Live
  <2> QED BY <2>1, <2>2, <2>3
<1>7. TailIsLast'
  <2>1. tails' = [tails EXCEPT ![k] = t] /\ tails \in [Keys -> Tasks \cup {Null}]
    BY <1>0 DEF QueueTypeOK
  <2>2. ASSUME NEW u \in Tasks, Live(u)'
        PROVE  tails'[KeyOf[u]] \in Tasks /\ place'[u] <= place'[tails'[KeyOf[u]]]
    <3>1. CASE KeyOf[u] = k
      BY <1>0, <1>2, <1>4, <2>1, <2>2, <3>1 DEF QueueTypeOK
    <3>2. CASE KeyOf[u] # k
      <4>1. u # t /\ Live(u) /\ KeyOf[u] \in Keys
        BY <1>2, <2>2, <3>2
      <4>2. tails[KeyOf[u]] \in Tasks /\ place[u] <= place[tails[KeyOf[u]]]
        BY <4>1 DEF QueueInv, TailIsLast
      <4>3. Live(tails[KeyOf[u]])
        BY <4>1, <4>2 DEF QueueInv, TailIsLast
      <4> QED BY <1>2, <1>4, <2>1, <3>2, <4>1, <4>2, <4>3
    <3> QED BY <3>1, <3>2
  <2>3. ASSUME NEW l \in Keys, tails'[l] # Null
        PROVE  stage'[tails'[l]] \in Unfinished /\ KeyOf[tails'[l]] = l
    <3>1. CASE l = k
      BY <1>2, <2>1, <3>1 DEF Live
    <3>2. CASE l # k
      <4>1. tails'[l] = tails[l] /\ tails[l] \in Tasks
        BY <2>1, <2>3, <3>2
      <4>2. Live(tails[l]) /\ KeyOf[tails[l]] = l
        BY <2>3, <4>1 DEF QueueInv, TailIsLast
      <4> QED BY <1>2, <1>4, <4>1, <4>2 DEF Live
    <3> QED BY <3>1, <3>2
  <2> QED BY <2>2, <2>3 DEF TailIsLast, Live
<1>8. TailsAwaited'
  BY DEF TailsAwaited
<1> QED BY <1>1, <1>3, <1>5, <1>6, <1>7, <1>8 DEF QueueInv

LEMMA Strict ==
  ASSUME NEW i \in Nat, NEW j \in Nat, i <= j, i # j
  PROVE  i < j
  OBVIOUS

(* A task ends, or is rejected, when nothing is before it.                 *)
LEMMA ReleaseInv ==
  ASSUME QueueInv, NEW t \in Tasks, Live(t), Release(t),
         \A s \in Tasks : Live(s) => ~Before(s, t),
         caller' \in [Tasks -> {"none", "waiting", "resolved", "rejected"}],
         UNCHANGED <<active, awaited, accepted>>
  PROVE  QueueInv'
<1> USE DEF Release
<1> DEFINE k == KeyOf[t]
<1>0. QueueTypeOK /\ k \in Keys
  BY DEF QueueInv
<1>1. QueueTypeOK'
  BY <1>0 DEF QueueTypeOK, Unfinished
<1>2. /\ ~Live(t)' /\ place'[t] = 0
      /\ \A u \in Tasks \ {t} : /\ Live(u)' <=> Live(u)
                                /\ place'[u] = place[u]
                                /\ stage'[u] = stage[u]
                                /\ prev'[u] = prev[u]
  BY <1>0 DEF QueueTypeOK, Live, Unfinished
<1>3. PlacesDiffer'
  BY <1>2 DEF QueueInv, PlacesDiffer
<1>4. \A u \in Tasks : Live(u) /\ u # t /\ KeyOf[u] = k => ~(place[u] <= place[t])
  <2> SUFFICES ASSUME NEW u \in Tasks, Live(u), u # t, KeyOf[u] = k, place[u] <= place[t]
               PROVE  FALSE
    OBVIOUS
  <2>1. place[u] # place[t]
    BY DEF QueueInv, PlacesDiffer
  <2>2. place[u] \in Nat /\ place[t] \in Nat
    BY <1>0 DEF QueueTypeOK
  <2>3. place[u] < place[t]
    BY <2>1, <2>2, Strict
  <2> QED BY <2>3 DEF Before
<1>5. WaitsForLast'
  <2> SUFFICES ASSUME NEW s \in Tasks, NEW u \in Tasks, Live(s)', Live(u)', Before(s, u)'
               PROVE  /\ prev'[u] \in Tasks /\ stage'[prev'[u]] \in Unfinished
                      /\ KeyOf[prev'[u]] = KeyOf[u] /\ place'[s] <= place'[prev'[u]]
    BY DEF WaitsForLast, Live
  <2>1. s # t /\ u # t /\ Live(s) /\ Live(u) /\ Before(s, u)
    BY <1>2 DEF Before
  <2>2. prev[u] \in Tasks /\ Live(prev[u]) /\ KeyOf[prev[u]] = KeyOf[u] /\ place[s] <= place[prev[u]]
    BY <2>1 DEF QueueInv, WaitsForLast
  <2>3. prev[u] # t
    BY <1>4, <2>1, <2>2 DEF Before
  <2> QED BY <1>2, <2>1, <2>2, <2>3 DEF Live
<1>6. BeginsInOrder'
  <2> SUFFICES ASSUME NEW s \in Tasks, NEW u \in Tasks, KeyOf[s] = KeyOf[u],
                      place'[s] < place'[u], Live(s)'
               PROVE  stage'[u] # "running"
    BY DEF BeginsInOrder, Live
  <2>1. s # t
    BY <1>2
  <2>2. u # t
    BY <1>1, <1>2 DEF QueueTypeOK
  <2> QED BY <1>2, <2>1, <2>2 DEF QueueInv, BeginsInOrder, Live
<1>7. \A l \in Keys : tails'[l] = IF tails[l] = t THEN Null ELSE tails[l]
  BY <1>0 DEF QueueTypeOK, QueueInv, TailIsLast
<1>8. ASSUME NEW u \in Tasks, Live(u)'
      PROVE  /\ u # t /\ Live(u)
             /\ tails'[KeyOf[u]] = tails[KeyOf[u]] /\ tails[KeyOf[u]] \in Tasks \ {t}
             /\ place[u] <= place[tails[KeyOf[u]]]
  <2>1. u # t /\ Live(u) /\ KeyOf[u] \in Keys
    BY <1>2, <1>8
  <2>2. tails[KeyOf[u]] \in Tasks /\ place[u] <= place[tails[KeyOf[u]]]
    BY <2>1 DEF QueueInv, TailIsLast
  <2>3. KeyOf[tails[KeyOf[u]]] = KeyOf[u]
    BY <2>1, <2>2 DEF QueueInv, TailIsLast
  <2>4. tails[KeyOf[u]] # t
    BY <1>4, <2>1, <2>2, <2>3
  <2> QED BY <1>7, <2>1, <2>2, <2>4
<1>9. TailIsLast'
  <2>1. ASSUME NEW u \in Tasks, Live(u)'
        PROVE  tails'[KeyOf[u]] \in Tasks /\ place'[u] <= place'[tails'[KeyOf[u]]]
    BY <1>2, <1>8, <2>1
  <2>2. ASSUME NEW l \in Keys, tails'[l] # Null
        PROVE  stage'[tails'[l]] \in Unfinished /\ KeyOf[tails'[l]] = l
    <3>1. tails'[l] = tails[l] /\ tails[l] # t /\ tails[l] \in Tasks
      BY <1>0, <1>7, <2>2 DEF QueueTypeOK
    <3>2. Live(tails[l]) /\ KeyOf[tails[l]] = l
      BY <2>2, <3>1 DEF QueueInv, TailIsLast
    <3> QED BY <1>2, <3>1, <3>2 DEF Live
  <2> QED BY <2>1, <2>2 DEF TailIsLast, Live
<1>10. TailsAwaited'
  BY <1>8 DEF QueueInv, TailsAwaited
<1> QED BY <1>1, <1>3, <1>5, <1>6, <1>9, <1>10 DEF QueueInv

(* A task whose turn it is has nothing before it, and a running one has    *)
(* nothing either.                                                         *)
LEMMA TurnIsFirst ==
  ASSUME QueueInv, NEW t \in Tasks, Turn(t) \/ stage[t] = "running"
  PROVE  Live(t) /\ \A s \in Tasks : Live(s) => ~Before(s, t)
<1>1. CASE stage[t] = "running"
  BY <1>1 DEF QueueInv, BeginsInOrder, Live, Before, Unfinished
<1>2. CASE Turn(t)
  <2>1. Live(t)
    BY <1>2 DEF Turn, Live, Unfinished
  <2>2. ASSUME NEW s \in Tasks, Live(s), Before(s, t)
        PROVE  FALSE
    <3>1. prev[t] \in Tasks /\ Live(prev[t])
      BY <2>1, <2>2 DEF QueueInv, WaitsForLast
    <3> QED BY <1>2, <3>1 DEF Turn, Live, Unfinished
  <2> QED BY <2>1, <2>2
<1> QED BY <1>1, <1>2

LEMMA RefuseInv ==
  ASSUME QueueInv, NEW t \in Tasks, stage[t] = "new",
         stage' = [stage EXCEPT ![t] = "refused"],
         caller' = [caller EXCEPT ![t] = "rejected"],
         UNCHANGED <<active, prev, tails, depth, pendingTasks, awaited, place, accepted>>
  PROVE  QueueInv'
<1>1. QueueTypeOK /\ QueueTypeOK'
  BY DEF QueueInv, QueueTypeOK, Unfinished
<1>2. \A u \in Tasks : /\ Live(u)' <=> Live(u)
                       /\ stage'[u] = "running" => stage[u] = "running"
  BY <1>1 DEF QueueTypeOK, Live, Unfinished
<1>3. ~active' => TailsAwaited'
  BY <1>2 DEF QueueInv, TailsAwaited
<1> QED BY <1>1, <1>2, <1>3, SameOrder

LEMMA WorkInv ==
  ASSUME QueueInv, NEW t \in Tasks, Work(t)
  PROVE  QueueInv'
<1>0. QueueTypeOK
  BY DEF QueueInv
<1>1. CASE Begin(t)
  <2>1. QueueTypeOK'
    BY <1>0, <1>1 DEF Begin, QueueTypeOK, Unfinished
  <2>2. \A u \in Tasks : /\ Live(u)' <=> Live(u)
                         /\ stage'[u] = "running" /\ stage[u] # "running" => u = t
    BY <1>0, <1>1 DEF Begin, Turn, QueueTypeOK, Live, Unfinished
  <2>3. \A s \in Tasks : Live(s) => ~Before(s, t)
    BY <1>1, TurnIsFirst DEF Begin
  <2>4. active' /\ UNCHANGED <<prev, tails, place, accepted>>
    BY <1>1 DEF Begin
  <2> QED BY <2>1, <2>2, <2>3, <2>4, SameOrder
<1>2. CASE RejectQueued(t)
  BY <1>0, <1>2, TurnIsFirst, ReleaseInv DEF RejectQueued, QueueTypeOK
<1>3. CASE Timeout(t)
  <2>1. QueueTypeOK'
    BY <1>0, <1>3 DEF Timeout, QueueTypeOK
  <2>2. UNCHANGED <<active, stage, tails, prev, awaited, place, accepted>>
    BY <1>3 DEF Timeout
  <2>3. TailsAwaited' /\ \A u \in Tasks : Live(u)' <=> Live(u)
    BY <2>2 DEF QueueInv, TailsAwaited, Live
  <2> QED BY <2>1, <2>2, <2>3, SameOrder
<1>4. ASSUME NEW outcome \in {"resolved", "rejected"}, TaskEnds(t, outcome)
      PROVE  QueueInv'
  BY <1>0, <1>4, TurnIsFirst, ReleaseInv DEF TaskEnds, QueueTypeOK
<1> QED BY <1>1, <1>2, <1>3, <1>4 DEF Work

LEMMA DeactivateInv ==
  ASSUME QueueInv, DeactivateAndDrain
  PROVE  QueueInv'
<1>0. QueueTypeOK
  BY DEF QueueInv
<1>1. UNCHANGED <<stage, prev, tails, place, accepted>>
  BY DEF DeactivateAndDrain
<1>2. QueueTypeOK'
  <2>1. awaited' \subseteq Tasks
    BY <1>0 DEF DeactivateAndDrain, QueueTypeOK
  <2>2. caller' \in [Tasks -> {"none", "waiting", "resolved", "rejected"}]
    BY <1>0 DEF DeactivateAndDrain, QueueTypeOK
  <2> QED BY <1>0, <2>1, <2>2 DEF DeactivateAndDrain, QueueTypeOK
<1>3. \A u \in Tasks : Live(u)' <=> Live(u)
  BY <1>1 DEF Live
<1>4. TailsAwaited'
  <2> SUFFICES ASSUME NEW u \in Tasks, Live(u)
               PROVE  tails'[KeyOf[u]] \in awaited'
    BY <1>3 DEF TailsAwaited
  <2>1. tails[KeyOf[u]] \in Tasks /\ KeyOf[u] \in Keys
    BY DEF QueueInv, TailIsLast
  <2> QED BY <1>1, <2>1 DEF DeactivateAndDrain
<1> QED BY <1>1, <1>2, <1>3, <1>4, SameOrder

LEMMA QueueUnchanged ==
  ASSUME QueueInv, UNCHANGED queueVars
  PROVE  QueueInv'
  BY DEF queueVars, QueueInv, QueueTypeOK, PlacesDiffer, WaitsForLast, BeginsInOrder,
     TailIsLast, TailsAwaited, Live, Before

LEMMA QueueStep ==
  ASSUME QueueInv, QueueNext \/ UNCHANGED queueVars
  PROVE  QueueInv'
  BY AcceptInv, RefuseInv, WorkInv, DeactivateInv, QueueUnchanged DEF QueueNext, Refuse

-----------------------------------------------------------------------------
(* The counters. *)

LiveTasks == {t \in Tasks : Live(t)}

LiveOf(k) == {t \in Tasks : KeyOf[t] = k /\ Live(t)}

Counts ==
  /\ pendingTasks = Cardinality(LiveTasks)
  /\ \A k \in Keys : depth[k] = Cardinality(LiveOf(k))

LEMMA LiveFinite ==
  ASSUME NEW S \in SUBSET Tasks
  PROVE  IsFiniteSet(S) /\ Cardinality(S) \in Int
  BY FS_Subset, FS_CardinalityType

LEMMA OneMore ==
  ASSUME NEW S \in SUBSET Tasks, NEW t \in Tasks, t \notin S, NEW T, T = S \cup {t}
  PROVE  Cardinality(T) = Cardinality(S) + 1
  BY LiveFinite, FS_AddElement

LEMMA OneLess ==
  ASSUME NEW S \in SUBSET Tasks, NEW t \in S, NEW T, T = S \ {t}
  PROVE  Cardinality(T) = Cardinality(S) - 1
  BY LiveFinite, FS_RemoveElement

LEMMA LiveSets ==
  /\ LiveTasks \in SUBSET Tasks
  /\ \A k \in Keys : LiveOf(k) \in SUBSET Tasks
  BY DEF LiveTasks, LiveOf

LEMMA SameCounts ==
  ASSUME Counts, \A u \in Tasks : Live(u)' <=> Live(u), UNCHANGED <<depth, pendingTasks>>
  PROVE  Counts'
<1>1. LiveTasks' = LiveTasks /\ \A k \in Keys : LiveOf(k)' = LiveOf(k)
  BY DEF LiveTasks, LiveOf
<1> QED BY <1>1 DEF Counts

LEMMA AcceptCounts ==
  ASSUME QueueTypeOK, Counts, NEW t \in Tasks, Accept(t)
  PROVE  Counts'
<1>1. ~Live(t) /\ Live(t)' /\ \A u \in Tasks \ {t} : Live(u)' <=> Live(u)
  BY DEF Accept, QueueTypeOK, Live, Unfinished
<1>2. LiveTasks' = LiveTasks \cup {t} /\ t \notin LiveTasks
  BY <1>1 DEF LiveTasks
<1>3. pendingTasks' = Cardinality(LiveTasks')
  BY <1>2, LiveSets, OneMore DEF Accept, Counts
<1>4. ASSUME NEW k \in Keys
      PROVE  depth'[k] = Cardinality(LiveOf(k)')
  <2>1. CASE k = KeyOf[t]
    <3>1. LiveOf(k)' = LiveOf(k) \cup {t} /\ t \notin LiveOf(k)
      BY <1>1, <2>1 DEF LiveOf
    <3>2. Cardinality(LiveOf(k)') = Cardinality(LiveOf(k)) + 1
      BY <3>1, LiveSets, OneMore
    <3> QED BY <2>1, <3>2 DEF Accept, Counts, QueueTypeOK
  <2>2. CASE k # KeyOf[t]
    <3>1. LiveOf(k)' = LiveOf(k)
      BY <1>1, <2>2 DEF LiveOf
    <3> QED BY <2>2, <3>1 DEF Accept, Counts, QueueTypeOK
  <2> QED BY <2>1, <2>2
<1> QED BY <1>3, <1>4 DEF Counts

LEMMA ReleaseCounts ==
  ASSUME QueueTypeOK, Counts, NEW t \in Tasks, Live(t), Release(t)
  PROVE  Counts'
<1>1. ~Live(t)' /\ \A u \in Tasks \ {t} : Live(u)' <=> Live(u)
  BY DEF Release, QueueTypeOK, Live, Unfinished
<1>2. LiveTasks' = LiveTasks \ {t} /\ t \in LiveTasks
  BY <1>1 DEF LiveTasks
<1>3. pendingTasks' = Cardinality(LiveTasks')
  BY <1>2, LiveSets, OneLess DEF Release, Counts
<1>4. ASSUME NEW k \in Keys
      PROVE  depth'[k] = Cardinality(LiveOf(k)')
  <2>1. CASE k = KeyOf[t]
    <3>1. LiveOf(k)' = LiveOf(k) \ {t} /\ t \in LiveOf(k)
      BY <1>1, <2>1 DEF LiveOf
    <3>2. Cardinality(LiveOf(k)') = Cardinality(LiveOf(k)) - 1
      BY <3>1, LiveSets, OneLess
    <3> QED BY <2>1, <3>2 DEF Release, Counts, QueueTypeOK
  <2>2. CASE k # KeyOf[t]
    <3>1. LiveOf(k)' = LiveOf(k)
      BY <1>1, <2>2 DEF LiveOf
    <3> QED BY <2>2, <3>1 DEF Release, Counts, QueueTypeOK
  <2> QED BY <2>1, <2>2
<1> QED BY <1>3, <1>4 DEF Counts

LEMMA InitCounts == QueueInit => Counts
<1> SUFFICES ASSUME QueueInit
             PROVE  Counts
  OBVIOUS
<1>1. LiveTasks = {} /\ \A k \in Keys : LiveOf(k) = {}
  BY DEF QueueInit, LiveTasks, LiveOf, Live, Unfinished
<1> QED BY <1>1, FS_EmptySet DEF QueueInit, Counts

LEMMA RefuseCounts ==
  ASSUME QueueTypeOK, Counts, NEW t \in Tasks, stage[t] = "new",
         stage' = [stage EXCEPT ![t] = "refused"],
         UNCHANGED <<depth, pendingTasks>>
  PROVE  Counts'
<1>1. \A u \in Tasks : Live(u)' <=> Live(u)
  BY DEF QueueTypeOK, Live, Unfinished
<1> QED BY <1>1, SameCounts

LEMMA QueueStepCounts ==
  ASSUME QueueInv, Counts, QueueNext \/ UNCHANGED queueVars
  PROVE  Counts'
<1>0. QueueTypeOK
  BY DEF QueueInv
<1>1. ASSUME NEW t \in Tasks, Accept(t) \/ Refuse(t)
      PROVE  Counts'
  BY <1>0, <1>1, AcceptCounts, RefuseCounts DEF Refuse
<1>2. ASSUME NEW t \in Tasks, Work(t)
      PROVE  Counts'
  <2>1. CASE Begin(t)
    <3>1. \A u \in Tasks : Live(u)' <=> Live(u)
      BY <1>0, <2>1 DEF Begin, Turn, QueueTypeOK, Live, Unfinished
    <3> QED BY <2>1, <3>1, SameCounts DEF Begin
  <2>2. CASE Timeout(t)
    BY <2>2, SameCounts DEF Timeout, Live
  <2>3. CASE RejectQueued(t)
    BY <1>0, <2>3, TurnIsFirst, ReleaseCounts DEF RejectQueued
  <2>4. ASSUME NEW outcome \in {"resolved", "rejected"}, TaskEnds(t, outcome)
        PROVE  Counts'
    BY <1>0, <2>4, TurnIsFirst, ReleaseCounts DEF TaskEnds
  <2> QED BY <1>2, <2>1, <2>2, <2>3, <2>4 DEF Work
<1>3. CASE DeactivateAndDrain
  BY <1>3, SameCounts DEF DeactivateAndDrain, Live
<1>4. CASE UNCHANGED queueVars
  BY <1>4, SameCounts DEF queueVars, Live
<1> QED BY <1>1, <1>2, <1>3, <1>4 DEF QueueNext

LEMMA CountsReal == QueueInv /\ Counts => CountsAreReal
<1> SUFFICES ASSUME QueueInv, Counts
             PROVE  CountsAreReal
  OBVIOUS
<1>1. LiveTasks = {t \in Tasks : stage[t] \in Unfinished}
  BY DEF LiveTasks, Live
<1>2. ASSUME NEW k \in Keys
      PROVE  LiveOf(k) = Of(k, Unfinished) /\ (tails[k] # Null <=> LiveOf(k) # {})
  <2>1. LiveOf(k) = Of(k, Unfinished)
    BY DEF LiveOf, Of, Live
  <2>2. ASSUME tails[k] # Null
        PROVE  LiveOf(k) # {}
    <3>1. tails[k] \in Tasks /\ Live(tails[k]) /\ KeyOf[tails[k]] = k
      BY <2>2 DEF QueueInv, TailIsLast, QueueTypeOK
    <3> QED BY <3>1 DEF LiveOf
  <2>3. ASSUME NEW t \in LiveOf(k)
        PROVE  tails[k] # Null
    BY <2>3 DEF QueueInv, TailIsLast, LiveOf
  <2> QED BY <2>1, <2>2, <2>3
<1> QED BY <1>1, <1>2 DEF Counts, CountsAreReal

-----------------------------------------------------------------------------
(* The channel.  Its steps are steps of the queue, a refusal that the      *)
(* queue never sees, or leave the queue alone.                             *)

(* A caller that heard of success has a handler that returned without an   *)
(* error.                                                                  *)
ResolvedIsHandled == \A t \in Tasks : caller[t] = "resolved" => t[1] \in handled

MqttInv ==
  /\ QueueInv
  /\ Counts
  /\ MqttTypeOK
  /\ ResolvedIsHandled
  /\ PubackMeansHandled

LEMMA ToldOf ==
  ASSUME NEW t \in Tasks
  PROVE  t[1] \in Messages
  OBVIOUS

LEMMA MqttInitInv == MqttInit => MqttInv
<1> SUFFICES ASSUME MqttInit
             PROVE  MqttInv
  OBVIOUS
<1>1. QueueInv /\ Counts
  BY QueueInitInv, InitCounts DEF MqttInit
<1>2. MqttTypeOK /\ ResolvedIsHandled /\ PubackMeansHandled
  BY <1>1 DEF MqttInit, QueueInit, QueueInv, MqttTypeOK, ResolvedIsHandled, PubackMeansHandled
<1> QED BY <1>1, <1>2 DEF MqttInv

(* What is told to callers keeps ResolvedIsHandled, as long as nobody new  *)
(* hears of success.                                                       *)
LEMMA NobodyResolved ==
  ASSUME ResolvedIsHandled, handled' = handled,
         \A t \in Tasks : caller'[t] = "resolved" => caller[t] = "resolved"
  PROVE  ResolvedIsHandled'
  BY DEF ResolvedIsHandled

LEMMA PublishInv ==
  ASSUME MqttInv, NEW t \in Tasks, Publish(t) \/ PublishOverLimit(t)
  PROVE  MqttInv'
<1>0. QueueInv /\ Counts /\ QueueTypeOK
  BY DEF MqttInv, QueueInv
<1>1. QueueInv' /\ Counts'
  BY <1>0, AcceptInv, RefuseInv, AcceptCounts, RefuseCounts DEF Publish, PublishOverLimit, Refuse
<1>2. UNCHANGED <<broker, acked, handled, active>>
  BY DEF Publish, PublishOverLimit, Accept, Refuse
<1>3. \A u \in Tasks : caller'[u] = "resolved" => caller[u] = "resolved"
  BY <1>0 DEF Publish, PublishOverLimit, Accept, Refuse, QueueTypeOK
<1>4. MqttTypeOK' /\ ResolvedIsHandled' /\ PubackMeansHandled'
  BY <1>1, <1>2, <1>3, NobodyResolved DEF MqttInv, MqttTypeOK, QueueInv, PubackMeansHandled
<1> QED BY <1>1, <1>4 DEF MqttInv

LEMMA ProgressInv ==
  ASSUME MqttInv, NEW t \in Tasks, Progress(t)
  PROVE  MqttInv'
<1>0. QueueInv /\ Counts /\ QueueTypeOK
  BY DEF MqttInv, QueueInv
<1>1. Work(t)
  BY DEF Progress, HandlerEnds, Work
<1>2. QueueInv' /\ Counts'
  BY <1>0, <1>1, WorkInv, QueueStepCounts DEF QueueNext
<1>3. UNCHANGED <<broker, acked, active>>
  BY DEF Progress, HandlerEnds, Begin, RejectQueued, Timeout, TaskEnds
<1>4. CASE (Begin(t) \/ RejectQueued(t) \/ Timeout(t)) /\ UNCHANGED <<broker, acked, handled>>
  <2>1. \A u \in Tasks : caller'[u] = "resolved" => caller[u] = "resolved"
    BY <1>0, <1>4 DEF Begin, RejectQueued, Timeout, QueueTypeOK
  <2> QED BY <1>2, <1>3, <1>4, <2>1, NobodyResolved
          DEF MqttInv, MqttTypeOK, QueueInv, PubackMeansHandled
<1>5. ASSUME NEW outcome \in {"resolved", "rejected"}, HandlerEnds(t, outcome)
      PROVE  MqttInv'
  <2>1. handled \subseteq handled' /\ handled' \subseteq handled \cup {t[1]}
    BY <1>5 DEF HandlerEnds
  <2>2. ResolvedIsHandled'
    <3> SUFFICES ASSUME NEW u \in Tasks, caller'[u] = "resolved"
                 PROVE  u[1] \in handled'
      BY DEF ResolvedIsHandled
    <3>1. CASE caller[u] = "resolved"
      BY <2>1, <3>1 DEF MqttInv, ResolvedIsHandled
    <3>2. CASE caller[u] # "resolved"
      BY <1>0, <1>5, <3>2 DEF HandlerEnds, TaskEnds, QueueTypeOK
    <3> QED BY <3>1, <3>2
  <2>3. MqttTypeOK' /\ PubackMeansHandled'
    BY <1>2, <1>3, <2>1, ToldOf DEF MqttInv, MqttTypeOK, QueueInv, PubackMeansHandled
  <2> QED BY <1>2, <2>2, <2>3 DEF MqttInv
<1> QED BY <1>4, <1>5 DEF Progress

LEMMA PubackInv ==
  ASSUME MqttInv, NEW t \in Tasks, Puback(t)
  PROVE  MqttInv'
<1>1. UNCHANGED queueVars /\ UNCHANGED <<broker, handled>> /\ acked' = acked \cup {t[1]}
  BY DEF Puback
<1>2. t[1] \in handled
  BY DEF Puback, MqttInv, ResolvedIsHandled
<1>3. QueueInv' /\ Counts'
  BY <1>1, QueueUnchanged, QueueStepCounts DEF MqttInv
<1>4. MqttTypeOK' /\ ResolvedIsHandled' /\ PubackMeansHandled'
  BY <1>1, <1>2, <1>3, ToldOf
     DEF MqttInv, MqttTypeOK, QueueInv, queueVars, ResolvedIsHandled, PubackMeansHandled
<1> QED BY <1>3, <1>4 DEF MqttInv

LEMMA StopInv ==
  ASSUME MqttInv, StopBroker \/ StopEnds
  PROVE  MqttInv'
<1>0. QueueInv /\ Counts /\ QueueTypeOK
  BY DEF MqttInv, QueueInv
<1>1. QueueInv' /\ Counts'
  BY <1>0, DeactivateInv, QueueUnchanged, QueueStepCounts DEF StopBroker, StopEnds, QueueNext
<1>2. UNCHANGED <<acked, handled>> /\ broker' \in {"stopping", "off"} /\ ~active'
  BY DEF StopBroker, StopEnds, DeactivateAndDrain, Drained, queueVars
<1>3. \A u \in Tasks : caller'[u] = "resolved" => caller[u] = "resolved"
  BY <1>0 DEF StopBroker, StopEnds, DeactivateAndDrain, QueueTypeOK, queueVars
<1>4. MqttTypeOK' /\ ResolvedIsHandled' /\ PubackMeansHandled'
  BY <1>1, <1>2, <1>3, NobodyResolved DEF MqttInv, MqttTypeOK, QueueInv, PubackMeansHandled
<1> QED BY <1>1, <1>4 DEF MqttInv

LEMMA MqttStep ==
  ASSUME MqttInv, [MqttNext]_mqttVars
  PROVE  MqttInv'
<1>1. CASE UNCHANGED mqttVars
  <2>1. QueueInv' /\ Counts'
    BY <1>1, QueueUnchanged, QueueStepCounts DEF mqttVars, MqttInv
  <2> QED BY <1>1, <2>1 DEF mqttVars, queueVars, MqttInv, MqttTypeOK, QueueInv,
             ResolvedIsHandled, PubackMeansHandled
<1> QED BY <1>1, PublishInv, ProgressInv, PubackInv, StopInv DEF MqttNext

LEMMA MqttInvariant == MqttSpec => []MqttInv
  BY MqttInitInv, MqttStep, PTL DEF MqttSpec

-----------------------------------------------------------------------------
(* Theorems *)

(* The variables of the queue and the broker keep their types, and the     *)
(* queue is active exactly while the broker is on.                         *)
THEOREM MqttTypeCorrect == MqttSpec => []MqttTypeOK
<1>1. MqttInv => MqttTypeOK
  BY DEF MqttInv
<1> QED BY <1>1, MqttInvariant, PTL

(* The publishes of a client are handled one at a time, in the order in    *)
(* which the queue accepted them, whatever times out or is aborted.        *)
THEOREM PublishesBeginInOrder == MqttSpec => []BeginsInOrder
<1>1. MqttInv => BeginsInOrder
  BY DEF MqttInv, QueueInv
<1> QED BY <1>1, MqttInvariant, PTL

(* The depths that limit the clients, the count that limits the queue and  *)
(* the entries of its keys are those of the work that is really there.     *)
THEOREM QueueCountsAreReal == MqttSpec => []CountsAreReal
<1>1. MqttInv => CountsAreReal
  BY CountsReal DEF MqttInv
<1> QED BY <1>1, MqttInvariant, PTL

(* A stop of the broker that waited for the tails left no work behind.     *)
THEOREM StopDrainsQueue == MqttSpec => []DrainIsComplete
<1>1. ASSUME MqttInv
      PROVE  DrainIsComplete
  <2> SUFFICES ASSUME Drained, NEW t \in Tasks, Live(t)
               PROVE  FALSE
    BY DEF DrainIsComplete, Live
  <2>1. tails[KeyOf[t]] \in awaited
    BY <1>1 DEF MqttInv, QueueInv, TailsAwaited, Drained
  <2>2. tails[KeyOf[t]] \in Tasks /\ KeyOf[t] \in Keys
    BY <1>1 DEF MqttInv, QueueInv, TailIsLast
  <2>3. Live(tails[KeyOf[t]])
    BY <1>1, <2>2 DEF MqttInv, QueueInv, TailIsLast
  <2> QED BY <2>1, <2>3 DEF Drained, Live, Unfinished
<1> QED BY <1>1, MqttInvariant, PTL

(* A client that has a PUBACK has a message whose handler returned without *)
(* an error.                                                               *)
THEOREM PubackIsHonest == MqttSpec => []PubackMeansHandled
<1>1. MqttInv => PubackMeansHandled
  BY DEF MqttInv
<1> QED BY <1>1, MqttInvariant, PTL

=============================================================================
