-------------------------- MODULE RedisStreamProofs --------------------------
(***************************************************************************)
(* Proofs about RedisStream, for any number of entries, processes and      *)
(* loops, any size of a batch, limit of attempts and number of faults.     *)
(***************************************************************************)
EXTENDS RedisStream, WellFoundedInduction, TLAPS

USE NullAssumption, RedisAssumption

-----------------------------------------------------------------------------
(* The inductive invariant. *)

(* The row of an entry remembers its turn.                                 *)
JournalOK ==
  /\ JournalTypeOK
  /\ turns \in [Ids -> Nat]
  /\ \A e \in Ids : turns[e] = IF journal[e].agent THEN 1 ELSE 0
  /\ \A e \in Ids : journal[e].status = "absent" => ~journal[e].agent

EntriesOK ==
  /\ place \in [Ids -> {"unread", "pending", "gone"}]
  /\ dead \subseteq Ids
  /\ count \in [Ids -> Nat]
  /\ EntryKept

HostsOK ==
  /\ alive \subseteq Pids
  /\ born \in [Pids -> Nat]
  /\ client \in [Pids -> {"on", "draining", "off"}]
  /\ faults \in Nat

(* A slot without a loop has no process, a loop's process exists, and it   *)
(* has a batch exactly when it is at an entry.                             *)
Sound(r) ==
  /\ r \in Loop
  /\ r.step = "none" => r.pid = Null
  /\ r.step # "none" => r.pid \in alive
  /\ r.batch = {} <=> r.step \in {"none", "poll"}

(* What a loop acknowledges has its outcome.                               *)
Decided(r) == r.step = "ack" => journal[First(r.batch)].status \in Outcomes

LoopsOK ==
  /\ loop \in [Loops -> Loop]
  /\ \A l \in Loops : Sound(loop[l]) /\ Decided(loop[l])

RedisInv == JournalOK /\ EntriesOK /\ HostsOK /\ LoopsOK

(* What every step keeps: an outcome.                                      *)
OutcomesStay ==
  \A e \in Ids : journal[e].status \in Outcomes => journal'[e].status \in Outcomes

LEMMA InvType == RedisInv => RedisTypeOK
<1>1. Null \notin Pids
  OBVIOUS
<1> QED BY <1>1 DEF RedisInv, JournalOK, EntriesOK, HostsOK, LoopsOK, Sound, RedisTypeOK

LEMMA InitInv == RedisInit => RedisInv
<1> SUFFICES ASSUME RedisInit PROVE RedisInv
  OBVIOUS
<1>1. JournalOK
  BY DEF RedisInit, JournalInit, JournalOK, JournalTypeOK, NoRow, Row
<1>2. EntriesOK
  BY DEF RedisInit, EntriesOK, EntryKept
<1>3. HostsOK
  BY DEF RedisInit, HostsOK
<1>4. LoopsOK
  <2>1. (CHOOSE p \in Pids : TRUE) \in Pids
    OBVIOUS
  <2>2. alive = Pids
    BY DEF RedisInit
  <2>3. \A l \in Loops :
          \/ loop[l] = NoLoop
          \/ loop[l] = [NoLoop EXCEPT !.pid = CHOOSE p \in Pids : TRUE, !.step = "poll"]
    BY DEF RedisInit
  <2>4. loop \in [Loops -> Loop]
    BY <2>1 DEF RedisInit, NoLoop, Loop
  <2>5. Sound(NoLoop)
    BY DEF Sound, NoLoop, Loop
  <2>6. Sound([NoLoop EXCEPT !.pid = CHOOSE p \in Pids : TRUE, !.step = "poll"])
    BY <2>1, <2>2 DEF Sound, NoLoop, Loop
  <2>7. \A l \in Loops : loop[l].step # "ack"
    <3>1. NoLoop.step # "ack"
      BY DEF NoLoop
    <3>2. [NoLoop EXCEPT !.pid = CHOOSE p \in Pids : TRUE, !.step = "poll"].step # "ack"
      BY DEF NoLoop
    <3> QED BY <2>3, <3>1, <3>2
  <2> QED BY <2>3, <2>4, <2>5, <2>6, <2>7 DEF LoopsOK, Decided
<1> QED BY <1>1, <1>2, <1>3, <1>4 DEF RedisInv

-----------------------------------------------------------------------------
(* The first entry of a batch. *)

LEMMA FirstIn ==
  ASSUME NEW S \in SUBSET Ids, S # {}
  PROVE  First(S) \in S
<1> DEFINE Less == {ss \in Nat \X Nat : ss[1] < ss[2]}
<1>1. IsWellFoundedOn(Less, Nat)
  BY NatLessThanWellFounded, Zenon DEF OpToRel
<1>2. S \subseteq Nat
  OBVIOUS
<1> HIDE DEF Less
<1>3. PICK x \in S : \A y \in S : ~(<<y, x>> \in Less)
  BY <1>1, <1>2, WFMin
<1>4. \A y \in S : x <= y
  <2> SUFFICES ASSUME NEW y \in S PROVE x <= y
    OBVIOUS
  <2>1. ~(y < x)
    BY <1>2, <1>3 DEF Less
  <2> QED BY <1>2, <2>1
<1> QED BY <1>4 DEF First

LEMMA EntryIn ==
  ASSUME LoopsOK, NEW l \in Loops, loop[l].step \notin {"none", "poll"}
  PROVE  /\ Entry(l) \in loop[l].batch
         /\ Entry(l) \in Ids
<1>1. loop[l].batch \in SUBSET Ids /\ loop[l].batch # {}
  BY DEF LoopsOK, Sound, Loop
<1> QED BY <1>1, FirstIn DEF Entry

-----------------------------------------------------------------------------
(* What a step does to a loop. *)

LEMMA LoopStep ==
  ASSUME LoopsOK, NEW l \in Loops, NEW r,
         loop' = [loop EXCEPT ![l] = r],
         alive' = alive, OutcomesStay,
         Sound(r), r.step = "ack" => journal'[First(r.batch)].status \in Outcomes
  PROVE  LoopsOK'
<1>1. r \in Loop
  BY DEF Sound
<1>2. loop' \in [Loops -> Loop]
  BY <1>1 DEF LoopsOK
<1>3. ASSUME NEW k \in Loops PROVE Sound(loop[k])' /\ Decided(loop[k])'
  <2>1. CASE k = l
    <3>1. loop'[k] = r
      BY <2>1 DEF LoopsOK
    <3> QED BY <3>1 DEF Sound, Decided, Loop
  <2>2. CASE k # l
    <3>1. loop'[k] = loop[k]
      BY <2>2 DEF LoopsOK
    <3>2. Sound(loop[k]) /\ Decided(loop[k])
      BY DEF LoopsOK
    <3>3. Sound(loop[k])'
      BY <3>1, <3>2 DEF Sound, Loop
    <3>4. ASSUME loop[k].step = "ack" PROVE journal'[First(loop[k].batch)].status \in Outcomes
      <4>1. First(loop[k].batch) \in Ids
        BY <3>4, EntryIn DEF Entry
      <4> QED BY <3>2, <3>4, <4>1 DEF Decided, OutcomesStay
    <3> QED BY <3>1, <3>3, <3>4 DEF Decided
  <2> QED BY <2>1, <2>2
<1> QED BY <1>2, <1>3 DEF LoopsOK

LEMMA LoopsKept ==
  ASSUME LoopsOK, loop' = loop, alive' = alive, OutcomesStay
  PROVE  LoopsOK'
<1>1. ASSUME NEW k \in Loops PROVE Sound(loop[k])' /\ Decided(loop[k])'
  <2>1. Sound(loop[k]) /\ Decided(loop[k])
    BY DEF LoopsOK
  <2>2. Sound(loop[k])'
    BY <2>1 DEF Sound, Loop
  <2>3. ASSUME loop[k].step = "ack" PROVE journal'[First(loop[k].batch)].status \in Outcomes
    <3>1. First(loop[k].batch) \in Ids
      BY <2>3, EntryIn DEF Entry
    <3> QED BY <2>1, <2>3, <3>1 DEF Decided, OutcomesStay
  <2> QED BY <2>2, <2>3 DEF Decided
<1> QED BY <1>1 DEF LoopsOK

LEMMA GoToOK ==
  ASSUME LoopsOK, NEW l \in Loops, loop[l].step \notin {"none", "poll"},
         NEW step \in {"claimed", "turn", "ack", "failed", "bury"},
         GoTo(l, step), alive' = alive, OutcomesStay,
         step = "ack" => journal'[Entry(l)].status \in Outcomes
  PROVE  LoopsOK'
<1> DEFINE r == [loop[l] EXCEPT !.step = step]
<1>1. Sound(loop[l])
  BY DEF LoopsOK
<1>2. r.step = step /\ r.batch = loop[l].batch /\ r.pid = loop[l].pid /\ r \in Loop
  BY <1>1 DEF Sound, Loop
<1>3. loop' = [loop EXCEPT ![l] = r]
  BY DEF GoTo
<1> HIDE DEF r
<1>4. Sound(r)
  BY <1>1, <1>2 DEF Sound
<1> QED BY <1>2, <1>3, <1>4, LoopStep DEF Entry

LEMMA NextEntryOK ==
  ASSUME LoopsOK, NEW l \in Loops, loop[l].step \notin {"none", "poll"},
         NextEntry(l), alive' = alive, OutcomesStay
  PROVE  LoopsOK'
<1> DEFINE rest == loop[l].batch \ {Entry(l)}
           r == [loop[l] EXCEPT !.step = IF loop[l].batch = {Entry(l)} THEN "poll" ELSE "next",
                                !.batch = rest, !.first = FALSE]
<1>1. Sound(loop[l])
  BY DEF LoopsOK
<1>2. rest = {} <=> loop[l].batch = {Entry(l)}
  BY EntryIn
<1>3. /\ r.step = IF loop[l].batch = {Entry(l)} THEN "poll" ELSE "next"
      /\ r.batch = rest /\ r.pid = loop[l].pid /\ r \in Loop
  BY <1>1 DEF Sound, Loop
<1>4. loop' = [loop EXCEPT ![l] = r]
  BY DEF NextEntry
<1> HIDE DEF r
<1>5. Sound(r) /\ r.step # "ack"
  BY <1>1, <1>2, <1>3 DEF Sound
<1> QED BY <1>4, <1>5, LoopStep

LEMMA AbandonOK ==
  ASSUME LoopsOK, NEW l \in Loops, loop[l].step \notin {"none", "poll"},
         Abandon(l), alive' = alive, OutcomesStay
  PROVE  LoopsOK'
<1>1. Sound(loop[l])
  BY DEF LoopsOK
<1>2. Sound(NoLoop) /\ NoLoop.step # "ack"
  BY DEF Sound, NoLoop, Loop
<1> DEFINE r == [loop[l] EXCEPT !.step = "poll", !.batch = {}, !.first = FALSE]
<1>3. r.step = "poll" /\ r.batch = {} /\ r.pid = loop[l].pid /\ r \in Loop
  BY <1>1 DEF Sound, Loop
<1>4. loop' = [loop EXCEPT ![l] = NoLoop] \/ loop' = [loop EXCEPT ![l] = r]
  BY DEF Abandon
<1> HIDE DEF r
<1>5. Sound(r) /\ r.step # "ack"
  BY <1>1, <1>3 DEF Sound
<1>6. CASE loop' = [loop EXCEPT ![l] = NoLoop]
  BY <1>2, <1>6, LoopStep
<1>7. CASE loop' = [loop EXCEPT ![l] = r]
  BY <1>5, <1>7, LoopStep
<1> QED BY <1>4, <1>6, <1>7

LEMMA TakeOK ==
  ASSUME LoopsOK, NEW l \in Loops, loop[l].step = "poll",
         NEW entries \in SUBSET Ids, entries # {}, NEW reclaimed \in BOOLEAN,
         Take(l, entries, reclaimed), alive' = alive, OutcomesStay
  PROVE  LoopsOK'
<1> DEFINE r == [loop[l] EXCEPT !.step = "next", !.batch = entries,
                                !.first = TRUE, !.reclaimed = reclaimed]
<1>1. Sound(loop[l])
  BY DEF LoopsOK
<1>2. r.step = "next" /\ r.batch = entries /\ r.pid = loop[l].pid /\ r \in Loop
  BY <1>1 DEF Sound, Loop
<1>3. loop' = [loop EXCEPT ![l] = r]
  BY DEF Take
<1> HIDE DEF r
<1>4. Sound(r) /\ r.step # "ack"
  BY <1>1, <1>2 DEF Sound
<1> QED BY <1>3, <1>4, LoopStep

-----------------------------------------------------------------------------
(* What a step does to a row of the journal and to an entry. *)

LEMMA RowStep ==
  ASSUME JournalOK, NEW e \in Ids, NEW r \in Row,
         journal' = [journal EXCEPT ![e] = r],
         journal[e].status \in Outcomes => r.status \in Outcomes,
         r.status = "absent" => ~r.agent,
         \/ r.agent = journal[e].agent /\ turns' = turns
         \/ r.agent /\ ~journal[e].agent /\ turns' = [turns EXCEPT ![e] = @ + 1]
  PROVE  JournalOK' /\ OutcomesStay
<1>1. journal \in [Ids -> Row] /\ turns \in [Ids -> Nat]
  BY DEF JournalOK, JournalTypeOK
<1>2. journal' \in [Ids -> Row] /\ journal'[e] = r
  BY <1>1
<1>3. \A d \in Ids : d # e => journal'[d] = journal[d]
  BY <1>1
<1>4. OutcomesStay
  BY <1>2, <1>3 DEF OutcomesStay
<1>5. turns' \in [Ids -> Nat] /\ \A d \in Ids : d # e => turns'[d] = turns[d]
  BY <1>1
<1>6. turns'[e] = IF r.agent THEN 1 ELSE 0
  <2>1. turns[e] = IF journal[e].agent THEN 1 ELSE 0
    BY DEF JournalOK
  <2> QED BY <1>1, <2>1
<1>7. \A d \in Ids : turns'[d] = IF journal'[d].agent THEN 1 ELSE 0
  BY <1>2, <1>3, <1>5, <1>6 DEF JournalOK
<1>8. \A d \in Ids : journal'[d].status = "absent" => ~journal'[d].agent
  BY <1>2, <1>3 DEF JournalOK
<1> QED BY <1>2, <1>4, <1>5, <1>7, <1>8 DEF JournalOK, JournalTypeOK

LEMMA JournalKept ==
  ASSUME JournalOK, journal' = journal, turns' = turns
  PROVE  JournalOK' /\ OutcomesStay
BY DEF JournalOK, JournalTypeOK, OutcomesStay

LEMMA EntriesKept ==
  ASSUME EntriesOK, OutcomesStay, UNCHANGED entryVars
  PROVE  EntriesOK'
BY DEF EntriesOK, EntryKept, OutcomesStay, entryVars

LEMMA HostsKept ==
  ASSUME HostsOK, UNCHANGED hostVars, Fault \/ UNCHANGED faults
  PROVE  HostsOK' /\ alive' = alive
BY DEF HostsOK, hostVars, Fault

LEMMA LeaveGroupOK ==
  ASSUME EntriesOK, OutcomesStay, NEW e \in Ids, LeaveGroup(e),
         dead' \in {dead, dead \cup {e}},
         journal'[e].status \in Outcomes \/ e \in dead'
  PROVE  EntriesOK'
<1>1. place' \in [Ids -> {"unread", "pending", "gone"}] /\ count' = count
  BY DEF EntriesOK, LeaveGroup
<1>2. \A d \in Ids : d # e => place'[d] = place[d]
  BY DEF EntriesOK, LeaveGroup
<1>3. EntryKept'
  BY <1>2 DEF EntriesOK, EntryKept, OutcomesStay
<1> QED BY <1>1, <1>3 DEF EntriesOK

LEMMA DeliverOK ==
  ASSUME EntriesOK, OutcomesStay, NEW entries \in SUBSET Ids, Deliver(entries)
  PROVE  EntriesOK'
<1>1. place' \in [Ids -> {"unread", "pending", "gone"}] /\ count' \in [Ids -> Nat]
  BY DEF EntriesOK, Deliver
<1>2. \A d \in Ids : place'[d] = "gone" => place[d] = "gone"
  BY DEF Deliver
<1> QED BY <1>1, <1>2 DEF EntriesOK, EntryKept, OutcomesStay, Deliver

-----------------------------------------------------------------------------
(* The invariant is kept by every action. *)

LEMMA BatchInv ==
  ASSUME RedisInv, NEW l \in Loops, ReadNew(l) \/ Reclaim(l)
  PROVE  RedisInv'
<1>1. UNCHANGED <<journal, hostVars, turns>> /\ Polls(l)
  BY DEF ReadNew, Reclaim
<1>2. PICK entries \in SUBSET Ids, reclaimed \in BOOLEAN :
         /\ entries # {}
         /\ Deliver(entries)
         /\ \/ Take(l, entries, reclaimed) /\ UNCHANGED faults
            \/ Fault /\ UNCHANGED loop
  <2>1. CASE ReadNew(l)
    <3>1. PICK entries \in SUBSET Unread :
            /\ Oldest(entries) /\ Deliver(entries)
            /\ \/ Take(l, entries, FALSE) /\ UNCHANGED faults
               \/ Fault /\ UNCHANGED loop
      BY <2>1 DEF ReadNew
    <3>2. entries \in SUBSET Ids /\ entries # {}
      BY <3>1 DEF Oldest, Unread
    <3>3. FALSE \in BOOLEAN
      OBVIOUS
    <3> QED BY <3>1, <3>2, <3>3, Zenon
  <2>2. CASE Reclaim(l)
    <3>1. PICK entries \in (SUBSET {e \in Ids : MayBeIdle(e)}) \ {{}} :
            /\ Deliver(entries)
            /\ \/ Take(l, entries, TRUE) /\ UNCHANGED faults
               \/ Fault /\ UNCHANGED loop
      BY <2>2 DEF Reclaim
    <3>2. entries \in SUBSET Ids /\ entries # {}
      BY <3>1
    <3>3. TRUE \in BOOLEAN
      OBVIOUS
    <3> QED BY <3>1, <3>2, <3>3, Zenon
  <2> QED BY <2>1, <2>2
<1>3. JournalOK' /\ OutcomesStay
  BY <1>1, JournalKept DEF RedisInv
<1>4. EntriesOK'
  BY <1>2, <1>3, DeliverOK DEF RedisInv
<1>5. HostsOK' /\ alive' = alive
  BY <1>1, <1>2, HostsKept DEF RedisInv
<1>6. LoopsOK'
  BY <1>1, <1>2, <1>3, <1>5, TakeOK, LoopsKept DEF RedisInv, Polls
<1> QED BY <1>3, <1>4, <1>5, <1>6 DEF RedisInv

LEMMA ClaimEntryInv ==
  ASSUME RedisInv, NEW l \in Loops, ClaimEntry(l)
  PROVE  RedisInv'
<1> DEFINE e == Entry(l)
           p == loop[l].pid
<1>1. loop[l].step = "next" /\ UNCHANGED <<entryVars, hostVars, turns, faults>>
  BY DEF ClaimEntry
<1>2. e \in Ids
  BY <1>1, EntryIn DEF RedisInv
<1>3. p \in Pids /\ born[p] \in Nat
  BY <1>1 DEF RedisInv, HostsOK, LoopsOK, Sound
<1>4. HostsOK' /\ alive' = alive
  BY <1>1, HostsKept DEF RedisInv
<1>5. journal[e] \in Row
  BY <1>2 DEF RedisInv, JournalOK, JournalTypeOK
<1>6. PICK step \in {"claimed", "failed", "ack"} :
         /\ GoTo(l, step)
         /\ step = "ack" => journal[e].status \in Outcomes
         /\ \/ UNCHANGED journal
            \/ InsertClaim(e, CHOOSE fp \in Fingerprints : TRUE, p, born[p])
            \/ RecoverClaim(e, journal[e].fp, p, born[p], journal[e].pid \in alive, born[journal[e].pid])
  BY DEF ClaimEntry
<1>7. JournalOK' /\ OutcomesStay
  <2>1. CASE UNCHANGED journal
    BY <1>1, <2>1, JournalKept DEF RedisInv
  <2>2. CASE InsertClaim(e, CHOOSE fp \in Fingerprints : TRUE, p, born[p])
    <3> DEFINE r == [NoRow EXCEPT !.status = "processing", !.fp = CHOOSE fp \in Fingerprints : TRUE,
                                  !.pid = p, !.start = born[p]]
    <3>1. (CHOOSE fp \in Fingerprints : TRUE) \in Fingerprints
      OBVIOUS
    <3>2. r \in Row /\ r.status = "processing" /\ r.agent = FALSE
      BY <1>3, <3>1 DEF NoRow, Row, Open
    <3>3. journal' = [journal EXCEPT ![e] = r] /\ journal[e].status = "absent"
      BY <2>2 DEF InsertClaim, Exists
    <3>4. ~journal[e].agent /\ journal[e].agent \in BOOLEAN
      BY <1>2, <1>5, <3>3 DEF RedisInv, JournalOK, Row
    <3> HIDE DEF r, e
    <3> QED BY <1>1, <1>2, <3>2, <3>3, <3>4, RowStep DEF RedisInv, Outcomes
  <2>3. CASE RecoverClaim(e, journal[e].fp, p, born[p], journal[e].pid \in alive, born[journal[e].pid])
    <3> DEFINE r == [journal[e] EXCEPT !.pid = p, !.start = born[p]]
    <3>1. journal' = [journal EXCEPT ![e] = r] /\ journal[e].status = "processing"
      BY <1>2, <2>3 DEF RecoverClaim, Recoverable, Untouched, RedisInv, JournalOK, JournalTypeOK
    <3>2. r \in Row /\ r.status = "processing" /\ r.agent = journal[e].agent
      BY <1>3, <1>5, <3>1 DEF Row
    <3> HIDE DEF r, e
    <3> QED BY <1>1, <1>2, <3>1, <3>2, RowStep DEF RedisInv
  <2> QED BY <1>6, <2>1, <2>2, <2>3
<1>8. LoopsOK'
  <2>1. step = "ack" => journal'[e].status \in Outcomes
    BY <1>2, <1>6, <1>7 DEF OutcomesStay
  <2> QED BY <1>1, <1>4, <1>6, <1>7, <2>1, GoToOK DEF RedisInv
<1> QED BY <1>1, <1>4, <1>7, <1>8, EntriesKept DEF RedisInv

LEMMA FailsEarlyInv ==
  ASSUME RedisInv, NEW l \in Loops, FailsEarly(l)
  PROVE  RedisInv'
<1> DEFINE e == Entry(l)
<1>1. /\ loop[l].step \in {"next", "claimed"} /\ GoTo(l, "failed")
      /\ UNCHANGED <<entryVars, hostVars, turns, faults>>
      /\ ReleaseBeforeSend(e, loop[l].pid) \/ UNCHANGED journal
  BY DEF FailsEarly
<1>2. e \in Ids
  BY <1>1, EntryIn DEF RedisInv
<1>3. JournalOK' /\ OutcomesStay
  <2>1. CASE UNCHANGED journal
    BY <1>1, <2>1, JournalKept DEF RedisInv
  <2>2. CASE Untouched(journal[e]) /\ journal' = [journal EXCEPT ![e] = NoRow]
    <3>1. NoRow \in Row /\ NoRow.status = "absent" /\ NoRow.agent = FALSE
      BY DEF NoRow, Row
    <3>2. journal[e].status = "processing" /\ ~journal[e].agent /\ journal[e].agent \in BOOLEAN
      BY <1>2, <2>2 DEF Untouched, RedisInv, JournalOK, JournalTypeOK, Row
    <3> HIDE DEF e
    <3> QED BY <1>1, <1>2, <2>2, <3>1, <3>2, RowStep DEF RedisInv, Outcomes
  <2> QED BY <1>1, <2>1, <2>2 DEF ReleaseBeforeSend
<1>4. HostsOK' /\ alive' = alive
  BY <1>1, HostsKept DEF RedisInv
<1>5. LoopsOK'
  BY <1>1, <1>3, <1>4, GoToOK DEF RedisInv
<1> QED BY <1>1, <1>3, <1>4, <1>5, EntriesKept DEF RedisInv

LEMMA StartTurnInv ==
  ASSUME RedisInv, NEW l \in Loops, StartTurn(l)
  PROVE  RedisInv'
<1> DEFINE e == Entry(l)
           r == [journal[e] EXCEPT !.agent = TRUE]
<1>1. /\ loop[l].step = "claimed" /\ GoTo(l, "turn")
      /\ UNCHANGED <<entryVars, hostVars, faults>>
      /\ turns' = [turns EXCEPT ![e] = @ + 1]
      /\ journal[e].status = "processing" /\ ~journal[e].agent
      /\ journal' = [journal EXCEPT ![e].agent = TRUE]
  BY DEF StartTurn, MarkAgentStarted
<1>2. e \in Ids
  BY <1>1, EntryIn DEF RedisInv
<1>3. journal \in [Ids -> Row]
  BY DEF RedisInv, JournalOK, JournalTypeOK
<1>4. journal' = [journal EXCEPT ![e] = r]
  BY <1>1, <1>2, <1>3
<1>5. r \in Row /\ r.status = "processing" /\ r.agent = TRUE
  BY <1>1, <1>2, <1>3 DEF Row
<1>6. JournalOK' /\ OutcomesStay
  <2> HIDE DEF e, r
  <2> QED BY <1>1, <1>2, <1>4, <1>5, RowStep DEF RedisInv, Outcomes
<1>7. HostsOK' /\ alive' = alive
  BY <1>1, HostsKept DEF RedisInv
<1>8. LoopsOK'
  BY <1>1, <1>6, <1>7, GoToOK DEF RedisInv
<1> QED BY <1>1, <1>6, <1>7, <1>8, EntriesKept DEF RedisInv

LEMMA TurnEndsInv ==
  ASSUME RedisInv, NEW l \in Loops, TurnEnds(l)
  PROVE  RedisInv'
<1> DEFINE e == Entry(l)
           r == [journal[e] EXCEPT !.status = "no-reply"]
<1>1. loop[l].step = "turn" /\ UNCHANGED <<entryVars, hostVars, turns, faults>>
  BY DEF TurnEnds
<1>2. e \in Ids
  BY <1>1, EntryIn DEF RedisInv
<1>3. journal \in [Ids -> Row]
  BY DEF RedisInv, JournalOK, JournalTypeOK
<1>4. r \in Row /\ r.status = "no-reply" /\ r.agent = journal[e].agent
  BY <1>2, <1>3 DEF Row, Outcomes
<1>5. HostsOK' /\ alive' = alive
  BY <1>1, HostsKept DEF RedisInv
<1>6. CASE Settle(e, "no-reply") /\ GoTo(l, "ack")
  <2>1. journal' = [journal EXCEPT ![e] = r]
    BY <1>2, <1>3, <1>6 DEF Settle
  <2>2. journal'[e].status \in Outcomes
    BY <1>2, <1>3, <1>4, <2>1 DEF Outcomes
  <2>3. JournalOK' /\ OutcomesStay
    <3> HIDE DEF e, r
    <3> QED BY <1>1, <1>2, <1>4, <2>1, RowStep DEF RedisInv, Outcomes
  <2>4. LoopsOK'
    BY <1>1, <1>5, <1>6, <2>2, <2>3, GoToOK DEF RedisInv
  <2> QED BY <1>1, <1>5, <2>3, <2>4, EntriesKept DEF RedisInv
<1>7. CASE GoTo(l, "failed") /\ UNCHANGED journal
  <2>1. JournalOK' /\ OutcomesStay
    BY <1>1, <1>7, JournalKept DEF RedisInv
  <2>2. LoopsOK'
    BY <1>1, <1>5, <1>7, <2>1, GoToOK DEF RedisInv
  <2> QED BY <1>1, <1>5, <2>1, <2>2, EntriesKept DEF RedisInv
<1> QED BY <1>6, <1>7 DEF TurnEnds

LEMMA AckInv ==
  ASSUME RedisInv, NEW l \in Loops, Ack(l)
  PROVE  RedisInv'
<1>1. /\ loop[l].step = "ack"
      /\ UNCHANGED <<journal, hostVars, turns>>
      /\ UNCHANGED faults \/ Fault
      /\ NextEntry(l) \/ Abandon(l)
      /\ \/ UNCHANGED entryVars
         \/ LeaveGroup(Entry(l)) /\ UNCHANGED dead
  BY DEF Ack
<1>2. Entry(l) \in Ids
  BY <1>1, EntryIn DEF RedisInv
<1>3. JournalOK' /\ OutcomesStay
  BY <1>1, JournalKept DEF RedisInv
<1>4. journal'[Entry(l)].status \in Outcomes
  BY <1>1 DEF RedisInv, LoopsOK, Decided, Entry
<1>5. EntriesOK'
  BY <1>1, <1>2, <1>3, <1>4, EntriesKept, LeaveGroupOK DEF RedisInv
<1>6. HostsOK' /\ alive' = alive
  BY <1>1, HostsKept DEF RedisInv
<1>7. LoopsOK'
  BY <1>1, <1>3, <1>6, NextEntryOK, AbandonOK DEF RedisInv
<1> QED BY <1>3, <1>5, <1>6, <1>7 DEF RedisInv

LEMMA CheckAttemptsInv ==
  ASSUME RedisInv, NEW l \in Loops, CheckAttempts(l)
  PROVE  RedisInv'
<1>1. /\ loop[l].step = "failed"
      /\ UNCHANGED <<journal, entryVars, hostVars, turns>>
      /\ UNCHANGED faults \/ Fault
      /\ NextEntry(l) \/ Abandon(l) \/ GoTo(l, "bury")
  BY DEF CheckAttempts
<1>2. JournalOK' /\ OutcomesStay
  BY <1>1, JournalKept DEF RedisInv
<1>3. HostsOK' /\ alive' = alive
  BY <1>1, HostsKept DEF RedisInv
<1>4. LoopsOK'
  BY <1>1, <1>2, <1>3, NextEntryOK, AbandonOK, GoToOK DEF RedisInv
<1> QED BY <1>1, <1>2, <1>3, <1>4, EntriesKept DEF RedisInv

LEMMA BuryInv ==
  ASSUME RedisInv, NEW l \in Loops, Bury(l)
  PROVE  RedisInv'
<1>1. /\ loop[l].step = "bury"
      /\ UNCHANGED <<journal, hostVars, turns>>
      /\ UNCHANGED faults \/ Fault
      /\ NextEntry(l) \/ Abandon(l)
      /\ \/ UNCHANGED entryVars
         \/ LeaveGroup(Entry(l)) /\ dead' = dead \cup {Entry(l)}
  BY DEF Bury
<1>2. Entry(l) \in Ids
  BY <1>1, EntryIn DEF RedisInv
<1>3. JournalOK' /\ OutcomesStay
  BY <1>1, JournalKept DEF RedisInv
<1>4. EntriesOK'
  <2>1. CASE UNCHANGED entryVars
    BY <1>3, <2>1, EntriesKept DEF RedisInv
  <2>2. CASE LeaveGroup(Entry(l)) /\ dead' = dead \cup {Entry(l)}
    <3>1. Entry(l) \in dead' /\ dead' \in {dead, dead \cup {Entry(l)}}
      BY <2>2
    <3> QED BY <1>2, <1>3, <2>2, <3>1, LeaveGroupOK DEF RedisInv
  <2> QED BY <1>1, <2>1, <2>2
<1>6. HostsOK' /\ alive' = alive
  BY <1>1, HostsKept DEF RedisInv
<1>7. LoopsOK'
  BY <1>1, <1>3, <1>6, NextEntryOK, AbandonOK DEF RedisInv
<1> QED BY <1>3, <1>4, <1>6, <1>7 DEF RedisInv

LEMMA LoopEndsInv ==
  ASSUME RedisInv, NEW l \in Loops, LoopEnds(l)
  PROVE  RedisInv'
<1>1. /\ loop' = [loop EXCEPT ![l] = NoLoop]
      /\ UNCHANGED <<journal, entryVars, hostVars, turns, faults>>
  BY DEF LoopEnds
<1>2. JournalOK' /\ OutcomesStay
  BY <1>1, JournalKept DEF RedisInv
<1>3. HostsOK' /\ alive' = alive
  BY <1>1, HostsKept DEF RedisInv
<1>4. Sound(NoLoop) /\ NoLoop.step # "ack"
  BY DEF Sound, NoLoop, Loop
<1>5. LoopsOK'
  BY <1>1, <1>2, <1>3, <1>4, LoopStep DEF RedisInv
<1> QED BY <1>1, <1>2, <1>3, <1>5, EntriesKept DEF RedisInv

LEMMA StartClientInv ==
  ASSUME RedisInv, NEW p \in Pids, NEW l \in Loops, StartClient(p, l)
  PROVE  RedisInv'
<1> DEFINE r == [NoLoop EXCEPT !.pid = p, !.step = "poll"]
<1>1. /\ p \in alive
      /\ client' = [client EXCEPT ![p] = "on"]
      /\ loop' = [loop EXCEPT ![l] = r]
      /\ UNCHANGED <<journal, entryVars, alive, born, turns, faults>>
  BY DEF StartClient
<1>2. JournalOK' /\ OutcomesStay
  BY <1>1, JournalKept DEF RedisInv
<1>3. HostsOK'
  BY <1>1 DEF RedisInv, HostsOK
<1>4. Sound(r) /\ r.step # "ack"
  BY <1>1 DEF Sound, NoLoop, Loop
<1>5. LoopsOK'
  <2> HIDE DEF r
  <2> QED BY <1>1, <1>2, <1>4, LoopStep DEF RedisInv
<1> QED BY <1>1, <1>2, <1>3, <1>5, EntriesKept DEF RedisInv

(* Stops and crashes reach every loop of a process.                        *)
LEMMA StopClientInv ==
  ASSUME RedisInv, NEW p \in Pids, StopClient(p)
  PROVE  RedisInv'
<1>1. /\ client' = [client EXCEPT ![p] = "draining"] /\ Fault
      /\ UNCHANGED <<journal, entryVars, alive, born, turns>>
  BY DEF StopClient
<1>2. JournalOK' /\ OutcomesStay
  BY <1>1, JournalKept DEF RedisInv
<1>3. HostsOK'
  BY <1>1 DEF RedisInv, HostsOK, Fault
<1>4. ASSUME NEW k \in Loops PROVE loop'[k] \in Loop /\ Sound(loop[k])' /\ Decided(loop[k])'
  <2>1. loop[k] \in Loop /\ Sound(loop[k]) /\ Decided(loop[k])
    BY DEF RedisInv, LoopsOK
  <2>2. loop'[k] = IF loop[k].pid = p THEN [loop[k] EXCEPT !.stopped = TRUE] ELSE loop[k]
    BY DEF StopClient
  <2>3. /\ loop'[k] \in Loop /\ loop'[k].step = loop[k].step
        /\ loop'[k].pid = loop[k].pid /\ loop'[k].batch = loop[k].batch
    BY <2>1, <2>2 DEF Loop
  <2> QED BY <1>1, <2>1, <2>3 DEF Sound, Decided
<1>5. LoopsOK'
  BY <1>4 DEF LoopsOK, StopClient
<1> QED BY <1>1, <1>2, <1>3, <1>5, EntriesKept DEF RedisInv

LEMMA StopEndsInv ==
  ASSUME RedisInv, NEW p \in Pids, StopEnds(p)
  PROVE  RedisInv'
<1>1. /\ client' = [client EXCEPT ![p] = "off"]
      /\ UNCHANGED <<journal, entryVars, alive, born, loop, turns, faults>>
  BY DEF StopEnds
<1>2. JournalOK' /\ OutcomesStay
  BY <1>1, JournalKept DEF RedisInv
<1>3. HostsOK'
  BY <1>1 DEF RedisInv, HostsOK
<1>4. LoopsOK'
  BY <1>1, <1>2, LoopsKept DEF RedisInv
<1> QED BY <1>1, <1>2, <1>3, <1>4, EntriesKept DEF RedisInv

LEMMA CrashHostInv ==
  ASSUME RedisInv, NEW p \in Pids, CrashHost(p)
  PROVE  RedisInv'
<1>1. /\ client' = [client EXCEPT ![p] = "off"] /\ Fault
      /\ alive' = alive \ {p}
      /\ UNCHANGED <<journal, entryVars, born, turns>>
  BY DEF CrashHost
<1>2. JournalOK' /\ OutcomesStay
  BY <1>1, JournalKept DEF RedisInv
<1>3. HostsOK'
  BY <1>1 DEF RedisInv, HostsOK, Fault
<1>4. ASSUME NEW k \in Loops PROVE loop'[k] \in Loop /\ Sound(loop[k])' /\ Decided(loop[k])'
  <2>1. loop[k] \in Loop /\ Sound(loop[k]) /\ Decided(loop[k])
    BY DEF RedisInv, LoopsOK
  <2>2. CASE loop[k].pid = p
    <3>1. loop'[k] = NoLoop
      BY <2>2 DEF CrashHost
    <3>2. NoLoop.step = "none" /\ NoLoop.pid = Null /\ NoLoop.batch = {} /\ NoLoop \in Loop
      BY DEF NoLoop, Loop
    <3> QED BY <3>1, <3>2 DEF Sound, Decided
  <2>3. CASE loop[k].pid # p
    <3>1. loop'[k] = loop[k]
      BY <2>3 DEF CrashHost
    <3> QED BY <1>1, <2>1, <2>3, <3>1 DEF Sound, Decided
  <2> QED BY <2>2, <2>3
<1>5. LoopsOK'
  BY <1>4 DEF LoopsOK, CrashHost
<1> QED BY <1>1, <1>2, <1>3, <1>5, EntriesKept DEF RedisInv

LEMMA RestartHostInv ==
  ASSUME RedisInv, NEW p \in Pids, RestartHost(p)
  PROVE  RedisInv'
<1>1. /\ alive' = alive \cup {p}
      /\ born' = [born EXCEPT ![p] = @ + 1]
      /\ UNCHANGED <<journal, entryVars, client, loop, turns, faults>>
  BY DEF RestartHost
<1>2. JournalOK' /\ OutcomesStay
  BY <1>1, JournalKept DEF RedisInv
<1>3. HostsOK'
  BY <1>1 DEF RedisInv, HostsOK
<1>4. LoopsOK'
  BY <1>1 DEF RedisInv, LoopsOK, Sound, Decided, Loop
<1> QED BY <1>1, <1>2, <1>3, <1>4, EntriesKept DEF RedisInv

LEMMA UnchangedInv ==
  ASSUME RedisInv, UNCHANGED redisVars
  PROVE  RedisInv'
<1>1. UNCHANGED <<journal, entryVars, hostVars, loop, turns, faults>>
  BY DEF redisVars
<1>2. JournalOK' /\ OutcomesStay
  BY <1>1, JournalKept DEF RedisInv
<1>3. HostsOK' /\ alive' = alive
  BY <1>1, HostsKept DEF RedisInv
<1>4. LoopsOK'
  BY <1>1, <1>2, <1>3, LoopsKept DEF RedisInv
<1> QED BY <1>1, <1>2, <1>3, <1>4, EntriesKept DEF RedisInv

LEMMA NextInv == RedisInv /\ [RedisNext]_redisVars => RedisInv'
<1> SUFFICES ASSUME RedisInv, [RedisNext]_redisVars PROVE RedisInv'
  OBVIOUS
<1>1. CASE UNCHANGED redisVars
  BY <1>1, UnchangedInv
<1>2. ASSUME NEW l \in Loops, Handles(l) PROVE RedisInv'
  BY <1>2, ClaimEntryInv, FailsEarlyInv, StartTurnInv, TurnEndsInv, AckInv, CheckAttemptsInv,
     BuryInv, LoopEndsInv DEF Handles
<1>3. ASSUME NEW l \in Loops, ReadNew(l) \/ Reclaim(l) PROVE RedisInv'
  BY <1>3, BatchInv
<1>4. ASSUME NEW l \in Loops, NEW p \in Pids, StartClient(p, l) PROVE RedisInv'
  BY <1>4, StartClientInv
<1>5. ASSUME NEW p \in Pids, StopClient(p) \/ StopEnds(p) \/ CrashHost(p) \/ RestartHost(p)
      PROVE  RedisInv'
  BY <1>5, StopClientInv, StopEndsInv, CrashHostInv, RestartHostInv
<1> QED BY <1>1, <1>2, <1>3, <1>4, <1>5 DEF RedisNext

-----------------------------------------------------------------------------
(* The theorems. *)

LEMMA Invariant == RedisSpec => []RedisInv
<1> QED BY InitInv, NextInv, PTL DEF RedisSpec

(* In particular, a slot has a step exactly while its process exists, and  *)
(* a loop has entries left exactly while it is at one of them.             *)
THEOREM RedisTypeCorrect == RedisSpec => []RedisTypeOK
<1> QED BY Invariant, InvType, PTL

(* However many loops read, take over and lose entries: one agent turn     *)
(* each.  The row's agent mark is the history of it.                       *)
THEOREM RedisOneTurn == RedisSpec => []OneTurnPerEntry
<1>1. RedisInv => OneTurnPerEntry
  <2> SUFFICES ASSUME RedisInv, NEW e \in Ids PROVE turns[e] <= 1
    BY DEF OneTurnPerEntry
  <2>1. turns[e] = IF journal[e].agent THEN 1 ELSE 0
    BY DEF RedisInv, JournalOK
  <2> QED BY <2>1
<1> QED BY <1>1, Invariant, PTL

(* An XACK comes only after the outcome is in the journal, a dead-letter   *)
(* copy with it, and outcomes stay.                                        *)
THEOREM RedisEntryKept == RedisSpec => []EntryKept
<1>1. RedisInv => EntryKept
  BY DEF RedisInv, EntriesOK
<1> QED BY <1>1, Invariant, PTL

-----------------------------------------------------------------------------
(* RedisStream implements InboundCustody. *)

LEMMA CustodyKept ==
  ASSUME UNCHANGED <<journal, place, dead, turns>>
  PROVE  UNCHANGED Custody!custodyVars
  BY DEF Custody!custodyVars, Settled, Gone

(* A step of the journal that decides nothing.                             *)
LEMMA UndecidedKept ==
  ASSUME RedisInv, NEW e \in Ids, NEW r, r.status \notin Outcomes, journal[e].status \notin Outcomes,
         journal' = [journal EXCEPT ![e] = r], UNCHANGED <<entryVars>>
  PROVE  UNCHANGED <<Settled, Gone, dead>>
<1>1. journal \in [Ids -> Row]
  BY DEF RedisInv, JournalOK, JournalTypeOK
<1>2. \A d \in Ids : journal'[d].status \in Outcomes <=> journal[d].status \in Outcomes
  BY <1>1
<1> QED BY <1>2 DEF Settled, Gone, entryVars

LEMMA ClaimEntryCustody ==
  ASSUME RedisInv, NEW l \in Loops, ClaimEntry(l)
  PROVE  UNCHANGED Custody!custodyVars
<1> DEFINE e == Entry(l)
<1>1. /\ loop[l].step = "next" /\ UNCHANGED <<entryVars, turns>>
  BY DEF ClaimEntry
<1>2. e \in Ids /\ journal \in [Ids -> Row]
  BY <1>1, EntryIn DEF RedisInv, JournalOK, JournalTypeOK
<1>3. CASE UNCHANGED journal
  BY <1>1, <1>3, CustodyKept DEF entryVars
<1>4. ASSUME NEW fp, NEW pid, NEW start, InsertClaim(e, fp, pid, start)
      PROVE  UNCHANGED Custody!custodyVars
  <2> DEFINE r == [NoRow EXCEPT !.status = "processing", !.fp = fp, !.pid = pid, !.start = start]
  <2>1. r.status = "processing" /\ journal[e].status = "absent" /\ journal' = [journal EXCEPT ![e] = r]
    BY <1>4 DEF InsertClaim, Exists, NoRow
  <2> HIDE DEF r, e
  <2> QED BY <1>1, <1>2, <2>1, UndecidedKept DEF Custody!custodyVars, Outcomes
<1>5. ASSUME NEW fp, NEW pid, NEW start, NEW exists, NEW observed,
             RecoverClaim(e, fp, pid, start, exists, observed)
      PROVE  UNCHANGED Custody!custodyVars
  <2> DEFINE r == [journal[e] EXCEPT !.pid = pid, !.start = start]
  <2>1. journal[e].status = "processing" /\ journal' = [journal EXCEPT ![e].pid = pid, ![e].start = start]
    BY <1>5 DEF RecoverClaim, Recoverable, Untouched
  <2>2. r.status = "processing" /\ journal' = [journal EXCEPT ![e] = r]
    BY <1>2, <2>1 DEF Row
  <2> HIDE DEF r, e
  <2> QED BY <1>1, <1>2, <2>1, <2>2, UndecidedKept DEF Custody!custodyVars, Outcomes
<1> QED BY <1>3, <1>4, <1>5 DEF ClaimEntry

LEMMA FailsEarlyCustody ==
  ASSUME RedisInv, NEW l \in Loops, FailsEarly(l)
  PROVE  UNCHANGED Custody!custodyVars
<1> DEFINE e == Entry(l)
<1>1. loop[l].step \in {"next", "claimed"} /\ UNCHANGED <<entryVars, turns>>
  BY DEF FailsEarly
<1>2. e \in Ids
  BY <1>1, EntryIn DEF RedisInv
<1>3. CASE UNCHANGED journal
  BY <1>1, <1>3, CustodyKept DEF entryVars
<1>4. CASE Untouched(journal[e]) /\ journal' = [journal EXCEPT ![e] = NoRow]
  BY <1>1, <1>2, <1>4, UndecidedKept DEF Custody!custodyVars, Outcomes, Untouched, NoRow
<1> QED BY <1>3, <1>4 DEF FailsEarly, ReleaseBeforeSend

LEMMA StartTurnCustody ==
  ASSUME RedisInv, NEW l \in Loops, StartTurn(l)
  PROVE  Custody!Begin(Entry(l)) /\ Entry(l) \in Ids
<1> DEFINE e == Entry(l)
           r == [journal[e] EXCEPT !.agent = TRUE]
<1>1. /\ loop[l].step = "claimed" /\ UNCHANGED entryVars
      /\ turns' = [turns EXCEPT ![e] = @ + 1]
      /\ journal[e].status = "processing" /\ ~journal[e].agent
      /\ journal' = [journal EXCEPT ![e].agent = TRUE]
  BY DEF StartTurn, MarkAgentStarted
<1>2. /\ e \in Ids /\ journal \in [Ids -> Row] /\ turns \in [Ids -> Nat] /\ turns[e] = 0
  BY <1>1, EntryIn DEF RedisInv, JournalOK, JournalTypeOK
<1>3. journal' = [journal EXCEPT ![e] = r] /\ r.status = "processing"
  BY <1>1, <1>2 DEF Row
<1> HIDE DEF r, e
<1>4. UNCHANGED <<Settled, Gone, dead>>
  BY <1>1, <1>2, <1>3, UndecidedKept DEF Outcomes
<1>5. e \notin Settled
  BY <1>1 DEF Settled, Outcomes
<1>6. turns' = [turns EXCEPT ![e] = 1]
  BY <1>1, <1>2
<1>7. Custody!Begin(e)
  BY <1>2, <1>4, <1>5, <1>6 DEF Custody!Begin
<1> QED BY <1>2, <1>7 DEF e

LEMMA TurnEndsCustody ==
  ASSUME RedisInv, NEW l \in Loops, TurnEnds(l)
  PROVE  (Custody!Finish(Entry(l)) /\ Entry(l) \in Ids) \/ UNCHANGED Custody!custodyVars
<1> DEFINE e == Entry(l)
<1>1. loop[l].step = "turn" /\ UNCHANGED <<entryVars, turns>>
  BY DEF TurnEnds
<1>2. e \in Ids /\ journal \in [Ids -> Row]
  BY <1>1, EntryIn DEF RedisInv, JournalOK, JournalTypeOK
<1>3. CASE UNCHANGED journal
  BY <1>1, <1>3, CustodyKept DEF entryVars
<1>4. CASE Settle(e, "no-reply")
  <2>1. journal[e].status \notin Outcomes
    BY <1>4 DEF Settle, Open, Outcomes
  <2>2. /\ journal'[e].status = "no-reply"
        /\ \A d \in Ids \ {e} : journal'[d] = journal[d]
    BY <1>2, <1>4 DEF Settle, Row
  <2> HIDE DEF e
  <2>3. Settled' = Settled \cup {e} /\ e \notin Settled
    BY <1>2, <2>1, <2>2 DEF Settled, Outcomes
  <2>4. UNCHANGED <<turns, dead, Gone>>
    BY <1>1 DEF Gone, entryVars
  <2>5. Custody!Finish(e)
    BY <2>3, <2>4 DEF Custody!Finish
  <2> QED BY <1>2, <2>5 DEF e
<1> QED BY <1>3, <1>4 DEF TurnEnds

(* XACK, alone or with the copy in the dead-letter stream.                 *)
LEMMA LetGoOf ==
  ASSUME RedisInv, NEW e \in Ids, NEW copies \in SUBSET {e}, LeaveGroup(e), dead' = dead \cup copies,
         UNCHANGED <<journal, turns>>, e \in Settled \cup copies
  PROVE  Custody!LetGo({e}, copies)
<1>1. place \in [Ids -> {"unread", "pending", "gone"}]
  BY DEF RedisInv, EntriesOK
<1>2. place' = [place EXCEPT ![e] = "gone"]
  BY DEF LeaveGroup
<1>3. Gone' = Gone \cup {e}
  BY <1>1, <1>2 DEF Gone
<1> QED BY <1>3 DEF Custody!LetGo, Settled

LEMMA LeavesCustody ==
  ASSUME RedisInv, NEW l \in Loops, Ack(l) \/ Bury(l)
  PROVE  Custody!Next \/ UNCHANGED Custody!custodyVars
<1> DEFINE e == Entry(l)
<1>1. loop[l].step \in {"ack", "bury"} /\ UNCHANGED <<journal, turns>>
  BY DEF Ack, Bury
<1>2. e \in Ids
  BY <1>1, EntryIn DEF RedisInv
<1>3. CASE UNCHANGED entryVars
  BY <1>1, <1>3, CustodyKept DEF entryVars
<1>4. CASE loop[l].step = "ack" /\ LeaveGroup(e) /\ UNCHANGED dead
  <2>1. e \in Settled
    BY <1>2, <1>4 DEF RedisInv, LoopsOK, Decided, Entry, Settled
  <2>2. dead' = dead \cup {} /\ e \in Settled \cup {}
    BY <1>4, <2>1
  <2> HIDE DEF e
  <2>3. Custody!LetGo({e}, {})
    BY <1>1, <1>2, <1>4, <2>2, LetGoOf
  <2> QED BY <1>2, <2>3 DEF Custody!Next
<1>5. CASE LeaveGroup(e) /\ dead' = dead \cup {e}
  <2>1. Custody!LetGo({e}, {e})
    BY <1>1, <1>2, <1>5, LetGoOf
  <2> QED BY <1>2, <2>1 DEF Custody!Next
<1> QED BY <1>3, <1>4, <1>5 DEF Ack, Bury

(* A batch is of unread or pending entries, which become pending.          *)
LEMMA BatchCustody ==
  ASSUME RedisInv, NEW l \in Loops, ReadNew(l) \/ Reclaim(l)
  PROVE  UNCHANGED Custody!custodyVars
<1>1. PICK entries \in SUBSET Ids : Deliver(entries) /\ \A e \in entries : place[e] # "gone"
  BY DEF ReadNew, Reclaim, Unread, MayBeIdle
<1>2. UNCHANGED <<journal, turns, dead>>
  BY <1>1 DEF ReadNew, Reclaim, Deliver
<1>3. \A e \in Ids : place'[e] = "gone" <=> place[e] = "gone"
  BY <1>1 DEF Deliver
<1> QED BY <1>2, <1>3 DEF Custody!custodyVars, Settled, Gone

LEMMA StepCustody ==
  ASSUME RedisInv, [RedisNext]_redisVars
  PROVE  Custody!Next \/ UNCHANGED Custody!custodyVars
<1>1. CASE UNCHANGED redisVars
  BY <1>1, CustodyKept DEF redisVars, entryVars
<1>2. ASSUME NEW l \in Loops, Handles(l) PROVE Custody!Next \/ UNCHANGED Custody!custodyVars
  <2>1. CASE CheckAttempts(l) \/ LoopEnds(l)
    BY <2>1, CustodyKept DEF CheckAttempts, LoopEnds, entryVars
  <2>2. CASE StartTurn(l) \/ TurnEnds(l)
    BY <2>2, StartTurnCustody, TurnEndsCustody DEF Custody!Next
  <2> QED BY <1>2, <2>1, <2>2, ClaimEntryCustody, FailsEarlyCustody, LeavesCustody DEF Handles
<1>3. ASSUME NEW l \in Loops, NEW p \in Pids, StartClient(p, l)
      PROVE  UNCHANGED Custody!custodyVars
  BY <1>3, CustodyKept DEF StartClient, entryVars
<1>4. ASSUME NEW p \in Pids, StopClient(p) \/ StopEnds(p) \/ CrashHost(p) \/ RestartHost(p)
      PROVE  UNCHANGED Custody!custodyVars
  BY <1>4, CustodyKept DEF StopClient, StopEnds, CrashHost, RestartHost, entryVars
<1> QED BY <1>1, <1>2, <1>3, <1>4, BatchCustody DEF RedisNext

LEMMA InitCustody == RedisInit => Custody!Init
<1> SUFFICES ASSUME RedisInit PROVE Custody!Init
  OBVIOUS
<1>1. Settled = {}
  BY DEF RedisInit, JournalInit, NoRow, Settled, Outcomes
<1>2. Gone = {} /\ dead = {} /\ turns = [e \in Ids |-> 0]
  BY DEF RedisInit, Gone
<1> QED BY <1>1, <1>2 DEF Custody!Init

(* The consumer group, its loops and the journal keep the promise of       *)
(* InboundCustody: outcomes and departures are final, whatever loops still *)
(* have the entry, and no turn begins behind them.                         *)
THEOREM RedisImplementsInboundCustody == RedisSpec => ImplementsInboundCustody
<1>1. RedisInv /\ [RedisNext]_redisVars => [Custody!Next]_(Custody!custodyVars)
  BY StepCustody
<1> QED BY <1>1, InitCustody, Invariant, PTL DEF RedisSpec, ImplementsInboundCustody, Custody!Spec

=============================================================================
