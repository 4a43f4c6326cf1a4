----------------------- MODULE ChannelDispatchProofs -----------------------
(***************************************************************************)
(* Proofs about ChannelDispatch, for any number of calls, processes,       *)
(* identities, sends and crashes, and about its caller RabbitInbound, for  *)
(* any messages, processes, copies, crashes and losses.  Only the latter   *)
(* need that the call slots are finite.                                    *)
(***************************************************************************)
EXTENDS RabbitInbound, FiniteSetTheorems, TLAPS

USE NullAssumption, BoundsAssumption

-----------------------------------------------------------------------------
(* Type correctness. *)

LEMMA IdleCallType == IdleCall \in Call
  BY DEF IdleCall, Call

LEMMA NoRowType == NoRow \in Row
  BY DEF NoRow, Row

LEMMA InitType == Init => TypeOK
  BY IdleCallType, NoRowType DEF Init, JournalInit, TypeOK, JournalTypeOK

LEMMA RowsType ==
  ASSUME TypeOK, NEW id \in Ids
  PROVE  journal[id] \in Row
  BY DEF TypeOK, JournalTypeOK

LEMMA CallsType ==
  ASSUME TypeOK, NEW c \in Calls
  PROVE  call[c] \in Call
  BY DEF TypeOK

LEMMA StartSeenType ==
  ASSUME TypeOK, NEW p \in Pids
  PROVE  StartSeen(p) \subseteq Nat \cup {Null}
  BY DEF StartSeen, TypeOK

(* Storing a row, or what a call knows, keeps the types. *)
LEMMA PutRow ==
  ASSUME TypeOK, NEW id, NEW row, id \in Ids => row \in Row,
         journal' = [journal EXCEPT ![id] = row]
  PROVE  JournalTypeOK'
  BY DEF TypeOK, JournalTypeOK

LEMMA PutCall ==
  ASSUME TypeOK, NEW c, NEW new \in Call, call' = [call EXCEPT ![c] = new]
  PROVE  call' \in [Calls -> Call]
  BY DEF TypeOK

LEMMA Count ==
  ASSUME NEW f \in [Ids -> Nat], NEW id, NEW g, g = [f EXCEPT ![id] = @ + 1]
  PROVE  g \in [Ids -> Nat]
<1>1. CASE id \in Ids
  BY <1>1
<1>2. CASE id \notin Ids
  BY <1>2
<1> QED BY <1>1, <1>2

LEMMA ReleaseType ==
  ASSUME TypeOK, NEW id, NEW p, ReleaseBeforeSend(id, p)
  PROVE  JournalTypeOK'
  BY NoRowType DEF ReleaseBeforeSend, TypeOK, JournalTypeOK

LEMMA LeaveType ==
  ASSUME TypeOK, NEW c \in Calls, NEW result \in Results, NEW handle \in Outcomes \cup {Null},
         Leave(c, result, handle)
  PROVE  call' \in [Calls -> Call]
<1> DEFINE new == [call[c] EXCEPT !.pc = "returned", !.result = result, !.handle = handle]
<1>1. new \in Call
  BY CallsType, ZenonT(60) DEF Call
<1>2. call' = [call EXCEPT ![c] = new]
  BY DEF Leave, TypeOK
<1> HIDE DEF new
<1> QED BY <1>1, <1>2, PutCall

LEMMA ClaimType ==
  ASSUME TypeOK, NEW c \in Calls, NEW id \in Ids, NEW fp \in Fingerprints,
         NEW p \in Pids, NEW defer \in BOOLEAN, Claim(c, id, fp, p, defer)
  PROVE  TypeOK'
<1>1. JournalTypeOK'
  <2>1. CASE UNCHANGED journal
    BY <2>1 DEF TypeOK, JournalTypeOK
  <2>2. ASSUME NEW start \in StartSeen(p), InsertClaim(id, fp, p, start)
        PROVE  JournalTypeOK'
    BY <2>2, StartSeenType DEF InsertClaim, TypeOK, JournalTypeOK, Row, NoRow, Open
  <2>3. ASSUME NEW start \in StartSeen(p), NEW exists, NEW observed,
               RecoverClaim(id, fp, p, start, exists, observed)
        PROVE  JournalTypeOK'
    <3> DEFINE row == [journal[id] EXCEPT !.pid = p, !.start = start]
    <3>1. row \in Row
      BY StartSeenType, RowsType DEF Row
    <3>2. journal' = [journal EXCEPT ![id] = row]
      BY <2>3 DEF RecoverClaim, TypeOK, JournalTypeOK
    <3> HIDE DEF row
    <3> QED BY <3>1, <3>2, PutRow
  <2> QED BY <2>1, <2>2, <2>3 DEF Claim, ClaimNew, ClaimAbandoned, ClaimConflict,
                                  ClaimPending, ClaimSettled
<1>2. call' \in [Calls -> Call]
  <2>1. CASE Enter(c, id, p, defer)
    BY <2>1 DEF Enter, TypeOK, Call, IdleCall
  <2>2. ASSUME NEW result \in Results, NEW handle \in Outcomes \cup {Null},
               Return(c, id, p, result, handle)
        PROVE  call' \in [Calls -> Call]
    BY <2>2 DEF Return, TypeOK, Call, IdleCall
  <2> QED BY <2>1, <2>2 DEF Claim, ClaimNew, ClaimAbandoned, ClaimConflict, ClaimPending,
                            ClaimSettled, Results
<1> QED BY <1>1, <1>2 DEF TypeOK, JournalTypeOK, Claim

LEMMA StartAgentType ==
  ASSUME TypeOK, NEW c \in Calls, StartAgent(c)
  PROVE  TypeOK'
<1> DEFINE id == call[c].id
           row == [journal[id] EXCEPT !.agent = TRUE]
           new == [call[c] EXCEPT !.agent = TRUE]
<1>1. id \in Ids => row \in Row
  BY RowsType, ZenonT(60) DEF Row
<1>2. journal' = [journal EXCEPT ![id] = row]
  BY DEF StartAgent, MarkAgentStarted, TypeOK, JournalTypeOK
<1>3. new \in Call
  BY CallsType, ZenonT(60) DEF Call
<1>4. call' = [call EXCEPT ![c] = new]
  BY DEF StartAgent, TypeOK
<1>5. turns' \in [Ids -> Nat]
  BY Count DEF StartAgent, TypeOK
<1> HIDE DEF row, new
<1> QED BY <1>1, <1>2, <1>3, <1>4, <1>5, PutRow, PutCall DEF StartAgent, TypeOK

LEMMA StartSendType ==
  ASSUME TypeOK, NEW c \in Calls, NEW hash \in Hashes, StartSend(c, hash)
  PROVE  TypeOK'
<1> DEFINE id == call[c].id
           n == call[c].started + 1
           flight == call[c].flight \cup {[n |-> n, hash |-> hash]}
           started == journal[id].started + 1
           row == [journal[id] EXCEPT !.status = "pending", !.started = started, !.hash = hash]
           new == [call[c] EXCEPT !.started = n, !.flight = flight]
<1>1. id \in Ids => row \in Row
  <2>1. id \in Ids => started \in Nat
    BY RowsType DEF Row
  <2> HIDE DEF started
  <2> QED BY <2>1, RowsType, ZenonT(60) DEF Row, Open
<1>2. journal' = [journal EXCEPT ![id] = row]
  BY DEF StartSend, SendStarted, TypeOK, JournalTypeOK
<1>3. n \in Nat /\ flight \in SUBSET Send
  BY CallsType DEF Call, Send
<1>4. call' = [call EXCEPT ![c] = new]
  BY DEF StartSend, TypeOK
<1>5. new \in Call
  <2> HIDE DEF n, flight
  <2> QED BY <1>3, CallsType, ZenonT(60) DEF Call
<1> HIDE DEF row, new
<1> QED BY <1>1, <1>2, <1>4, <1>5, PutRow, PutCall DEF StartSend, TypeOK

LEMMA PublishType ==
  ASSUME TypeOK, NEW c \in Calls, NEW s \in call[c].flight, Publish(c, s)
  PROVE  TypeOK'
<1> DEFINE published == call[c].published \cup {s.n}
           new == [call[c] EXCEPT !.published = published]
<1>1. published \in SUBSET Nat
  BY CallsType DEF Call, Send
<1>2. call' = [call EXCEPT ![c] = new]
  BY DEF Publish, TypeOK
<1>3. new \in Call
  <2> HIDE DEF published
  <2> QED BY <1>1, CallsType DEF Call
<1>4. shown' \in [Ids -> Nat]
  BY Count DEF Publish, TypeOK
<1> HIDE DEF new
<1> QED BY <1>2, <1>3, <1>4, PutCall DEF Publish, TypeOK, JournalTypeOK

LEMMA ConfirmSendType ==
  ASSUME TypeOK, NEW c \in Calls, NEW s \in call[c].flight, ConfirmSend(c, s)
  PROVE  TypeOK'
<1> DEFINE id == call[c].id
           flight == call[c].flight \ {s}
           row == [journal[id] EXCEPT !.confirmed = journal[id].confirmed + 1]
           confirmed == call[c].confirmed + 1
           new == [call[c] EXCEPT !.confirmed = confirmed, !.flight = flight]
<1>1. id \in Ids => row \in Row
  BY RowsType DEF Row
<1>2. journal' = [journal EXCEPT ![id] = row]
  BY DEF ConfirmSend, SendConfirmed, TypeOK, JournalTypeOK
<1>3. flight \in SUBSET Send /\ confirmed \in Nat
  BY CallsType DEF Call
<1>4. call' = [call EXCEPT ![c] = new]
  BY DEF ConfirmSend, TypeOK
<1>5. new \in Call
  <2> HIDE DEF flight, confirmed
  <2> QED BY <1>3, CallsType, ZenonT(60) DEF Call
<1> HIDE DEF row, new
<1> QED BY <1>1, <1>2, <1>4, <1>5, PutRow, PutCall DEF ConfirmSend, TypeOK

LEMMA LoseSendType ==
  ASSUME TypeOK, NEW c \in Calls, NEW s \in call[c].flight, LoseSend(c, s)
  PROVE  TypeOK'
<1> DEFINE flight == call[c].flight \ {s}
           new == [call[c] EXCEPT !.flight = flight]
<1>1. flight \in SUBSET Send
  BY CallsType DEF Call
<1>2. call' = [call EXCEPT ![c] = new]
  BY DEF LoseSend, TypeOK
<1>3. new \in Call
  <2> HIDE DEF flight
  <2> QED BY <1>1, CallsType DEF Call
<1> HIDE DEF new
<1> QED BY <1>2, <1>3, PutCall DEF LoseSend, TypeOK, JournalTypeOK

(* Writing a status, which is what every settlement does. *)
LEMMA SetStatusType ==
  ASSUME TypeOK, NEW id, NEW status \in Outcomes \cup Prepared,
         journal' = [journal EXCEPT ![id].status = status]
  PROVE  JournalTypeOK'
<1> DEFINE row == [journal[id] EXCEPT !.status = status]
<1>1. id \in Ids => row \in Row
  BY RowsType DEF Row
<1>2. journal' = [journal EXCEPT ![id] = row]
  BY DEF TypeOK, JournalTypeOK
<1> HIDE DEF row
<1> QED BY <1>1, <1>2, PutRow

LEMMA CoreReturnsType ==
  ASSUME TypeOK, NEW c \in Calls, NEW kind \in Kinds, CoreReturns(c, kind)
  PROVE  TypeOK'
<1>1. CASE ReturnAmbiguous(c, kind)
  BY <1>1, LeaveType DEF ReturnAmbiguous, CoreReturns, TypeOK, JournalTypeOK, Results, Kinds
<1>2. CASE ReturnPrepared(c, kind)
  <2>1. call' \in [Calls -> Call]
    BY <1>2, LeaveType DEF ReturnPrepared, Results
  <2>2. AckPending(kind) \in Prepared
    BY <1>2 DEF ReturnPrepared, Prepared
  <2>3. JournalTypeOK'
    BY <1>2, <2>2, SetStatusType DEF ReturnPrepared, PrepareSettlement
  <2> QED BY <2>1, <2>3 DEF CoreReturns, TypeOK
<1>3. CASE ReturnSettled(c, kind)
  <2>1. call' \in [Calls -> Call]
    BY <1>3, LeaveType DEF ReturnSettled, Results, Kinds
  <2>2. JournalTypeOK'
    BY <1>3, SetStatusType DEF ReturnSettled, Settle
  <2> QED BY <2>1, <2>2 DEF CoreReturns, TypeOK
<1>4. CASE ReturnUnsettled(c, kind)
  <2>1. call' \in [Calls -> Call]
    BY <1>4, LeaveType DEF ReturnUnsettled, Results
  <2>2. JournalTypeOK'
    BY <1>4, ReleaseType DEF ReturnUnsettled, TypeOK, JournalTypeOK
  <2> QED BY <2>1, <2>2 DEF CoreReturns, TypeOK
<1> QED BY <1>1, <1>2, <1>3, <1>4 DEF CoreReturns

LEMMA CoreThrowsType ==
  ASSUME TypeOK, NEW c \in Calls, CoreThrows(c)
  PROVE  TypeOK'
<1>1. call' \in [Calls -> Call]
  BY LeaveType DEF CoreThrows, Fail, Results
<1>2. JournalTypeOK'
  BY ReleaseType DEF CoreThrows, Fail, TypeOK, JournalTypeOK
<1> QED BY <1>1, <1>2 DEF CoreThrows, TypeOK

LEMMA ConfirmDeliveryType ==
  ASSUME TypeOK, NEW c \in Calls, ConfirmDelivery(c)
  PROVE  TypeOK'
<1> DEFINE new == [call[c] EXCEPT !.handle = Null]
<1>1. new \in Call
  BY CallsType DEF Call
<1>2. call' = [call EXCEPT ![c] = new]
  BY DEF ConfirmDelivery, TypeOK
<1>3. JournalTypeOK'
  BY CallsType, SetStatusType DEF ConfirmDelivery, ConfirmPreparedSettlement, Call
<1> HIDE DEF new
<1> QED BY <1>1, <1>2, <1>3, PutCall DEF ConfirmDelivery, TypeOK

LEMMA ProcessType ==
  ASSUME TypeOK, NEW p \in Pids, Crash(p) \/ Restart(p)
  PROVE  TypeOK'
  BY IdleCallType DEF Crash, Restart, TypeOK, JournalTypeOK

LEMMA NextType == TypeOK /\ [Next]_vars => TypeOK'
<1> SUFFICES ASSUME TypeOK, [Next]_vars PROVE TypeOK'
  OBVIOUS
<1>1. CASE UNCHANGED vars
  BY <1>1 DEF vars, TypeOK, JournalTypeOK
<1>2. ASSUME NEW c \in Calls, Forget(c) PROVE TypeOK'
  BY <1>2, IdleCallType, PutCall DEF Forget, TypeOK, JournalTypeOK
<1> QED
  BY <1>1, <1>2, ClaimType, StartAgentType, StartSendType, PublishType, ConfirmSendType,
     LoseSendType, CoreReturnsType, CoreThrowsType, ConfirmDeliveryType, ProcessType DEF Next

(* The values the variables can have. *)
THEOREM TypeCorrect == Spec => []TypeOK
  BY InitType, NextType, PTL DEF Spec

-----------------------------------------------------------------------------
(* The inductive invariant. *)

(* A row and the histories agree, and a decided row is balanced. *)
RowOK(id) ==
  LET row == journal[id] IN
  /\ row.status = "absent" => row = NoRow
  /\ row.status = "processing" => row.started = 0
  /\ row.status = "pending" => row.started > 0
  /\ turns[id] = IF row.agent THEN 1 ELSE 0
  /\ shown[id] > 0 => row.agent
  /\ row.confirmed > 0 => shown[id] > 0
  /\ Decided(id) => row.started = row.confirmed
  /\ SaysDelivered(id) => row.confirmed > 0

(* A running call owns its row, knows what the row says, and its process   *)
(* is the one the row names.                                               *)
CoreOK(c) ==
  call[c].pc = "core" =>
    LET row == journal[call[c].id] IN
    /\ call[c].id \in Ids
    /\ call[c].pid \in alive
    /\ row.status \in Open
    /\ row.pid = call[c].pid
    /\ row.start \in {Null, born[call[c].pid]}
    /\ row.agent = call[c].agent
    /\ row.started = call[c].started
    /\ row.confirmed = call[c].confirmed

(* A send in flight, also one its call left behind, keeps the row open.    *)
FlightOK(c) ==
  /\ call[c].pc # "idle" => call[c].id \in Ids
  /\ call[c].flight # {} =>
       /\ call[c].id \in Ids
       /\ journal[call[c].id].status = "pending"
       /\ journal[call[c].id].agent
  /\ call[c].published # {} => call[c].id \in Ids /\ shown[call[c].id] > 0
  /\ \A s \in call[c].flight : s.n <= call[c].started
  /\ IsFiniteSet(call[c].flight)
  /\ Cardinality(call[c].flight) + call[c].confirmed <= call[c].started

(* A running call shares its identity with no other running call, and with *)
(* no send that another call left behind.                                  *)
Exclusive(c, d) ==
  /\ call[c].pc = "core"
  /\ call[d].pc = "core" \/ call[d].flight # {}
  /\ call[c].id = call[d].id
  => c = d

IInv ==
  /\ TypeOK
  /\ \A id \in Ids : RowOK(id)
  /\ \A c \in Calls : CoreOK(c)
  /\ \A c \in Calls : FlightOK(c)
  /\ \A c, d \in Calls : Exclusive(c, d)

(* The prepared states, one by one. *)
LEMMA PreparedStates ==
  /\ Prepared = {"ack-pending-delivered", "ack-pending-no-reply"}
  /\ AckPending("delivered") = "ack-pending-delivered"
  /\ AckPending("no-reply") = "ack-pending-no-reply"
  BY DEF Prepared, AckPending, Outcomes

LEMMA InitInv == Init => IInv
<1> SUFFICES ASSUME Init PROVE IInv
  OBVIOUS
<1>1. TypeOK
  BY InitType
<1>2. \A id \in Ids : journal[id] = NoRow /\ turns[id] = 0 /\ shown[id] = 0
  BY DEF Init, JournalInit
<1>3. \A id \in Ids : RowOK(id)
  <2> TAKE id \in Ids
  <2>1. /\ NoRow.status = "absent" /\ NoRow.started = 0 /\ NoRow.confirmed = 0
        /\ NoRow.agent = FALSE
    BY DEF NoRow
  <2>2. ~Decided(id) /\ ~SaysDelivered(id)
    BY <1>2, <2>1, PreparedStates DEF Decided, SaysDelivered, Outcomes
  <2> QED BY <1>2, <2>1, <2>2 DEF RowOK
<1>4. \A c \in Calls : CoreOK(c)
  BY DEF Init, CoreOK, IdleCall
<1>5. \A c \in Calls : FlightOK(c)
  <2> TAKE c \in Calls
  <2>1. /\ call[c].pc = "idle" /\ call[c].flight = {} /\ call[c].published = {}
        /\ call[c].started = 0 /\ call[c].confirmed = 0
    BY DEF Init, IdleCall
  <2>2. IsFiniteSet({}) /\ Cardinality({}) = 0
    BY FS_EmptySet
  <2> QED BY <2>1, <2>2 DEF FlightOK
<1>6. \A c, d \in Calls : Exclusive(c, d)
  BY DEF Init, Exclusive, IdleCall
<1> QED BY <1>1, <1>3, <1>4, <1>5, <1>6 DEF IInv

(* A call that is running on an identity, or left sends in flight for it.  *)
Busy(c, id) == call[c].id = id /\ (call[c].pc = "core" \/ call[c].flight # {})

LEMMA CoreAlone ==
  ASSUME IInv, NEW c \in Calls, call[c].pc = "core", NEW d \in Calls \ {c}
  PROVE  ~Busy(d, call[c].id)
  BY DEF IInv, Exclusive, Busy

(* What a step of call c on the row of id has to keep. *)
LEMMA StepAt ==
  ASSUME IInv, TypeOK', NEW c \in Calls, NEW id \in Ids,
         UNCHANGED alive, UNCHANGED born,
         \A d \in Calls \ {c} : call'[d] = call[d],
         \A i \in Ids \ {id} : /\ journal'[i] = journal[i]
                               /\ turns'[i] = turns[i]
                               /\ shown'[i] = shown[i],
         shown[id] > 0 => shown'[id] > 0,
         journal'[id] = journal[id] \/ \A d \in Calls \ {c} : ~Busy(d, id),
         \/ \A d \in Calls \ {c} : ~Busy(d, call'[c].id)
         \/ /\ call'[c].id = call[c].id
            /\ call'[c].pc = "core" => call[c].pc = "core"
            /\ call'[c].flight # {} => call[c].pc = "core" \/ call[c].flight # {},
         RowOK(id)', CoreOK(c)', FlightOK(c)'
  PROVE  IInv'
<1>1. \A i \in Ids : RowOK(i)'
  <2> TAKE i \in Ids
  <2>1. CASE i = id
    BY <2>1
  <2>2. CASE i # id
    <3>1. RowOK(i)
      BY DEF IInv
    <3> QED BY <2>2, <3>1 DEF RowOK, Decided, SaysDelivered
  <2> QED BY <2>1, <2>2
<1>2. \A d \in Calls : CoreOK(d)'
  <2> TAKE d \in Calls
  <2>1. CASE d = c
    BY <2>1
  <2>2. CASE d # c /\ call[d].pc = "core"
    <3>1. CoreOK(d)
      BY DEF IInv
    <3>2. journal'[call[d].id] = journal[call[d].id]
      BY <2>2, <3>1 DEF CoreOK, Busy
    <3>3. call'[d] = call[d]
      BY <2>2
    <3> QED BY <3>1, <3>2, <3>3 DEF CoreOK, Open
  <2>3. CASE d # c /\ call[d].pc # "core"
    BY <2>3 DEF CoreOK
  <2> QED BY <2>1, <2>2, <2>3
<1>3. \A d \in Calls : FlightOK(d)'
  <2> TAKE d \in Calls
  <2>1. CASE d = c
    BY <2>1
  <2>2. CASE d # c
    <3>1. FlightOK(d)
      BY DEF IInv
    <3>2. call[d].flight # {} => journal'[call[d].id] = journal[call[d].id]
      BY <2>2, <3>1 DEF FlightOK, Busy
    <3>3. call'[d] = call[d]
      BY <2>2
    <3>4. \A i \in Ids : shown[i] > 0 => shown'[i] > 0
      OBVIOUS
    <3> QED BY <3>1, <3>2, <3>3, <3>4 DEF FlightOK
  <2> QED BY <2>1, <2>2
<1>4. \A d, e \in Calls : Exclusive(d, e)'
  BY DEF IInv, Exclusive, Busy
<1> QED BY <1>1, <1>2, <1>3, <1>4 DEF IInv

(* What the invariant says of a running call and its row. *)
AtCore(c, id) ==
  /\ call[c].pc = "core" /\ call[c].id = id
  /\ call[c] \in Call /\ journal[id] \in Row /\ turns[id] \in Nat /\ shown[id] \in Nat
  /\ RowOK(id) /\ CoreOK(c) /\ FlightOK(c)
  /\ journal[id].pid = call[c].pid
  /\ journal[id].agent = call[c].agent
  /\ journal[id].started = call[c].started
  /\ journal[id].confirmed = call[c].confirmed
  /\ \A d \in Calls \ {c} : ~Busy(d, id)

LEMMA CoreFacts ==
  ASSUME IInv, NEW c \in Calls, call[c].pc = "core"
  PROVE  \E id \in Ids : AtCore(c, id)
<1>1. TypeOK /\ CoreOK(c) /\ FlightOK(c) /\ \A id \in Ids : RowOK(id)
  BY DEF IInv
<1>2. call[c] \in Call
  BY <1>1, CallsType
<1>3. PICK id \in Ids : id = call[c].id
  BY <1>1 DEF CoreOK
<1>4. journal[id] \in Row /\ turns[id] \in Nat /\ shown[id] \in Nat
  BY <1>1, <1>3 DEF TypeOK, JournalTypeOK
<1>5. AtCore(c, id)
  BY <1>1, <1>2, <1>3, <1>4, CoreAlone DEF CoreOK, AtCore
<1> QED BY <1>5

LEMMA StartAgentStep ==
  ASSUME IInv, NEW c \in Calls, StartAgent(c)
  PROVE  IInv'
<1>1. TypeOK /\ TypeOK'
  BY StartAgentType DEF IInv
<1>2. PICK id \in Ids : AtCore(c, id)
  BY CoreFacts DEF StartAgent
<1>3. journal[id].status = "processing" /\ journal[id].agent = FALSE
  BY <1>2 DEF AtCore, StartAgent, MarkAgentStarted, Row
<1>4. /\ journal'[id] = [journal[id] EXCEPT !.agent = TRUE]
      /\ turns'[id] = turns[id] + 1
      /\ \A i \in Ids \ {id} : journal'[i] = journal[i] /\ turns'[i] = turns[i]
      /\ UNCHANGED alive /\ UNCHANGED born /\ UNCHANGED shown
  BY <1>1, <1>2 DEF AtCore, StartAgent, MarkAgentStarted, TypeOK, JournalTypeOK
<1>5. /\ journal'[id].status = journal[id].status
      /\ journal'[id].pid = journal[id].pid
      /\ journal'[id].start = journal[id].start
      /\ journal'[id].started = journal[id].started
      /\ journal'[id].confirmed = journal[id].confirmed
      /\ journal'[id].agent = TRUE
  BY <1>2, <1>4 DEF AtCore, Row
<1>6. /\ call'[c] = [call[c] EXCEPT !.agent = TRUE]
      /\ \A d \in Calls \ {c} : call'[d] = call[d]
  BY <1>1 DEF StartAgent, TypeOK
<1>7. /\ call'[c].pc = call[c].pc
      /\ call'[c].id = id
      /\ call'[c].pid = call[c].pid
      /\ call'[c].started = call[c].started
      /\ call'[c].confirmed = call[c].confirmed
      /\ call'[c].flight = call[c].flight
      /\ call'[c].published = call[c].published
      /\ call'[c].agent = TRUE
  BY <1>2, <1>6 DEF AtCore, Call
<1>8. RowOK(id)'
  BY <1>2, <1>3, <1>4, <1>5, PreparedStates
     DEF AtCore, RowOK, Decided, SaysDelivered, Outcomes
<1>9. CoreOK(c)'
  BY <1>2, <1>4, <1>5, <1>7, ZenonT(60) DEF AtCore, CoreOK, Open
<1>10. FlightOK(c)'
  BY <1>2, <1>4, <1>5, <1>7 DEF AtCore, FlightOK
<1>11. ~\E d \in Calls \ {c} : Busy(d, id)
  BY <1>2 DEF AtCore
<1> QED BY <1>1, <1>4, <1>6, <1>7, <1>8, <1>9, <1>10, <1>11, StepAt

LEMMA StartSendStep ==
  ASSUME IInv, NEW c \in Calls, NEW hash \in Hashes, StartSend(c, hash)
  PROVE  IInv'
<1> DEFINE n == call[c].started + 1
           send == [n |-> n, hash |-> hash]
<1>1. TypeOK /\ TypeOK'
  BY StartSendType DEF IInv
<1>2. PICK id \in Ids : AtCore(c, id)
  BY CoreFacts DEF StartSend
<1>3. journal[id].status \in Open /\ journal[id].agent = TRUE
  BY <1>2 DEF AtCore, StartSend, SendStarted, Row
<1>4. /\ journal'[id] = [journal[id] EXCEPT !.status = "pending",
                                            !.started = journal[id].started + 1, !.hash = hash]
      /\ \A i \in Ids \ {id} : journal'[i] = journal[i]
      /\ UNCHANGED alive /\ UNCHANGED born /\ UNCHANGED shown /\ UNCHANGED turns
  BY <1>1, <1>2 DEF AtCore, StartSend, SendStarted, TypeOK, JournalTypeOK
<1>5. /\ journal'[id].status = "pending"
      /\ journal'[id].pid = journal[id].pid
      /\ journal'[id].start = journal[id].start
      /\ journal'[id].started = journal[id].started + 1
      /\ journal'[id].confirmed = journal[id].confirmed
      /\ journal'[id].agent = journal[id].agent
  BY <1>2, <1>4 DEF AtCore, Row
<1>6. /\ call'[c] = [call[c] EXCEPT !.started = n, !.flight = call[c].flight \cup {send}]
      /\ \A d \in Calls \ {c} : call'[d] = call[d]
  BY <1>1 DEF StartSend, TypeOK
<1>7. /\ call'[c].pc = call[c].pc
      /\ call'[c].id = id
      /\ call'[c].pid = call[c].pid
      /\ call'[c].started = n
      /\ call'[c].confirmed = call[c].confirmed
      /\ call'[c].flight = call[c].flight \cup {send}
      /\ call'[c].published = call[c].published
      /\ call'[c].agent = call[c].agent
  BY <1>2, <1>6 DEF AtCore, Call
<1>8. RowOK(id)'
  BY <1>2, <1>3, <1>4, <1>5, PreparedStates
     DEF AtCore, RowOK, Row, Decided, SaysDelivered, Outcomes
<1>9. CoreOK(c)'
  <2>1. journal'[id].started = call'[c].started
    BY <1>2, <1>5, <1>7 DEF AtCore
  <2> HIDE DEF n, send
  <2> QED BY <1>2, <1>4, <1>5, <1>7, <2>1, ZenonT(60) DEF AtCore, CoreOK, Open
<1>10. FlightOK(c)'
  <2>1. n \in Nat /\ n > call[c].started /\ send.n = n
        /\ call[c].confirmed \in Nat /\ call[c].started \in Nat
    BY <1>2 DEF AtCore, Call
  <2>2. \A s \in call'[c].flight : s.n <= n
    BY <1>2, <1>7, <2>1 DEF AtCore, FlightOK, Call, Send
  <2>3. send \notin call[c].flight
    BY <1>2, <2>1 DEF AtCore, FlightOK
  <2>4. /\ IsFiniteSet(call[c].flight)
        /\ Cardinality(call[c].flight) + call[c].confirmed <= call[c].started
    BY <1>2 DEF AtCore, FlightOK
  <2> HIDE DEF send
  <2>5. /\ IsFiniteSet(call'[c].flight)
        /\ Cardinality(call'[c].flight) = Cardinality(call[c].flight) + 1
    <3> DEFINE F == call[c].flight
    <3>1. IsFiniteSet(F \cup {send}) /\ Cardinality(F \cup {send}) = Cardinality(F) + 1
      <4>1. IsFiniteSet(F) /\ send \notin F
        BY <2>3, <2>4
      <4> HIDE DEF F
      <4> QED BY <4>1, FS_AddElement
    <3> QED BY <1>7, <3>1
  <2>6. Cardinality(call'[c].flight) + call'[c].confirmed <= call'[c].started
    BY <1>7, <2>1, <2>4, <2>5, FS_CardinalityType
  <2> HIDE DEF n
  <2> QED BY <1>2, <1>3, <1>4, <1>5, <1>7, <2>2, <2>5, <2>6 DEF AtCore, FlightOK
<1>11. ~\E d \in Calls \ {c} : Busy(d, id)
  BY <1>2 DEF AtCore
<1> HIDE DEF n, send
<1> QED BY <1>1, <1>2, <1>4, <1>6, <1>7, <1>8, <1>9, <1>10, <1>11, StepAt DEF AtCore

(* A call with a send in flight has a named identity and an open row. *)
LEMMA FlightFacts ==
  ASSUME IInv, NEW c \in Calls, NEW s \in call[c].flight
  PROVE  \E id \in Ids : /\ id = call[c].id
                         /\ call[c] \in Call /\ journal[id] \in Row
                         /\ turns[id] \in Nat /\ shown[id] \in Nat
                         /\ RowOK(id) /\ CoreOK(c) /\ FlightOK(c)
                         /\ journal[id].status = "pending" /\ journal[id].agent = TRUE
<1>1. TypeOK /\ CoreOK(c) /\ FlightOK(c) /\ \A id \in Ids : RowOK(id)
  BY DEF IInv
<1>2. PICK id \in Ids : id = call[c].id
  BY <1>1 DEF FlightOK
<1>3. call[c] \in Call /\ journal[id] \in Row /\ turns[id] \in Nat /\ shown[id] \in Nat
  BY <1>1 DEF TypeOK, JournalTypeOK
<1>4. journal[id].status = "pending" /\ journal[id].agent = TRUE
  BY <1>1, <1>2, <1>3 DEF FlightOK, Row
<1> QED BY <1>1, <1>2, <1>3, <1>4

LEMMA PublishStep ==
  ASSUME IInv, NEW c \in Calls, NEW s \in call[c].flight, Publish(c, s)
  PROVE  IInv'
<1>1. TypeOK /\ TypeOK'
  BY PublishType DEF IInv
<1>2. PICK id \in Ids : /\ id = call[c].id
                        /\ call[c] \in Call /\ journal[id] \in Row
                        /\ turns[id] \in Nat /\ shown[id] \in Nat
                        /\ RowOK(id) /\ CoreOK(c) /\ FlightOK(c)
                        /\ journal[id].status = "pending" /\ journal[id].agent = TRUE
  BY FlightFacts
<1>3. /\ shown'[id] = shown[id] + 1
      /\ \A i \in Ids \ {id} : shown'[i] = shown[i]
      /\ UNCHANGED alive /\ UNCHANGED born /\ UNCHANGED turns /\ UNCHANGED journal
  BY <1>1, <1>2 DEF Publish, TypeOK
<1>4. /\ call'[c] = [call[c] EXCEPT !.published = call[c].published \cup {s.n}]
      /\ \A d \in Calls \ {c} : call'[d] = call[d]
  BY <1>1 DEF Publish, TypeOK
<1>5. /\ call'[c].pc = call[c].pc
      /\ call'[c].id = id
      /\ call'[c].pid = call[c].pid
      /\ call'[c].started = call[c].started
      /\ call'[c].confirmed = call[c].confirmed
      /\ call'[c].flight = call[c].flight
      /\ call'[c].agent = call[c].agent
  BY <1>2, <1>4 DEF Call
<1>6. RowOK(id)'
  BY <1>2, <1>3 DEF RowOK, Decided, SaysDelivered
<1>7. CoreOK(c)'
  BY <1>2, <1>3, <1>5 DEF CoreOK, Open
<1>8. FlightOK(c)'
  BY <1>2, <1>3, <1>5 DEF FlightOK
<1>9. shown[id] > 0 => shown'[id] > 0
  BY <1>2, <1>3
<1>10. \A i \in Ids \ {id} : /\ journal'[i] = journal[i]
                             /\ turns'[i] = turns[i]
                             /\ shown'[i] = shown[i]
  BY <1>3
<1>11. call'[c].flight # {} => call[c].pc = "core" \/ call[c].flight # {}
  BY <1>5
<1>12. journal'[id] = journal[id] /\ UNCHANGED alive /\ UNCHANGED born
  BY <1>3
<1> QED BY <1>1, <1>2, <1>4, <1>5, <1>6, <1>7, <1>8, <1>9, <1>10, <1>11, <1>12, StepAt

LEMMA ConfirmSendStep ==
  ASSUME IInv, NEW c \in Calls, NEW s \in call[c].flight, ConfirmSend(c, s)
  PROVE  IInv'
<1>1. TypeOK /\ TypeOK'
  BY ConfirmSendType DEF IInv
<1>2. PICK id \in Ids : AtCore(c, id)
  BY CoreFacts DEF ConfirmSend
<1>3. journal[id].status = "pending" /\ journal[id].agent = TRUE /\ shown[id] > 0
  BY <1>2 DEF AtCore, ConfirmSend, SendConfirmed, FlightOK, Row
<1>4. /\ journal'[id] = [journal[id] EXCEPT !.confirmed = journal[id].confirmed + 1]
      /\ \A i \in Ids \ {id} : journal'[i] = journal[i]
      /\ UNCHANGED alive /\ UNCHANGED born /\ UNCHANGED shown /\ UNCHANGED turns
  BY <1>1, <1>2 DEF AtCore, ConfirmSend, SendConfirmed, TypeOK, JournalTypeOK
<1>5. /\ journal'[id].status = "pending"
      /\ journal'[id].pid = journal[id].pid
      /\ journal'[id].start = journal[id].start
      /\ journal'[id].started = journal[id].started
      /\ journal'[id].confirmed = journal[id].confirmed + 1
      /\ journal'[id].agent = journal[id].agent
  BY <1>2, <1>3, <1>4 DEF AtCore, Row
<1>6. /\ call'[c] = [call[c] EXCEPT !.confirmed = call[c].confirmed + 1,
                                    !.flight = call[c].flight \ {s}]
      /\ \A d \in Calls \ {c} : call'[d] = call[d]
  BY <1>1 DEF ConfirmSend, TypeOK
<1>7. /\ call'[c].pc = call[c].pc
      /\ call'[c].id = id
      /\ call'[c].pid = call[c].pid
      /\ call'[c].started = call[c].started
      /\ call'[c].confirmed = call[c].confirmed + 1
      /\ call'[c].flight = call[c].flight \ {s}
      /\ call'[c].published = call[c].published
      /\ call'[c].agent = call[c].agent
  BY <1>2, <1>6 DEF AtCore, Call
<1>8. RowOK(id)'
  BY <1>2, <1>3, <1>4, <1>5, PreparedStates
     DEF AtCore, RowOK, Row, Decided, SaysDelivered, Outcomes
<1>9. CoreOK(c)'
  BY <1>2, <1>4, <1>5, <1>7, ZenonT(60) DEF AtCore, CoreOK, Open
<1>10. FlightOK(c)'
  <2>1. /\ IsFiniteSet(call[c].flight)
        /\ Cardinality(call[c].flight) + call[c].confirmed <= call[c].started
        /\ call[c].confirmed \in Nat /\ call[c].started \in Nat
    BY <1>2 DEF AtCore, FlightOK, Call
  <2>2. /\ IsFiniteSet(call'[c].flight)
        /\ Cardinality(call'[c].flight) = Cardinality(call[c].flight) - 1
    <3> DEFINE F == call[c].flight
    <3>1. IsFiniteSet(F \ {s}) /\ Cardinality(F \ {s}) = Cardinality(F) - 1
      <4>1. IsFiniteSet(F) /\ s \in F
        BY <2>1
      <4> HIDE DEF F
      <4> QED BY <4>1, FS_RemoveElement
    <3> QED BY <1>7, <3>1
  <2>3. Cardinality(call'[c].flight) + call'[c].confirmed <= call'[c].started
    BY <1>7, <2>1, <2>2, FS_CardinalityType
  <2> QED BY <1>2, <1>3, <1>4, <1>5, <1>7, <2>2, <2>3 DEF AtCore, FlightOK
<1>11. ~\E d \in Calls \ {c} : Busy(d, id)
  BY <1>2 DEF AtCore
<1> QED BY <1>1, <1>2, <1>4, <1>6, <1>7, <1>8, <1>9, <1>10, <1>11, StepAt DEF AtCore

LEMMA LoseSendStep ==
  ASSUME IInv, NEW c \in Calls, NEW s \in call[c].flight, LoseSend(c, s)
  PROVE  IInv'
<1>1. TypeOK /\ TypeOK'
  BY LoseSendType DEF IInv
<1>2. PICK id \in Ids : /\ id = call[c].id
                        /\ call[c] \in Call /\ journal[id] \in Row
                        /\ turns[id] \in Nat /\ shown[id] \in Nat
                        /\ RowOK(id) /\ CoreOK(c) /\ FlightOK(c)
                        /\ journal[id].status = "pending" /\ journal[id].agent = TRUE
  BY FlightFacts
<1>3. /\ UNCHANGED alive /\ UNCHANGED born
      /\ UNCHANGED turns /\ UNCHANGED shown /\ UNCHANGED journal
  BY DEF LoseSend
<1>4. /\ call'[c] = [call[c] EXCEPT !.flight = call[c].flight \ {s}]
      /\ \A d \in Calls \ {c} : call'[d] = call[d]
  BY <1>1 DEF LoseSend, TypeOK
<1>5. /\ call'[c].pc = call[c].pc
      /\ call'[c].id = id
      /\ call'[c].pid = call[c].pid
      /\ call'[c].started = call[c].started
      /\ call'[c].confirmed = call[c].confirmed
      /\ call'[c].flight = call[c].flight \ {s}
      /\ call'[c].published = call[c].published
      /\ call'[c].agent = call[c].agent
  BY <1>2, <1>4 DEF Call
<1>6. RowOK(id)'
  BY <1>2, <1>3 DEF RowOK, Decided, SaysDelivered
<1>7. CoreOK(c)'
  BY <1>2, <1>3, <1>5 DEF CoreOK, Open
<1>8. FlightOK(c)'
  <2>1. /\ IsFiniteSet(call[c].flight)
        /\ Cardinality(call[c].flight) + call[c].confirmed <= call[c].started
        /\ call[c].confirmed \in Nat /\ call[c].started \in Nat
    BY <1>2 DEF FlightOK, Call
  <2>2. /\ IsFiniteSet(call'[c].flight)
        /\ Cardinality(call'[c].flight) = Cardinality(call[c].flight) - 1
    <3> DEFINE F == call[c].flight
    <3>1. IsFiniteSet(F \ {s}) /\ Cardinality(F \ {s}) = Cardinality(F) - 1
      <4>1. IsFiniteSet(F) /\ s \in F
        BY <2>1
      <4> HIDE DEF F
      <4> QED BY <4>1, FS_RemoveElement
    <3> QED BY <1>5, <3>1
  <2>3. Cardinality(call'[c].flight) + call'[c].confirmed <= call'[c].started
    BY <1>5, <2>1, <2>2, FS_CardinalityType
  <2> QED BY <1>2, <1>3, <1>5, <2>2, <2>3 DEF FlightOK
<1> QED BY <1>1, <1>2, <1>3, <1>4, <1>5, <1>6, <1>7, <1>8, StepAt

-----------------------------------------------------------------------------
(* The end of a call. *)

(* A call may leave when its row is in order and any send it leaves behind *)
(* still has an open row.                                                  *)
LEMMA LeaveStep ==
  ASSUME IInv, TypeOK', NEW c \in Calls, NEW id \in Ids, AtCore(c, id),
         NEW result, NEW handle, Leave(c, result, handle),
         UNCHANGED alive, UNCHANGED born, UNCHANGED turns, UNCHANGED shown,
         \A i \in Ids \ {id} : journal'[i] = journal[i],
         RowOK(id)',
         call[c].flight # {} => journal'[id].status = "pending" /\ journal'[id].agent
  PROVE  IInv'
<1>1. /\ call'[c] = [call[c] EXCEPT !.pc = "returned", !.result = result, !.handle = handle]
      /\ \A d \in Calls \ {c} : call'[d] = call[d]
  BY DEF IInv, TypeOK, Leave
<1>2. /\ call'[c].pc = "returned"
      /\ call'[c].id = id
      /\ call'[c].started = call[c].started
      /\ call'[c].confirmed = call[c].confirmed
      /\ call'[c].flight = call[c].flight
      /\ call'[c].published = call[c].published
  BY <1>1 DEF AtCore, Call
<1>3. CoreOK(c)'
  BY <1>2 DEF CoreOK
<1>4. FlightOK(c)'
  BY <1>2 DEF AtCore, FlightOK
<1>5. ~\E d \in Calls \ {c} : Busy(d, id)
  BY DEF AtCore
<1> QED BY <1>1, <1>2, <1>3, <1>4, <1>5, StepAt DEF AtCore

(* A call that leaves its row as it is. *)
LEMMA LeaveRowStep ==
  ASSUME IInv, TypeOK', NEW c \in Calls, NEW id \in Ids, AtCore(c, id),
         NEW result, NEW handle, Leave(c, result, handle),
         UNCHANGED journal,
         UNCHANGED alive, UNCHANGED born, UNCHANGED turns, UNCHANGED shown
  PROVE  IInv'
<1>1. RowOK(id)'
  BY DEF AtCore, RowOK, Decided, SaysDelivered
<1>2. call[c].flight # {} => journal'[id].status = "pending" /\ journal'[id].agent
  BY DEF AtCore, FlightOK
<1> QED BY <1>1, <1>2, LeaveStep

(* A call that started nothing has nothing in flight and its row is as     *)
(* claimed, so the release deletes it.                                     *)
LEMMA NothingStartedFacts ==
  ASSUME NEW c \in Calls, NEW id \in Ids, AtCore(c, id), NothingStarted(c)
  PROVE  /\ journal[id].agent = FALSE /\ journal[id].started = 0
         /\ Untouched(journal[id])
         /\ call[c].flight = {} /\ call[c].confirmed = 0
         /\ turns[id] = 0 /\ shown[id] = 0
<1>1. journal[id].agent = FALSE /\ journal[id].started = 0 /\ call[c].started = 0
  BY DEF AtCore, NothingStarted, Row, Call
<1>2. Untouched(journal[id])
  BY <1>1 DEF AtCore, RowOK, CoreOK, Untouched, Open
<1>3. call[c].flight = {} /\ call[c].confirmed = 0
  <2> DEFINE F == call[c].flight
  <2>1. IsFiniteSet(F) /\ Cardinality(F) + call[c].confirmed <= 0 /\ call[c].confirmed \in Nat
    BY <1>1 DEF AtCore, FlightOK, Call
  <2> HIDE DEF F
  <2>2. Cardinality(F) = 0 /\ call[c].confirmed = 0
    BY <2>1, FS_CardinalityType
  <2>3. F = {}
    BY <2>1, <2>2, FS_EmptySet
  <2> QED BY <2>2, <2>3 DEF F
<1>4. turns[id] = 0 /\ shown[id] = 0
  BY <1>1 DEF AtCore, RowOK
<1> QED BY <1>1, <1>2, <1>3, <1>4

LEMMA ReleaseFacts ==
  ASSUME TypeOK, NEW c \in Calls, NEW id \in Ids, AtCore(c, id), NothingStarted(c),
         ReleaseBeforeSend(call[c].id, call[c].pid)
  PROVE  journal'[id] = NoRow /\ \A i \in Ids \ {id} : journal'[i] = journal[i]
  BY NothingStartedFacts DEF AtCore, ReleaseBeforeSend, TypeOK, JournalTypeOK

LEMMA LeaveReleasedStep ==
  ASSUME IInv, TypeOK', NEW c \in Calls, NEW id \in Ids, AtCore(c, id), NothingStarted(c),
         NEW result, NEW handle, Leave(c, result, handle),
         ReleaseBeforeSend(call[c].id, call[c].pid),
         UNCHANGED alive, UNCHANGED born, UNCHANGED turns, UNCHANGED shown
  PROVE  IInv'
<1>1. journal'[id] = NoRow /\ \A i \in Ids \ {id} : journal'[i] = journal[i]
  BY ReleaseFacts DEF IInv
<1>2. /\ NoRow.status = "absent" /\ NoRow.started = 0 /\ NoRow.confirmed = 0
      /\ NoRow.agent = FALSE
  BY DEF NoRow
<1>3. turns[id] = 0 /\ shown[id] = 0 /\ call[c].flight = {}
  BY NothingStartedFacts
<1>4. RowOK(id)'
  <2>1. ~Decided(id)' /\ ~SaysDelivered(id)'
    BY <1>1, <1>2, PreparedStates DEF Decided, SaysDelivered, Outcomes
  <2> QED BY <1>1, <1>2, <1>3, <2>1 DEF RowOK
<1> QED BY <1>1, <1>3, <1>4, LeaveStep

(* An outcome the checks let pass is balanced, with nothing in flight. *)
LEMMA OutcomeBalanced ==
  ASSUME NEW c \in Calls, NEW id \in Ids, AtCore(c, id), NEW kind \in Outcomes,
         ~Escalated(c, kind)
  PROVE  /\ journal[id].started = journal[id].confirmed
         /\ kind = "delivered" => journal[id].confirmed > 0
         /\ call[c].flight = {}
<1>1. /\ call[c].started \in Nat /\ call[c].confirmed \in Nat
      /\ IsFiniteSet(call[c].flight)
      /\ Cardinality(call[c].flight) \in Nat
      /\ Cardinality(call[c].flight) + call[c].confirmed <= call[c].started
      /\ journal[id].started = call[c].started /\ journal[id].confirmed = call[c].confirmed
  BY FS_CardinalityType DEF AtCore, FlightOK, Call
<1>2. call[c].started = call[c].confirmed
  <2>1. CASE NothingStarted(c)
    BY <1>1, <2>1, NothingStartedFacts
  <2>2. CASE ~NothingStarted(c) \/ kind = "delivered"
    BY <2>2 DEF Escalated, Outcomes
  <2> QED BY <2>1, <2>2
<1>3. kind = "delivered" => call[c].confirmed > 0
  BY <1>1 DEF Escalated
<1>4. Cardinality(call[c].flight) = 0
  BY <1>1, <1>2
<1>5. call[c].flight = {}
  BY <1>1, <1>4, FS_EmptySet
<1> QED BY <1>1, <1>2, <1>3, <1>5

LEMMA LeaveDecidedStep ==
  ASSUME IInv, TypeOK', NEW c \in Calls, NEW id \in Ids, AtCore(c, id), NEW kind \in Outcomes,
         ~Escalated(c, kind),
         NEW result, NEW handle, Leave(c, result, handle),
         NEW status, status = kind \/ status = AckPending(kind),
         journal' = [journal EXCEPT ![id].status = status],
         UNCHANGED alive, UNCHANGED born, UNCHANGED turns, UNCHANGED shown
  PROVE  IInv'
<1>1. /\ journal'[id] = [journal[id] EXCEPT !.status = status]
      /\ \A i \in Ids \ {id} : journal'[i] = journal[i]
  BY DEF IInv, TypeOK, JournalTypeOK
<1>2. /\ journal'[id].status = status
      /\ journal'[id].started = journal[id].started
      /\ journal'[id].confirmed = journal[id].confirmed
      /\ journal'[id].agent = journal[id].agent
  BY <1>1 DEF AtCore, Row
<1>3. /\ journal[id].started = journal[id].confirmed
      /\ kind = "delivered" => journal[id].confirmed > 0
      /\ call[c].flight = {}
  BY OutcomeBalanced
<1>4. /\ status \notin {"absent", "processing", "pending"}
      /\ status \in {"delivered", AckPending("delivered")} => kind = "delivered"
  BY PreparedStates DEF Outcomes
<1>5. RowOK(id)'
  BY <1>2, <1>3, <1>4 DEF AtCore, RowOK, SaysDelivered, AckPending
<1> QED BY <1>1, <1>3, <1>5, LeaveStep

LEMMA CoreReturnsStep ==
  ASSUME IInv, NEW c \in Calls, NEW kind \in Kinds, CoreReturns(c, kind)
  PROVE  IInv'
<1>1. TypeOK'
  BY CoreReturnsType DEF IInv
<1>2. PICK id \in Ids : AtCore(c, id)
  BY CoreFacts DEF CoreReturns
<1>3. call[c].id = id
  BY <1>2 DEF AtCore
<1>4. UNCHANGED alive /\ UNCHANGED born /\ UNCHANGED turns /\ UNCHANGED shown
  BY DEF CoreReturns
<1>5. CASE ReturnAmbiguous(c, kind)
  BY <1>1, <1>2, <1>4, <1>5, LeaveRowStep DEF ReturnAmbiguous
<1>6. CASE ReturnPrepared(c, kind)
  BY <1>1, <1>2, <1>3, <1>4, <1>6, LeaveDecidedStep DEF ReturnPrepared, PrepareSettlement
<1>7. CASE ReturnSettled(c, kind)
  BY <1>1, <1>2, <1>3, <1>4, <1>7, LeaveDecidedStep DEF ReturnSettled, Settle
<1>8. CASE ReturnUnsettled(c, kind)
  <2>1. CASE NothingStarted(c)
    BY <1>1, <1>2, <1>4, <1>8, <2>1, LeaveReleasedStep DEF ReturnUnsettled
  <2>2. CASE ~NothingStarted(c)
    BY <1>1, <1>2, <1>4, <1>8, <2>2, LeaveRowStep DEF ReturnUnsettled
  <2> QED BY <2>1, <2>2
<1> QED BY <1>5, <1>6, <1>7, <1>8 DEF CoreReturns

LEMMA CoreThrowsStep ==
  ASSUME IInv, NEW c \in Calls, CoreThrows(c)
  PROVE  IInv'
<1>1. TypeOK'
  BY CoreThrowsType DEF IInv
<1>2. PICK id \in Ids : AtCore(c, id)
  BY CoreFacts DEF CoreThrows
<1>3. UNCHANGED alive /\ UNCHANGED born /\ UNCHANGED turns /\ UNCHANGED shown
  BY DEF CoreThrows
<1>4. CASE NothingStarted(c)
  BY <1>1, <1>2, <1>3, <1>4, LeaveReleasedStep DEF CoreThrows, Fail
<1>5. CASE ~NothingStarted(c)
  BY <1>1, <1>2, <1>3, <1>5, LeaveRowStep DEF CoreThrows, Fail
<1> QED BY <1>4, <1>5

LEMMA ConfirmDeliveryStep ==
  ASSUME IInv, NEW c \in Calls, ConfirmDelivery(c)
  PROVE  IInv'
<1>1. TypeOK /\ TypeOK' /\ FlightOK(c) /\ \A i \in Ids : RowOK(i)
  BY ConfirmDeliveryType DEF IInv
<1>2. call[c] \in Call /\ call[c].pc = "returned" /\ call[c].handle \in Outcomes
  BY <1>1, CallsType DEF ConfirmDelivery, Call
<1>3. PICK id \in Ids : id = call[c].id
  BY <1>1, <1>2 DEF FlightOK
<1>4. PICK outcome \in Outcomes : outcome = call[c].handle
  BY <1>2
<1>5. /\ journal[id].status = AckPending(outcome)
      /\ journal' = [journal EXCEPT ![id].status = outcome]
      /\ UNCHANGED alive /\ UNCHANGED born /\ UNCHANGED turns /\ UNCHANGED shown
  BY <1>3, <1>4 DEF ConfirmDelivery, ConfirmPreparedSettlement
<1>6. /\ journal[id] \in Row
      /\ journal'[id] = [journal[id] EXCEPT !.status = outcome]
      /\ \A i \in Ids \ {id} : journal'[i] = journal[i]
  BY <1>1, <1>5 DEF TypeOK, JournalTypeOK
<1>7. /\ journal'[id].status = outcome
      /\ journal'[id].started = journal[id].started
      /\ journal'[id].confirmed = journal[id].confirmed
      /\ journal'[id].agent = journal[id].agent
  BY <1>6 DEF Row
<1>8. /\ journal[id].status \notin Open
      /\ outcome \notin {"absent", "processing", "pending"}
      /\ outcome \in {"delivered", AckPending("delivered")} => outcome = "delivered"
      /\ journal[id].status \in Prepared
  BY <1>5, PreparedStates DEF Open, Outcomes
<1>9. RowOK(id)'
  <2>1. RowOK(id) /\ Decided(id)
    BY <1>1, <1>8 DEF Decided
  <2>2. outcome = "delivered" => SaysDelivered(id)
    BY <1>5 DEF SaysDelivered
  <2> QED BY <1>5, <1>7, <1>8, <2>1, <2>2 DEF RowOK, SaysDelivered, AckPending
<1>10. /\ call'[c] = [call[c] EXCEPT !.handle = Null]
       /\ \A d \in Calls \ {c} : call'[d] = call[d]
  BY <1>1 DEF ConfirmDelivery, TypeOK
<1>11. /\ call'[c].pc = "returned"
       /\ call'[c].id = id
       /\ call'[c].started = call[c].started
       /\ call'[c].confirmed = call[c].confirmed
       /\ call'[c].flight = call[c].flight
       /\ call'[c].published = call[c].published
  BY <1>2, <1>3, <1>10 DEF Call
<1>12. CoreOK(c)'
  BY <1>11 DEF CoreOK
<1>13. FlightOK(c)'
  BY <1>1, <1>3, <1>5, <1>8, <1>11 DEF FlightOK, Open
<1>14. ~\E d \in Calls \ {c} : Busy(d, id)
  BY <1>8 DEF IInv, Busy, CoreOK, FlightOK, Open
<1> QED BY <1>1, <1>5, <1>6, <1>9, <1>10, <1>11, <1>12, <1>13, <1>14, StepAt

(* The null call. *)
LEMMA IdleFacts ==
  /\ IdleCall.pc = "idle" /\ IdleCall.id = Null
  /\ IdleCall.flight = {} /\ IdleCall.published = {}
  /\ IdleCall.started = 0 /\ IdleCall.confirmed = 0
  /\ IdleCall.agent = FALSE
  /\ IsFiniteSet({}) /\ Cardinality({}) = 0
  BY FS_EmptySet DEF IdleCall

LEMMA ForgetStep ==
  ASSUME IInv, NEW c \in Calls, Forget(c)
  PROVE  IInv'
<1>1. TypeOK /\ TypeOK' /\ FlightOK(c)
  BY IdleCallType, PutCall DEF IInv, Forget, TypeOK, JournalTypeOK
<1>2. PICK id \in Ids : id = call[c].id
  BY <1>1 DEF Forget, FlightOK
<1>3. /\ UNCHANGED alive /\ UNCHANGED born /\ UNCHANGED turns
      /\ UNCHANGED shown /\ UNCHANGED journal
  BY DEF Forget
<1>4. /\ call'[c] = IdleCall
      /\ \A d \in Calls \ {c} : call'[d] = call[d]
  BY <1>1 DEF Forget, TypeOK
<1>5. RowOK(id)'
  BY <1>3 DEF IInv, RowOK, Decided, SaysDelivered
<1>6. CoreOK(c)' /\ FlightOK(c)'
  BY <1>4, IdleFacts DEF CoreOK, FlightOK
<1>7. ~\E d \in Calls \ {c} : Busy(d, call'[c].id)
  BY <1>4, IdleFacts DEF IInv, Busy, CoreOK, FlightOK
<1> QED BY <1>1, <1>3, <1>4, <1>5, <1>6, <1>7, StepAt

-----------------------------------------------------------------------------
(* The start of a call. *)

(* A call that is answered at once. *)
LEMMA ClaimAnsweredStep ==
  ASSUME IInv, TypeOK', NEW c \in Calls, call[c].pc = "idle", NEW id \in Ids, NEW p, NEW result,
         NEW handle, Return(c, id, p, result, handle), UNCHANGED journal,
         UNCHANGED alive, UNCHANGED born, UNCHANGED turns, UNCHANGED shown
  PROVE  IInv'
<1> DEFINE new == [IdleCall EXCEPT !.pc = "returned", !.id = id, !.pid = p,
                                   !.result = result, !.handle = handle]
<1>1. /\ call'[c] = new
      /\ \A d \in Calls \ {c} : call'[d] = call[d]
  BY DEF IInv, TypeOK, Return
<1>2. /\ new.pc = "returned" /\ new.id = id
      /\ new.flight = {} /\ new.published = {} /\ new.started = 0 /\ new.confirmed = 0
  BY DEF IdleCall
<1> HIDE DEF new
<1>3. CoreOK(c)' /\ FlightOK(c)'
  BY <1>1, <1>2, IdleFacts DEF CoreOK, FlightOK
<1>4. \A i \in Ids : RowOK(i)'
  BY DEF IInv, RowOK, Decided, SaysDelivered
<1>5. \A d \in Calls : CoreOK(d)'
  <2> TAKE d \in Calls
  <2>1. CoreOK(d)
    BY DEF IInv
  <2>2. CASE d # c
    BY <1>1, <2>1, <2>2 DEF CoreOK, Open
  <2> QED BY <1>3, <2>2
<1>6. \A d \in Calls : FlightOK(d)'
  <2> TAKE d \in Calls
  <2>1. FlightOK(d)
    BY DEF IInv
  <2>2. CASE d # c
    BY <1>1, <2>1, <2>2 DEF FlightOK
  <2> QED BY <1>3, <2>2
<1>7. \A d, e \in Calls : Exclusive(d, e)'
  BY <1>1, <1>2 DEF IInv, Exclusive
<1> QED BY <1>4, <1>5, <1>6, <1>7 DEF IInv

(* A call that takes over a row nobody works on. *)
LEMMA EnterStep ==
  ASSUME IInv, TypeOK', NEW c \in Calls, NEW id \in Ids, NEW p \in alive, NEW defer,
         NEW start, start \in {Null, born[p]},
         Enter(c, id, p, defer),
         journal'[id].status = "processing",
         journal'[id].agent = FALSE, journal'[id].started = 0, journal'[id].confirmed = 0,
         journal'[id].pid = p, journal'[id].start = start,
         turns[id] = 0, shown[id] = 0,
         \A i \in Ids \ {id} : journal'[i] = journal[i],
         \A d \in Calls \ {c} : ~Busy(d, id),
         UNCHANGED alive, UNCHANGED born, UNCHANGED turns, UNCHANGED shown
  PROVE  IInv'
<1> DEFINE new == [IdleCall EXCEPT !.pc = "core", !.id = id, !.pid = p, !.defer = defer]
<1>1. /\ call'[c] = new
      /\ \A d \in Calls \ {c} : call'[d] = call[d]
  BY DEF IInv, TypeOK, Enter
<1>2. /\ new.pc = "core" /\ new.id = id /\ new.pid = p
      /\ new.flight = {} /\ new.published = {}
      /\ new.agent = FALSE /\ new.started = 0 /\ new.confirmed = 0
  BY DEF IdleCall
<1> HIDE DEF new
<1>3. RowOK(id)'
  BY PreparedStates DEF RowOK, Decided, SaysDelivered, Outcomes
<1>4. CoreOK(c)'
  BY <1>1, <1>2 DEF CoreOK, Open
<1>5. FlightOK(c)'
  BY <1>1, <1>2, IdleFacts DEF FlightOK
<1>6. ~\E d \in Calls \ {c} : Busy(d, call'[c].id)
  BY <1>1, <1>2
<1> QED BY <1>1, <1>3, <1>4, <1>5, <1>6, StepAt

LEMMA ClaimNewStep ==
  ASSUME IInv, TypeOK', NEW c \in Calls, NEW id \in Ids, NEW fp, NEW p \in alive,
         NEW start \in StartSeen(p), NEW defer, ClaimNew(c, id, fp, p, start, defer),
         UNCHANGED alive, UNCHANGED born, UNCHANGED turns, UNCHANGED shown
  PROVE  IInv'
<1> DEFINE row == [NoRow EXCEPT !.status = "processing", !.fp = fp, !.pid = p, !.start = start]
<1>1. journal[id].status = "absent" /\ RowOK(id)
  BY DEF IInv, ClaimNew, InsertClaim, Exists
<1>2. /\ journal'[id] = row
      /\ \A i \in Ids \ {id} : journal'[i] = journal[i]
  BY DEF IInv, TypeOK, JournalTypeOK, ClaimNew, InsertClaim
<1>3. /\ row.status = "processing" /\ row.agent = FALSE /\ row.started = 0
      /\ row.confirmed = 0 /\ row.pid = p /\ row.start = start
      /\ NoRow.agent = FALSE
  BY DEF NoRow
<1>4. turns[id] = 0 /\ shown[id] = 0
  <2>1. turns[id] \in Nat /\ shown[id] \in Nat
    BY DEF IInv, TypeOK
  <2> QED BY <1>1, <1>3, <2>1 DEF RowOK
<1>5. \A d \in Calls \ {c} : ~Busy(d, id)
  BY <1>1 DEF IInv, Busy, CoreOK, FlightOK, Open
<1>6. start \in {Null, born[p]}
  BY DEF StartSeen
<1>7. Enter(c, id, p, defer)
  BY DEF ClaimNew
<1> HIDE DEF row
<1> QED BY <1>2, <1>3, <1>4, <1>5, <1>6, <1>7, EnterStep

LEMMA ClaimAbandonedStep ==
  ASSUME IInv, TypeOK', NEW c \in Calls, NEW id \in Ids, NEW fp, NEW p \in alive,
         NEW start \in StartSeen(p), NEW defer, ClaimAbandoned(c, id, fp, p, start, defer),
         UNCHANGED alive, UNCHANGED born, UNCHANGED turns, UNCHANGED shown
  PROVE  IInv'
<1>1. TypeOK /\ RowOK(id) /\ journal[id] \in Row /\ turns[id] \in Nat /\ shown[id] \in Nat
  BY DEF IInv, TypeOK, JournalTypeOK
<1>2. PICK observed \in OwnerSeen(id) :
        RecoverClaim(id, fp, p, start, journal[id].pid \in alive, observed)
  BY DEF ClaimAbandoned
<1>3. /\ journal[id].status = "processing"
      /\ journal[id].agent = FALSE
      /\ journal[id].started = 0
      /\ ~OwnerAlive(journal[id], journal[id].pid \in alive, observed)
  BY <1>1, <1>2 DEF RecoverClaim, Recoverable, Untouched, Row
<1>4. turns[id] = 0 /\ shown[id] = 0 /\ journal[id].confirmed = 0
  BY <1>1, <1>3 DEF RowOK, Row
<1>5. \A d \in Calls \ {c} : ~Busy(d, id)
  <2> SUFFICES ASSUME NEW d \in Calls \ {c}, Busy(d, id) PROVE FALSE
    OBVIOUS
  <2>1. call[d].id = id /\ call[d].flight = {} /\ call[d].pc = "core" /\ CoreOK(d)
    BY <1>3 DEF IInv, Busy, FlightOK
  <2>2. /\ journal[id].pid \in alive
        /\ journal[id].start \in {Null, born[journal[id].pid]}
    BY <2>1 DEF CoreOK
  <2>3. observed \in {Null, born[journal[id].pid]}
    BY <2>2 DEF OwnerSeen, StartSeen
  <2> QED BY <1>3, <2>2, <2>3 DEF OwnerAlive
<1>6. /\ journal'[id] = [journal[id] EXCEPT !.pid = p, !.start = start]
      /\ \A i \in Ids \ {id} : journal'[i] = journal[i]
  BY <1>1, <1>2 DEF RecoverClaim, TypeOK, JournalTypeOK
<1>7. /\ journal'[id].status = "processing" /\ journal'[id].agent = FALSE
      /\ journal'[id].started = 0 /\ journal'[id].confirmed = 0
      /\ journal'[id].pid = p /\ journal'[id].start = start
  BY <1>1, <1>3, <1>4, <1>6 DEF Row
<1>8. start \in {Null, born[p]}
  BY DEF StartSeen
<1>9. Enter(c, id, p, defer)
  BY DEF ClaimAbandoned
<1> QED BY <1>4, <1>5, <1>6, <1>7, <1>8, <1>9, EnterStep

LEMMA ClaimStep ==
  ASSUME IInv, NEW c \in Calls, NEW id \in Ids, NEW fp \in Fingerprints,
         NEW p \in Pids, NEW defer \in BOOLEAN, Claim(c, id, fp, p, defer)
  PROVE  IInv'
<1>1. TypeOK'
  BY ClaimType DEF IInv
<1>2. /\ p \in alive /\ call[c].pc = "idle"
      /\ UNCHANGED alive /\ UNCHANGED born /\ UNCHANGED turns /\ UNCHANGED shown
  BY DEF Claim
<1>3. ASSUME NEW start \in StartSeen(p), ClaimNew(c, id, fp, p, start, defer)
      PROVE  IInv'
  BY <1>1, <1>2, <1>3, ClaimNewStep
<1>4. ASSUME NEW start \in StartSeen(p), ClaimAbandoned(c, id, fp, p, start, defer)
      PROVE  IInv'
  BY <1>1, <1>2, <1>4, ClaimAbandonedStep
<1>5. CASE ClaimConflict(c, id, fp, p) \/ ClaimPending(c, id, fp, p)
  BY <1>1, <1>2, <1>5, ClaimAnsweredStep DEF ClaimConflict, ClaimPending
<1>6. CASE ClaimSettled(c, id, fp, p)
  BY <1>1, <1>2, <1>6, ClaimAnsweredStep DEF ClaimSettled
<1> QED BY <1>3, <1>4, <1>5, <1>6 DEF Claim

-----------------------------------------------------------------------------
(* Processes. *)

LEMMA CrashStep ==
  ASSUME IInv, NEW p \in Pids, Crash(p)
  PROVE  IInv'
<1>1. TypeOK'
  BY ProcessType DEF IInv
<1>2. /\ alive' = alive \ {p}
      /\ \A c \in Calls : call'[c] = IF call[c].pid = p THEN IdleCall ELSE call[c]
      /\ UNCHANGED journal /\ UNCHANGED born /\ UNCHANGED turns /\ UNCHANGED shown
  BY DEF Crash
<1>3. \A id \in Ids : RowOK(id)'
  BY <1>2 DEF IInv, RowOK, Decided, SaysDelivered
<1>4. \A c \in Calls : CoreOK(c)'
  <2> TAKE c \in Calls
  <2>1. CoreOK(c)
    BY DEF IInv
  <2>2. CASE call[c].pid = p
    BY <1>2, <2>2, IdleFacts DEF CoreOK
  <2>3. CASE call[c].pid # p
    BY <1>2, <2>1, <2>3 DEF CoreOK, Open
  <2> QED BY <2>2, <2>3
<1>5. \A c \in Calls : FlightOK(c)'
  <2> TAKE c \in Calls
  <2>1. FlightOK(c)
    BY DEF IInv
  <2>2. CASE call[c].pid = p
    <3>1. call'[c] = IdleCall
      BY <1>2, <2>2
    <3> QED BY <3>1, IdleFacts DEF FlightOK
  <2>3. CASE call[c].pid # p
    BY <1>2, <2>1, <2>3 DEF FlightOK
  <2> QED BY <2>2, <2>3
<1>6. \A c, d \in Calls : Exclusive(c, d)'
  BY <1>2, IdleFacts DEF IInv, Exclusive
<1> QED BY <1>1, <1>3, <1>4, <1>5, <1>6 DEF IInv

LEMMA RestartStep ==
  ASSUME IInv, NEW p \in Pids, Restart(p)
  PROVE  IInv'
<1>1. TypeOK /\ TypeOK'
  BY ProcessType DEF IInv
<1>2. /\ p \notin alive /\ alive' = alive \cup {p}
      /\ \A q \in Pids \ {p} : born'[q] = born[q]
      /\ UNCHANGED journal /\ UNCHANGED call /\ UNCHANGED turns /\ UNCHANGED shown
  BY <1>1 DEF Restart, TypeOK
<1>3. \A id \in Ids : RowOK(id)'
  BY <1>2 DEF IInv, RowOK, Decided, SaysDelivered
<1>4. \A c \in Calls : CoreOK(c)'
  <2> SUFFICES ASSUME NEW c \in Calls, call[c].pc = "core" PROVE CoreOK(c)'
    BY <1>2 DEF CoreOK
  <2>1. CoreOK(c) /\ call[c].pid \in Pids \ {p}
    BY <1>1, <1>2 DEF IInv, CoreOK, TypeOK
  <2>2. born'[call[c].pid] = born[call[c].pid]
    BY <1>2, <2>1
  <2> QED BY <1>2, <2>1, <2>2 DEF CoreOK, Open
<1>5. \A c \in Calls : FlightOK(c)'
  BY <1>2 DEF IInv, FlightOK
<1>6. \A c, d \in Calls : Exclusive(c, d)'
  BY <1>2 DEF IInv, Exclusive
<1> QED BY <1>1, <1>3, <1>4, <1>5, <1>6 DEF IInv

-----------------------------------------------------------------------------
LEMMA UnchangedStep == IInv /\ UNCHANGED vars => IInv'
<1> SUFFICES ASSUME IInv, UNCHANGED vars PROVE IInv'
  OBVIOUS
<1>1. /\ UNCHANGED journal /\ UNCHANGED alive /\ UNCHANGED born
      /\ UNCHANGED call /\ UNCHANGED turns /\ UNCHANGED shown
  BY DEF vars
<1>2. TypeOK'
  BY DEF IInv, vars, TypeOK, JournalTypeOK
<1>3. \A id \in Ids : RowOK(id)'
  BY <1>1 DEF IInv, RowOK, Decided, SaysDelivered
<1>4. \A c \in Calls : CoreOK(c)'
  BY <1>1 DEF IInv, CoreOK, Open
<1>5. \A c \in Calls : FlightOK(c)'
  BY <1>1 DEF IInv, FlightOK
<1>6. \A c, d \in Calls : Exclusive(c, d)'
  BY <1>1 DEF IInv, Exclusive
<1> QED BY <1>2, <1>3, <1>4, <1>5, <1>6 DEF IInv

LEMMA NextInv == IInv /\ [Next]_vars => IInv'
<1> SUFFICES ASSUME IInv, [Next]_vars PROVE IInv'
  OBVIOUS
<1> QED
  BY ClaimStep, StartAgentStep, StartSendStep, PublishStep, ConfirmSendStep, LoseSendStep,
     CoreReturnsStep, CoreThrowsStep, ConfirmDeliveryStep, ForgetStep, CrashStep, RestartStep,
     UnchangedStep DEF Next

(* The invariant that the properties below follow from. *)
THEOREM Invariant == Spec => []IInv
  BY InitInv, NextInv, PTL DEF Spec

(* However often the broker redelivers and processes crash, one inbound    *)
(* identity never gets a second agent turn.                                *)
THEOREM OneTurn == Spec => []AtMostOneTurn
<1>1. IInv => AtMostOneTurn
  <2> SUFFICES ASSUME IInv, NEW id \in Ids PROVE turns[id] <= 1
    BY DEF AtMostOneTurn
  <2>1. turns[id] = IF journal[id].agent THEN 1 ELSE 0
    BY DEF IInv, RowOK
  <2> QED BY <2>1
<1> QED BY <1>1, Invariant, PTL

(* Two calls, of one process or of two, never work on one identity at the  *)
(* same time.                                                              *)
THEOREM OneCall == Spec => []OneActiveCall
<1>1. IInv => OneActiveCall
  BY DEF IInv, Exclusive, OneActiveCall
<1> QED BY <1>1, Invariant, PTL

(* The journal never says that a turn is settled, or ready to be ACKed,    *)
(* while one of its sends is unconfirmed, and says "delivered" only of a   *)
(* turn whose peer was shown a reply.                                      *)
THEOREM DecidedConfirmed == Spec => []DecidedSendsConfirmed
<1>1. IInv => DecidedSendsConfirmed
  BY DEF IInv, RowOK, DecidedSendsConfirmed, Decided, SaysDelivered
<1> QED BY <1>1, Invariant, PTL

(* Only the end of its core takes a call from running to returned. *)
LEMMA OnlyTheCoreReturns ==
  ASSUME IInv, [Next]_vars, NEW c \in Calls, call[c].pc = "core", call'[c].pc = "returned"
  PROVE  CoreThrows(c) \/ \E kind \in Kinds : CoreReturns(c, kind)
<1>1. call \in [Calls -> Call]
  BY DEF IInv, TypeOK
<1>2. ASSUME NEW d \in Calls, NEW id \in Ids, NEW fp \in Fingerprints, NEW p \in Pids,
             NEW defer \in BOOLEAN, Claim(d, id, fp, p, defer)
      PROVE  FALSE
  BY <1>1, <1>2 DEF Claim, ClaimNew, ClaimAbandoned, ClaimConflict, ClaimPending, ClaimSettled,
                    Enter, Return
<1>3. ASSUME NEW d \in Calls, StartAgent(d) PROVE FALSE
  BY <1>1, <1>3 DEF StartAgent, Call
<1>4. ASSUME NEW d \in Calls, NEW hash \in Hashes, StartSend(d, hash) PROVE FALSE
  BY <1>1, <1>4 DEF StartSend, Call
<1>5. ASSUME NEW d \in Calls, NEW s \in call[d].flight,
             Publish(d, s) \/ ConfirmSend(d, s) \/ LoseSend(d, s)
      PROVE  FALSE
  BY <1>1, <1>5 DEF Publish, ConfirmSend, LoseSend, Call
<1>6. ASSUME NEW d \in Calls, ConfirmDelivery(d) \/ Forget(d) PROVE FALSE
  BY <1>1, <1>6 DEF ConfirmDelivery, Forget, Call
<1>7. ASSUME NEW p \in Pids, Crash(p) \/ Restart(p) PROVE FALSE
  BY <1>1, <1>7, IdleFacts DEF Crash, Restart
<1>8. ASSUME NEW d \in Calls, CoreThrows(d) \/ \E kind \in Kinds : CoreReturns(d, kind)
      PROVE  d = c
  BY <1>1, <1>8 DEF CoreThrows, Fail, CoreReturns, ReturnAmbiguous, ReturnPrepared, ReturnSettled,
                    ReturnUnsettled, Leave
<1>9. CASE UNCHANGED vars
  BY <1>9 DEF vars
<1> QED BY <1>2, <1>3, <1>4, <1>5, <1>6, <1>7, <1>8, <1>9 DEF Next

(* An answer that invites a redelivery leaves no trace of the call. *)
LEMMA RetryStep ==
  ASSUME IInv, [Next]_vars, NEW c \in Calls,
         call[c].pc = "core", call'[c].pc = "returned", Invites(call'[c].result)
  PROVE  turns[call[c].id] = 0 /\ shown[call[c].id] = 0 /\ journal'[call[c].id] = NoRow
<1>1. PICK id \in Ids : AtCore(c, id)
  BY CoreFacts
<1>2. TypeOK /\ call[c].id = id /\ call \in [Calls -> Call]
  BY <1>1 DEF IInv, TypeOK, AtCore
<1>3. ASSUME NEW result, NEW handle, Leave(c, result, handle)
      PROVE  call'[c].result = result
  BY <1>2, <1>3 DEF Leave, Call
<1>4. CASE NothingStarted(c) /\ ReleaseBeforeSend(call[c].id, call[c].pid)
  BY <1>1, <1>2, <1>4, ReleaseFacts, NothingStartedFacts
<1>5. CASE CoreThrows(c)
  BY <1>3, <1>4, <1>5 DEF CoreThrows, Fail, Invites
<1>6. ASSUME NEW kind \in Kinds, CoreReturns(c, kind)
      PROVE  NothingStarted(c) /\ ReleaseBeforeSend(call[c].id, call[c].pid)
  BY <1>3, <1>6 DEF CoreReturns, ReturnAmbiguous, ReturnPrepared, ReturnSettled, ReturnUnsettled,
                    Escalated, Invites, Kinds, Outcomes
<1> QED BY <1>4, <1>5, <1>6, OnlyTheCoreReturns

(* When a call ends with an answer that lets the broker deliver the        *)
(* message again, its agent did not start, it sent nothing, and its claim  *)
(* is gone.                                                                *)
THEOREM RetryIsClean == Spec => RetryLeavesNoTrace
<1>1. IInv /\ [Next]_vars =>
        [\A c \in Calls :
           call[c].pc = "core" /\ call'[c].pc = "returned" /\ Invites(call'[c].result) =>
             /\ turns[call[c].id] = 0
             /\ shown[call[c].id] = 0
             /\ journal'[call[c].id] = NoRow]_vars
  BY RetryStep
<1> QED BY <1>1, Invariant, PTL DEF Spec, RetryLeavesNoTrace

-----------------------------------------------------------------------------
(* No claim is stranded. *)

Owned(id) == \E c \in Calls : call[c].pc = "core" /\ call[c].id = id

(* A claim names a process and a start time that process has reached; one  *)
(* whose call is gone names a process that is gone, too.  The bound on the *)
(* start time is what makes a reused process id, which has a later start,  *)
(* differ from the owner's.                                                *)
ClaimOK(id) ==
  LET row == journal[id] IN
  Untouched(row) =>
    /\ row.pid \in Pids
    /\ row.start # Null => row.start <= born[row.pid]
    /\ \/ Owned(id)
       \/ row.start = Null
       \/ row.pid \notin alive
       \/ row.start # born[row.pid]

ClaimsOK == \A id \in Ids : ClaimOK(id)

LEMMA InitClaims == Init => ClaimsOK
  BY DEF Init, JournalInit, ClaimsOK, ClaimOK, Untouched, NoRow

(* The call that holds a claim vouches for it. *)
LEMMA OwnedClaim ==
  ASSUME IInv', NEW id \in Ids, Owned(id)'
  PROVE  ClaimOK(id)'
<1>1. PICK c \in Calls : call'[c].pc = "core" /\ call'[c].id = id
  BY DEF Owned
<1>2. TypeOK' /\ CoreOK(c)'
  BY DEF IInv
<1>3. /\ journal'[id].pid \in alive'
      /\ journal'[id].start \in {Null, born'[journal'[id].pid]}
  BY <1>1, <1>2 DEF CoreOK
<1>4. journal'[id].pid \in Pids /\ born'[journal'[id].pid] \in Nat
  BY <1>2, <1>3 DEF TypeOK
<1> QED BY <1>3, <1>4 DEF ClaimOK

(* A claim that a step leaves alone, together with its call. *)
LEMMA SameClaim ==
  ASSUME NEW id \in Ids, ClaimOK(id), journal'[id] = journal[id],
         UNCHANGED alive, UNCHANGED born, Owned(id) => Owned(id)'
  PROVE  ClaimOK(id)'
  BY DEF ClaimOK, Untouched

LEMMA TouchedRow ==
  ASSUME NEW id \in Ids, ~Untouched(journal'[id])
  PROVE  ClaimOK(id)'
  BY DEF ClaimOK, Untouched

(* A step of a running call on its own row that does not end the call. *)
LEMMA RunningClaims ==
  ASSUME IInv, IInv', ClaimsOK, NEW c \in Calls, NEW new, call[c].pc = "core",
         call' = [call EXCEPT ![c] = new], new.pc = "core", new.id = call[c].id,
         \A i \in Ids \ {call[c].id} : journal'[i] = journal[i],
         UNCHANGED alive, UNCHANGED born
  PROVE  ClaimsOK'
<1>1. call'[c] = new /\ \A d \in Calls \ {c} : call'[d] = call[d]
  BY DEF IInv, TypeOK
<1>2. ASSUME NEW id PROVE Owned(id) => Owned(id)'
  BY <1>1 DEF Owned
<1>3. Owned(call[c].id)'
  BY <1>1 DEF Owned
<1>4. ASSUME NEW id \in Ids PROVE ClaimOK(id)'
  <2>1. CASE id = call[c].id
    BY <1>3, <2>1, OwnedClaim
  <2>2. CASE id # call[c].id
    BY <1>2, <2>2, SameClaim DEF ClaimsOK
  <2> QED BY <2>1, <2>2
<1> QED BY <1>4 DEF ClaimsOK

(* A step that neither touches a row nor ends or moves a running call. *)
LEMMA QuietClaims ==
  ASSUME ClaimsOK, UNCHANGED journal, UNCHANGED alive, UNCHANGED born,
         \A d \in Calls : call[d].pc = "core" => call'[d].pc = "core" /\ call'[d].id = call[d].id
  PROVE  ClaimsOK'
<1>1. ASSUME NEW id PROVE Owned(id) => Owned(id)'
  BY DEF Owned
<1>2. ASSUME NEW id \in Ids PROVE ClaimOK(id)'
  BY <1>1, SameClaim DEF ClaimsOK
<1> QED BY <1>2 DEF ClaimsOK

LEMMA StartAgentClaims ==
  ASSUME IInv, IInv', ClaimsOK, NEW c \in Calls, StartAgent(c)
  PROVE  ClaimsOK'
<1> DEFINE new == [call[c] EXCEPT !.agent = TRUE]
<1>1. call' = [call EXCEPT ![c] = new] /\ call[c].pc = "core"
  BY DEF IInv, TypeOK, StartAgent
<1>2. new.pc = "core" /\ new.id = call[c].id
  BY <1>1, CallsType DEF IInv, Call
<1>3. \A i \in Ids \ {call[c].id} : journal'[i] = journal[i]
  BY DEF IInv, TypeOK, JournalTypeOK, StartAgent, MarkAgentStarted
<1>4. UNCHANGED alive /\ UNCHANGED born
  BY DEF StartAgent
<1> HIDE DEF new
<1> QED BY <1>1, <1>2, <1>3, <1>4, RunningClaims

LEMMA StartSendClaims ==
  ASSUME IInv, IInv', ClaimsOK, NEW c \in Calls, NEW hash \in Hashes, StartSend(c, hash)
  PROVE  ClaimsOK'
<1> DEFINE n == call[c].started + 1
           flight == call[c].flight \cup {[n |-> n, hash |-> hash]}
           new == [call[c] EXCEPT !.started = n, !.flight = flight]
<1>1. call' = [call EXCEPT ![c] = new] /\ call[c].pc = "core"
  BY DEF IInv, TypeOK, StartSend
<1>2. new.pc = "core" /\ new.id = call[c].id
  BY <1>1, CallsType DEF IInv, Call
<1>3. \A i \in Ids \ {call[c].id} : journal'[i] = journal[i]
  BY DEF IInv, TypeOK, JournalTypeOK, StartSend, SendStarted
<1>4. UNCHANGED alive /\ UNCHANGED born
  BY DEF StartSend
<1> HIDE DEF new
<1> QED BY <1>1, <1>2, <1>3, <1>4, RunningClaims

LEMMA ConfirmSendClaims ==
  ASSUME IInv, IInv', ClaimsOK, NEW c \in Calls, NEW s \in call[c].flight, ConfirmSend(c, s)
  PROVE  ClaimsOK'
<1> DEFINE confirmed == call[c].confirmed + 1
           flight == call[c].flight \ {s}
           new == [call[c] EXCEPT !.confirmed = confirmed, !.flight = flight]
<1>1. call' = [call EXCEPT ![c] = new] /\ call[c].pc = "core"
  BY DEF IInv, TypeOK, ConfirmSend
<1>2. new.pc = "core" /\ new.id = call[c].id
  BY <1>1, CallsType DEF IInv, Call
<1>3. \A i \in Ids \ {call[c].id} : journal'[i] = journal[i]
  BY DEF IInv, TypeOK, JournalTypeOK, ConfirmSend, SendConfirmed
<1>4. UNCHANGED alive /\ UNCHANGED born
  BY DEF ConfirmSend
<1> HIDE DEF new
<1> QED BY <1>1, <1>2, <1>3, <1>4, RunningClaims

LEMMA PublishOrLoseClaims ==
  ASSUME IInv, ClaimsOK, NEW c \in Calls, NEW s \in call[c].flight, Publish(c, s) \/ LoseSend(c, s)
  PROVE  ClaimsOK'
<1>1. \A d \in Calls : call'[d].pc = call[d].pc /\ call'[d].id = call[d].id
  BY DEF IInv, TypeOK, Call, Publish, LoseSend
<1> QED BY <1>1, QuietClaims DEF Publish, LoseSend

LEMMA ForgetClaims ==
  ASSUME IInv, ClaimsOK, NEW c \in Calls, Forget(c)
  PROVE  ClaimsOK'
<1>1. \A d \in Calls : call[d].pc = "core" => call'[d] = call[d]
  BY DEF IInv, TypeOK, Forget
<1> QED BY <1>1, QuietClaims DEF Forget

(* The end of a call releases its claim, or leaves a row that is touched.  *)
LEMMA LeaveClaims ==
  ASSUME IInv, ClaimsOK, NEW c \in Calls, NEW id \in Ids, call[c].id = id,
         NEW result, NEW handle, Leave(c, result, handle),
         \A i \in Ids \ {id} : journal'[i] = journal[i], ~Untouched(journal'[id]),
         UNCHANGED alive, UNCHANGED born
  PROVE  ClaimsOK'
<1>1. \A d \in Calls \ {c} : call'[d] = call[d]
  BY DEF IInv, TypeOK, Leave
<1>2. ASSUME NEW i \in Ids \ {id} PROVE Owned(i) => Owned(i)'
  BY <1>1 DEF Owned
<1>3. ASSUME NEW i \in Ids PROVE ClaimOK(i)'
  <2>1. CASE i = id
    BY <2>1, TouchedRow
  <2>2. CASE i # id
    BY <1>2, <2>2, SameClaim DEF ClaimsOK
  <2> QED BY <2>1, <2>2
<1> QED BY <1>3 DEF ClaimsOK

LEMMA NoRowTouched == ~Untouched(NoRow)
  BY DEF Untouched, NoRow

LEMMA ClosedTouched ==
  ASSUME NEW row, row.status \notin Open
  PROVE  ~Untouched(row)
  BY DEF Untouched, Open

LEMMA StartedTouched ==
  ASSUME NEW c \in Calls, NEW id \in Ids, AtCore(c, id), ~NothingStarted(c)
  PROVE  ~Untouched(journal[id])
  BY DEF AtCore, NothingStarted, Untouched

LEMMA CoreReturnsClaims ==
  ASSUME IInv, ClaimsOK, NEW c \in Calls, NEW kind \in Kinds, CoreReturns(c, kind)
  PROVE  ClaimsOK'
<1>1. TypeOK
  BY DEF IInv
<1>2. PICK id \in Ids : AtCore(c, id)
  BY CoreFacts DEF CoreReturns
<1>3. call[c].id = id
  BY <1>2 DEF AtCore
<1>4. UNCHANGED alive /\ UNCHANGED born /\ (call[c].agent \/ kind \in {"no-reply", "ambiguous"})
  BY DEF CoreReturns
<1>5. CASE ReturnAmbiguous(c, kind)
  <2>1. ~NothingStarted(c)
    BY <1>4, <1>5 DEF ReturnAmbiguous, Escalated, NothingStarted
  <2> QED BY <1>2, <1>3, <1>4, <1>5, <2>1, StartedTouched, LeaveClaims DEF ReturnAmbiguous
<1>6. ASSUME NEW status, status \notin Open, journal' = [journal EXCEPT ![id].status = status]
      PROVE  ~Untouched(journal'[id]) /\ \A i \in Ids \ {id} : journal'[i] = journal[i]
  <2>1. journal[id] \in Row /\ journal'[id] = [journal[id] EXCEPT !.status = status]
    BY <1>1, <1>6 DEF TypeOK, JournalTypeOK
  <2>2. journal'[id].status = status
    BY <2>1 DEF Row
  <2> QED BY <1>1, <1>6, <2>2, ClosedTouched DEF TypeOK, JournalTypeOK
<1>7. kind \in Outcomes => kind \notin Open /\ AckPending(kind) \notin Open
  BY DEF Outcomes, Open, AckPending
<1>8. CASE ReturnPrepared(c, kind)
  BY <1>3, <1>4, <1>6, <1>7, <1>8, LeaveClaims DEF ReturnPrepared, PrepareSettlement
<1>9. CASE ReturnSettled(c, kind)
  BY <1>3, <1>4, <1>6, <1>7, <1>9, LeaveClaims DEF ReturnSettled, Settle
<1>10. CASE ReturnUnsettled(c, kind)
  <2>1. CASE NothingStarted(c)
    BY <1>1, <1>2, <1>3, <1>4, <1>10, <2>1, ReleaseFacts, NoRowTouched, LeaveClaims
       DEF ReturnUnsettled
  <2>2. CASE ~NothingStarted(c)
    BY <1>2, <1>3, <1>4, <1>10, <2>2, StartedTouched, LeaveClaims DEF ReturnUnsettled
  <2> QED BY <2>1, <2>2
<1> QED BY <1>5, <1>8, <1>9, <1>10 DEF CoreReturns

LEMMA CoreThrowsClaims ==
  ASSUME IInv, ClaimsOK, NEW c \in Calls, CoreThrows(c)
  PROVE  ClaimsOK'
<1>1. PICK id \in Ids : AtCore(c, id)
  BY CoreFacts DEF CoreThrows
<1>2. TypeOK /\ call[c].id = id /\ UNCHANGED alive /\ UNCHANGED born
  BY <1>1 DEF IInv, AtCore, CoreThrows
<1>3. CASE NothingStarted(c)
  BY <1>1, <1>2, <1>3, ReleaseFacts, NoRowTouched, LeaveClaims DEF CoreThrows, Fail
<1>4. CASE ~NothingStarted(c)
  BY <1>1, <1>2, <1>4, StartedTouched, LeaveClaims DEF CoreThrows, Fail
<1> QED BY <1>3, <1>4

LEMMA ConfirmDeliveryClaims ==
  ASSUME IInv, ClaimsOK, NEW c \in Calls, ConfirmDelivery(c)
  PROVE  ClaimsOK'
<1> DEFINE id == call[c].id
           outcome == call[c].handle
<1>1. /\ journal \in [Ids -> Row] /\ call \in [Calls -> Call] /\ outcome \in Outcomes
      /\ journal' = [journal EXCEPT ![id].status = outcome]
      /\ UNCHANGED alive /\ UNCHANGED born
  BY DEF IInv, TypeOK, JournalTypeOK, Call, ConfirmDelivery, ConfirmPreparedSettlement
<1>2. \A d \in Calls : call'[d].pc = call[d].pc /\ call'[d].id = call[d].id
  BY <1>1 DEF Call, ConfirmDelivery
<1>3. ASSUME NEW i PROVE Owned(i) => Owned(i)'
  BY <1>2 DEF Owned
<1>4. ASSUME NEW i \in Ids PROVE ClaimOK(i)'
  <2>1. CASE i = id
    <3>1. journal'[i] = [journal[i] EXCEPT !.status = outcome] /\ journal[i] \in Row
      BY <1>1, <2>1
    <3>2. journal'[i].status = outcome
      BY <3>1 DEF Row
    <3>3. outcome \notin Open
      BY <1>1 DEF Outcomes, Open
    <3> QED BY <3>2, <3>3, ClosedTouched, TouchedRow
  <2>2. CASE i # id
    BY <1>1, <1>3, <2>2, SameClaim DEF ClaimsOK
  <2> QED BY <2>1, <2>2
<1> QED BY <1>4 DEF ClaimsOK

(* A call that starts gets the claim it stores; the others keep theirs.    *)
LEMMA ClaimClaims ==
  ASSUME IInv, IInv', ClaimsOK, NEW c \in Calls, NEW id \in Ids, NEW fp \in Fingerprints,
         NEW p \in Pids, NEW defer \in BOOLEAN, Claim(c, id, fp, p, defer)
  PROVE  ClaimsOK'
<1>1. /\ call \in [Calls -> Call] /\ journal \in [Ids -> Row] /\ call[c].pc = "idle"
      /\ UNCHANGED alive /\ UNCHANGED born
  BY DEF IInv, TypeOK, JournalTypeOK, Claim
<1>2. CASE Enter(c, id, p, defer) /\ \A i \in Ids \ {id} : journal'[i] = journal[i]
  <2>1. /\ call'[c].pc = "core" /\ call'[c].id = id
        /\ \A d \in Calls \ {c} : call'[d] = call[d]
    BY <1>1, <1>2 DEF Enter, IdleCall
  <2>2. ASSUME NEW i PROVE Owned(i) => Owned(i)'
    BY <1>1, <2>1 DEF Owned
  <2>3. Owned(id)'
    BY <2>1 DEF Owned
  <2>4. ASSUME NEW i \in Ids PROVE ClaimOK(i)'
    <3>1. CASE i = id
      BY <2>3, <3>1, OwnedClaim
    <3>2. CASE i # id
      BY <1>1, <1>2, <2>2, <3>2, SameClaim DEF ClaimsOK
    <3> QED BY <3>1, <3>2
  <2> QED BY <2>4 DEF ClaimsOK
<1>3. ASSUME NEW result, NEW handle, Return(c, id, p, result, handle), UNCHANGED journal
      PROVE  ClaimsOK'
  <2>1. \A d \in Calls : call[d].pc = "core" => call'[d] = call[d]
    BY <1>1, <1>3 DEF Return
  <2> QED BY <1>1, <1>3, <2>1, QuietClaims
<1>4. ASSUME NEW start, ClaimNew(c, id, fp, p, start, defer) \/ ClaimAbandoned(c, id, fp, p, start, defer)
      PROVE  ClaimsOK'
  BY <1>1, <1>2, <1>4 DEF ClaimNew, ClaimAbandoned, InsertClaim, RecoverClaim
<1> QED BY <1>3, <1>4 DEF Claim, ClaimConflict, ClaimPending, ClaimSettled

(* The calls a crash ends leave claims of a process that is gone. *)
LEMMA CrashClaims ==
  ASSUME IInv, ClaimsOK, NEW p \in Pids, Crash(p)
  PROVE  ClaimsOK'
<1>1. /\ alive' = alive \ {p} /\ UNCHANGED journal /\ UNCHANGED born
      /\ \A c \in Calls : call'[c] = IF call[c].pid = p THEN IdleCall ELSE call[c]
  BY DEF Crash
<1>2. ASSUME NEW id \in Ids PROVE ClaimOK(id)'
  <2>1. CASE Owned(id)
    <3>1. PICK c \in Calls : call[c].pc = "core" /\ call[c].id = id
      BY <2>1 DEF Owned
    <3>2. CoreOK(c)
      BY DEF IInv
    <3>3. journal[id].pid = call[c].pid
      BY <3>1, <3>2 DEF CoreOK
    <3>4. CASE call[c].pid = p
      BY <1>1, <3>3, <3>4 DEF ClaimsOK, ClaimOK, Untouched
    <3>5. CASE call[c].pid # p
      <4>1. Owned(id)'
        BY <1>1, <3>1, <3>5 DEF Owned
      <4> QED BY <1>1, <4>1 DEF ClaimsOK, ClaimOK, Untouched
    <3> QED BY <3>4, <3>5
  <2>2. CASE ~Owned(id)
    BY <1>1, <2>2 DEF ClaimsOK, ClaimOK, Untouched
  <2> QED BY <2>1, <2>2
<1> QED BY <1>2 DEF ClaimsOK

(* A process that takes over a process id starts later than its owner.     *)
LEMMA RestartClaims ==
  ASSUME IInv, ClaimsOK, NEW p \in Pids, Restart(p)
  PROVE  ClaimsOK'
<1>1. /\ alive' = alive \cup {p} /\ UNCHANGED journal /\ UNCHANGED call
      /\ born \in [Pids -> Nat] /\ born' = [born EXCEPT ![p] = @ + 1]
  BY DEF IInv, TypeOK, Restart
<1>2. ASSUME NEW id \in Ids, Untouched(journal[id])
      PROVE  /\ journal[id].pid \in Pids
             /\ journal[id].start # Null => journal[id].start <= born'[journal[id].pid]
             /\ \/ Owned(id)
                \/ journal[id].start = Null
                \/ journal[id].pid \notin alive'
                \/ journal[id].start # born'[journal[id].pid]
  <2> DEFINE q == journal[id].pid
             start == journal[id].start
  <2>1. ClaimOK(id)
    BY DEF ClaimsOK
  <2>2. /\ q \in Pids
        /\ start # Null => start <= born[q]
        /\ Owned(id) \/ start = Null \/ q \notin alive \/ start # born[q]
    BY <1>2, <2>1 DEF ClaimOK
  <2>3. start \in Nat \cup {Null}
    BY DEF IInv, TypeOK, JournalTypeOK, Row
  <2>4. /\ born[q] \in Nat
        /\ born'[q] = IF q = p THEN born[q] + 1 ELSE born[q]
        /\ q \notin alive /\ q # p => q \notin alive'
    BY <1>1, <2>2
  <2> HIDE DEF q, start
  <2>5. ASSUME start # Null
        PROVE  start <= born'[q] /\ (q = p => start # born'[q])
    <3> DEFINE then == born[q]
               now == born'[q]
    <3>1. start \in Nat /\ then \in Nat /\ start <= then
      BY <2>2, <2>3, <2>4, <2>5
    <3>2. now = then \/ now = then + 1
      BY <2>4
    <3>3. q = p => now = then + 1
      BY <2>4
    <3> HIDE DEF then, now
    <3>4. start <= now /\ (q = p => start # now)
      BY <3>1, <3>2, <3>3
    <3> QED BY <3>4 DEF now
  <2>6. CASE start = Null \/ q = p \/ Owned(id)
    BY <2>2, <2>5, <2>6, Zenon DEF q, start
  <2>7. CASE q # p
    BY <2>2, <2>4, <2>5, <2>7, Zenon DEF q, start
  <2> QED BY <2>6, <2>7
<1>3. ASSUME NEW id \in Ids PROVE ClaimOK(id)'
  <2>1. journal'[id] = journal[id] /\ Owned(id)' = Owned(id)
    BY <1>1 DEF Owned
  <2>2. Untouched(journal'[id]) = Untouched(journal[id])
    BY <1>1
  <2> QED BY <1>2, <2>1, <2>2 DEF ClaimOK
<1> QED BY <1>3 DEF ClaimsOK

LEMMA NextClaims == IInv /\ ClaimsOK /\ [Next]_vars => ClaimsOK'
<1> SUFFICES ASSUME IInv, ClaimsOK, [Next]_vars PROVE ClaimsOK'
  OBVIOUS
<1>1. IInv'
  BY NextInv
<1>2. CASE UNCHANGED vars
  BY <1>2, QuietClaims DEF vars
<1> QED
  BY <1>1, <1>2, ClaimClaims, StartAgentClaims, StartSendClaims, PublishOrLoseClaims,
     ConfirmSendClaims, CoreReturnsClaims, CoreThrowsClaims, ConfirmDeliveryClaims, ForgetClaims,
     CrashClaims, RestartClaims DEF Next

(* A claim whose call died before the agent started never strands its      *)
(* message: whoever can read the start time of the process that has the    *)
(* owner's id now finds the claim recoverable, also when that id is in use *)
(* again, provided the claim recorded its owner's start time.              *)
THEOREM ClaimsAreRecoverable == Spec => []NoStrandedClaim
<1>1. IInv /\ ClaimsOK => NoStrandedClaim
  <2> SUFFICES ASSUME IInv, ClaimsOK, NEW id \in Ids, Untouched(journal[id]),
                      journal[id].start # Null, ~Owned(id)
               PROVE  Recoverable(id, journal[id].pid \in alive, born[journal[id].pid])
    BY DEF NoStrandedClaim, Owned
  <2>1. /\ journal[id].pid \in Pids
        /\ journal[id].pid \notin alive \/ journal[id].start # born[journal[id].pid]
    BY DEF ClaimsOK, ClaimOK
  <2>2. born[journal[id].pid] # Null
    BY <2>1 DEF IInv, TypeOK
  <2> QED BY <2>1, <2>2 DEF Recoverable, OwnerAlive
<1>2. Spec => []ClaimsOK
  BY InitClaims, NextClaims, Invariant, PTL DEF Spec
<1> QED BY <1>1, <1>2, Invariant, PTL

-----------------------------------------------------------------------------
(* The dispatch implements InboundTurn. *)

verdicts == [id \in Ids |-> Verdict(journal[id].status)]

LEMMA VerdictOf ==
  /\ Verdict("absent") = "open" /\ Verdict("processing") = "open" /\ Verdict("pending") = "open"
  /\ \A o \in Outcomes : Verdict(o) = o /\ Verdict(AckPending(o)) = o
  BY DEF Verdict, Outcomes, AckPending

(* A step that shows nothing of itself to InboundTurn. *)
Silent ==
  /\ UNCHANGED turns /\ UNCHANGED shown
  /\ \A id \in Ids : Verdict(journal'[id].status) = Verdict(journal[id].status)

LEMMA SilentStep == Silent => UNCHANGED <<turns, shown, verdicts>>
  BY DEF Silent, verdicts

LEMMA RefinesInit == Init => Turn!Init
  BY VerdictOf DEF Init, JournalInit, NoRow, Turn!Init

LEMMA RefinesClaim ==
  ASSUME IInv, NEW c \in Calls, NEW id \in Ids, NEW fp \in Fingerprints,
         NEW p \in Pids, NEW defer \in BOOLEAN, Claim(c, id, fp, p, defer)
  PROVE  Silent
<1>1. journal \in [Ids -> Row] /\ UNCHANGED turns /\ UNCHANGED shown
  BY DEF IInv, TypeOK, JournalTypeOK, Claim
<1>2. CASE UNCHANGED journal
  BY <1>1, <1>2 DEF Silent
<1>3. ASSUME NEW start, InsertClaim(id, fp, p, start)
      PROVE  Silent
  <2>1. journal[id].status = "absent" /\ journal'[id].status = "processing"
        /\ \A i \in Ids \ {id} : journal'[i] = journal[i]
    BY <1>1, <1>3 DEF InsertClaim, Exists, NoRow
  <2> QED BY <1>1, <2>1, VerdictOf DEF Silent
<1>4. ASSUME NEW start, NEW exists, NEW observed, RecoverClaim(id, fp, p, start, exists, observed)
      PROVE  Silent
  <2>1. \A i \in Ids : journal'[i].status = journal[i].status
    BY <1>1, <1>4 DEF RecoverClaim, Row
  <2> QED BY <1>1, <2>1 DEF Silent
<1> QED BY <1>2, <1>3, <1>4 DEF Claim, ClaimNew, ClaimAbandoned, ClaimConflict, ClaimPending,
                                ClaimSettled

LEMMA RefinesStartAgent ==
  ASSUME IInv, NEW c \in Calls, StartAgent(c)
  PROVE  Turn!Next
<1>1. PICK id \in Ids : AtCore(c, id)
  BY CoreFacts DEF StartAgent
<1>2. journal \in [Ids -> Row] /\ turns \in [Ids -> Nat] /\ id = call[c].id
  BY <1>1 DEF IInv, TypeOK, JournalTypeOK, AtCore
<1>3. journal[id].status = "processing" /\ journal[id].agent = FALSE
  BY <1>1, <1>2 DEF StartAgent, MarkAgentStarted, Row
<1>4. turns[id] = 0 /\ turns' = [turns EXCEPT ![id] = 1] /\ UNCHANGED shown
  BY <1>1, <1>2, <1>3 DEF AtCore, RowOK, StartAgent
<1>5. \A i \in Ids : journal'[i].status = journal[i].status
  BY <1>2 DEF StartAgent, MarkAgentStarted, Row
<1>6. UNCHANGED verdicts /\ verdicts[id] = "open"
  BY <1>3, <1>5, VerdictOf DEF verdicts
<1>7. Turn!Begin(id)
  BY <1>4, <1>6 DEF Turn!Begin, verdicts
<1> QED BY <1>7 DEF Turn!Next

LEMMA RefinesPublish ==
  ASSUME IInv, NEW c \in Calls, NEW s \in call[c].flight, Publish(c, s)
  PROVE  Turn!Next
<1>1. PICK id \in Ids : /\ id = call[c].id
                        /\ RowOK(id)
                        /\ journal[id].status = "pending" /\ journal[id].agent = TRUE
  BY FlightFacts
<1>2. turns[id] = 1 /\ shown' = [shown EXCEPT ![id] = @ + 1] /\ UNCHANGED turns
  BY <1>1 DEF RowOK, Publish
<1>3. UNCHANGED verdicts /\ verdicts[id] = "open"
  BY <1>1, VerdictOf DEF verdicts, Publish
<1>4. Turn!Show(id)
  BY <1>2, <1>3 DEF Turn!Show, verdicts
<1> QED BY <1>4 DEF Turn!Next

LEMMA RefinesDecision ==
  ASSUME IInv, NEW c \in Calls, NEW id \in Ids, AtCore(c, id), NEW kind \in Outcomes,
         ~Escalated(c, kind),
         NEW status, status = kind \/ status = AckPending(kind),
         journal' = [journal EXCEPT ![id].status = status],
         UNCHANGED turns, UNCHANGED shown
  PROVE  Turn!Next
<1>1. journal \in [Ids -> Row] /\ turns \in [Ids -> Nat] /\ shown \in [Ids -> Nat]
  BY DEF IInv, TypeOK, JournalTypeOK
<1>2. verdicts[id] = "open"
  BY VerdictOf DEF AtCore, CoreOK, Open, verdicts
<1>3. verdicts' = [verdicts EXCEPT ![id] = kind]
  <2>1. journal'[id].status = status /\ \A i \in Ids \ {id} : journal'[i] = journal[i]
    BY <1>1 DEF Row
  <2>2. Verdict(status) = kind
    BY VerdictOf
  <2>3. \A i \in Ids : Verdict(journal'[i].status) = IF i = id THEN kind ELSE verdicts[i]
    BY <2>1, <2>2 DEF verdicts
  <2>4. verdicts' = [i \in Ids |-> IF i = id THEN kind ELSE verdicts[i]]
    BY <2>3 DEF verdicts
  <2>5. [verdicts EXCEPT ![id] = kind] = [i \in Ids |-> IF i = id THEN kind ELSE verdicts[i]]
    BY DEF verdicts
  <2> QED BY <2>4, <2>5
<1>4. kind = "delivered" => turns[id] = 1 /\ shown[id] > 0
  <2> SUFFICES ASSUME kind = "delivered" PROVE turns[id] = 1 /\ shown[id] > 0
    OBVIOUS
  <2>1. journal[id].confirmed > 0
    BY OutcomeBalanced
  <2> QED BY <2>1 DEF AtCore, RowOK
<1>5. Turn!Decide(id, kind)
  BY <1>2, <1>3, <1>4 DEF Turn!Decide, verdicts
<1> QED BY <1>5 DEF Turn!Next, Turn!Verdicts, Outcomes

LEMMA RefinesRelease ==
  ASSUME IInv, NEW c \in Calls, NEW id \in Ids, AtCore(c, id), NothingStarted(c),
         ReleaseBeforeSend(call[c].id, call[c].pid), UNCHANGED turns, UNCHANGED shown
  PROVE  Silent
<1>1. journal'[id] = NoRow /\ \A i \in Ids \ {id} : journal'[i] = journal[i]
  BY ReleaseFacts DEF IInv
<1>2. NoRow.status = "absent"
  BY DEF NoRow
<1>3. Verdict(journal[id].status) = "open"
  BY VerdictOf DEF AtCore, CoreOK, Open
<1> QED BY <1>1, <1>2, <1>3, VerdictOf DEF Silent

LEMMA RefinesCoreReturns ==
  ASSUME IInv, NEW c \in Calls, NEW kind \in Kinds, CoreReturns(c, kind)
  PROVE  Turn!Next \/ Silent
<1>1. PICK id \in Ids : AtCore(c, id)
  BY CoreFacts DEF CoreReturns
<1>2. call[c].id = id /\ UNCHANGED turns /\ UNCHANGED shown
  BY <1>1 DEF AtCore, CoreReturns
<1>3. CASE ReturnAmbiguous(c, kind)
  BY <1>2, <1>3 DEF ReturnAmbiguous, Silent
<1>4. CASE ReturnPrepared(c, kind)
  BY <1>1, <1>2, <1>4, RefinesDecision DEF ReturnPrepared, PrepareSettlement
<1>5. CASE ReturnSettled(c, kind)
  BY <1>1, <1>2, <1>5, RefinesDecision DEF ReturnSettled, Settle
<1>6. CASE ReturnUnsettled(c, kind)
  <2>1. CASE NothingStarted(c)
    BY <1>1, <1>2, <1>6, <2>1, RefinesRelease DEF ReturnUnsettled
  <2>2. CASE ~NothingStarted(c)
    BY <1>2, <1>6, <2>2 DEF ReturnUnsettled, Silent
  <2> QED BY <2>1, <2>2
<1> QED BY <1>3, <1>4, <1>5, <1>6 DEF CoreReturns

LEMMA RefinesCoreThrows ==
  ASSUME IInv, NEW c \in Calls, CoreThrows(c)
  PROVE  Silent
<1>1. PICK id \in Ids : AtCore(c, id)
  BY CoreFacts DEF CoreThrows
<1>2. UNCHANGED turns /\ UNCHANGED shown
  BY DEF CoreThrows
<1>3. CASE NothingStarted(c)
  BY <1>1, <1>2, <1>3, RefinesRelease DEF CoreThrows, Fail
<1>4. CASE ~NothingStarted(c)
  BY <1>2, <1>4 DEF CoreThrows, Fail, Silent
<1> QED BY <1>3, <1>4

LEMMA RefinesConfirmDelivery ==
  ASSUME IInv, NEW c \in Calls, ConfirmDelivery(c)
  PROVE  Silent
<1>1. call[c] \in Call /\ FlightOK(c) /\ journal \in [Ids -> Row]
  BY DEF IInv, TypeOK, JournalTypeOK
<1>2. PICK id \in Ids : id = call[c].id
  BY <1>1 DEF FlightOK, ConfirmDelivery
<1>3. PICK o \in Outcomes : o = call[c].handle
  BY <1>1 DEF ConfirmDelivery, Call
<1>4. journal[id].status = AckPending(o) /\ journal' = [journal EXCEPT ![id].status = o]
  BY <1>2, <1>3 DEF ConfirmDelivery, ConfirmPreparedSettlement
<1>5. journal'[id].status = o /\ \A i \in Ids \ {id} : journal'[i] = journal[i]
  BY <1>1, <1>4 DEF Row
<1> QED BY <1>4, <1>5, VerdictOf DEF Silent, ConfirmDelivery

LEMMA RefinesSends ==
  ASSUME IInv, NEW c \in Calls,
         \/ \E hash \in Hashes : StartSend(c, hash)
         \/ \E s \in call[c].flight : ConfirmSend(c, s) \/ LoseSend(c, s)
  PROVE  Silent
<1>1. journal \in [Ids -> Row]
  BY DEF IInv, TypeOK, JournalTypeOK
<1>2. ASSUME NEW hash \in Hashes, StartSend(c, hash)
      PROVE  Silent
  <2>1. PICK id \in Ids : AtCore(c, id)
    BY <1>2, CoreFacts DEF StartSend
  <2>2. journal'[id].status = "pending" /\ \A i \in Ids \ {id} : journal'[i] = journal[i]
    BY <1>1, <1>2, <2>1, ZenonT(60) DEF StartSend, SendStarted, AtCore, Row
  <2>3. Verdict(journal[id].status) = "open"
    BY <2>1, VerdictOf DEF AtCore, CoreOK, Open
  <2> QED BY <1>2, <2>2, <2>3, VerdictOf DEF Silent, StartSend
<1>3. ASSUME NEW s \in call[c].flight, ConfirmSend(c, s)
      PROVE  Silent
  <2>1. \A i \in Ids : journal'[i].status = journal[i].status
    BY <1>1, <1>3 DEF ConfirmSend, SendConfirmed, Row
  <2> QED BY <1>3, <2>1 DEF Silent, ConfirmSend
<1>4. ASSUME NEW s \in call[c].flight, LoseSend(c, s)
      PROVE  Silent
  BY <1>4 DEF LoseSend, Silent
<1> QED BY <1>2, <1>3, <1>4

LEMMA RefinesNext == IInv /\ [Next]_vars => [Turn!Next]_(Turn!turnVars)
<1> SUFFICES ASSUME IInv, [Next]_vars PROVE [Turn!Next]_(Turn!turnVars)
  OBVIOUS
<1>1. Silent => UNCHANGED Turn!turnVars
  BY SilentStep DEF Turn!turnVars, verdicts
<1>2. CASE UNCHANGED vars
  BY <1>1, <1>2 DEF vars, Silent
<1>3. ASSUME NEW c \in Calls, Forget(c) PROVE Silent
  BY <1>3 DEF Forget, Silent
<1>4. ASSUME NEW p \in Pids, Crash(p) \/ Restart(p) PROVE Silent
  BY <1>4 DEF Crash, Restart, Silent
<1> QED
  BY <1>1, <1>2, <1>3, <1>4, RefinesClaim, RefinesStartAgent, RefinesPublish, RefinesSends,
     RefinesCoreReturns, RefinesCoreThrows, RefinesConfirmDelivery DEF Next

(* Every behaviour of the dispatch is a behaviour of InboundTurn: one turn *)
(* per identity, replies only during it and before the verdict, a verdict  *)
(* that is never taken back.                                               *)
THEOREM DispatchImplementsInboundTurn == Spec => ImplementsInboundTurn
  BY Invariant, RefinesInit, RefinesNext, PTL DEF Spec, ImplementsInboundTurn, Turn!Spec

-----------------------------------------------------------------------------
(* The consumer of RabbitInbound, whose steps are steps of the dispatch.   *)

USE RabbitAssumption

(* The journal never takes back an outcome, nor gives a row another        *)
(* fingerprint while it exists.                                            *)

Lasts(id) ==
  /\ Decided(id) => Decided(id)' /\ journal'[id].fp = journal[id].fp
  /\ Exists(id) /\ Exists(id)' => journal'[id].fp = journal[id].fp

LEMMA StatusSets ==
  /\ Outcomes = {"delivered", "no-reply"} /\ Open = {"processing", "pending"}
  /\ Prepared = {"ack-pending-delivered", "ack-pending-no-reply"}
  /\ \A o \in Outcomes : AckPending(o) \in Prepared
<1> QED BY PreparedStates DEF Outcomes, Open

LEMMA ClaimLasts ==
  ASSUME IInv, NEW id \in Ids, NEW c \in Calls, NEW x \in Ids, NEW fp, NEW p, NEW defer,
         Claim(c, x, fp, p, defer)
  PROVE  Lasts(id)
<1>0. journal \in [Ids -> Row]
  BY DEF IInv, TypeOK, JournalTypeOK
<1>1. ASSUME NEW start, InsertClaim(x, fp, p, start) PROVE Lasts(id)
  <2>1. CASE id = x
    BY <1>0, <1>1, <2>1, StatusSets DEF InsertClaim, Exists, Lasts, Decided
  <2>2. CASE id # x
    BY <1>0, <1>1, <2>2 DEF InsertClaim, Exists, Lasts, Decided
  <2> QED BY <2>1, <2>2
<1>2. ASSUME NEW start, NEW exists, NEW observed, RecoverClaim(x, fp, p, start, exists, observed)
      PROVE  Lasts(id)
  <2>1. journal'[id].status = journal[id].status /\ journal'[id].fp = journal[id].fp
    BY <1>0, <1>2 DEF RecoverClaim, Row
  <2> QED BY <2>1 DEF Lasts, Exists, Decided
<1>3. CASE UNCHANGED journal
  BY <1>3 DEF Lasts, Exists, Decided
<1> QED BY <1>1, <1>2, <1>3
        DEF Claim, ClaimNew, ClaimAbandoned, ClaimConflict, ClaimPending, ClaimSettled

LEMMA SettlementLasts ==
  ASSUME IInv, NEW id \in Ids, NEW x, NEW o \in Outcomes,
         Settle(x, o) \/ PrepareSettlement(x, o) \/ ConfirmPreparedSettlement(x, o)
  PROVE  Lasts(id)
<1>0. journal \in [Ids -> Row]
  BY DEF IInv, TypeOK, JournalTypeOK
<1>1. \/ journal' = [journal EXCEPT ![x].status = o]
      \/ journal' = [journal EXCEPT ![x].status = AckPending(o)]
  BY DEF Settle, PrepareSettlement, ConfirmPreparedSettlement
<1>2. journal'[id].fp = journal[id].fp
  BY <1>0, <1>1 DEF Row
<1>3. journal'[id].status = journal[id].status \/ journal'[id].status \in Outcomes \cup Prepared
  BY <1>0, <1>1, StatusSets DEF Row
<1> QED BY <1>2, <1>3 DEF Lasts, Exists, Decided

LEMMA ReleaseLasts ==
  ASSUME IInv, NEW id \in Ids, NEW x, NEW p, ReleaseBeforeSend(x, p)
  PROVE  Lasts(id)
<1>0. journal \in [Ids -> Row] /\ NoRow.status = "absent"
  BY DEF IInv, TypeOK, JournalTypeOK, NoRow
<1>1. CASE journal' = journal
  BY <1>1 DEF Lasts, Exists, Decided
<1>2. CASE Untouched(journal[x]) /\ journal' = [journal EXCEPT ![x] = NoRow]
  <2>1. CASE id = x
    BY <1>0, <1>2, <2>1, StatusSets DEF Untouched, Lasts, Exists, Decided
  <2>2. CASE id # x
    BY <1>0, <1>2, <2>2 DEF Lasts, Exists, Decided
  <2> QED BY <2>1, <2>2
<1> QED BY <1>1, <1>2 DEF ReleaseBeforeSend

LEMMA ProgressLasts ==
  ASSUME IInv, NEW id \in Ids, NEW x, NEW y,
         MarkAgentStarted(x, y) \/ SendStarted(x, y) \/ SendConfirmed(x, y)
  PROVE  Lasts(id)
<1>0. journal \in [Ids -> Row]
  BY DEF IInv, TypeOK, JournalTypeOK
<1>1. CASE MarkAgentStarted(x, y)
  <2>1. journal'[id].status = journal[id].status /\ journal'[id].fp = journal[id].fp
    BY <1>0, <1>1 DEF MarkAgentStarted, Row
  <2> QED BY <2>1 DEF Lasts, Exists, Decided
<1>2. CASE SendStarted(x, y)
  <2>1. journal'[id].fp = journal[id].fp
    BY <1>0, <1>2 DEF SendStarted, Row
  <2>2. journal'[id].status = journal[id].status \/ journal[id].status \in Open
    BY <1>0, <1>2 DEF SendStarted, Row
  <2> QED BY <2>1, <2>2, StatusSets DEF Lasts, Exists, Decided
<1>3. CASE SendConfirmed(x, y)
  <2>1. journal'[id].status = journal[id].status /\ journal'[id].fp = journal[id].fp
    BY <1>0, <1>3 DEF SendConfirmed, Row
  <2> QED BY <2>1 DEF Lasts, Exists, Decided
<1> QED BY <1>1, <1>2, <1>3

(* Kinds of steps of the dispatch, by what they do to the journal.         *)
LEMMA CoreReturnsLasts ==
  ASSUME IInv, NEW id \in Ids, NEW c \in Calls, NEW kind \in Kinds,
         CoreReturns(c, kind) \/ CoreThrows(c)
  PROVE  Lasts(id)
<1>1. CASE UNCHANGED journal
  BY <1>1 DEF Lasts, Exists, Decided
<1>2. CASE ReturnPrepared(c, kind) \/ ReturnSettled(c, kind)
  BY <1>2, SettlementLasts DEF ReturnPrepared, ReturnSettled
<1>3. CASE ReturnUnsettled(c, kind) \/ CoreThrows(c)
  BY <1>1, <1>3, ReleaseLasts DEF ReturnUnsettled, CoreThrows, Fail
<1> QED BY <1>1, <1>2, <1>3 DEF CoreReturns, ReturnAmbiguous

LEMMA NextLasts ==
  ASSUME IInv, [Next]_vars, NEW id \in Ids
  PROVE  Lasts(id)
<1>1. ASSUME NEW c \in Calls, NEW x \in Ids, NEW fp, NEW p, NEW defer, Claim(c, x, fp, p, defer)
      PROVE  Lasts(id)
  BY <1>1, ClaimLasts
<1>2. ASSUME NEW c \in Calls, NEW y,
             StartAgent(c) \/ StartSend(c, y) \/ ConfirmSend(c, y)
      PROVE  Lasts(id)
  BY <1>2, ProgressLasts DEF StartAgent, StartSend, ConfirmSend
<1>3. ASSUME NEW c \in Calls, NEW kind \in Kinds, CoreReturns(c, kind) \/ CoreThrows(c)
      PROVE  Lasts(id)
  BY <1>3, CoreReturnsLasts
<1>4. ASSUME NEW c \in Calls, ConfirmDelivery(c) PROVE Lasts(id)
  <2>1. call[c].handle \in Outcomes
    BY <1>4, CallsType DEF ConfirmDelivery, IInv, Call
  <2> QED BY <1>4, <2>1, SettlementLasts DEF ConfirmDelivery
<1>5. CASE UNCHANGED journal
  BY <1>5 DEF Lasts, Exists, Decided
<1>6. Kinds # {}
  BY DEF Kinds
<1> QED BY <1>1, <1>2, <1>3, <1>4, <1>5, <1>6 DEF Next, Publish, LoseSend, Forget, Crash, Restart, vars

-----------------------------------------------------------------------------
(* The inductive invariant: what a handler relies on when it settles its   *)
(* delivery is true of the message it handles.                             *)

HandleOK(c) ==
  /\ del[c].custody = "live" => del[c].step \in {"handling", "filed"}
  /\ del[c].step # "none" => del[c].msg \in Messages /\ del[c].pid \in Pids
  /\ del[c].step = "filed" => del[c].msg \in dlq
  /\ del[c].step = "acked" => DecidedFor(del[c].msg)
  /\ del[c].step = "handling" /\ call[c].pc = "core" =>
       /\ call[c].id = del[c].msg[1]
       /\ journal[call[c].id].fp = del[c].msg[2]
  /\ Returned(c, {"prepared", "duplicate"}) => DecidedFor(del[c].msg)

RabbitInv ==
  /\ IsFiniteSet(Calls)
  /\ IInv
  /\ RabbitTypeOK
  /\ \A c \in Calls : HandleOK(c)

LEMMA TypeParts ==
  ASSUME RabbitTypeOK
  PROVE  /\ queue \in [Messages -> Nat] /\ dlq \subseteq Messages /\ del \in [Calls -> Delivery]
         /\ losses \in Nat
         /\ \A c \in Calls : del[c] \in Delivery
         /\ \A m \in Messages : m[1] \in Ids /\ m[2] \in Fingerprints
<1> QED BY DEF RabbitTypeOK

LEMMA InitRabbit ==
  ASSUME IsFiniteSet(Calls), RabbitInit
  PROVE  RabbitInv
<1>1. IInv
  BY InitInv DEF RabbitInit
<1>2. NoDelivery \in Delivery
  BY DEF NoDelivery, Delivery
<1>3. queue \in [Messages -> Nat] /\ \A m \in Messages : queue[m] > 0
  <2>1. queue \in [Messages -> 1..MaxCopies]
    BY DEF RabbitInit
  <2>2. \A n \in 1..MaxCopies : n \in Nat /\ n > 0
    OBVIOUS
  <2> QED BY <2>1, <2>2
<1>4. RabbitTypeOK
  BY <1>1, <1>2, <1>3 DEF RabbitInit, RabbitTypeOK, IInv
<1>5. \A c \in Calls : HandleOK(c)
  BY DEF RabbitInit, HandleOK, NoDelivery, Returned
<1> QED BY <1>1, <1>4, <1>5 DEF RabbitInv

LEMMA DecidedForLasts ==
  ASSUME RabbitInv, [Next]_vars, NEW m \in Messages, DecidedFor(m)
  PROVE  DecidedFor(m)'
<1>1. m[1] \in Ids /\ IInv
  BY TypeParts DEF RabbitInv
<1>2. Lasts(m[1])
  BY <1>1, NextLasts
<1> QED BY <1>2 DEF DecidedFor, Lasts

(* What a handler knows survives the steps of others.                      *)
LEMMA OthersKeep ==
  ASSUME RabbitInv, [Next]_vars, NEW d \in Calls, call'[d] = call[d],
         del'[d].step = del[d].step, del'[d].msg = del[d].msg,
         del'[d].custody = "live" => del[d].custody = "live",
         del'[d].pid = del[d].pid, dlq \subseteq dlq'
  PROVE  HandleOK(d)'
<1>1. HandleOK(d) /\ IInv /\ IInv'
  BY NextInv DEF RabbitInv
<1>2. del[d].msg \in Messages /\ DecidedFor(del[d].msg) => DecidedFor(del[d].msg)'
  BY DecidedForLasts
<1>4. ASSUME del[d].step = "handling", call[d].pc = "core"
      PROVE  call'[d].id = del'[d].msg[1] /\ journal'[call'[d].id].fp = del'[d].msg[2]
  <2> DEFINE id == call[d].id
  <2>1. id \in Ids /\ Exists(id) /\ Exists(id)'
    BY <1>1, <1>4, StatusSets DEF IInv, CoreOK, Exists
  <2>2. Lasts(id)
    BY <1>1, <2>1, NextLasts
  <2> QED BY <1>1, <1>4, <2>1, <2>2 DEF Lasts, HandleOK
<1>5. ASSUME Returned(d, {"prepared", "duplicate"})' PROVE Returned(d, {"prepared", "duplicate"})
  BY <1>5 DEF Returned
<1>6. del[d].step # "none" => del[d].msg \in Messages
  BY <1>1 DEF HandleOK
<1>8. Returned(d, {"prepared", "duplicate"})' => DecidedFor(del[d].msg)'
  BY <1>1, <1>2, <1>5, <1>6 DEF HandleOK, Returned
<1>9. del'[d].step = "acked" => DecidedFor(del[d].msg)'
  BY <1>1, <1>2, <1>6 DEF HandleOK
<1> QED BY <1>1, <1>4, <1>8, <1>9 DEF HandleOK, DecidedFor, Decided

(* A step of call slot c leaves the other slots alone.                     *)
LEMMA SlotStep ==
  ASSUME RabbitInv, [Next]_vars, NEW c \in Calls, HandleOK(c)',
         \A d \in Calls \ {c} : call'[d] = call[d] /\ del'[d] = del[d],
         queue' \in [Messages -> Nat], dlq' \subseteq Messages, dlq \subseteq dlq',
         del' \in [Calls -> Delivery], losses' \in Nat
  PROVE  RabbitInv'
<1>1. IInv'
  BY NextInv DEF RabbitInv
<1>2. \A d \in Calls : HandleOK(d)'
  <2>1. ASSUME NEW d \in Calls \ {c} PROVE HandleOK(d)'
    BY OthersKeep
  <2> QED BY <2>1
<1> QED BY <1>1, <1>2 DEF RabbitInv, RabbitTypeOK, IInv

LEMMA DeliverInv ==
  ASSUME RabbitInv, NEW c \in Calls, NEW m \in Messages, NEW p \in Pids, Deliver(c, m, p)
  PROVE  RabbitInv'
<1> DEFINE new == [step |-> "handling", custody |-> "live", msg |-> m, pid |-> p]
<1>1. /\ queue \in [Messages -> Nat] /\ del \in [Calls -> Delivery] /\ losses \in Nat /\ dlq \subseteq Messages
  BY TypeParts DEF RabbitInv
<1>2. /\ queue[m] > 0 /\ queue' = [queue EXCEPT ![m] = @ - 1]
      /\ del' = [del EXCEPT ![c] = new] /\ call[c].pc = "idle"
      /\ UNCHANGED <<vars, dlq, losses>>
  BY DEF Deliver, IdleCall
<1>3. new \in Delivery
  BY DEF Delivery
<1>4. call' = call /\ [Next]_vars
  BY <1>2 DEF vars
<1>5. HandleOK(c)'
  BY <1>1, <1>2, <1>4 DEF HandleOK, Returned
<1> HIDE DEF new
<1>6. queue' \in [Messages -> Nat]
  BY <1>1, <1>2
<1> QED BY <1>1, <1>2, <1>3, <1>4, <1>5, <1>6, SlotStep

(* What the dispatch answers when it settled a message is true.            *)
LEMMA ClaimHandle ==
  ASSUME RabbitInv, NEW c \in Calls, ClaimDelivery(c), UNCHANGED rabbitVars
  PROVE  HandleOK(c)' /\ [Next]_vars /\ \A d \in Calls \ {c} : call'[d] = call[d]
<1> DEFINE m == del[c].msg
           id == m[1]
           fp == m[2]
           p == del[c].pid
<1>1. /\ del[c].step = "handling" /\ m \in Messages /\ p \in Pids
      /\ Claim(c, id, fp, p, TRUE) /\ call[c].pc = "idle"
  BY DEF ClaimDelivery, RabbitInv, HandleOK, Claim
<1>2. id \in Ids /\ fp \in Fingerprints
  BY <1>1, TypeParts DEF RabbitInv
<1>3. Next
  BY <1>1, <1>2 DEF Next
<1>4. call \in [Calls -> Call] /\ journal \in [Ids -> Row]
  BY DEF RabbitInv, IInv, TypeOK, JournalTypeOK
<1>5. del' = del /\ dlq' = dlq
  BY DEF rabbitVars
<1>6. HandleOK(c)
  BY DEF RabbitInv
<1> HIDE DEF id, fp, p
<1>7. CASE Enter(c, id, p, TRUE) /\ journal'[id].fp = fp
  <2>1. /\ call'[c].pc = "core" /\ call'[c].id = id
        /\ \A d \in Calls \ {c} : call'[d] = call[d]
    BY <1>4, <1>7 DEF Enter, IdleCall
  <2> QED BY <1>1, <1>3, <1>5, <1>6, <1>7, <2>1 DEF HandleOK, Returned, id, fp
<1>8. ASSUME NEW result \in {"conflict", "reconcile"}, NEW handle, Return(c, id, p, result, handle)
      PROVE  HandleOK(c)' /\ \A d \in Calls \ {c} : call'[d] = call[d]
  <2>1. /\ call'[c].pc = "returned" /\ call'[c].result = result
        /\ \A d \in Calls \ {c} : call'[d] = call[d]
    BY <1>4, <1>8 DEF Return, IdleCall
  <2> QED BY <1>1, <1>5, <1>6, <2>1 DEF HandleOK, Returned
<1>9. ASSUME NEW handle, Return(c, id, p, "duplicate", handle), UNCHANGED journal,
             journal[id].fp = fp, journal[id].status \in Outcomes \cup Prepared
      PROVE  HandleOK(c)' /\ \A d \in Calls \ {c} : call'[d] = call[d]
  <2>1. /\ call'[c].pc = "returned"
        /\ \A d \in Calls \ {c} : call'[d] = call[d]
    BY <1>4, <1>9 DEF Return, IdleCall
  <2>2. DecidedFor(del[c].msg)'
    BY <1>5, <1>9 DEF DecidedFor, Decided, id, fp
  <2> QED BY <1>1, <1>5, <1>6, <2>1, <2>2 DEF HandleOK, Returned
<1>10. ASSUME NEW start, ClaimNew(c, id, fp, p, start, TRUE) PROVE Enter(c, id, p, TRUE) /\ journal'[id].fp = fp
  BY <1>2, <1>4, <1>10 DEF ClaimNew, InsertClaim, NoRow
<1>11. ASSUME NEW start, ClaimAbandoned(c, id, fp, p, start, TRUE)
       PROVE  Enter(c, id, p, TRUE) /\ journal'[id].fp = fp
  <2>1. /\ journal[id].fp = fp /\ Enter(c, id, p, TRUE)
        /\ journal' = [journal EXCEPT ![id].pid = p, ![id].start = start]
    BY <1>11 DEF ClaimAbandoned, RecoverClaim, SameInbound
  <2>2. journal'[id].fp = journal[id].fp
    BY <1>2, <1>4, <2>1 DEF Row
  <2> QED BY <2>1, <2>2
<1>12. Claim(c, id, fp, p, TRUE)
  BY <1>1 DEF id, fp, p
<1>13. CASE ClaimConflict(c, id, fp, p) \/ ClaimPending(c, id, fp, p)
  BY <1>3, <1>8, <1>13 DEF ClaimConflict, ClaimPending
<1>14. CASE ClaimSettled(c, id, fp, p)
  <2>1. /\ UNCHANGED journal /\ journal[id].fp = fp /\ journal[id].status \in Outcomes \cup Prepared
        /\ \E handle \in Outcomes \cup {Null} : Return(c, id, p, "duplicate", handle)
    BY <1>14, StatusSets DEF ClaimSettled, SameInbound
  <2> QED BY <1>3, <1>9, <2>1
<1> QED BY <1>3, <1>7, <1>10, <1>11, <1>12, <1>13, <1>14 DEF Claim

LEMMA TurnHandle ==
  ASSUME RabbitInv, NEW c \in Calls, UNCHANGED rabbitVars,
         \/ StartAgent(c)
         \/ \E hash \in Hashes : StartSend(c, hash)
         \/ \E s \in call[c].flight : Publish(c, s) \/ ConfirmSend(c, s) \/ LoseSend(c, s)
  PROVE  HandleOK(c)' /\ [Next]_vars /\ \A d \in Calls \ {c} : call'[d] = call[d]
<1>1. Next
  BY DEF Next
<1>2. call \in [Calls -> Call]
  BY DEF RabbitInv, IInv, TypeOK
<1>3. /\ call'[c].pc = call[c].pc /\ call'[c].id = call[c].id /\ call'[c].result = call[c].result
      /\ \A d \in Calls \ {c} : call'[d] = call[d]
  BY <1>2 DEF StartAgent, StartSend, Publish, ConfirmSend, LoseSend, Call
<1>4. HandleOK(c) /\ IInv /\ IInv' /\ del' = del /\ dlq' = dlq
  BY <1>1, NextInv DEF RabbitInv, rabbitVars
<1>5. del[c].msg \in Messages /\ DecidedFor(del[c].msg) => DecidedFor(del[c].msg)'
  BY <1>1, DecidedForLasts DEF rabbitVars
<1>6. ASSUME call[c].pc = "core" PROVE journal'[call[c].id].fp = journal[call[c].id].fp
  <2>1. PICK id \in Ids : id = call[c].id
    BY <1>4, <1>6 DEF IInv, CoreOK
  <2>2. Exists(id) /\ Exists(id)'
    BY <1>3, <1>4, <1>6, <2>1, StatusSets DEF IInv, CoreOK, Exists
  <2>3. Lasts(id)
    BY <1>1, <1>4, NextLasts
  <2> QED BY <2>1, <2>2, <2>3 DEF Lasts
<1> QED BY <1>1, <1>3, <1>4, <1>5, <1>6 DEF HandleOK, Returned

LEMMA ReturnHandle ==
  ASSUME RabbitInv, NEW c \in Calls, UNCHANGED rabbitVars,
         (\E kind \in Kinds : CoreReturns(c, kind)) \/ CoreThrows(c)
  PROVE  HandleOK(c)' /\ [Next]_vars /\ \A d \in Calls \ {c} : call'[d] = call[d]
<1>1. Next
  BY DEF Next
<1>2. call \in [Calls -> Call] /\ journal \in [Ids -> Row] /\ call[c].pc = "core"
  BY DEF RabbitInv, IInv, TypeOK, JournalTypeOK, CoreReturns, CoreThrows
<1>3. HandleOK(c) /\ IInv /\ del' = del /\ dlq' = dlq
  BY DEF RabbitInv, rabbitVars
<1>4. /\ call'[c].pc = "returned" /\ \A d \in Calls \ {c} : call'[d] = call[d]
      /\ \/ call'[c].result \in Kinds \cup {"error", "reconcile"}
         \/ \E kind \in Kinds : ReturnPrepared(c, kind)
  <2>1. ASSUME NEW result, NEW handle, Leave(c, result, handle)
        PROVE  /\ call'[c].pc = "returned" /\ call'[c].result = result
               /\ \A d \in Calls \ {c} : call'[d] = call[d]
    BY <1>2, <2>1 DEF Leave, Call
  <2>2. CASE CoreThrows(c)
    BY <2>1, <2>2 DEF CoreThrows, Fail
  <2>3. ASSUME NEW kind \in Kinds, CoreReturns(c, kind)
        PROVE  \/ ReturnPrepared(c, kind) /\ Leave(c, "prepared", kind)
               \/ \E handle : Leave(c, "ambiguous", handle) \/ Leave(c, kind, handle)
    BY <2>3 DEF CoreReturns, ReturnAmbiguous, ReturnSettled, ReturnUnsettled, ReturnPrepared
  <2>4. "ambiguous" \in Kinds
    BY DEF Kinds
  <2> QED BY <2>1, <2>2, <2>3, <2>4
<1>5. CASE \E kind \in Kinds : ReturnPrepared(c, kind)
  <2>1. PICK kind \in Outcomes : PrepareSettlement(call[c].id, kind)
    BY <1>5 DEF ReturnPrepared
  <2>2. call[c].id \in Ids
    BY <1>2, <1>3 DEF IInv, CoreOK
  <2>3. /\ journal'[call[c].id].fp = journal[call[c].id].fp
        /\ journal'[call[c].id].status \in Prepared
    BY <1>2, <2>1, <2>2, StatusSets DEF PrepareSettlement, Row
  <2>4. del[c].step = "handling" => DecidedFor(del[c].msg)'
    BY <1>2, <1>3, <2>3 DEF HandleOK, DecidedFor, Decided
  <2>5. del[c].msg \in Messages /\ DecidedFor(del[c].msg) => DecidedFor(del[c].msg)'
    BY <1>1, DecidedForLasts DEF rabbitVars
  <2> QED BY <1>1, <1>3, <1>4, <2>4, <2>5 DEF HandleOK, Returned
<1>6. CASE call'[c].result \in Kinds \cup {"error", "reconcile"}
  <2>1. call'[c].result \notin {"prepared", "duplicate"}
    BY <1>6 DEF Kinds
  <2>2. del[c].msg \in Messages /\ DecidedFor(del[c].msg) => DecidedFor(del[c].msg)'
    BY <1>1, DecidedForLasts DEF rabbitVars
  <2> QED BY <1>1, <1>3, <1>4, <2>1, <2>2 DEF HandleOK, Returned
<1> QED BY <1>4, <1>5, <1>6

LEMMA DispatchInv ==
  ASSUME RabbitInv, NEW c \in Calls, Dispatch(c)
  PROVE  RabbitInv' /\ [Next]_vars
<1>1. HandleOK(c)' /\ [Next]_vars /\ \A d \in Calls \ {c} : call'[d] = call[d]
  BY ClaimHandle, TurnHandle, ReturnHandle DEF Dispatch
<1>2. UNCHANGED rabbitVars
  BY DEF Dispatch
<1> QED BY <1>1, <1>2, SlotStep, TypeParts DEF rabbitVars, RabbitInv

-----------------------------------------------------------------------------
(* Settling a delivery. *)

Settled(c) ==
  /\ \A d \in Calls \ {c} : call'[d] = call[d] /\ del'[d] = del[d]
  /\ queue' \in [Messages -> Nat]
  /\ dlq' \subseteq Messages /\ dlq \subseteq dlq'
  /\ del' \in [Calls -> Delivery]
  /\ losses' \in Nat
  /\ del'[c].msg = del[c].msg /\ del'[c].pid = del[c].pid

LEMMA NackSettles ==
  ASSUME RabbitInv, NEW c \in Calls, NEW requeue, Nack(c, requeue), del[c].step # "none",
         dlq' \subseteq Messages, dlq \subseteq dlq', UNCHANGED <<vars, losses>>
  PROVE  Settled(c) /\ HandleOK(c)' /\ [Next]_vars
<1>1. /\ queue \in [Messages -> Nat] /\ del \in [Calls -> Delivery] /\ losses \in Nat
      /\ del[c].msg \in Messages /\ del[c] \in Delivery /\ del[c].pid \in Pids
  BY TypeParts DEF RabbitInv, HandleOK
<1>2. del' = [del EXCEPT ![c].step = "done", ![c].custody = "settled"]
  BY DEF Nack
<1>3. del' \in [Calls -> Delivery] /\ del'[c].step = "done" /\ del'[c].custody = "settled"
      /\ del'[c].msg = del[c].msg /\ del'[c].pid = del[c].pid
  BY <1>1, <1>2 DEF Delivery
<1>4. queue' \in [Messages -> Nat]
  BY <1>1 DEF Nack
<1>5. call' = call /\ [Next]_vars
  BY DEF vars
<1>6. HandleOK(c)'
  BY <1>1, <1>3 DEF HandleOK, Returned
<1> QED BY <1>1, <1>2, <1>3, <1>4, <1>5, <1>6 DEF Settled

LEMMA StaleSettles ==
  ASSUME RabbitInv, NEW c \in Calls, StaleFallback(c), del[c].step # "none", del[c].custody = "stale",
         UNCHANGED <<vars, losses>>
  PROVE  Settled(c) /\ HandleOK(c)' /\ [Next]_vars
<1>1. /\ queue \in [Messages -> Nat] /\ del \in [Calls -> Delivery] /\ losses \in Nat
      /\ del[c].msg \in Messages /\ del[c] \in Delivery /\ del[c].pid \in Pids /\ dlq \subseteq Messages
  BY TypeParts DEF RabbitInv, HandleOK
<1>2. del' = [del EXCEPT ![c].step = "done"]
  BY DEF StaleFallback
<1>3. del' \in [Calls -> Delivery] /\ del'[c].step = "done" /\ del'[c].custody = "stale"
      /\ del'[c].msg = del[c].msg /\ del'[c].pid = del[c].pid
  BY <1>1, <1>2 DEF Delivery
<1>4. queue' \in [Messages -> Nat] /\ dlq' \subseteq Messages /\ dlq \subseteq dlq'
  BY <1>1 DEF StaleFallback
<1>5. call' = call /\ [Next]_vars
  BY DEF vars
<1>6. HandleOK(c)'
  BY <1>1, <1>3 DEF HandleOK, Returned
<1> QED BY <1>1, <1>2, <1>3, <1>4, <1>5, <1>6 DEF Settled

LEMMA SettledInv ==
  ASSUME RabbitInv, NEW c \in Calls, Settled(c), HandleOK(c)', [Next]_vars
  PROVE  RabbitInv'
<1> QED BY SlotStep DEF Settled

LEMMA AckInv ==
  ASSUME RabbitInv, NEW c \in Calls, Ack(c)
  PROVE  RabbitInv' /\ [Next]_vars
<1>1. /\ queue \in [Messages -> Nat] /\ del \in [Calls -> Delivery] /\ losses \in Nat
      /\ del[c].msg \in Messages /\ del[c] \in Delivery /\ del[c].pid \in Pids /\ dlq \subseteq Messages
      /\ del[c].step = "handling" /\ DecidedFor(del[c].msg)
  BY TypeParts DEF RabbitInv, HandleOK, Ack, Returned
<1>2. [Next]_vars /\ call' = call /\ journal' = journal /\ UNCHANGED <<vars, losses>>
  BY DEF Ack, vars
<1>3. CASE del[c].custody = "stale" /\ StaleFallback(c)
  BY <1>1, <1>2, <1>3, StaleSettles, SettledInv
<1>4. ASSUME NEW step \in {"acked", "done"}, del' \in [Calls -> Delivery],
             \A d \in Calls \ {c} : del'[d] = del[d],
             del'[c].step = step, del'[c].custody = "settled",
             del'[c].msg = del[c].msg, del'[c].pid = del[c].pid, UNCHANGED <<queue, dlq>>
      PROVE  RabbitInv'
  <2>1. DecidedFor(del[c].msg)'
    BY <1>1, <1>2, <1>4 DEF DecidedFor, Decided
  <2>2. HandleOK(c)'
    BY <1>1, <1>4, <2>1 DEF HandleOK, Returned
  <2> QED BY <1>1, <1>2, <1>4, <2>2, SettledInv DEF Settled
<1>5. CASE del' = [del EXCEPT ![c].step = "acked", ![c].custody = "settled"] /\ UNCHANGED <<queue, dlq>>
  <2>1. /\ del' \in [Calls -> Delivery] /\ \A d \in Calls \ {c} : del'[d] = del[d]
        /\ del'[c].step = "acked" /\ del'[c].custody = "settled"
        /\ del'[c].msg = del[c].msg /\ del'[c].pid = del[c].pid
    BY <1>1, <1>5 DEF Delivery
  <2> QED BY <1>2, <1>4, <1>5, <2>1
<1>6. ASSUME NEW step \in {"acked", "done"}, del[c].custody = "settled",
             del' = [del EXCEPT ![c].step = step], UNCHANGED <<queue, dlq>>
      PROVE  RabbitInv'
  <2>1. /\ del' \in [Calls -> Delivery] /\ \A d \in Calls \ {c} : del'[d] = del[d]
        /\ del'[c].step = step /\ del'[c].custody = "settled"
        /\ del'[c].msg = del[c].msg /\ del'[c].pid = del[c].pid
    BY <1>1, <1>6 DEF Delivery
  <2> QED BY <1>4, <1>6, <2>1
<1> QED BY <1>2, <1>3, <1>5, <1>6 DEF Ack

LEMMA CommitInv ==
  ASSUME RabbitInv, NEW c \in Calls, Commit(c)
  PROVE  RabbitInv' /\ [Next]_vars
<1>1. /\ queue \in [Messages -> Nat] /\ del \in [Calls -> Delivery] /\ losses \in Nat
      /\ del[c].msg \in Messages /\ del[c] \in Delivery /\ del[c].pid \in Pids /\ dlq \subseteq Messages
      /\ del[c].step = "acked" /\ del[c].custody # "live"
  BY TypeParts DEF RabbitInv, HandleOK, Commit
<1>2. /\ [Next]_vars /\ \A d \in Calls \ {c} : call'[d] = call[d]
      /\ del' = [del EXCEPT ![c].step = "done"] /\ UNCHANGED <<queue, dlq, losses>>
  BY DEF Commit, ConfirmDelivery, Next, vars, RabbitInv, IInv, TypeOK
<1>3. /\ del' \in [Calls -> Delivery] /\ del'[c].step = "done" /\ del'[c].custody = del[c].custody
      /\ del'[c].msg = del[c].msg /\ del'[c].pid = del[c].pid
      /\ \A d \in Calls \ {c} : del'[d] = del[d]
  BY <1>1, <1>2 DEF Delivery
<1>4. HandleOK(c)'
  BY <1>1, <1>3 DEF HandleOK, Returned
<1> QED BY <1>1, <1>2, <1>3, <1>4, SettledInv DEF Settled

LEMMA FileInv ==
  ASSUME RabbitInv, NEW c \in Calls,
         FileDoubt(c) \/ FileDoubtFails(c) \/ RejectFiled(c) \/ RejectFailed(c)
  PROVE  RabbitInv' /\ [Next]_vars
<1>1. /\ queue \in [Messages -> Nat] /\ del \in [Calls -> Delivery] /\ losses \in Nat
      /\ del[c].msg \in Messages /\ del[c] \in Delivery /\ del[c].pid \in Pids /\ dlq \subseteq Messages
      /\ del[c].step # "none"
  BY TypeParts
     DEF RabbitInv, HandleOK, FileDoubt, FileDoubtFails, RejectFiled, RejectFailed, InDoubt, Failed,
         Unclaimed, Returned
<1>2. UNCHANGED <<vars, losses>> /\ call' = call /\ [Next]_vars
  BY DEF FileDoubt, FileDoubtFails, RejectFiled, RejectFailed, vars
<1>3. CASE FileDoubt(c)
  <2>1. dlq' = dlq \cup {del[c].msg} /\ del' = [del EXCEPT ![c].step = "filed"] /\ queue' = queue
    BY <1>3 DEF FileDoubt
  <2>2. /\ del' \in [Calls -> Delivery] /\ del'[c].step = "filed" /\ del'[c].custody = del[c].custody
        /\ del'[c].msg = del[c].msg /\ del'[c].pid = del[c].pid
        /\ \A d \in Calls \ {c} : del'[d] = del[d]
    BY <1>1, <2>1 DEF Delivery
  <2>3. HandleOK(c)'
    BY <1>1, <2>1, <2>2 DEF HandleOK, Returned
  <2> QED BY <1>1, <1>2, <2>1, <2>2, <2>3, SettledInv DEF Settled
<1>4. CASE del[c].custody = "stale" /\ StaleFallback(c)
  BY <1>1, <1>2, <1>4, StaleSettles, SettledInv
<1>5. CASE (\E requeue \in BOOLEAN : Nack(c, requeue)) /\ dlq' \in {dlq, dlq \cup {del[c].msg}}
  BY <1>1, <1>2, <1>5, NackSettles, SettledInv
<1> QED BY <1>2, <1>3, <1>4, <1>5 DEF FileDoubtFails, RejectFiled, RejectFailed, ReplaceByCopy

LEMMA DoneInv ==
  ASSUME RabbitInv, NEW c \in Calls, Done(c)
  PROVE  RabbitInv' /\ [Next]_vars
<1>1. [Next]_vars /\ \A d \in Calls \ {c} : call'[d] = call[d]
  BY DEF Done, Forget, Next, vars, RabbitInv, IInv, TypeOK
<1>2. del' = [del EXCEPT ![c] = NoDelivery] /\ UNCHANGED <<queue, dlq, losses>>
  BY DEF Done
<1>3. NoDelivery \in Delivery
  BY DEF NoDelivery, Delivery
<1>4. /\ del' \in [Calls -> Delivery] /\ del'[c] = NoDelivery
      /\ \A d \in Calls \ {c} : del'[d] = del[d]
  BY <1>2, <1>3, TypeParts DEF RabbitInv
<1>5. HandleOK(c)'
  BY <1>4 DEF HandleOK, Returned, NoDelivery
<1> QED BY <1>1, <1>2, <1>4, <1>5, SlotStep, TypeParts DEF RabbitInv

-----------------------------------------------------------------------------
(* Failures.  What a process held goes back to the queue.                  *)

LEMMA HeldFinite ==
  ASSUME IsFiniteSet(Calls), NEW p, NEW m
  PROVE  IsFiniteSet(Held(p, m)) /\ Cardinality(Held(p, m)) \in Nat
<1>1. Held(p, m) \subseteq Calls
  BY DEF Held
<1> QED BY <1>1, FS_Subset, FS_CardinalityType

LEMMA ReturnFacts ==
  ASSUME RabbitInv, NEW p \in Pids, ReturnHeld(p)
  PROVE  /\ queue' \in [Messages -> Nat]
         /\ \A m \in Messages : queue[m] > 0 => queue'[m] > 0
         /\ \A m \in Messages : \A c \in Held(p, m) : queue'[m] > 0
<1>1. queue \in [Messages -> Nat]
  BY TypeParts DEF RabbitInv
<1>2. \A m \in Messages : queue'[m] = queue[m] + Cardinality(Held(p, m))
  BY DEF ReturnHeld
<1>3. \A m \in Messages : Cardinality(Held(p, m)) \in Nat /\ IsFiniteSet(Held(p, m))
  BY HeldFinite DEF RabbitInv
<1>4. \A m \in Messages : \A c \in Held(p, m) : Cardinality(Held(p, m)) > 0
  BY <1>3, FS_EmptySet
<1>5. \A m \in Messages : queue'[m] \in Nat
  BY <1>1, <1>2, <1>3
<1>6. queue' \in [Messages -> Nat]
  BY <1>5 DEF ReturnHeld
<1> QED BY <1>1, <1>2, <1>3, <1>4, <1>6

LEMMA LossInv ==
  ASSUME RabbitInv, NEW p \in Pids, LoseConnection(p) \/ StopAfterTimeout(p)
  PROVE  RabbitInv' /\ [Next]_vars
<1>1. /\ del \in [Calls -> Delivery] /\ losses \in Nat /\ dlq \subseteq Messages
      /\ \A c \in Calls : del[c] \in Delivery
  BY TypeParts DEF RabbitInv
<1>2. /\ ReturnHeld(p) /\ losses' = losses + 1 /\ UNCHANGED <<vars, dlq>>
      /\ SetCustody(p, "stale") \/ SetCustody(p, "settled")
  BY DEF LoseConnection, StopAfterTimeout
<1>3. del' \in [Calls -> Delivery]
      /\ \A c \in Calls : /\ del'[c].step = del[c].step /\ del'[c].msg = del[c].msg
                          /\ del'[c].pid = del[c].pid
                          /\ del'[c].custody = "live" => del[c].custody = "live"
  BY <1>1, <1>2 DEF SetCustody, Delivery
<1>4. call' = call /\ [Next]_vars
  BY <1>2 DEF vars
<1>5. \A c \in Calls : HandleOK(c)'
  <2> TAKE c \in Calls
  <2> QED BY <1>2, <1>3, <1>4, OthersKeep
<1>6. IInv'
  BY <1>4, NextInv DEF RabbitInv
<1> QED BY <1>1, <1>2, <1>3, <1>4, <1>5, <1>6, ReturnFacts DEF RabbitInv, RabbitTypeOK, IInv

LEMMA CrashInv ==
  ASSUME RabbitInv, NEW p \in Pids, CrashConsumer(p)
  PROVE  RabbitInv' /\ [Next]_vars
<1>1. /\ del \in [Calls -> Delivery] /\ losses \in Nat /\ dlq \subseteq Messages
      /\ \A c \in Calls : del[c] \in Delivery
  BY TypeParts DEF RabbitInv
<1>2. /\ ReturnHeld(p) /\ UNCHANGED <<dlq, losses>> /\ [Next]_vars /\ UNCHANGED journal
      /\ call' = [c \in Calls |-> IF call[c].pid = p THEN IdleCall ELSE call[c]]
      /\ del' = [c \in Calls |-> IF del[c].pid = p THEN NoDelivery ELSE del[c]]
  BY DEF CrashConsumer, Crash, Next
<1>3. NoDelivery \in Delivery /\ IdleCall.pc = "idle"
  BY DEF NoDelivery, Delivery, IdleCall
<1>4. del' \in [Calls -> Delivery]
  BY <1>1, <1>2, <1>3
<1>5. ASSUME NEW c \in Calls PROVE HandleOK(c)'
  <2>1. CASE del[c].pid = p
    BY <1>2, <2>1 DEF HandleOK, Returned, NoDelivery
  <2>2. CASE del[c].pid # p /\ call[c].pid = p
    <3>1. del'[c] = del[c] /\ call'[c].pc = "idle"
      BY <1>2, <1>3, <2>2
    <3>2. DecidedFor(del[c].msg) => DecidedFor(del[c].msg)'
      BY <1>2, <3>1 DEF DecidedFor, Decided
    <3> QED BY <1>2, <3>1, <3>2 DEF RabbitInv, HandleOK, Returned
  <2>3. CASE del[c].pid # p /\ call[c].pid # p
    <3>1. del'[c] = del[c] /\ call'[c] = call[c]
      BY <1>2, <2>3
    <3> QED BY <1>2, <3>1, OthersKeep
  <2> QED BY <2>1, <2>2, <2>3
<1>6. IInv'
  BY <1>2, NextInv DEF RabbitInv
<1> QED BY <1>1, <1>2, <1>4, <1>5, <1>6, ReturnFacts DEF RabbitInv, RabbitTypeOK, IInv

LEMMA RestartInv ==
  ASSUME RabbitInv, NEW p \in Pids, RestartConsumer(p)
  PROVE  RabbitInv' /\ [Next]_vars
<1>1. [Next]_vars /\ call' = call /\ UNCHANGED rabbitVars
  BY DEF RestartConsumer, Restart, Next
<1>2. \A c \in Calls : HandleOK(c)'
  <2> TAKE c \in Calls
  <2> QED BY <1>1, OthersKeep DEF rabbitVars
<1>3. IInv'
  BY <1>1, NextInv DEF RabbitInv
<1> QED BY <1>1, <1>2, <1>3, TypeParts DEF RabbitInv, RabbitTypeOK, IInv, rabbitVars

LEMMA RabbitStep ==
  ASSUME RabbitInv, [RabbitNext]_allVars
  PROVE  RabbitInv' /\ [Next]_vars
<1>1. CASE \E c \in Calls, m \in Messages, p \in Pids : Deliver(c, m, p)
  BY <1>1, DeliverInv DEF Deliver
<1>2. CASE \E c \in Calls : Handle(c)
  BY <1>2, DispatchInv, AckInv, CommitInv, FileInv, DoneInv DEF Handle
<1>3. CASE \E p \in Pids : \/ LoseConnection(p) \/ StopAfterTimeout(p)
                           \/ CrashConsumer(p) \/ RestartConsumer(p)
  BY <1>3, LossInv, CrashInv, RestartInv
<1>4. CASE UNCHANGED allVars
  <2>1. UNCHANGED vars /\ UNCHANGED rabbitVars /\ call' = call
    BY <1>4 DEF allVars, vars
  <2>2. \A c \in Calls : HandleOK(c)'
    <3> TAKE c \in Calls
    <3> QED BY <2>1, OthersKeep DEF rabbitVars
  <2>3. IInv'
    BY <2>1, NextInv DEF RabbitInv
  <2> QED BY <2>1, <2>2, <2>3, TypeParts DEF RabbitInv, RabbitTypeOK, IInv, rabbitVars
<1> QED BY <1>1, <1>2, <1>3, <1>4 DEF RabbitNext

LEMMA RabbitInvariant == IsFiniteSet(Calls) => (RabbitSpec => []RabbitInv)
<1> SUFFICES ASSUME IsFiniteSet(Calls) PROVE RabbitSpec => []RabbitInv
  OBVIOUS
<1> QED BY InitRabbit, RabbitStep, PTL DEF RabbitSpec

(* The consumer, its deliveries and the broker are well typed.             *)
THEOREM RabbitTypeCorrect == IsFiniteSet(Calls) => (RabbitSpec => []RabbitTypeOK)
<1>1. RabbitInv => RabbitTypeOK
  BY DEF RabbitInv
<1> QED BY <1>1, RabbitInvariant, PTL

(* The consumer uses the dispatch as it may be used: every behaviour of it *)
(* is a behaviour of the dispatch.                                         *)
THEOREM RabbitUsesDispatch == IsFiniteSet(Calls) => (RabbitSpec => Spec)
<1>1. RabbitInit => Init
  BY DEF RabbitInit
<1>2. RabbitInv /\ [RabbitNext]_allVars => [Next]_vars
  BY RabbitStep
<1> QED BY <1>1, <1>2, RabbitInvariant, PTL DEF RabbitSpec, Spec

(* No redelivery, requeue, retry copy or crash of the consumer gives an    *)
(* identity a second agent turn.                                           *)
THEOREM RabbitOneTurn == IsFiniteSet(Calls) => (RabbitSpec => []AtMostOneTurn)
<1> QED BY RabbitUsesDispatch, OneTurn, PTL

(* The consumer keeps the promise of InboundTurn too, with everything the  *)
(* broker does to its deliveries.                                          *)
THEOREM RabbitImplementsInboundTurn == IsFiniteSet(Calls) => (RabbitSpec => ImplementsInboundTurn)
<1> QED BY RabbitUsesDispatch, DispatchImplementsInboundTurn, PTL

-----------------------------------------------------------------------------
(* Custody: who takes the last copy of a message has its outcome.          *)

Keeps(m) == WithBroker(m) => WithBroker(m)' \/ DecidedFor(m)

(* A step that changes no other delivery and takes nothing from the queue  *)
(* can only lose the message of its own delivery.                          *)
LEMMA SlotKeeps ==
  ASSUME RabbitInv, NEW c \in Calls, NEW m \in Messages,
         \A d \in Calls \ {c} : del'[d] = del[d],
         queue[m] > 0 => queue'[m] > 0, dlq \subseteq dlq',
         del[c].msg = m /\ del[c].custody = "live" => WithBroker(m)' \/ DecidedFor(m)
  PROVE  Keeps(m)
<1> QED BY DEF Keeps, WithBroker

LEMMA DeliverKeeps ==
  ASSUME RabbitInv, NEW c \in Calls, NEW n \in Messages, NEW p \in Pids, Deliver(c, n, p),
         NEW m \in Messages
  PROVE  Keeps(m)
<1>1. /\ queue \in [Messages -> Nat] /\ del \in [Calls -> Delivery]
  BY TypeParts DEF RabbitInv
<1>2. /\ del' = [del EXCEPT ![c] = [step |-> "handling", custody |-> "live", msg |-> n, pid |-> p]]
      /\ queue' = [queue EXCEPT ![n] = @ - 1] /\ dlq' = dlq /\ del[c] = NoDelivery
  BY DEF Deliver
<1>3. \A d \in Calls \ {c} : del'[d] = del[d]
  BY <1>1, <1>2
<1>4. del'[c].msg = n /\ del'[c].custody = "live" /\ del[c].custody # "live"
  BY <1>1, <1>2 DEF NoDelivery
<1>5. CASE m = n
  BY <1>4, <1>5 DEF Keeps, WithBroker
<1>6. CASE m # n
  BY <1>1, <1>2, <1>3, <1>4, <1>6, SlotKeeps
<1> QED BY <1>5, <1>6

LEMMA HandleKeeps ==
  ASSUME RabbitInv, RequeueOnError, NEW c \in Calls, Handle(c), NEW m \in Messages
  PROVE  Keeps(m)
<1>1. /\ queue \in [Messages -> Nat] /\ del \in [Calls -> Delivery] /\ HandleOK(c)
      /\ del[c] \in Delivery
  BY TypeParts DEF RabbitInv
<1>2. CASE Dispatch(c)
  BY <1>2 DEF Dispatch, rabbitVars, Keeps, WithBroker
<1>3. ASSUME NEW requeue \in BOOLEAN, Nack(c, requeue), del[c].msg \in Messages,
             requeue \/ del[c].msg \in dlq', dlq \subseteq dlq'
      PROVE  Keeps(m)
  <2>1. \A d \in Calls \ {c} : del'[d] = del[d]
    BY <1>1, <1>3 DEF Nack
  <2>2. queue[m] > 0 => queue'[m] > 0
    BY <1>1, <1>3 DEF Nack
  <2>3. del[c].msg = m /\ del[c].custody = "live" => queue'[m] > 0 \/ m \in dlq'
    BY <1>1, <1>3 DEF Nack
  <2> QED BY <1>3, <2>1, <2>2, <2>3, SlotKeeps DEF WithBroker
<1>4. ASSUME del[c].custody # "live", \A d \in Calls \ {c} : del'[d] = del[d],
             queue[m] > 0 => queue'[m] > 0, dlq \subseteq dlq'
      PROVE  Keeps(m)
  BY <1>4, SlotKeeps
<1>5. ASSUME del[c].custody = "stale", StaleFallback(c) PROVE Keeps(m)
  <2>1. (\A d \in Calls \ {c} : del'[d] = del[d]) /\ dlq \subseteq dlq'
    BY <1>1, <1>5 DEF StaleFallback
  <2>2. queue[m] > 0 => queue'[m] > 0
    BY <1>1, <1>5 DEF StaleFallback
  <2> QED BY <1>4, <1>5, <2>1, <2>2
<1>6. CASE Ack(c)
  <2>1. DecidedFor(del[c].msg)
    BY <1>1, <1>6 DEF Ack, HandleOK
  <2>2. CASE UNCHANGED <<queue, dlq>>
    <3>1. \A d \in Calls \ {c} : del'[d] = del[d]
      BY <1>1, <1>6 DEF Ack, StaleFallback
    <3> QED BY <2>1, <2>2, <3>1, SlotKeeps
  <2>3. CASE del[c].custody = "stale" /\ StaleFallback(c)
    BY <1>5, <2>3
  <2> QED BY <1>6, <2>2, <2>3 DEF Ack
<1>7. CASE Commit(c)
  <2>1. del[c].custody # "live" /\ (\A d \in Calls \ {c} : del'[d] = del[d]) /\ UNCHANGED <<queue, dlq>>
    BY <1>1, <1>7 DEF Commit, HandleOK
  <2> QED BY <1>4, <2>1
<1>8. CASE FileDoubt(c)
  <2>1. (\A d \in Calls \ {c} : del'[d] = del[d]) /\ queue' = queue /\ dlq' = dlq \cup {del[c].msg}
    BY <1>1, <1>8 DEF FileDoubt
  <2> QED BY <2>1, SlotKeeps DEF WithBroker
<1>9. CASE RejectFiled(c)
  <2>1. del[c].msg \in Messages /\ del[c].msg \in dlq
    BY <1>1, <1>9 DEF RejectFiled, HandleOK
  <2> QED BY <1>3, <1>5, <1>9, <2>1 DEF RejectFiled
<1>10. CASE FileDoubtFails(c) \/ RejectFailed(c)
  <2>1. del[c].msg \in Messages
    BY <1>1, <1>10 DEF FileDoubtFails, RejectFailed, InDoubt, Failed, Unclaimed, Returned, HandleOK
  <2> QED BY <1>3, <1>5, <1>10, <2>1 DEF FileDoubtFails, RejectFailed, ReplaceByCopy
<1>11. CASE Done(c)
  <2>1. del[c].custody # "live" /\ (\A d \in Calls \ {c} : del'[d] = del[d]) /\ UNCHANGED <<queue, dlq>>
    BY <1>1, <1>11 DEF Done, HandleOK
  <2> QED BY <1>4, <2>1
<1> QED BY <1>2, <1>6, <1>7, <1>8, <1>9, <1>10, <1>11 DEF Handle

LEMMA FailureKeeps ==
  ASSUME RabbitInv, NEW p \in Pids, LoseConnection(p) \/ StopAfterTimeout(p) \/ CrashConsumer(p),
         NEW m \in Messages
  PROVE  Keeps(m)
<1>1. ReturnHeld(p) /\ dlq' = dlq
  BY DEF LoseConnection, StopAfterTimeout, CrashConsumer
<1>2. ASSUME NEW c \in Calls, del[c].msg = m, del[c].custody = "live"
      PROVE  queue'[m] > 0 \/ del'[c] = del[c]
  <2>1. CASE del[c].pid = p
    <3>1. c \in Held(p, m)
      BY <1>2, <2>1 DEF Held
    <3> QED BY <1>1, <3>1, ReturnFacts
  <2>2. CASE del[c].pid # p
    BY <2>2 DEF LoseConnection, StopAfterTimeout, CrashConsumer, SetCustody
  <2> QED BY <2>1, <2>2
<1>3. queue[m] > 0 => queue'[m] > 0
  BY <1>1, ReturnFacts
<1> QED BY <1>1, <1>2, <1>3 DEF Keeps, WithBroker

LEMMA CustodyStep ==
  ASSUME RabbitInv, RequeueOnError, Custody, [RabbitNext]_allVars
  PROVE  Custody'
<1> SUFFICES ASSUME NEW m \in Messages PROVE WithBroker(m)' \/ DecidedFor(m)'
  BY DEF Custody
<1>1. Keeps(m)
  <2>1. CASE \E c \in Calls, n \in Messages, p \in Pids : Deliver(c, n, p)
    BY <2>1, DeliverKeeps
  <2>2. CASE \E c \in Calls : Handle(c)
    BY <2>2, HandleKeeps
  <2>3. CASE \E p \in Pids : LoseConnection(p) \/ StopAfterTimeout(p) \/ CrashConsumer(p)
    BY <2>3, FailureKeeps
  <2>4. CASE UNCHANGED rabbitVars
    BY <2>4 DEF rabbitVars, Keeps, WithBroker
  <2> QED BY <2>1, <2>2, <2>3, <2>4 DEF RabbitNext, RestartConsumer, allVars
<1>2. DecidedFor(m) => DecidedFor(m)'
  BY RabbitStep, DecidedForLasts
<1> QED BY <1>1, <1>2 DEF Custody, Keeps

LEMMA CustodyInit == RabbitInit => Custody
<1> SUFFICES ASSUME RabbitInit, NEW m \in Messages PROVE queue[m] > 0
  BY DEF Custody, WithBroker
<1>1. queue[m] \in 1..MaxCopies
  BY DEF RabbitInit
<1> QED BY <1>1

(* With requeueOnError, the broker gives up its last copy of a message     *)
(* only when the journal holds that message's outcome.                     *)
THEOREM RabbitCustody ==
  RequeueOnError /\ IsFiniteSet(Calls) => (RabbitSpec => []Custody)
<1> SUFFICES ASSUME RequeueOnError, IsFiniteSet(Calls) PROVE RabbitSpec => []Custody
  OBVIOUS
<1> QED BY CustodyInit, CustodyStep, RabbitInvariant, PTL DEF RabbitSpec

=============================================================================
