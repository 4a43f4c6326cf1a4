------------------------ MODULE StreamSessionsProofs ------------------------
(***************************************************************************)
(* Proofs about StreamSessions, for any number of messages: the sessions   *)
(* implement ConversationTurns.                                            *)
(***************************************************************************)
EXTENDS StreamSessions, SequenceTheorems, TLAPS

USE SessionsAssumption

-----------------------------------------------------------------------------
(* The inductive invariant. *)

Known(m) == home[m] # Null

Working(s) == run[s].at \in {"check", "agent"}

(* The messages of a sequence.                                             *)
Of(seq) == {seq[i] : i \in DOMAIN seq}

(* The store and the runs hold nothing of a message that has yet to come.  *)
MessagesKnown ==
  \A n \in Messages : ~Known(n) =>
    /\ n \notin streams
    /\ key[n] = Null
    /\ run[n].at = "none"
    /\ \A k \in Keys : n \notin Of(pending[k].contents)
    /\ \A s \in Messages : n \notin Of(run[s].contents)

(* A batch has a stream of its own, which has not run yet.                 *)
BatchesNamed ==
  \A k \in Keys : pending[k] # NoBatch =>
    /\ pending[k].stream \in streams
    /\ key[pending[k].stream] = k
    /\ run[pending[k].stream].at = "none"

(* Keys are used up slower than messages come.  The queued batch is        *)
(* pending, and only a conversation's first batch is so before it.         *)
ConvOK ==
  conv # NoConv =>
    /\ \A m \in Messages : ~Known(m) => conv.next < m
    /\ conv.active < conv.next
    /\ \E s \in Messages : key[s] = conv.active
    /\ conv.queued # Null =>
         /\ conv.queued < conv.next
         /\ conv.queued # conv.active
         /\ pending[conv.queued] # NoBatch
         /\ pending[conv.active] # NoBatch => conv.active = 0

(* For an allowed sender one run at most is at work, that of the active    *)
(* batch.                                                                  *)
RunsOK ==
  /\ \A s \in Messages : Working(s) => run[s].contents # <<>>
  /\ allowed => \A s \in Messages : Working(s) =>
       /\ conv # NoConv
       /\ s \in streams
       /\ key[s] = conv.active
       /\ pending[conv.active] = NoBatch
       /\ \A t \in Messages : Working(t) => t = s
  /\ ~allowed => \A s \in Messages : run[s].at \notin {"agent", "answered"}

Inv == SessionsTypeOK /\ MessagesKnown /\ BatchesNamed /\ ConvOK /\ RunsOK

-----------------------------------------------------------------------------
(* Types. *)

LEMMA NumbersNotNull == Null \notin Messages /\ Null \notin Keys /\ 0 \in Keys /\ Messages \subseteq Keys
  BY DEF Messages, Keys

LEMMA NothingThere ==
  /\ NoBatch.stream = Null /\ NoBatch.contents = <<>> /\ NoBatch.timer = FALSE
  /\ NoConv.active = Null /\ NoConv.queued = Null /\ NoConv.next = 1
  /\ NoRun \in Run /\ NoRun.at = "none" /\ NoRun.contents = <<>>
  /\ NoBatch \notin Batch
<1>1. NoRun \in Run
  BY DEF NoRun, Run
<1> QED BY <1>1, NumbersNotNull DEF NoBatch, NoConv, NoRun, Batch

LEMMA BatchTypes ==
  ASSUME SessionsTypeOK, NEW k \in Keys
  PROVE  /\ pending[k].contents \in Seq(Messages)
         /\ pending[k] # NoBatch => /\ pending[k] \in Batch
                                    /\ pending[k].stream \in Messages
                                    /\ pending[k].contents # <<>>
<1>1. pending[k] \in Batch \cup {NoBatch}
  BY DEF SessionsTypeOK
<1>2. CASE pending[k] = NoBatch
  BY <1>2, NothingThere, EmptySeq
<1>3. CASE pending[k] \in Batch
  BY <1>3 DEF Batch
<1> QED BY <1>1, <1>2, <1>3

LEMMA ConvTypes ==
  ASSUME SessionsTypeOK
  PROVE  /\ conv # NoConv => /\ conv.active \in Keys
                             /\ conv.queued \in Keys \cup {Null} /\ conv.queued # 0
                             /\ conv.next \in Nat
                             /\ conv \in [active : Keys, queued : (Keys \ {0}) \cup {Null}, next : Nat]
         /\ conv.active \in Keys \cup {Null} /\ conv.queued \in Keys \cup {Null}
         /\ conv = NoConv <=> conv.active = Null
<1>1. CASE conv = NoConv
  BY <1>1, NothingThere
<1>2. CASE conv \in [active : Keys, queued : (Keys \ {0}) \cup {Null}, next : Nat]
  BY <1>2, NumbersNotNull, NothingThere DEF Keys
<1> QED BY <1>1, <1>2 DEF SessionsTypeOK

ConvRecord == [active : Keys, queued : (Keys \ {0}) \cup {Null}, next : Nat]

(* Sequences and their messages.                                           *)
LEMMA OfAppend ==
  ASSUME NEW seq \in Seq(Messages), NEW m \in Messages
  PROVE  Of(Append(seq, m)) = Of(seq) \cup {m}
<1> DEFINE more == Append(seq, m)
<1>1. /\ more \in Seq(Messages) /\ Len(more) = Len(seq) + 1
      /\ \A i \in 1..Len(seq) : more[i] = seq[i]
      /\ more[Len(seq) + 1] = m
  BY AppendProperties
<1>2. /\ DOMAIN more = 1..(Len(seq) + 1) /\ DOMAIN seq = 1..Len(seq) /\ Len(seq) \in Nat
  BY <1>1, LenProperties
<1> HIDE DEF more
<1>3. \A i \in 1..(Len(seq) + 1) : i \in 1..Len(seq) \/ i = Len(seq) + 1
  BY <1>2
<1>4. 1..Len(seq) \subseteq 1..(Len(seq) + 1) /\ Len(seq) + 1 \in 1..(Len(seq) + 1)
  BY <1>2
<1>5. Of(more) = Of(seq) \cup {m}
  BY <1>1, <1>2, <1>3, <1>4 DEF Of
<1> QED BY <1>5 DEF more

LEMMA OfEmpty == Of(<<>>) = {}
  BY DEF Of

LEMMA InitInv == Init => Inv
<1> SUFFICES ASSUME Init PROVE Inv
  OBVIOUS
<1>1. SessionsTypeOK
  BY NumbersNotNull, NothingThere DEF Init, SessionsTypeOK
<1>2. MessagesKnown /\ BatchesNamed /\ ConvOK /\ RunsOK
  BY NothingThere, OfEmpty, NumbersNotNull DEF Init, MessagesKnown, BatchesNamed, ConvOK, RunsOK, Known, Working
<1> QED BY <1>1, <1>2 DEF Inv

-----------------------------------------------------------------------------
(* Messages come.  New batches go under the conversation key, or a key     *)
(* that the conversation has not used.                                     *)

Fresh(m) == m \in Messages /\ ~Known(m) /\ \A n \in 1..(m - 1) : Known(n)

LEMMA NewBatchKeeps ==
  ASSUME Inv, NEW m \in Messages, Fresh(m), NEW k \in Keys, NewBatch(m, k),
         UNCHANGED <<allowed, run, acks, open>>, checks' = checks \cup {m},
         admitted' \subseteq Messages, conv' \in ConvRecord
  PROVE  /\ SessionsTypeOK' /\ MessagesKnown' /\ BatchesNamed'
         /\ pending'[k] # NoBatch /\ pending'[k].contents = <<m>>
         /\ \A j \in Keys \ {k} : pending'[j] = pending[j]
         /\ key'[m] = k /\ \A s \in Messages \ {m} : key'[s] = key[s]
         /\ \A n \in Messages : ~Known(n)' <=> ~Known(n) /\ n # m
         /\ streams \subseteq streams'
<1> DEFINE batch == [stream |-> m, contents |-> <<m>>, timer |-> TRUE, ready |-> FALSE]
<1>1. SessionsTypeOK /\ MessagesKnown /\ BatchesNamed
  BY DEF Inv
<1>2. batch \in Batch /\ batch # NoBatch /\ Of(<<m>>) = {m}
  BY NumbersNotNull DEF Batch, NoBatch, Of
<1>3. /\ pending' \in [Keys -> Batch \cup {NoBatch}] /\ pending'[k] = batch
      /\ \A j \in Keys \ {k} : pending'[j] = pending[j]
  BY <1>1, <1>2 DEF SessionsTypeOK, NewBatch
<1>4. /\ key' \in [Messages -> Keys \cup {Null}]
      /\ key'[m] = k /\ \A s \in Messages \ {m} : key'[s] = key[s]
  BY <1>1 DEF SessionsTypeOK, NewBatch
<1>5. /\ home' \in [Messages -> Messages \cup {Null}]
      /\ home'[m] = m /\ \A s \in Messages \ {m} : home'[s] = home[s]
  BY <1>1 DEF SessionsTypeOK, NewBatch
<1>6. \A n \in Messages : ~Known(n)' <=> ~Known(n) /\ n # m
  BY <1>5, NumbersNotNull DEF Known, Fresh
<1>7. strays' \in [Keys -> Nat]
  BY <1>1 DEF SessionsTypeOK, NewBatch
<1>8. SessionsTypeOK'
  BY <1>1, <1>3, <1>4, <1>5, <1>7 DEF SessionsTypeOK, NewBatch, ConvRecord
<1> HIDE DEF batch
<1>9. MessagesKnown'
  <2> SUFFICES ASSUME NEW n \in Messages, ~Known(n), n # m
               PROVE  /\ n \notin streams' /\ key'[n] = Null /\ run'[n].at = "none"
                      /\ \A j \in Keys : n \notin Of(pending'[j].contents)
                      /\ \A s \in Messages : n \notin Of(run'[s].contents)
    BY <1>6 DEF MessagesKnown
  <2>1. Of(pending'[k].contents) = {m}
    BY <1>2, <1>3 DEF batch
  <2> QED BY <1>1, <1>3, <1>4, <2>1 DEF MessagesKnown, NewBatch
<1>10. BatchesNamed'
  <2> SUFFICES ASSUME NEW j \in Keys, pending'[j] # NoBatch
               PROVE  /\ pending'[j].stream \in streams'
                      /\ key'[pending'[j].stream] = j
                      /\ run'[pending'[j].stream].at = "none"
    BY DEF BatchesNamed
  <2>1. CASE j = k
    BY <1>1, <1>3, <1>4, <2>1 DEF NewBatch, MessagesKnown, Fresh, batch
  <2>2. CASE j # k
    BY <1>1, <1>3, <1>4, <2>2, BatchTypes DEF BatchesNamed, NewBatch, MessagesKnown, Fresh
  <2> QED BY <2>1, <2>2
<1> QED BY <1>2, <1>3, <1>4, <1>6, <1>8, <1>9, <1>10 DEF NewBatch, batch

LEMMA MergeKeeps ==
  ASSUME Inv, NEW m \in Messages, Fresh(m), NEW k \in Keys, pending[k] # NoBatch, Merge(m, k),
         UNCHANGED <<allowed, run, acks, open, conv>>, checks' = checks \cup {m},
         admitted' \subseteq Messages
  PROVE  /\ Inv'
         /\ pending'[k].contents = Append(pending[k].contents, m)
         /\ \A j \in Keys \ {k} : pending'[j] = pending[j]
<1>0. UNCHANGED <<allowed, streams, key, run, conv>>
  BY DEF Merge
<1>1. SessionsTypeOK /\ MessagesKnown /\ BatchesNamed /\ ConvOK /\ RunsOK
  BY DEF Inv
<1>2. /\ pending[k] \in Batch /\ pending[k].stream \in Messages
      /\ pending[k].contents \in Seq(Messages)
  BY <1>1, BatchTypes
<1>3. /\ Append(pending[k].contents, m) \in Seq(Messages) \ {<<>>}
      /\ Of(Append(pending[k].contents, m)) = Of(pending[k].contents) \cup {m}
  BY <1>2, OfAppend, AppendProperties
<1>4. /\ pending'[k] = [pending[k] EXCEPT !.contents = Append(pending[k].contents, m), !.timer = TRUE]
      /\ \A j \in Keys \ {k} : pending'[j] = pending[j]
      /\ DOMAIN pending' = Keys /\ pending' = [j \in Keys |-> pending'[j]]
  BY <1>1 DEF SessionsTypeOK, Merge
<1>5. /\ pending'[k] \in Batch
      /\ pending'[k].stream = pending[k].stream
      /\ pending'[k].contents = Append(pending[k].contents, m)
  BY <1>2, <1>3, <1>4 DEF Batch
<1>6. pending' \in [Keys -> Batch \cup {NoBatch}]
  BY <1>1, <1>4, <1>5 DEF SessionsTypeOK
<1>7. /\ home' \in [Messages -> Messages \cup {Null}]
      /\ home'[m] \in Messages /\ \A s \in Messages \ {m} : home'[s] = home[s]
  BY <1>1, <1>2 DEF SessionsTypeOK, Merge
<1>8. \A n \in Messages : ~Known(n)' <=> ~Known(n) /\ n # m
  BY <1>7, NumbersNotNull DEF Known, Fresh
<1>9. SessionsTypeOK'
  BY <1>1, <1>6, <1>7 DEF SessionsTypeOK, Merge
<1>10. MessagesKnown'
  <2> SUFFICES ASSUME NEW n \in Messages, ~Known(n), n # m
               PROVE  /\ n \notin streams' /\ key'[n] = Null /\ run'[n].at = "none"
                      /\ \A j \in Keys : n \notin Of(pending'[j].contents)
                      /\ \A s \in Messages : n \notin Of(run'[s].contents)
    BY <1>8 DEF MessagesKnown
  <2>1. ASSUME NEW j \in Keys PROVE n \notin Of(pending'[j].contents)
    <3>1. CASE j = k
      BY <1>1, <1>3, <1>5, <3>1 DEF MessagesKnown
    <3>2. CASE j # k
      BY <1>1, <1>4, <3>2 DEF MessagesKnown
    <3> QED BY <3>1, <3>2
  <2> QED BY <1>0, <1>1, <2>1 DEF MessagesKnown
<1>11. \A j \in Keys : /\ pending'[j] # NoBatch <=> pending[j] # NoBatch
                       /\ pending'[j].stream = pending[j].stream
  BY <1>4, <1>5, NothingThere
<1>12. BatchesNamed'
  <2> SUFFICES ASSUME NEW j \in Keys, pending'[j] # NoBatch
               PROVE  /\ pending'[j].stream \in streams'
                      /\ key'[pending'[j].stream] = j
                      /\ run'[pending'[j].stream].at = "none"
    BY DEF BatchesNamed
  <2> QED BY <1>0, <1>1, <1>11 DEF BatchesNamed
<1>13. ConvOK'
  BY <1>0, <1>1, <1>8, <1>11, ConvTypes DEF ConvOK
<1>14. RunsOK'
  <2>1. \A s \in Messages : Working(s)' <=> Working(s)
    BY <1>0 DEF Working
  <2> QED BY <1>0, <1>1, <1>11, <2>1, ConvTypes DEF RunsOK
<1> QED BY <1>4, <1>5, <1>9, <1>10, <1>12, <1>13, <1>14 DEF Inv

LEMMA ReceiveOpens ==
  ASSUME Inv, NEW m \in Messages, Receive(m), conv = NoConv, NewBatch(m, 0),
         conv' = [active |-> 0, queued |-> Null, next |-> 1]
  PROVE  /\ Inv'
         /\ pending'[0].contents = <<m>>
<1>1. SessionsTypeOK /\ MessagesKnown /\ BatchesNamed /\ ConvOK /\ RunsOK
  BY DEF Inv
<1>2. Fresh(m) /\ UNCHANGED <<allowed, run, acks, open>> /\ checks' = checks \cup {m}
      /\ admitted' \subseteq Messages
  BY <1>1 DEF Receive, Fresh, Known, SessionsTypeOK
<1>3. conv' \in ConvRecord /\ conv'.active = 0 /\ conv'.queued = Null /\ conv'.next = 1
  BY NumbersNotNull DEF ConvRecord
<1>4. /\ SessionsTypeOK' /\ MessagesKnown' /\ BatchesNamed' /\ pending'[0].contents = <<m>>
      /\ key'[m] = 0
      /\ \A n \in Messages : ~Known(n)' <=> ~Known(n) /\ n # m
  BY <1>2, <1>3, NumbersNotNull, NewBatchKeeps
<1>5. ConvOK'
  <2>1. \A n \in Messages : ~Known(n)' => 1 < n
    BY <1>2, <1>4 DEF Fresh, Messages
  <2> QED BY <1>3, <1>4, <2>1 DEF ConvOK
<1>6. RunsOK'
  <2>1. \A s \in Messages : Working(s)' <=> Working(s)
    BY <1>2 DEF Working
  <2> QED BY <1>1, <1>2, <2>1 DEF RunsOK
<1> QED BY <1>4, <1>5, <1>6 DEF Inv

LEMMA ReceiveQueues ==
  ASSUME Inv, NEW m \in Messages, Receive(m), conv # NoConv,
         ~MergesIntoActive, ~MergesIntoQueued, NewBatch(m, conv.next),
         conv' = [conv EXCEPT !.queued = conv.next, !.next = @ + 1]
  PROVE  /\ Inv'
         /\ conv.queued = Null /\ conv'.active = conv.active /\ conv'.queued = conv.next
         /\ conv.active # conv.next
         /\ pending'[conv.next].contents = <<m>>
         /\ \A j \in Keys \ {conv.next} : pending'[j] = pending[j]
<1>1. SessionsTypeOK /\ MessagesKnown /\ BatchesNamed /\ ConvOK /\ RunsOK
  BY DEF Inv
<1>2. Fresh(m) /\ UNCHANGED <<allowed, run, acks, open>> /\ checks' = checks \cup {m}
      /\ admitted' \subseteq Messages
  BY <1>1 DEF Receive, Fresh, Known, SessionsTypeOK
<1>3. /\ conv.active \in Keys /\ conv.next \in Nat /\ conv.active < conv.next /\ conv.next < m
      /\ conv \in ConvRecord
  BY <1>1, <1>2, ConvTypes DEF ConvOK, Fresh, ConvRecord
<1>4. conv.next \in Keys \ {0} /\ conv.next # conv.active
  BY <1>3 DEF Keys, Messages
<1>5. conv.queued = Null
  BY <1>1 DEF ConvOK, MergesIntoQueued
<1>6. /\ conv' \in ConvRecord /\ conv'.active = conv.active /\ conv'.queued = conv.next
      /\ conv'.next = conv.next + 1
  <2>1. conv = [active |-> conv.active, queued |-> conv.queued, next |-> conv.next]
    BY <1>3 DEF ConvRecord
  <2>2. conv' = [active |-> conv.active, queued |-> conv.next, next |-> conv.next + 1]
    BY <2>1
  <2>3. conv.next + 1 \in Nat
    BY <1>3
  <2> QED BY <1>3, <1>4, <2>2, <2>3 DEF ConvRecord
<1>7. /\ SessionsTypeOK' /\ MessagesKnown' /\ BatchesNamed'
      /\ pending'[conv.next] # NoBatch /\ pending'[conv.next].contents = <<m>>
      /\ \A j \in Keys \ {conv.next} : pending'[j] = pending[j]
      /\ \A s \in Messages \ {m} : key'[s] = key[s]
      /\ \A n \in Messages : ~Known(n)' <=> ~Known(n) /\ n # m
      /\ streams \subseteq streams'
  BY <1>2, <1>4, <1>6, NewBatchKeeps
<1>8. key[m] = Null /\ run[m].at = "none"
  BY <1>1, <1>2 DEF MessagesKnown, Fresh
<1>9. ConvOK'
  <2>1. \A n \in Messages : ~Known(n)' => conv.next + 1 < n
    BY <1>2, <1>3, <1>7 DEF Fresh, Messages
  <2>2. \E s \in Messages : key'[s] = conv.active
    BY <1>1, <1>3, <1>7, <1>8, NumbersNotNull DEF ConvOK
  <2>3. pending'[conv.active] # NoBatch => conv.active = 0
    BY <1>3, <1>4, <1>7 DEF MergesIntoActive
  <2> QED BY <1>3, <1>4, <1>6, <1>7, <2>1, <2>2, <2>3 DEF ConvOK, Keys
<1>10. RunsOK'
  <2>1. \A s \in Messages : /\ Working(s)' <=> Working(s)
                            /\ Working(s) => s # m
    BY <1>2, <1>8 DEF Working
  <2>2. conv' # NoConv
    BY <1>3, <1>6, NothingThere, NumbersNotNull
  <2> QED BY <1>1, <1>2, <1>3, <1>4, <1>6, <1>7, <2>1, <2>2 DEF RunsOK
<1> QED BY <1>4, <1>5, <1>6, <1>7, <1>9, <1>10 DEF Inv

LEMMA ReceiveMerges ==
  ASSUME Inv, NEW m \in Messages, Receive(m), NEW k \in Keys, pending[k] # NoBatch,
         Merge(m, k), UNCHANGED conv
  PROVE  /\ Inv'
         /\ pending'[k].contents = Append(pending[k].contents, m)
         /\ \A j \in Keys \ {k} : pending'[j] = pending[j]
<1>1. SessionsTypeOK
  BY DEF Inv
<1>2. Fresh(m) /\ UNCHANGED <<allowed, run, acks, open>> /\ checks' = checks \cup {m}
      /\ admitted' \subseteq Messages
  BY <1>1 DEF Receive, Fresh, Known, SessionsTypeOK
<1> QED BY <1>2, MergeKeeps

LEMMA ReceiveKeeps ==
  ASSUME Inv, NEW m \in Messages, Receive(m)
  PROVE  Inv'
<1>1. SessionsTypeOK
  BY DEF Inv
<1>2. CASE MergesIntoActive /\ conv # NoConv /\ Merge(m, conv.active) /\ UNCHANGED conv
  BY <1>1, <1>2, ConvTypes, ReceiveMerges DEF MergesIntoActive
<1>3. CASE MergesIntoQueued /\ conv # NoConv /\ Merge(m, conv.queued) /\ UNCHANGED conv
  BY <1>1, <1>3, ConvTypes, ReceiveMerges DEF MergesIntoQueued
<1> QED BY <1>2, <1>3, ReceiveOpens, ReceiveQueues DEF Receive, AddPendingMessage

-----------------------------------------------------------------------------
(* Batches are flushed and runs move on. *)

(* What a run may come to, apart from being started.                       *)
Moves(runs) ==
  /\ runs \in [Messages -> Run]
  /\ \A s \in Messages :
       /\ runs[s].contents = run[s].contents
       /\ runs[s].at = "none" <=> run[s].at = "none"
       /\ runs[s].at \in {"check", "agent"} => Working(s)

LEMMA SameMoves == SessionsTypeOK => Moves(run)
  BY DEF SessionsTypeOK, Moves, Working

LEMMA AtMoves ==
  ASSUME SessionsTypeOK, NEW s \in Messages, Working(s), NEW place \in {"agent", "answered", "denied"}
  PROVE  /\ Moves(At(s, place)) /\ At(s, place)[s].at = place
         /\ \A t \in Messages \ {s} : At(s, place)[t] = run[t]
<1>1. run \in [Messages -> Run]
  BY DEF SessionsTypeOK
<1>2. At(s, place)[s] = [run[s] EXCEPT !.at = place] /\ run[s] \in Run
      /\ \A t \in Messages \ {s} : At(s, place)[t] = run[t]
  BY <1>1 DEF At
<1>3. At(s, place)[s] \in Run /\ At(s, place)[s].at = place
      /\ At(s, place)[s].contents = run[s].contents
  BY <1>2 DEF Run
<1>4. At(s, place) \in [Messages -> Run]
  <2>1. At(s, place) = [t \in Messages |-> IF t = s THEN At(s, place)[s] ELSE run[t]]
    BY <1>1, <1>2 DEF At
  <2> QED BY <1>1, <1>3, <2>1
<1> QED BY <1>2, <1>3, <1>4 DEF Moves, Working

(* The store, while no message comes.                                      *)
StoreSame == UNCHANGED <<allowed, streams, key, home>>

LEMMA FlushFacts ==
  ASSUME Inv, NEW runs, Moves(runs), NEW k \in Keys, pending[k] # NoBatch,
         FlushPending(k, runs), StoreSame
  PROVE  /\ pending' \in [Keys -> Batch \cup {NoBatch}] /\ pending'[k] = NoBatch
         /\ \A j \in Keys \ {k} : pending'[j] = pending[j]
         /\ pending[k].stream \in Messages /\ pending[k].stream \in streams
         /\ key[pending[k].stream] = k
         /\ run' \in [Messages -> Run]
         /\ run[pending[k].stream].at = "none"
         /\ run'[pending[k].stream].at = "check"
         /\ run'[pending[k].stream].contents = pending[k].contents
         /\ pending[k].contents # <<>>
         /\ \A t \in Messages \ {pending[k].stream} : run'[t] = runs[t]
         /\ MessagesKnown' /\ BatchesNamed'
<1> DEFINE s == pending[k].stream
<1>1. SessionsTypeOK /\ MessagesKnown /\ BatchesNamed
  BY DEF Inv
<1>2. /\ pending[k] \in Batch /\ s \in Messages /\ s \in streams /\ key[s] = k /\ run[s].at = "none"
      /\ pending[k].contents \in Seq(Messages) /\ pending[k].contents # <<>>
  BY <1>1, BatchTypes DEF BatchesNamed
<1>3. /\ pending' \in [Keys -> Batch \cup {NoBatch}] /\ pending'[k] = NoBatch
      /\ \A j \in Keys \ {k} : pending'[j] = pending[j]
  BY <1>1 DEF SessionsTypeOK, FlushPending
<1>4. [at |-> "check", contents |-> pending[k].contents] \in Run
  BY <1>2 DEF Run
<1>5. /\ run' \in [Messages -> Run]
      /\ run'[s] = [at |-> "check", contents |-> pending[k].contents]
      /\ \A t \in Messages \ {s} : run'[t] = runs[t]
  BY <1>2, <1>4 DEF FlushPending, Moves
<1> HIDE DEF s
<1>6. run'[s].at = "check" /\ run'[s].contents = pending[k].contents
  BY <1>5
<1>7. MessagesKnown'
  <2> SUFFICES ASSUME NEW n \in Messages, ~Known(n)
               PROVE  /\ n \notin streams' /\ key'[n] = Null /\ run'[n].at = "none"
                      /\ \A j \in Keys : n \notin Of(pending'[j].contents)
                      /\ \A t \in Messages : n \notin Of(run'[t].contents)
    BY DEF MessagesKnown, Known, StoreSame
  <2>1. n # s /\ run'[n].at = "none"
    BY <1>1, <1>2, <1>5 DEF MessagesKnown, Moves
  <2>2. ASSUME NEW j \in Keys PROVE n \notin Of(pending'[j].contents)
    BY <1>1, <1>3, NothingThere, OfEmpty DEF MessagesKnown
  <2>3. ASSUME NEW t \in Messages PROVE n \notin Of(run'[t].contents)
    BY <1>1, <1>5, <1>6 DEF MessagesKnown, Moves
  <2> QED BY <1>1, <2>1, <2>2, <2>3 DEF MessagesKnown, StoreSame
<1>8. BatchesNamed'
  <2> SUFFICES ASSUME NEW j \in Keys, pending'[j] # NoBatch
               PROVE  /\ pending'[j].stream \in streams'
                      /\ key'[pending'[j].stream] = j
                      /\ run'[pending'[j].stream].at = "none"
    BY DEF BatchesNamed
  <2>1. j # k /\ pending'[j] = pending[j]
    BY <1>3
  <2>2. /\ pending[j].stream \in Messages /\ pending[j].stream # s
        /\ run[pending[j].stream].at = "none"
    BY <1>1, <1>2, <2>1, BatchTypes DEF BatchesNamed
  <2> QED BY <1>1, <1>5, <2>1, <2>2 DEF BatchesNamed, Moves, StoreSame
<1> QED BY <1>2, <1>3, <1>5, <1>6, <1>7, <1>8 DEF s

(* A step that takes no message, starts or ends no run, and leaves what    *)
(* the conversation needs.                                                 *)
LEMMA ShapeKept ==
  ASSUME Inv, SessionsTypeOK', UNCHANGED <<allowed, key, home, run, conv>>,
         streams' \subseteq streams,
         \A s \in streams : Working(s) => s \in streams',
         \A k \in Keys : pending'[k] # NoBatch =>
           /\ pending[k] # NoBatch
           /\ pending'[k].stream = pending[k].stream
           /\ pending'[k].contents = pending[k].contents
           /\ pending[k].stream \in streams',
         \A k \in Keys : k = conv.queued /\ pending[k] # NoBatch => pending'[k] # NoBatch
  PROVE  Inv'
<1>1. SessionsTypeOK /\ MessagesKnown /\ BatchesNamed /\ ConvOK /\ RunsOK
  BY DEF Inv
<1>2. MessagesKnown'
  <2> SUFFICES ASSUME NEW n \in Messages, ~Known(n)
               PROVE  /\ n \notin streams' /\ key'[n] = Null /\ run'[n].at = "none"
                      /\ \A j \in Keys : n \notin Of(pending'[j].contents)
                      /\ \A t \in Messages : n \notin Of(run'[t].contents)
    BY DEF MessagesKnown, Known
  <2>1. ASSUME NEW j \in Keys PROVE n \notin Of(pending'[j].contents)
    <3>1. CASE pending'[j] = NoBatch
      BY <3>1, NothingThere, OfEmpty
    <3>2. CASE pending'[j] # NoBatch
      BY <1>1, <3>2 DEF MessagesKnown
    <3> QED BY <3>1, <3>2
  <2> QED BY <1>1, <2>1 DEF MessagesKnown
<1>3. BatchesNamed'
  <2> SUFFICES ASSUME NEW j \in Keys, pending'[j] # NoBatch
               PROVE  /\ pending'[j].stream \in streams'
                      /\ key'[pending'[j].stream] = j
                      /\ run'[pending'[j].stream].at = "none"
    BY DEF BatchesNamed
  <2> QED BY <1>1 DEF BatchesNamed
<1>4. ConvOK'
  <2>1. \A m \in Messages : Known(m)' <=> Known(m)
    BY DEF Known
  <2> QED BY <1>1, <2>1, ConvTypes DEF ConvOK
<1>5. RunsOK'
  <2>1. \A s \in Messages : Working(s)' <=> Working(s)
    BY DEF Working
  <2>2. conv # NoConv /\ pending[conv.active] = NoBatch => pending'[conv.active] = NoBatch
    BY <1>1, ConvTypes
  <2> QED BY <1>1, <2>1, <2>2 DEF RunsOK
<1> QED BY <1>2, <1>3, <1>4, <1>5 DEF Inv

LEMMA SameKeeps ==
  ASSUME Inv, SessionsTypeOK', StoreSame, UNCHANGED <<pending, run, conv>>
  PROVE  Inv'
<1>1. BatchesNamed
  BY DEF Inv
<1> QED BY <1>1, ShapeKept DEF StoreSame, BatchesNamed

(* A timer fires: the batch is ready, or starts.                           *)
LEMMA MarkFacts ==
  ASSUME SessionsTypeOK, NEW k \in Keys, pending[k] # NoBatch,
         pending' = [pending EXCEPT ![k].timer = FALSE, ![k].ready = TRUE]
  PROVE  /\ pending' \in [Keys -> Batch \cup {NoBatch}]
         /\ pending'[k].stream = pending[k].stream /\ pending'[k].contents = pending[k].contents
         /\ \A j \in Keys \ {k} : pending'[j] = pending[j]
<1>1. pending[k] \in Batch /\ pending \in [Keys -> Batch \cup {NoBatch}]
  BY BatchTypes DEF SessionsTypeOK
<1>2. /\ pending'[k] = [pending[k] EXCEPT !.timer = FALSE, !.ready = TRUE]
      /\ \A j \in Keys \ {k} : pending'[j] = pending[j]
      /\ DOMAIN pending' = Keys /\ pending' = [j \in Keys |-> pending'[j]]
  BY <1>1
<1>3. /\ pending'[k] \in Batch
      /\ pending'[k].stream = pending[k].stream /\ pending'[k].contents = pending[k].contents
  BY <1>1, <1>2 DEF Batch
<1> QED BY <1>1, <1>2, <1>3

LEMMA RequestFlushKeeps ==
  ASSUME Inv, NEW k \in Keys, RequestFlush(k), StoreSame, strays' \in [Keys -> Nat],
         UNCHANGED <<conv, checks, acks, open, admitted>>
  PROVE  Inv'
<1>1. SessionsTypeOK /\ MessagesKnown /\ BatchesNamed /\ ConvOK /\ RunsOK
  BY DEF Inv
<1>2. CASE UNCHANGED <<pending, run>>
  <2>1. SessionsTypeOK'
    BY <1>1, <1>2 DEF SessionsTypeOK, StoreSame
  <2> QED BY <1>2, <2>1, SameKeeps
<1>3. CASE /\ pending[k] # NoBatch /\ run' = run
           /\ pending' = [pending EXCEPT ![k].timer = FALSE, ![k].ready = TRUE]
  <2>1. /\ pending' \in [Keys -> Batch \cup {NoBatch}]
        /\ pending'[k].stream = pending[k].stream /\ pending'[k].contents = pending[k].contents
        /\ \A j \in Keys \ {k} : pending'[j] = pending[j]
    BY <1>1, <1>3, MarkFacts
  <2>2. pending'[k] # NoBatch
    <3>1. pending[k].stream # Null
      BY <1>1, <1>3, BatchTypes, NumbersNotNull
    <3>2. pending'[k].stream # NoBatch.stream
      BY <2>1, <3>1, NothingThere
    <3> QED BY <3>2
  <2>3. SessionsTypeOK'
    BY <1>1, <1>3, <2>1 DEF SessionsTypeOK, StoreSame
  <2> QED BY <1>1, <1>3, <2>1, <2>2, <2>3, ShapeKept DEF StoreSame, BatchesNamed
<1>4. CASE pending[k] # NoBatch /\ conv.active = k /\ FlushPending(k, run)
  <2>1. Moves(run)
    BY <1>1, SameMoves
  <2> DEFINE s == pending[k].stream
  <2>2. /\ pending' \in [Keys -> Batch \cup {NoBatch}] /\ pending'[k] = NoBatch
        /\ \A j \in Keys \ {k} : pending'[j] = pending[j]
        /\ s \in Messages /\ s \in streams /\ key[s] = k
        /\ run' \in [Messages -> Run]
        /\ run'[s].at = "check" /\ run'[s].contents # <<>>
        /\ \A t \in Messages \ {s} : run'[t] = run[t]
        /\ MessagesKnown' /\ BatchesNamed'
    BY <1>4, <2>1, FlushFacts
  <2> HIDE DEF s
  <2>3. SessionsTypeOK'
    BY <1>1, <2>2 DEF SessionsTypeOK, StoreSame
  <2>4. conv # NoConv
    BY <1>1, <1>4, ConvTypes, NumbersNotNull
  <2>5. ConvOK'
    <3>1. \A m \in Messages : Known(m)' <=> Known(m)
      BY DEF Known, StoreSame
    <3> QED BY <1>1, <1>4, <2>2, <2>4, <3>1, ConvTypes DEF ConvOK, StoreSame
  <2>6. RunsOK'
    <3>1. \A t \in Messages : t # s => (Working(t)' <=> Working(t))
      BY <2>2 DEF Working
    <3>2. allowed => \A t \in Messages : ~Working(t)
      BY <1>1, <1>4 DEF RunsOK
    <3>3. ASSUME NEW t \in Messages, Working(t)' PROVE run'[t].contents # <<>>
      BY <1>1, <2>2, <3>1, <3>3 DEF RunsOK
    <3>4. ASSUME allowed, NEW t \in Messages, Working(t)' PROVE t = s
      BY <3>1, <3>2, <3>4
    <3>5. ASSUME ~allowed, NEW t \in Messages PROVE run'[t].at \notin {"agent", "answered"}
      BY <1>1, <2>2, <3>5 DEF RunsOK
    <3> QED BY <1>4, <2>2, <2>4, <3>3, <3>4, <3>5 DEF RunsOK, StoreSame
  <2> QED BY <2>2, <2>3, <2>5, <2>6 DEF Inv
<1> QED BY <1>2, <1>3, <1>4 DEF RequestFlush

(* A run moves on, and no batch starts with it.                            *)
LEMMA MovesKeep ==
  ASSUME Inv, NEW runs, Moves(runs), run' = runs, StoreSame, UNCHANGED pending
  PROVE  /\ MessagesKnown' /\ BatchesNamed'
         /\ run' \in [Messages -> Run]
         /\ \A t \in Messages : Working(t)' => Working(t) /\ run'[t].contents # <<>>
<1>1. SessionsTypeOK /\ MessagesKnown /\ BatchesNamed /\ RunsOK
  BY DEF Inv
<1>2. MessagesKnown'
  BY <1>1 DEF MessagesKnown, Moves, StoreSame, Known
<1>3. BatchesNamed'
  BY <1>1, BatchTypes DEF BatchesNamed, Moves, StoreSame
<1> QED BY <1>1, <1>2, <1>3 DEF Moves, Working, RunsOK

LEMMA PromoteFacts ==
  ASSUME SessionsTypeOK, conv # NoConv, conv.queued # Null,
         conv' = [conv EXCEPT !.active = conv.queued, !.queued = Null]
  PROVE  /\ conv' \in ConvRecord /\ conv' # NoConv /\ conv'.active = conv.queued
         /\ conv'.queued = Null /\ conv'.next = conv.next
<1>1. /\ conv \in ConvRecord /\ conv.queued \in Keys \ {0} /\ conv.next \in Nat
  BY ConvTypes DEF ConvRecord
<1>2. conv = [active |-> conv.active, queued |-> conv.queued, next |-> conv.next]
  BY <1>1 DEF ConvRecord
<1>3. conv' = [active |-> conv.queued, queued |-> Null, next |-> conv.next]
  BY <1>2
<1> QED BY <1>1, <1>3, NothingThere, NumbersNotNull DEF ConvRecord

(* onStreamFinished: the conversation is over, or its queued batch becomes *)
(* the active one, and starts if it is ready.                              *)
LEMMA FinishKeeps ==
  ASSUME Inv, NEW runs, Moves(runs), NEW s, OnStreamFinished(s, runs), StoreSame,
         UNCHANGED <<strays, admitted>>, checks' \subseteq Messages,
         acks' \in [Messages -> SUBSET Messages], open' \subseteq Messages,
         allowed => IsActive(s) /\ \A t \in Messages : runs[t].at \notin {"check", "agent"},
         ~allowed => \A t \in Messages : runs[t].at \notin {"agent", "answered"}
  PROVE  Inv'
<1>1. SessionsTypeOK /\ MessagesKnown /\ BatchesNamed /\ ConvOK /\ RunsOK
  BY DEF Inv
<1>2. \A m \in Messages : Known(m)' <=> Known(m)
  BY DEF Known, StoreSame
<1>3. ASSUME run' = runs, UNCHANGED pending
      PROVE  MessagesKnown' /\ BatchesNamed' /\ run' \in [Messages -> Run] /\ RunsOK'
  <2>1. /\ MessagesKnown' /\ BatchesNamed' /\ run' \in [Messages -> Run]
        /\ \A t \in Messages : Working(t)' => Working(t) /\ run'[t].contents # <<>>
    BY <1>3, MovesKeep
  <2>2. allowed => \A t \in Messages : ~Working(t)'
    BY <1>3 DEF Working
  <2>3. ~allowed => \A t \in Messages : run'[t].at \notin {"agent", "answered"}
    BY <1>3
  <2> QED BY <2>1, <2>2, <2>3 DEF RunsOK, StoreSame
<1>4. CASE ~IsActive(s) /\ run' = runs /\ UNCHANGED <<conv, pending>>
  <2>1. SessionsTypeOK'
    BY <1>1, <1>3, <1>4 DEF SessionsTypeOK, StoreSame
  <2>2. ConvOK'
    BY <1>1, <1>2, <1>4 DEF ConvOK, StoreSame
  <2> QED BY <1>3, <1>4, <2>1, <2>2 DEF Inv
<1>5. CASE conv' = NoConv /\ run' = runs /\ UNCHANGED pending
  <2>1. SessionsTypeOK'
    BY <1>1, <1>3, <1>5 DEF SessionsTypeOK, StoreSame
  <2>2. ConvOK'
    BY <1>5 DEF ConvOK
  <2> QED BY <1>3, <1>5, <2>1, <2>2 DEF Inv
<1>6. CASE /\ IsActive(s) /\ conv.queued # Null
           /\ conv' = [conv EXCEPT !.active = conv.queued, !.queued = Null]
           /\ IF pending[conv.queued].ready
              THEN FlushPending(conv.queued, runs)
              ELSE run' = runs /\ UNCHANGED pending
  <2> DEFINE q == conv.queued
             b == pending[q].stream
  <2>1. conv # NoConv
    BY <1>6 DEF IsActive
  <2>2. /\ conv' \in ConvRecord /\ conv' # NoConv /\ conv'.active = q
        /\ conv'.queued = Null /\ conv'.next = conv.next
    BY <1>1, <1>6, <2>1, PromoteFacts
  <2>3. q \in Keys /\ pending[q] # NoBatch /\ q < conv.next
    BY <1>1, <1>6, <2>1, ConvTypes DEF ConvOK
  <2>4. b \in Messages /\ b \in streams /\ key[b] = q
    BY <1>1, <2>3, BatchTypes DEF BatchesNamed
  <2> HIDE DEF q, b
  <2>5. ConvOK'
    BY <1>1, <1>2, <2>1, <2>2, <2>3, <2>4 DEF ConvOK, StoreSame
  <2>6. CASE run' = runs /\ UNCHANGED pending
    <3>1. SessionsTypeOK'
      BY <1>1, <1>3, <2>2, <2>6 DEF SessionsTypeOK, StoreSame, ConvRecord
    <3> QED BY <1>3, <2>5, <2>6, <3>1 DEF Inv
  <2>7. CASE FlushPending(q, runs)
    <3>1. /\ pending' \in [Keys -> Batch \cup {NoBatch}] /\ pending'[q] = NoBatch
          /\ run' \in [Messages -> Run]
          /\ run'[b].at = "check" /\ run'[b].contents # <<>>
          /\ \A t \in Messages \ {b} : run'[t] = runs[t]
          /\ MessagesKnown' /\ BatchesNamed'
      BY <2>3, <2>7, FlushFacts DEF b
    <3>2. SessionsTypeOK'
      BY <1>1, <2>2, <3>1 DEF SessionsTypeOK, StoreSame, ConvRecord
    <3>3. ASSUME NEW t \in Messages, Working(t)' PROVE run'[t].contents # <<>>
      BY <1>1, <3>1, <3>3 DEF RunsOK, Moves, Working
    <3>4. ASSUME allowed, NEW t \in Messages, Working(t)' PROVE t = b
      BY <3>1, <3>4 DEF Working
    <3>5. ASSUME ~allowed, NEW t \in Messages PROVE run'[t].at \notin {"agent", "answered"}
      BY <3>1, <3>5
    <3>6. RunsOK'
      BY <2>2, <2>4, <3>1, <3>3, <3>4, <3>5 DEF RunsOK, StoreSame
    <3> QED BY <2>5, <3>1, <3>2, <3>6 DEF Inv
  <2> QED BY <1>6, <2>6, <2>7 DEF q
<1> QED BY <1>4, <1>5, <1>6 DEF OnStreamFinished

-----------------------------------------------------------------------------
(* The other steps. *)

LEMMA TimersKeep ==
  ASSUME Inv, NEW k \in Keys, TimerFires(k) \/ StrayFires(k)
  PROVE  Inv'
<1>1. strays' \in [Keys -> Nat]
  <2>1. strays \in [Keys -> Nat]
    BY DEF Inv, SessionsTypeOK
  <2>2. CASE UNCHANGED strays
    BY <2>1, <2>2
  <2>3. CASE strays[k] > 0 /\ strays' = [strays EXCEPT ![k] = @ - 1]
    BY <2>1, <2>3
  <2> QED BY <2>2, <2>3 DEF TimerFires, StrayFires
<1>2. RequestFlush(k) /\ StoreSame /\ UNCHANGED <<conv, checks, acks, open, admitted>>
  BY DEF TimerFires, StrayFires, StoreSame
<1> QED BY <1>1, <1>2, RequestFlushKeeps

LEMMA WebhookVerdictKeeps ==
  ASSUME Inv, NEW m \in Messages, WebhookVerdict(m)
  PROVE  Inv'
<1>1. SessionsTypeOK /\ RunsOK
  BY DEF Inv
<1>2. StoreSame /\ UNCHANGED <<strays, admitted>> /\ checks' \subseteq Messages
  BY <1>1 DEF WebhookVerdict, StoreSame, SessionsTypeOK
<1>3. CASE Acknowledge(m) /\ UNCHANGED <<conv, pending, run>>
  <2>1. acks' \in [Messages -> SUBSET Messages] /\ open' \subseteq Messages
    BY <1>1, <1>3 DEF Acknowledge, SessionsTypeOK
  <2>2. SessionsTypeOK'
    BY <1>1, <1>2, <1>3, <2>1 DEF SessionsTypeOK, StoreSame
  <2> QED BY <1>2, <1>3, <2>2, SameKeeps
<1>4. CASE ~allowed /\ OnStreamFinished(home[m], run) /\ UNCHANGED <<acks, open>>
  <2>1. Moves(run) /\ acks' \in [Messages -> SUBSET Messages] /\ open' \subseteq Messages
    BY <1>1, <1>4, SameMoves DEF SessionsTypeOK
  <2>2. \A t \in Messages : run[t].at \notin {"agent", "answered"}
    BY <1>1, <1>4 DEF RunsOK
  <2> QED BY <1>2, <1>4, <2>1, <2>2, FinishKeeps
<1> QED BY <1>3, <1>4 DEF WebhookVerdict

(* A run that is at work ends.                                             *)
LEMMA EndKeeps ==
  ASSUME Inv, NEW s \in Messages, Working(s), NEW place \in {"answered", "denied"},
         ~allowed => place = "denied", OnStreamFinished(s, At(s, place)), StoreSame,
         UNCHANGED <<strays, admitted, checks>>,
         acks' \in [Messages -> SUBSET Messages], open' \subseteq Messages
  PROVE  Inv'
<1>1. SessionsTypeOK /\ RunsOK
  BY DEF Inv
<1>2. /\ Moves(At(s, place)) /\ At(s, place)[s].at = place
      /\ \A t \in Messages \ {s} : At(s, place)[t] = run[t]
  BY <1>1, AtMoves
<1>3. allowed => IsActive(s) /\ \A t \in Messages : At(s, place)[t].at \notin {"check", "agent"}
  BY <1>1, <1>2 DEF RunsOK, IsActive, Working
<1>4. ~allowed => \A t \in Messages : At(s, place)[t].at \notin {"agent", "answered"}
  BY <1>1, <1>2 DEF RunsOK
<1>5. checks' \subseteq Messages
  BY <1>1 DEF SessionsTypeOK
<1> QED BY <1>2, <1>3, <1>4, <1>5, FinishKeeps

LEMMA RunVerdictKeeps ==
  ASSUME Inv, NEW s \in Messages, RunVerdict(s)
  PROVE  Inv'
<1>1. SessionsTypeOK /\ MessagesKnown /\ BatchesNamed /\ ConvOK /\ RunsOK
  BY DEF Inv
<1>2. /\ StoreSame /\ UNCHANGED <<strays, checks, acks, open, admitted>>
      /\ run[s].at = "check" /\ Working(s)
  BY DEF RunVerdict, StoreSame, Working
<1>3. CASE allowed /\ run' = At(s, "agent") /\ UNCHANGED <<conv, pending>>
  <2>1. /\ Moves(At(s, "agent"))
        /\ \A t \in Messages \ {s} : At(s, "agent")[t] = run[t]
    BY <1>1, <1>2, AtMoves
  <2>2. /\ MessagesKnown' /\ BatchesNamed' /\ run' \in [Messages -> Run]
        /\ \A t \in Messages : Working(t)' => Working(t) /\ run'[t].contents # <<>>
    BY <1>2, <1>3, <2>1, MovesKeep
  <2>3. SessionsTypeOK'
    BY <1>1, <1>2, <1>3, <2>2 DEF SessionsTypeOK, StoreSame
  <2>4. ConvOK'
    <3>1. \A m \in Messages : Known(m)' <=> Known(m)
      BY <1>2 DEF Known, StoreSame
    <3> QED BY <1>1, <1>2, <1>3, <3>1 DEF ConvOK, StoreSame
  <2>5. RunsOK'
    BY <1>1, <1>2, <1>3, <2>2 DEF RunsOK, StoreSame
  <2> QED BY <2>2, <2>3, <2>4, <2>5 DEF Inv
<1>4. CASE ~allowed /\ OnStreamFinished(s, At(s, "denied"))
  <2>1. acks' \in [Messages -> SUBSET Messages] /\ open' \subseteq Messages
    BY <1>1, <1>2 DEF SessionsTypeOK
  <2> QED BY <1>2, <1>4, <2>1, EndKeeps
<1> QED BY <1>3, <1>4 DEF RunVerdict

LEMMA RunEndsKeeps ==
  ASSUME Inv, NEW s \in Messages, RunEnds(s) \/ RunEndsEarly(s)
  PROVE  Inv'
<1>1. SessionsTypeOK /\ RunsOK
  BY DEF Inv
<1>2. /\ StoreSame /\ UNCHANGED <<strays, checks, admitted>>
      /\ Working(s) /\ run[s].at = "agent" /\ OnStreamFinished(s, At(s, "answered"))
  BY DEF RunEnds, RunEndsEarly, StoreSame, Working
<1>3. allowed
  BY <1>1, <1>2 DEF RunsOK
<1>4. acks' \in [Messages -> SUBSET Messages] /\ open' \subseteq Messages
  BY <1>1 DEF RunEnds, RunEndsEarly, SessionsTypeOK
<1> QED BY <1>2, <1>3, <1>4, EndKeeps

(* What no run and no batch needs is pruned, never the conversation.       *)
LEMMA PruneKeeps ==
  ASSUME Inv, Mishaps = {}, NEW old \in SUBSET OldStreams, NEW batches \in SUBSET OldBatches,
         Prune(old, batches)
  PROVE  /\ Inv' /\ UNCHANGED conv
         /\ \A k \in Keys : k \in {conv.active, conv.queued} => pending'[k] = pending[k]
<1>1. SessionsTypeOK /\ BatchesNamed /\ ConvOK
  BY DEF Inv
<1>2. UNCHANGED <<allowed, key, strays, home, checks, run, acks, open, admitted>>
  BY DEF Prune
<1>3. UNCHANGED conv
  <2>1. CASE conv = NoConv
    BY <2>1 DEF Prune
  <2>2. CASE conv # NoConv
    BY <1>1, <2>2 DEF Prune, ConvOK, KeyKnown
  <2> QED BY <2>1, <2>2
<1>4. \A s \in old : s \in streams /\ ~InWork(s)
  BY DEF OldStreams
<1>5. \A k \in batches : k \in Keys /\ ~Wanted(k)
  BY DEF OldBatches
<1>6. streams' = streams \ old /\ \A k \in Keys : pending'[k] = IF k \in batches THEN NoBatch ELSE pending[k]
  BY DEF Prune
<1>7. pending' \in [Keys -> Batch \cup {NoBatch}]
  <2>1. pending \in [Keys -> Batch \cup {NoBatch}]
    BY <1>1 DEF SessionsTypeOK
  <2> QED BY <2>1 DEF Prune
<1>8. SessionsTypeOK'
  BY <1>1, <1>2, <1>3, <1>6, <1>7 DEF SessionsTypeOK
<1>9. \A s \in streams : Working(s) => s \in streams'
  BY <1>4, <1>6 DEF Working, InWork
<1>10. \A k \in Keys : pending'[k] # NoBatch =>
         /\ pending'[k] = pending[k]
         /\ pending[k].stream \in streams'
  BY <1>1, <1>4, <1>6 DEF BatchesNamed, InWork
<1>11. \A k \in Keys : k \in {conv.active, conv.queued} => pending'[k] = pending[k]
  BY <1>5, <1>6 DEF Wanted
<1>12. Inv'
  BY <1>2, <1>3, <1>6, <1>8, <1>9, <1>10, <1>11, ShapeKept
<1> QED BY <1>3, <1>11, <1>12

LEMMA ApproveKeeps ==
  ASSUME Inv, Mishaps = {}, Approve
  PROVE  Inv'
<1>1. SessionsTypeOK /\ MessagesKnown /\ BatchesNamed /\ ConvOK /\ RunsOK
  BY DEF Inv
<1>2. /\ UNCHANGED <<streams, key, pending, strays, conv, home, checks, run, acks, open, admitted>>
      /\ ~allowed /\ allowed' = TRUE /\ Quiet
  BY DEF Approve
<1>3. \A s \in Messages : ~Working(s)
  BY <1>1, <1>2 DEF RunsOK, Quiet, Working
<1>4. SessionsTypeOK'
  BY <1>1, <1>2 DEF SessionsTypeOK
<1>5. MessagesKnown' /\ BatchesNamed' /\ ConvOK'
  BY <1>1, <1>2 DEF MessagesKnown, BatchesNamed, ConvOK, Known
<1>6. RunsOK'
  BY <1>1, <1>2, <1>3 DEF RunsOK, Working
<1> QED BY <1>4, <1>5, <1>6 DEF Inv

LEMMA StepInv ==
  ASSUME Inv, Mishaps = {}, [Next]_vars
  PROVE  Inv'
<1>1. CASE UNCHANGED vars
  BY <1>1 DEF vars, Inv, SessionsTypeOK, MessagesKnown, BatchesNamed, ConvOK, RunsOK, Known, Working
<1> QED BY <1>1, ReceiveKeeps, WebhookVerdictKeeps, TimersKeep, RunVerdictKeeps, RunEndsKeeps,
           PruneKeeps, ApproveKeeps DEF Next

LEMMA SessionsInvHolds == Mishaps = {} => (Spec => []Inv)
<1> SUFFICES ASSUME Mishaps = {} PROVE Spec => []Inv
  OBVIOUS
<1>1. Inv /\ [Next]_vars => Inv'
  BY StepInv
<1> QED BY <1>1, InitInv, PTL DEF Spec

(* The maps of the store hold what they should: batches with their         *)
(* streams, conversations with an active batch and a queued one at most,   *)
(* as the methods of StreamSessionStore leave them.                        *)
THEOREM SessionsTypeCorrect == Mishaps = {} => (Spec => []SessionsTypeOK)
<1>1. Inv => SessionsTypeOK
  BY DEF Inv
<1> QED BY <1>1, SessionsInvHolds, PTL

-----------------------------------------------------------------------------
(* Sequences of messages. *)

LEMMA OfConcat ==
  ASSUME NEW p \in Seq(Messages), NEW q \in Seq(Messages)
  PROVE  Of(p \o q) = Of(p) \cup Of(q)
<1> DEFINE c == p \o q
<1>1. /\ c \in Seq(Messages) /\ Len(c) = Len(p) + Len(q)
      /\ \A i \in 1..(Len(p) + Len(q)) : c[i] = IF i <= Len(p) THEN p[i] ELSE q[i - Len(p)]
  BY ConcatProperties
<1>2. /\ DOMAIN c = 1..(Len(p) + Len(q)) /\ DOMAIN p = 1..Len(p) /\ DOMAIN q = 1..Len(q)
      /\ Len(p) \in Nat /\ Len(q) \in Nat
  BY <1>1, LenProperties
<1> HIDE DEF c
<1>3. ASSUME NEW i \in DOMAIN c PROVE c[i] \in Of(p) \cup Of(q)
  <2>1. CASE i <= Len(p)
    BY <1>1, <1>2, <2>1 DEF Of
  <2>2. CASE ~(i <= Len(p))
    <3>1. i - Len(p) \in DOMAIN q /\ c[i] = q[i - Len(p)]
      BY <1>1, <1>2, <2>2
    <3> QED BY <3>1 DEF Of
  <2> QED BY <2>1, <2>2
<1>4. ASSUME NEW i \in DOMAIN p PROVE p[i] \in Of(c)
  BY <1>1, <1>2 DEF Of
<1>5. ASSUME NEW i \in DOMAIN q PROVE q[i] \in Of(c)
  <2>1. i + Len(p) \in DOMAIN c /\ c[i + Len(p)] = q[i]
    BY <1>1, <1>2
  <2> QED BY <2>1 DEF Of
<1>6. Of(c) = Of(p) \cup Of(q)
  BY <1>3, <1>4, <1>5 DEF Of
<1> QED BY <1>6 DEF c

LEMMA AppendLast ==
  ASSUME NEW p \in Seq(Messages), NEW q \in Seq(Messages), NEW m \in Messages
  PROVE  p \o Append(q, m) = Append(p \o q, m)
<1>1. p \o q \in Seq(Messages) /\ <<m>> \in Seq(Messages)
  BY ConcatProperties
<1>2. p \o (q \o <<m>>) = (p \o q) \o <<m>>
  BY <1>1, ConcatAssociative
<1> QED BY <1>1, <1>2, AppendIsConcat

LEMMA EmptyConcat ==
  ASSUME NEW p \in Seq(Messages)
  PROVE  <<>> \o p = p /\ p \o <<>> = p
  BY ConcatEmptySeq

LEMMA PrefixSplit ==
  ASSUME NEW p \in Seq(Messages), NEW q \in Seq(Messages)
  PROVE  /\ SubSeq(p \o q, 1, Len(p)) = p
         /\ SubSeq(p \o q, Len(p) + 1, Len(p \o q)) = q
<1>1. /\ Len(p) \in Nat /\ Len(q) \in Nat /\ Len(p \o q) = Len(p) + Len(q)
  BY LenProperties, ConcatProperties
<1>2. SubSeq(p \o q, 1, Len(p)) = SubSeq(p, 1, Len(p))
  BY <1>1, SubSeqOfConcat1
<1>3. SubSeq(p, 1, Len(p)) = p /\ SubSeq(q, 1, Len(q)) = q
  BY SubSeqFull
<1>4. CASE q = <<>>
  BY <1>1, <1>2, <1>3, <1>4, SubSeqEmpty, ConcatEmptySeq
<1>5. CASE q # <<>>
  <2>1. Len(q) > 0
    BY <1>1, <1>5, EmptySeq
  <2> QED BY <1>1, <1>2, <1>3, <2>1, SubSeqOfConcat2
<1> QED BY <1>4, <1>5

-----------------------------------------------------------------------------
(* What the sessions show of a conversation, of its runs, its state and    *)
(* its batches, now or after a step.                                       *)

InRunsAt(rs, place) ==
  UNION {{rs[s].contents[i] : i \in DOMAIN rs[s].contents} : s \in {r \in Messages : rs[r].at = place}}

CheckedIn(rs) ==
  LET checking == {s \in Messages : rs[s].at = "check"}
  IN  IF checking = {} THEN <<>> ELSE rs[CHOOSE s \in checking : TRUE].contents

HeldIn(p, k) == IF k = Null THEN <<>> ELSE p[k].contents

WaitingIn(rs, p, c) == CheckedIn(rs) \o HeldIn(p, c.active) \o HeldIn(p, c.queued)

LEMMA Shown ==
  /\ \A place : InRuns(place) = InRunsAt(run, place) /\ InRuns(place)' = InRunsAt(run', place)
  /\ allowed => Waiting = WaitingIn(run, pending, conv)
  /\ allowed' => Waiting' = WaitingIn(run', pending', conv')
  /\ ~allowed => Waiting = <<>>
  /\ ~allowed' => Waiting' = <<>>
<1>1. \A place : InRuns(place) = InRunsAt(run, place) /\ InRuns(place)' = InRunsAt(run', place)
  BY DEF InRuns, InRunsAt
<1>2. Checked = CheckedIn(run) /\ Checked' = CheckedIn(run')
  BY DEF Checked, CheckedIn
<1>3. \A k : Held(k) = HeldIn(pending, k)
  BY DEF Held, HeldIn
<1>4. /\ Held(conv.active)' = HeldIn(pending', conv'.active)
      /\ Held(conv.queued)' = HeldIn(pending', conv'.queued)
  BY DEF Held, HeldIn
<1> QED BY <1>1, <1>2, <1>3, <1>4 DEF Waiting, WaitingIn

LEMMA InRunsMember ==
  ASSUME NEW rs, NEW place, NEW m
  PROVE  m \in InRunsAt(rs, place) <=> \E s \in Messages : rs[s].at = place /\ m \in Of(rs[s].contents)
  BY DEF InRunsAt, Of

LEMMA NoneAt ==
  ASSUME NEW rs, NEW place, \A s \in Messages : rs[s].at # place
  PROVE  InRunsAt(rs, place) = {}
  BY InRunsMember

LEMMA OnlyAt ==
  ASSUME NEW rs, NEW place, NEW s \in Messages, rs[s].at = place,
         \A t \in Messages : rs[t].at = place => t = s
  PROVE  InRunsAt(rs, place) = Of(rs[s].contents)
<1>1. ASSUME NEW m PROVE m \in InRunsAt(rs, place) <=> m \in Of(rs[s].contents)
  BY InRunsMember
<1> QED BY <1>1

LEMMA SameAt ==
  ASSUME NEW rs, NEW qs, NEW place,
         \A s \in Messages : /\ rs[s].at = place <=> qs[s].at = place
                             /\ rs[s].at = place => rs[s].contents = qs[s].contents
  PROVE  InRunsAt(rs, place) = InRunsAt(qs, place)
<1>1. ASSUME NEW m PROVE m \in InRunsAt(rs, place) <=> m \in InRunsAt(qs, place)
  BY InRunsMember
<1> QED BY <1>1

LEMMA OneMoreAt ==
  ASSUME NEW rs, NEW qs, NEW place, NEW s \in Messages, rs[s].at # place, qs[s].at = place,
         \A t \in Messages \ {s} : /\ rs[t].at = place <=> qs[t].at = place
                                   /\ rs[t].at = place => rs[t].contents = qs[t].contents
  PROVE  InRunsAt(qs, place) = InRunsAt(rs, place) \cup Of(qs[s].contents)
<1>1. ASSUME NEW m
      PROVE  m \in InRunsAt(qs, place) <=> m \in InRunsAt(rs, place) \/ m \in Of(qs[s].contents)
  <2>1. \A t \in Messages \ {s} : qs[t].at = place /\ m \in Of(qs[t].contents) <=>
                                  rs[t].at = place /\ m \in Of(rs[t].contents)
    OBVIOUS
  <2> QED BY <2>1, InRunsMember
<1> QED BY <1>1

LEMMA NoneChecked ==
  ASSUME NEW rs, \A s \in Messages : rs[s].at # "check"
  PROVE  CheckedIn(rs) = <<>>
  BY DEF CheckedIn

LEMMA OneChecked ==
  ASSUME NEW rs, NEW s \in Messages, rs[s].at = "check",
         \A t \in Messages : rs[t].at = "check" => t = s
  PROVE  CheckedIn(rs) = rs[s].contents
<1> DEFINE checking == {t \in Messages : rs[t].at = "check"}
<1>1. checking = {s}
  OBVIOUS
<1>2. (CHOOSE t \in checking : TRUE) = s
  BY <1>1
<1> QED BY <1>1, <1>2 DEF CheckedIn

(* What waits, and where, while the sender is allowed.                     *)
LEMMA HeldTypes ==
  ASSUME SessionsTypeOK
  PROVE  /\ HeldIn(pending, conv.active) \in Seq(Messages)
         /\ HeldIn(pending, conv.queued) \in Seq(Messages)
<1>1. ASSUME NEW k \in Keys \cup {Null} PROVE HeldIn(pending, k) \in Seq(Messages)
  BY <1>1, BatchTypes, EmptySeq DEF HeldIn
<1> QED BY <1>1, ConvTypes

LEMMA ShownIdle ==
  ASSUME Inv, allowed, \A s \in Messages : ~Working(s)
  PROVE  CheckedIn(run) = <<>> /\ InRunsAt(run, "agent") = {}
  BY NoneChecked, NoneAt DEF Working

LEMMA ShownAtWork ==
  ASSUME Inv, allowed, NEW s \in Messages, Working(s)
  PROVE  /\ conv # NoConv /\ IsActive(s)
         /\ HeldIn(pending, conv.active) = <<>>
         /\ run[s].contents \in Seq(Messages) /\ run[s].contents # <<>>
         /\ \A t \in Messages : Working(t) => t = s
         /\ run[s].at = "check" => /\ CheckedIn(run) = run[s].contents
                                   /\ InRunsAt(run, "agent") = {}
         /\ run[s].at = "agent" => /\ CheckedIn(run) = <<>>
                                   /\ InRunsAt(run, "agent") = Of(run[s].contents)
<1>1. SessionsTypeOK /\ RunsOK
  BY DEF Inv
<1>2. /\ conv # NoConv /\ IsActive(s)
      /\ pending[conv.active] = NoBatch
      /\ \A t \in Messages : Working(t) => t = s
      /\ run[s].contents # <<>>
  BY <1>1 DEF RunsOK, IsActive
<1>3. HeldIn(pending, conv.active) = <<>>
  BY <1>2, NothingThere DEF HeldIn
<1>4. run[s].contents \in Seq(Messages)
  BY <1>1 DEF SessionsTypeOK, Run
<1>5. CASE run[s].at = "check"
  <2>1. \A t \in Messages : /\ run[t].at = "check" => t = s
                            /\ run[t].at # "agent"
    BY <1>2, <1>5 DEF Working
  <2>2. CheckedIn(run) = run[s].contents
    BY <1>5, <2>1, OneChecked
  <2>3. InRunsAt(run, "agent") = {}
    BY <2>1, NoneAt
  <2> QED BY <1>2, <1>3, <1>4, <1>5, <2>2, <2>3
<1>6. CASE run[s].at = "agent"
  <2>1. \A t \in Messages : /\ run[t].at = "agent" => t = s
                            /\ run[t].at # "check"
    BY <1>2, <1>6 DEF Working
  <2>2. CheckedIn(run) = <<>>
    BY <2>1, NoneChecked
  <2>3. InRunsAt(run, "agent") = Of(run[s].contents)
    BY <1>6, <2>1, OnlyAt
  <2> QED BY <1>2, <1>3, <1>4, <1>6, <2>2, <2>3
<1> QED BY <1>5, <1>6 DEF Working

LEMMA CheckedType ==
  ASSUME Inv, allowed
  PROVE  CheckedIn(run) \in Seq(Messages)
<1>1. CASE \E s \in Messages : Working(s)
  BY <1>1, ShownAtWork, EmptySeq DEF Working
<1>2. CASE \A s \in Messages : ~Working(s)
  BY <1>2, ShownIdle, EmptySeq
<1> QED BY <1>1, <1>2

-----------------------------------------------------------------------------
(* A message that comes waits behind the others. *)

LEMMA ReceiveAppends ==
  ASSUME Inv, allowed, NEW m \in Messages, Receive(m)
  PROVE  WaitingIn(run', pending', conv') = Append(WaitingIn(run, pending, conv), m)
<1> DEFINE c == CheckedIn(run)
           a == HeldIn(pending, conv.active)
           q == HeldIn(pending, conv.queued)
<1>1. SessionsTypeOK /\ ConvOK /\ RunsOK /\ UNCHANGED run
  BY DEF Inv, Receive
<1>2. c \in Seq(Messages) /\ a \in Seq(Messages) /\ q \in Seq(Messages) /\ c \o a \in Seq(Messages)
  BY <1>1, CheckedType, HeldTypes, ConcatProperties
<1>3. /\ WaitingIn(run, pending, conv) = (c \o a) \o q
      /\ WaitingIn(run', pending', conv') = (c \o HeldIn(pending', conv'.active)) \o HeldIn(pending', conv'.queued)
  BY <1>1 DEF WaitingIn
<1>4. <<m>> \in Seq(Messages) /\ Append(<<>>, m) = <<m>>
  OBVIOUS
<1> HIDE DEF c, a, q
<1>5. CASE conv = NoConv /\ NewBatch(m, 0) /\ conv' = [active |-> 0, queued |-> Null, next |-> 1]
  <2>1. c = <<>> /\ a = <<>> /\ q = <<>>
    <3>1. \A s \in Messages : ~Working(s)
      BY <1>1, <1>5 DEF RunsOK
    <3> QED BY <1>5, <3>1, ShownIdle, NothingThere DEF c, a, q, HeldIn
  <2>2. HeldIn(pending', conv'.active) = <<m>> /\ HeldIn(pending', conv'.queued) = <<>>
    <3>1. pending'[0].contents = <<m>>
      BY <1>5, ReceiveOpens
    <3> QED BY <1>5, <3>1, SessionsAssumption DEF HeldIn
  <2>3. (<<>> \o <<m>>) \o <<>> = <<m>> /\ (<<>> \o <<>>) \o <<>> = <<>>
    BY <1>4, EmptyConcat, EmptySeq
  <2> QED BY <1>3, <1>4, <2>1, <2>2, <2>3
<1>6. CASE conv # NoConv /\ MergesIntoActive /\ Merge(m, conv.active) /\ UNCHANGED conv
  <2>1. conv.active \in Keys /\ conv.active # Null /\ pending[conv.active] # NoBatch /\ conv.queued = Null
    BY <1>1, <1>6, ConvTypes, NumbersNotNull DEF MergesIntoActive, ConvOK
  <2>2. pending'[conv.active].contents = Append(pending[conv.active].contents, m)
    BY <1>6, <2>1, ReceiveMerges
  <2>3. HeldIn(pending', conv'.active) = Append(a, m) /\ HeldIn(pending', conv'.queued) = <<>> /\ q = <<>>
    BY <1>6, <2>1, <2>2 DEF HeldIn, a, q
  <2>4. c \o Append(a, m) = Append(c \o a, m) /\ Append(c \o a, m) \in Seq(Messages)
    BY <1>2, AppendLast, AppendProperties
  <2> QED BY <1>2, <1>3, <2>3, <2>4, EmptyConcat
<1>7. CASE conv # NoConv /\ MergesIntoQueued /\ Merge(m, conv.queued) /\ UNCHANGED conv
  <2>1. /\ conv.queued \in Keys /\ conv.queued # Null /\ pending[conv.queued] # NoBatch
        /\ conv.queued # conv.active
    BY <1>1, <1>7, ConvTypes, NumbersNotNull DEF MergesIntoQueued, ConvOK
  <2>2. /\ pending'[conv.queued].contents = Append(pending[conv.queued].contents, m)
        /\ \A j \in Keys \ {conv.queued} : pending'[j] = pending[j]
    BY <1>7, <2>1, ReceiveMerges
  <2>3. HeldIn(pending', conv'.active) = a /\ HeldIn(pending', conv'.queued) = Append(q, m)
    BY <1>1, <1>7, <2>1, <2>2, ConvTypes DEF HeldIn, a, q
  <2> QED BY <1>2, <1>3, <2>3, AppendLast
<1>8. CASE /\ conv # NoConv /\ ~MergesIntoActive /\ ~MergesIntoQueued /\ NewBatch(m, conv.next)
           /\ conv' = [conv EXCEPT !.queued = conv.next, !.next = @ + 1]
  <2>1. /\ conv.queued = Null /\ conv'.active = conv.active /\ conv'.queued = conv.next
        /\ conv.active # conv.next
        /\ pending'[conv.next].contents = <<m>>
        /\ \A j \in Keys \ {conv.next} : pending'[j] = pending[j]
    BY <1>8, ReceiveQueues
  <2>2. conv.next # Null /\ conv.active \in Keys
    BY <1>1, <1>8, ConvTypes, SessionsAssumption
  <2>3. HeldIn(pending', conv'.active) = a /\ HeldIn(pending', conv'.queued) = <<m>> /\ q = <<>>
    BY <2>1, <2>2 DEF HeldIn, a, q
  <2>4. (c \o a) \o <<m>> = Append(c \o a, m)
    BY <1>2, AppendIsConcat
  <2> QED BY <1>2, <1>3, <2>3, <2>4, EmptyConcat
<1> QED BY <1>5, <1>6, <1>7, <1>8 DEF Receive, AddPendingMessage

(* It is in none of the batches and runs yet.                              *)
LEMMA ReceiveIsNew ==
  ASSUME Inv, allowed, NEW m \in Messages, Receive(m)
  PROVE  m \notin Of(WaitingIn(run, pending, conv)) \cup InRunsAt(run, "agent") \cup InRunsAt(run, "answered")
<1> DEFINE c == CheckedIn(run)
           a == HeldIn(pending, conv.active)
           q == HeldIn(pending, conv.queued)
<1>1. SessionsTypeOK /\ MessagesKnown /\ ~Known(m)
  BY DEF Inv, Receive, Known
<1>2. c \in Seq(Messages) /\ a \in Seq(Messages) /\ q \in Seq(Messages) /\ c \o a \in Seq(Messages)
  BY <1>1, CheckedType, HeldTypes, ConcatProperties
<1>3. Of(WaitingIn(run, pending, conv)) = Of(c) \cup Of(a) \cup Of(q)
  BY <1>2, OfConcat DEF WaitingIn
<1>4. \A k \in Keys \cup {Null} : m \notin Of(HeldIn(pending, k))
  BY <1>1, OfEmpty DEF MessagesKnown, HeldIn
<1>5. m \notin Of(c)
  <2>1. CASE \E s \in Messages : Working(s)
    BY <1>1, <2>1, ShownAtWork, OfEmpty DEF MessagesKnown, Working
  <2>2. CASE \A s \in Messages : ~Working(s)
    BY <2>2, ShownIdle, OfEmpty
  <2> QED BY <2>1, <2>2
<1>6. \A place : m \notin InRunsAt(run, place)
  BY <1>1, InRunsMember DEF MessagesKnown
<1> QED BY <1>1, <1>3, <1>4, <1>5, <1>6, ConvTypes

-----------------------------------------------------------------------------
(* A batch that starts keeps its messages before the others. *)

NothingShown ==
  /\ WaitingIn(run', pending', conv') = WaitingIn(run, pending, conv)
  /\ InRunsAt(run', "agent") = InRunsAt(run, "agent")
  /\ InRunsAt(run', "answered") = InRunsAt(run, "answered")

LEMMA FlushShowsNothing ==
  ASSUME Inv, allowed, NEW k \in Keys, RequestFlush(k), StoreSame, UNCHANGED conv
  PROVE  NothingShown
<1>1. SessionsTypeOK /\ ConvOK /\ RunsOK
  BY DEF Inv
<1>2. CASE UNCHANGED <<pending, run>>
  BY <1>2 DEF NothingShown
<1>3. CASE /\ pending[k] # NoBatch /\ run' = run
           /\ pending' = [pending EXCEPT ![k].timer = FALSE, ![k].ready = TRUE]
  <2>1. \A j \in Keys : pending'[j].contents = pending[j].contents
    BY <1>1, <1>3, MarkFacts
  <2>2. \A j \in Keys \cup {Null} : HeldIn(pending', j) = HeldIn(pending, j)
    BY <2>1 DEF HeldIn
  <2> QED BY <1>1, <1>3, <2>2, ConvTypes DEF NothingShown, WaitingIn
<1>4. CASE pending[k] # NoBatch /\ conv.active = k /\ FlushPending(k, run)
  <2> DEFINE s == pending[k].stream
             a == pending[k].contents
  <2>1. Moves(run)
    BY <1>1, SameMoves
  <2>2. /\ pending'[k] = NoBatch /\ \A j \in Keys \ {k} : pending'[j] = pending[j]
        /\ s \in Messages /\ run[s].at = "none"
        /\ run'[s].at = "check" /\ run'[s].contents = a
        /\ \A t \in Messages \ {s} : run'[t] = run[t]
    BY <1>4, <2>1, FlushFacts
  <2>3. a \in Seq(Messages)
    BY <1>1, BatchTypes
  <2> HIDE DEF s, a
  <2>4. conv # NoConv /\ k # Null
    BY <1>1, <1>4, ConvTypes, NumbersNotNull
  <2>5. \A t \in Messages : ~Working(t)
    BY <1>1, <1>4 DEF RunsOK
  <2>6. CheckedIn(run) = <<>>
    BY <2>5, ShownIdle
  <2>7. CheckedIn(run') = a
    BY <2>2, <2>5, OneChecked DEF Working
  <2>8. HeldIn(pending, conv.active) = a /\ HeldIn(pending', conv.active) = <<>>
    BY <1>4, <2>2, <2>4, NothingThere DEF HeldIn, a
  <2>9. HeldIn(pending', conv.queued) = HeldIn(pending, conv.queued)
    BY <1>1, <1>4, <2>2, <2>4, ConvTypes DEF HeldIn, ConvOK
  <2>10. <<>> \o a = a \o <<>>
    BY <2>3, EmptyConcat
  <2>11. WaitingIn(run', pending', conv') = WaitingIn(run, pending, conv)
    BY <2>6, <2>7, <2>8, <2>9, <2>10 DEF WaitingIn
  <2>12. ASSUME NEW place \in {"agent", "answered"}
         PROVE  InRunsAt(run', place) = InRunsAt(run, place)
    <3>1. \A t \in Messages : /\ run'[t].at = place <=> run[t].at = place
                              /\ run'[t].at = place => run'[t].contents = run[t].contents
      BY <2>2
    <3> QED BY <3>1, SameAt
  <2> QED BY <2>11, <2>12 DEF NothingShown
<1> QED BY <1>2, <1>3, <1>4 DEF RequestFlush

-----------------------------------------------------------------------------
(* A turn begins with the messages of the batch whose run is checked. *)

LEMMA VerdictBegins ==
  ASSUME Inv, allowed, NEW s \in Messages, RunVerdict(s)
  PROVE  LET w == WaitingIn(run, pending, conv)
             n == Len(run[s].contents)
         IN  /\ n \in 1..Len(w)
             /\ InRunsAt(run, "agent") = {}
             /\ InRunsAt(run', "agent") = Of(SubSeq(w, 1, n))
             /\ WaitingIn(run', pending', conv') = SubSeq(w, n + 1, Len(w))
             /\ InRunsAt(run', "answered") = InRunsAt(run, "answered")
<1> DEFINE c == run[s].contents
           q == HeldIn(pending, conv.queued)
           w == WaitingIn(run, pending, conv)
<1>1. SessionsTypeOK /\ Working(s) /\ run[s].at = "check"
  BY DEF Inv, RunVerdict, Working
<1>2. run' = At(s, "agent") /\ UNCHANGED <<conv, pending>>
  BY DEF RunVerdict
<1>3. /\ HeldIn(pending, conv.active) = <<>>
      /\ c \in Seq(Messages) /\ c # <<>>
      /\ \A t \in Messages : Working(t) => t = s
      /\ CheckedIn(run) = c /\ InRunsAt(run, "agent") = {}
  BY <1>1, ShownAtWork
<1>4. q \in Seq(Messages)
  BY <1>1, HeldTypes
<1>5. /\ run'[s].at = "agent" /\ run'[s].contents = c
      /\ \A t \in Messages \ {s} : run'[t] = run[t]
  BY <1>1, <1>2, AtMoves DEF Moves
<1> HIDE DEF c, q
<1>6. w = c \o q
  BY <1>3, EmptyConcat DEF WaitingIn, q
<1>7. CheckedIn(run') = <<>>
  BY <1>3, <1>5, NoneChecked DEF Working
<1>8. WaitingIn(run', pending', conv') = q
  <2>1. (<<>> \o <<>>) \o q = q
    BY <1>4, EmptyConcat, EmptySeq
  <2> QED BY <1>2, <1>3, <1>7, <2>1 DEF WaitingIn, q
<1>9. InRunsAt(run', "agent") = Of(c)
  BY <1>3, <1>5, OnlyAt DEF Working
<1>10. InRunsAt(run', "answered") = InRunsAt(run, "answered")
  <2>1. \A t \in Messages : /\ run'[t].at = "answered" <=> run[t].at = "answered"
                            /\ run'[t].at = "answered" => run'[t].contents = run[t].contents
    BY <1>1, <1>5
  <2> QED BY <2>1, SameAt
<1>11. Len(c) \in 1..Len(w)
  <2>1. Len(c) \in Nat \ {0} /\ Len(q) \in Nat /\ Len(w) = Len(c) + Len(q)
    BY <1>3, <1>4, <1>6, EmptySeq, LenProperties, ConcatProperties
  <2> QED BY <2>1
<1>12. SubSeq(w, 1, Len(c)) = c /\ SubSeq(w, Len(c) + 1, Len(w)) = q
  BY <1>3, <1>4, <1>6, PrefixSplit
<1> QED BY <1>3, <1>8, <1>9, <1>10, <1>11, <1>12 DEF c

-----------------------------------------------------------------------------
(* A turn ends, and the queued batch is the next. *)

LEMMA RunEndShown ==
  ASSUME Inv, allowed, NEW s \in Messages, RunEnds(s) \/ RunEndsEarly(s)
  PROVE  /\ WaitingIn(run', pending', conv') = WaitingIn(run, pending, conv)
         /\ InRunsAt(run, "agent") # {}
         /\ InRunsAt(run', "agent") = {}
         /\ InRunsAt(run', "answered") = InRunsAt(run, "answered") \cup InRunsAt(run, "agent")
<1> DEFINE runs == At(s, "answered")
           q == HeldIn(pending, conv.queued)
<1>1. SessionsTypeOK /\ ConvOK /\ Working(s) /\ run[s].at = "agent"
  BY DEF Inv, RunEnds, RunEndsEarly, Working
<1>2. OnStreamFinished(s, runs) /\ StoreSame
  BY DEF RunEnds, RunEndsEarly, StoreSame
<1>3. /\ conv # NoConv /\ IsActive(s)
      /\ HeldIn(pending, conv.active) = <<>>
      /\ run[s].contents \in Seq(Messages) /\ run[s].contents # <<>>
      /\ \A t \in Messages : Working(t) => t = s
      /\ CheckedIn(run) = <<>> /\ InRunsAt(run, "agent") = Of(run[s].contents)
  BY <1>1, ShownAtWork
<1>4. q \in Seq(Messages)
  BY <1>1, HeldTypes
<1>5. /\ Moves(runs) /\ runs[s].at = "answered" /\ runs[s].contents = run[s].contents
      /\ \A t \in Messages \ {s} : runs[t] = run[t]
  BY <1>1, AtMoves DEF Moves
<1> HIDE DEF runs
<1>6. \A t \in Messages : runs[t].at \notin {"check", "agent"}
  BY <1>3, <1>5 DEF Working
<1>7. WaitingIn(run, pending, conv) = q
  <2>1. (<<>> \o <<>>) \o q = q
    BY <1>4, EmptyConcat, EmptySeq
  <2> QED BY <1>3, <2>1 DEF WaitingIn
<1>8. InRunsAt(run, "agent") # {}
  <2>1. Len(run[s].contents) \in Nat \ {0} /\ DOMAIN run[s].contents = 1..Len(run[s].contents)
    BY <1>3, EmptySeq, LenProperties
  <2>2. 1 \in DOMAIN run[s].contents
    BY <2>1
  <2> QED BY <1>3, <2>2 DEF Of
<1>9. InRunsAt(runs, "answered") = InRunsAt(run, "answered") \cup InRunsAt(run, "agent")
  BY <1>1, <1>3, <1>5, OneMoreAt
<1>10. CASE run' = runs /\ HeldIn(pending', conv'.active) = q /\ HeldIn(pending', conv'.queued) = <<>>
  <2>1. CheckedIn(run') = <<>> /\ InRunsAt(run', "agent") = {}
    BY <1>6, <1>10, NoneChecked, NoneAt
  <2>2. (<<>> \o q) \o <<>> = q
    BY <1>4, EmptyConcat
  <2>3. WaitingIn(run', pending', conv') = q
    BY <1>10, <2>1, <2>2 DEF WaitingIn
  <2> QED BY <1>7, <1>8, <1>9, <1>10, <2>1, <2>3
<1>11. CASE conv.queued = Null /\ conv' = NoConv /\ run' = runs /\ UNCHANGED pending
  <2>1. q = <<>> /\ HeldIn(pending', conv'.active) = <<>> /\ HeldIn(pending', conv'.queued) = <<>>
    BY <1>11, NothingThere DEF HeldIn
  <2> QED BY <1>10, <1>11, <2>1
<1>12. CASE /\ conv.queued # Null
            /\ conv' = [conv EXCEPT !.active = conv.queued, !.queued = Null]
            /\ IF pending[conv.queued].ready
               THEN FlushPending(conv.queued, runs)
               ELSE run' = runs /\ UNCHANGED pending
  <2> DEFINE k == conv.queued
  <2>1. conv'.active = k /\ conv'.queued = Null
    BY <1>1, <1>3, <1>12, PromoteFacts
  <2>2. k \in Keys /\ pending[k] # NoBatch
    BY <1>1, <1>3, <1>12, ConvTypes DEF ConvOK
  <2>3. CASE run' = runs /\ UNCHANGED pending
    BY <1>10, <2>1, <2>3 DEF HeldIn
  <2>4. CASE FlushPending(k, runs)
    <3> DEFINE b == pending[k].stream
    <3>1. /\ pending'[k] = NoBatch /\ b \in Messages
          /\ run[b].at = "none" /\ run'[b].at = "check" /\ run'[b].contents = pending[k].contents
          /\ \A t \in Messages \ {b} : run'[t] = runs[t]
      BY <1>2, <1>5, <2>2, <2>4, FlushFacts
    <3>2. runs[b].at = "none"
      BY <1>5, <3>1 DEF Moves
    <3> HIDE DEF b
    <3>3. CheckedIn(run') = pending[k].contents
      BY <1>6, <3>1, OneChecked
    <3>4. q = pending[k].contents
      BY <1>12 DEF HeldIn
    <3>5. HeldIn(pending', conv'.active) = <<>> /\ HeldIn(pending', conv'.queued) = <<>>
      BY <1>12, <2>1, <3>1, NothingThere DEF HeldIn
    <3>6. (q \o <<>>) \o <<>> = q
      BY <1>4, EmptyConcat
    <3>7. WaitingIn(run', pending', conv') = q
      BY <3>3, <3>4, <3>5, <3>6 DEF WaitingIn
    <3>8. InRunsAt(run', "agent") = {}
      BY <1>6, <3>1, NoneAt
    <3>9. InRunsAt(run', "answered") = InRunsAt(runs, "answered")
      <4>1. \A t \in Messages : /\ run'[t].at = "answered" <=> runs[t].at = "answered"
                                /\ run'[t].at = "answered" => run'[t].contents = runs[t].contents
        BY <3>1, <3>2
      <4> QED BY <4>1, SameAt
    <3> QED BY <1>7, <1>8, <1>9, <3>7, <3>8, <3>9
  <2> QED BY <1>12, <2>3, <2>4
<1> QED BY <1>2, <1>3, <1>11, <1>12 DEF OnStreamFinished

-----------------------------------------------------------------------------
(* The sessions implement ConversationTurns. *)

LEMMA TurnsUnchanged ==
  ASSUME allowed, UNCHANGED allowed, NothingShown
  PROVE  UNCHANGED Turns!turnVars
  BY Shown DEF NothingShown, Turns!turnVars

(* While the sender is denied nothing waits, runs or is answered.          *)
LEMMA DeniedShown ==
  /\ Inv /\ ~allowed => Waiting = <<>> /\ InRuns("agent") = {} /\ InRuns("answered") = {}
  /\ Inv' /\ ~allowed' => Waiting' = <<>> /\ InRuns("agent")' = {} /\ InRuns("answered")' = {}
<1>1. ASSUME Inv, ~allowed
      PROVE  Waiting = <<>> /\ InRuns("agent") = {} /\ InRuns("answered") = {}
  <2>1. \A s \in Messages : run[s].at \notin {"agent", "answered"}
    BY <1>1 DEF Inv, RunsOK
  <2>2. InRunsAt(run, "agent") = {} /\ InRunsAt(run, "answered") = {}
    BY <2>1, NoneAt
  <2> QED BY <1>1, <2>2, Shown
<1>2. ASSUME Inv', ~allowed'
      PROVE  Waiting' = <<>> /\ InRuns("agent")' = {} /\ InRuns("answered")' = {}
  <2>1. \A s \in Messages : run'[s].at \notin {"agent", "answered"}
    BY <1>2 DEF Inv, RunsOK
  <2>2. InRunsAt(run', "agent") = {} /\ InRunsAt(run', "answered") = {}
    BY <2>1, NoneAt
  <2> QED BY <1>2, <2>2, Shown
<1> QED BY <1>1, <1>2

(* A sender is approved when none of their messages is handled.            *)
LEMMA ApproveShown ==
  ASSUME Inv, Mishaps = {}, Approve
  PROVE  UNCHANGED Turns!turnVars
<1>1. /\ ~allowed /\ allowed' /\ conv = NoConv /\ UNCHANGED <<run, conv, pending>>
      /\ \A s \in Messages : run[s].at # "check"
  BY DEF Approve, Quiet
<1>2. Waiting = <<>> /\ InRuns("agent") = {} /\ InRuns("answered") = {}
  BY <1>1, DeniedShown
<1>3. CheckedIn(run') = <<>> /\ HeldIn(pending', conv'.active) = <<>> /\ HeldIn(pending', conv'.queued) = <<>>
  BY <1>1, NoneChecked, NothingThere DEF HeldIn
<1>4. (<<>> \o <<>>) \o <<>> = <<>>
  BY EmptyConcat, EmptySeq
<1>5. Waiting' = <<>>
  BY <1>1, <1>3, <1>4, Shown DEF WaitingIn
<1>6. UNCHANGED <<InRuns("agent"), InRuns("answered")>>
  BY <1>1, Shown
<1> QED BY <1>2, <1>5, <1>6 DEF Turns!turnVars

LEMMA ReceiveArrives ==
  ASSUME Inv, allowed, NEW m \in Messages, Receive(m)
  PROVE  Turns!Arrive(m)
<1>1. allowed' /\ UNCHANGED run
  BY DEF Receive
<1>2. Waiting' = Append(Waiting, m)
  BY <1>1, ReceiveAppends, Shown
<1>3. Turns!Members(Waiting) = Of(Waiting)
  BY DEF Turns!Members, Of
<1>4. m \notin Turns!Members(Waiting) \cup InRuns("agent") \cup InRuns("answered")
  BY <1>3, ReceiveIsNew, Shown
<1>5. UNCHANGED <<InRuns("agent"), InRuns("answered")>>
  BY <1>1, Shown
<1> QED BY <1>2, <1>4, <1>5 DEF Turns!Arrive

LEMMA RunVerdictBegins ==
  ASSUME Inv, allowed, NEW s \in Messages, RunVerdict(s)
  PROVE  \E n \in 1..Len(Waiting) : Turns!Begin(n)
<1> DEFINE n == Len(run[s].contents)
<1>1. allowed'
  BY DEF RunVerdict
<1>2. /\ n \in 1..Len(Waiting)
      /\ InRuns("agent") = {}
      /\ InRuns("agent")' = Of(SubSeq(Waiting, 1, n))
      /\ Waiting' = SubSeq(Waiting, n + 1, Len(Waiting))
      /\ InRuns("answered")' = InRuns("answered")
  BY <1>1, VerdictBegins, Shown
<1>3. Turns!Members(SubSeq(Waiting, 1, n)) = Of(SubSeq(Waiting, 1, n))
  BY DEF Turns!Members, Of
<1> HIDE DEF n
<1>4. Turns!Begin(n)
  BY <1>2, <1>3 DEF Turns!Begin
<1> QED BY <1>2, <1>4

LEMMA RunEndsTurn ==
  ASSUME Inv, allowed, NEW s \in Messages, RunEnds(s) \/ RunEndsEarly(s)
  PROVE  Turns!End
<1>1. allowed'
  BY DEF RunEnds, RunEndsEarly
<1>2. /\ Waiting' = Waiting
      /\ InRuns("agent") # {}
      /\ InRuns("agent")' = {}
      /\ InRuns("answered")' = InRuns("answered") \cup InRuns("agent")
  BY <1>1, RunEndShown, Shown
<1> QED BY <1>2 DEF Turns!End

LEMMA OthersShowNothing ==
  ASSUME Inv, allowed, Mishaps = {}
  PROVE  /\ \A m \in Messages : WebhookVerdict(m) => NothingShown /\ UNCHANGED allowed
         /\ \A k \in Keys : TimerFires(k) \/ StrayFires(k) => NothingShown /\ UNCHANGED allowed
         /\ \A old \in SUBSET OldStreams, batches \in SUBSET OldBatches :
              Prune(old, batches) => NothingShown /\ UNCHANGED allowed
<1>1. ASSUME NEW m \in Messages, WebhookVerdict(m) PROVE NothingShown /\ UNCHANGED allowed
  BY <1>1 DEF WebhookVerdict, NothingShown
<1>2. ASSUME NEW k \in Keys, TimerFires(k) \/ StrayFires(k) PROVE NothingShown /\ UNCHANGED allowed
  BY <1>2, FlushShowsNothing DEF TimerFires, StrayFires, StoreSame
<1>3. ASSUME NEW old \in SUBSET OldStreams, NEW batches \in SUBSET OldBatches, Prune(old, batches)
      PROVE  NothingShown /\ UNCHANGED allowed
  <2>1. UNCHANGED <<allowed, run>>
    BY <1>3 DEF Prune
  <2>2. UNCHANGED conv /\ \A k \in Keys : k \in {conv.active, conv.queued} => pending'[k] = pending[k]
    BY <1>3, PruneKeeps
  <2>3. /\ HeldIn(pending', conv.active) = HeldIn(pending, conv.active)
        /\ HeldIn(pending', conv.queued) = HeldIn(pending, conv.queued)
    BY <2>2, ConvTypes DEF HeldIn, Inv
  <2> QED BY <2>1, <2>2, <2>3 DEF NothingShown, WaitingIn
<1> QED BY <1>1, <1>2, <1>3

LEMMA StepImplementsTurns ==
  ASSUME Inv, Inv', Mishaps = {}, [Next]_vars
  PROVE  Turns!Next \/ UNCHANGED Turns!turnVars
<1>1. CASE UNCHANGED vars
  <2>1. UNCHANGED <<allowed, run, conv, pending>>
    BY <1>1 DEF vars
  <2>2. CASE allowed
    BY <2>1, <2>2, TurnsUnchanged DEF NothingShown
  <2>3. CASE ~allowed
    BY <2>1, <2>3, DeniedShown DEF Turns!turnVars
  <2> QED BY <2>2, <2>3
<1>2. CASE allowed /\ Next
  <2>1. CASE \E m \in Messages : Receive(m)
    BY <1>2, <2>1, ReceiveArrives DEF Turns!Next
  <2>2. CASE \E s \in Messages : RunVerdict(s)
    BY <1>2, <2>2, RunVerdictBegins DEF Turns!Next
  <2>3. CASE \E s \in Messages : RunEnds(s) \/ RunEndsEarly(s)
    BY <1>2, <2>3, RunEndsTurn DEF Turns!Next
  <2>4. CASE \/ \E m \in Messages : WebhookVerdict(m)
             \/ \E k \in Keys : TimerFires(k) \/ StrayFires(k)
             \/ \E old \in SUBSET OldStreams, batches \in SUBSET OldBatches : Prune(old, batches)
    BY <1>2, <2>4, OthersShowNothing, TurnsUnchanged
  <2> QED BY <1>2, <2>1, <2>2, <2>3, <2>4 DEF Next, Approve
<1>3. CASE ~allowed /\ Next
  <2>1. CASE Approve
    BY <2>1, ApproveShown
  <2>2. CASE ~Approve
    <3>1. ~allowed'
      BY <1>3, <2>2 DEF Next, Receive, WebhookVerdict, TimerFires, StrayFires, RunVerdict, RunEnds,
                        RunEndsEarly, Prune
    <3> QED BY <1>3, <3>1, DeniedShown DEF Turns!turnVars
  <2> QED BY <2>1, <2>2
<1> QED BY <1>1, <1>2, <1>3

LEMMA InitImplementsTurns == Init => Turns!Init
<1> SUFFICES ASSUME Init PROVE Turns!Init
  OBVIOUS
<1>1. conv = NoConv /\ \A s \in Messages : run[s].at = "none"
  BY NothingThere DEF Init
<1>2. InRuns("agent") = {} /\ InRuns("answered") = {}
  BY <1>1, NoneAt, Shown
<1>3. CheckedIn(run) = <<>> /\ HeldIn(pending, conv.active) = <<>> /\ HeldIn(pending, conv.queued) = <<>>
  BY <1>1, NoneChecked, NothingThere DEF HeldIn
<1>4. (<<>> \o <<>>) \o <<>> = <<>>
  BY EmptyConcat, EmptySeq
<1>5. Waiting = <<>>
  BY <1>3, <1>4, Shown DEF WaitingIn
<1> QED BY <1>2, <1>5 DEF Turns!Init

(* For any number of messages: the store, the webhook and the agent runs   *)
(* answer an allowed sender's batches one at a time and in the order of    *)
(* their messages, and drop or repeat none, whatever timers fire late or   *)
(* twice, whatever is pruned, and whatever messages were denied before.    *)
THEOREM SessionsImplementConversationTurns ==
  Mishaps = {} => (Spec => ImplementsConversationTurns)
<1> SUFFICES ASSUME Mishaps = {} PROVE Spec => ImplementsConversationTurns
  OBVIOUS
<1>1. Inv /\ Inv' /\ [Next]_vars => [Turns!Next]_(Turns!turnVars)
  BY StepImplementsTurns
<1>2. Spec => []Inv
  BY SessionsInvHolds
<1> QED BY <1>1, <1>2, InitImplementsTurns, PTL DEF Spec, ImplementsConversationTurns, Turns!Spec

=============================================================================
