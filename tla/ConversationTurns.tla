------------------------- MODULE ConversationTurns -------------------------
(***************************************************************************)
(* What the stream sessions promise of one conversation: messages that     *)
(* come close together are answered together, batches are answered in the  *)
(* order of their messages, one at a time, and no message is dropped or    *)
(* answered twice.                                                         *)
(***************************************************************************)
EXTENDS Integers, Sequences

CONSTANT Messages

VARIABLES
  waiting,   \* messages whose turn has not begun, in the order they came
  running,   \* the messages of the turn in progress
  answered

turnVars == <<waiting, running, answered>>

Members(s) == {s[i] : i \in DOMAIN s}

Init == waiting = <<>> /\ running = {} /\ answered = {}

Arrive(m) ==
  /\ m \notin Members(waiting) \cup running \cup answered
  /\ waiting' = Append(waiting, m)
  /\ UNCHANGED <<running, answered>>

Begin(n) ==
  /\ running = {}
  /\ running' = Members(SubSeq(waiting, 1, n))
  /\ waiting' = SubSeq(waiting, n + 1, Len(waiting))
  /\ UNCHANGED answered

End ==
  /\ running # {}
  /\ answered' = answered \cup running
  /\ running' = {}
  /\ UNCHANGED waiting

Next ==
  \/ \E m \in Messages : Arrive(m)
  \/ \E n \in 1..Len(waiting) : Begin(n)
  \/ End

Spec == Init /\ [][Next]_turnVars

=============================================================================
