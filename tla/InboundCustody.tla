--------------------------- MODULE InboundCustody ---------------------------
(***************************************************************************)
(* What a channel promises of the messages it keeps itself, in a pending   *)
(* list, behind a cursor or in a file: each gets one agent turn at most    *)
(* and none once it is done with, and the channel lets go of a message     *)
(* only when it is done with or a copy of it is filed.  What is done or    *)
(* let go of stays so, through retries, takeovers and restarts.            *)
(***************************************************************************)
EXTENDS Integers

CONSTANT Messages

VARIABLES
  turns,     \* agent turns per message
  done,      \* messages whose turn ended, or that needed none
  filed,     \* messages with a copy for the operator
  released   \* messages that nothing brings back any more

custodyVars == <<turns, done, filed, released>>

Init ==
  /\ turns = [m \in Messages |-> 0]
  /\ done = {}
  /\ filed = {}
  /\ released = {}

Begin(m) ==
  /\ m \notin done
  /\ turns[m] = 0
  /\ turns' = [turns EXCEPT ![m] = 1]
  /\ UNCHANGED <<done, filed, released>>

Finish(m) ==
  /\ m \notin done
  /\ done' = done \cup {m}
  /\ UNCHANGED <<turns, filed, released>>

(* The copies may be filed in the same step.                               *)
LetGo(messages, copies) ==
  /\ messages \subseteq done \cup filed \cup copies
  /\ released' = released \cup messages
  /\ filed' = filed \cup copies
  /\ UNCHANGED <<turns, done>>

Next ==
  \/ \E m \in Messages : Begin(m) \/ Finish(m)
  \/ \E messages, copies \in SUBSET Messages : LetGo(messages, copies)

Spec == Init /\ [][Next]_custodyVars

=============================================================================
