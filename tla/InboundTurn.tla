---------------------------- MODULE InboundTurn ----------------------------
(***************************************************************************)
(* What delivery settlement promises of one inbound identity, whatever     *)
(* crashes and redeliveries do: the agent runs at most one turn for it,    *)
(* replies reach the peer only during that turn and before the verdict,    *)
(* and a verdict is final.  "delivered" is said only of a turn that showed *)
(* the peer something.                                                     *)
(***************************************************************************)
EXTENDS Integers

CONSTANT Ids

VARIABLES turns, shown, verdict

turnVars == <<turns, shown, verdict>>

Verdicts == {"delivered", "no-reply"}

Init ==
  /\ turns = [id \in Ids |-> 0]
  /\ shown = [id \in Ids |-> 0]
  /\ verdict = [id \in Ids |-> "open"]

Begin(id) ==
  /\ verdict[id] = "open"
  /\ turns[id] = 0
  /\ turns' = [turns EXCEPT ![id] = 1]
  /\ UNCHANGED <<shown, verdict>>

Show(id) ==
  /\ verdict[id] = "open"
  /\ turns[id] = 1
  /\ shown' = [shown EXCEPT ![id] = @ + 1]
  /\ UNCHANGED <<turns, verdict>>

Decide(id, v) ==
  /\ verdict[id] = "open"
  /\ v = "delivered" => turns[id] = 1 /\ shown[id] > 0
  /\ verdict' = [verdict EXCEPT ![id] = v]
  /\ UNCHANGED <<turns, shown>>

Next == \E id \in Ids : Begin(id) \/ Show(id) \/ \E v \in Verdicts : Decide(id, v)

Spec == Init /\ [][Next]_turnVars

=============================================================================
