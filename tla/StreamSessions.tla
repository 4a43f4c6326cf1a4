--------------------------- MODULE StreamSessions ---------------------------
(***************************************************************************)
(* The StreamSessionStore of message-sdk and the WeCom webhook around it:  *)
(* messages of one conversation are gathered into batches by a debounce    *)
(* timer, and the agent answers one batch after the other.                 *)
(*                                                                         *)
(* Conversations share nothing but the maps they are kept in, so one is    *)
(* modelled.  A stream is named after the message it was created for; a    *)
(* batch key is 0 for the conversation key and n for its #qn.  Group chats *)
(* are checked before they reach the store: these are direct chats, where  *)
(* the webhook and the run each await the DM policy.                       *)
(*                                                                         *)
(* Time is left to the environment: a timer may fire at any moment, and    *)
(* what is older than streamTtlMs is whatever Prune removes.               *)
(***************************************************************************)
EXTENDS Integers, Sequences

CONSTANTS
  MaxMessages,  \* bound: messages that come
  Null,
  Mishaps       \* what the environment may do besides

(* approval: the sender is approved while messages of theirs are handled.  *)
(* slow: a stream or a batch outlives its TTL before it is finished.       *)
ASSUME SessionsAssumption ==
  /\ MaxMessages \in Nat
  /\ Null \notin Nat
  /\ Mishaps \subseteq {"approval", "slow"}

VARIABLES
  allowed,   \* what the DM policy says of the sender
  streams,   \* streams in the store
  key,       \* streamIdToBatchKey, which is never cleaned
  pending,   \* pendingInbounds: the batch under each key
  strays,    \* timers whose batch was overwritten
  conv,      \* conversationState
  home,      \* the stream addPendingMessage answered for each message
  checks,    \* messages whose webhook awaits the policy
  run,       \* the agent run of each stream
  acks,      \* the acknowledgement streams linked to each batch stream
  open,      \* acknowledgement streams that are not finished
  admitted   \* history: messages that came while the sender was allowed

vars == <<allowed, streams, key, pending, strays, conv, home, checks, run, acks, open, admitted>>

(* Numbered in the order they come.                                        *)
Messages == 1..MaxMessages

Keys == 0..MaxMessages

NoBatch == [stream |-> Null, contents |-> <<>>, timer |-> FALSE, ready |-> FALSE]

NoConv == [active |-> Null, queued |-> Null, next |-> 1]

NoRun == [at |-> "none", contents |-> <<>>]

Batch == [stream : Messages, contents : Seq(Messages) \ {<<>>}, timer : BOOLEAN, ready : BOOLEAN]

Run == [at       : {"none", "check", "agent", "answered", "denied", "skipped"},
        contents : Seq(Messages)]

SessionsTypeOK ==
  /\ allowed \in BOOLEAN
  /\ streams \subseteq Messages
  /\ key \in [Messages -> Keys \cup {Null}]
  /\ pending \in [Keys -> Batch \cup {NoBatch}]
  /\ strays \in [Keys -> Nat]
  /\ \/ conv = NoConv
     \/ conv \in [active : Keys, queued : (Keys \ {0}) \cup {Null}, next : Nat]
  /\ home \in [Messages -> Messages \cup {Null}]
  /\ checks \subseteq Messages
  /\ run \in [Messages -> Run]
  /\ acks \in [Messages -> SUBSET Messages]
  /\ open \subseteq Messages
  /\ admitted \subseteq Messages

Init ==
  /\ allowed \in BOOLEAN
  /\ streams = {}
  /\ key = [m \in Messages |-> Null]
  /\ pending = [k \in Keys |-> NoBatch]
  /\ strays = [k \in Keys |-> 0]
  /\ conv = NoConv
  /\ home = [m \in Messages |-> Null]
  /\ checks = {}
  /\ run = [s \in Messages |-> NoRun]
  /\ acks = [s \in Messages |-> {}]
  /\ open = {}
  /\ admitted = {}

-----------------------------------------------------------------------------
(* addPendingMessage *)

(* The batch is stored under its key; a timer of a batch that was there    *)
(* before is not cleared.                                                  *)
NewBatch(m, k) ==
  /\ streams' = streams \cup {m}
  /\ key' = [key EXCEPT ![m] = k]
  /\ strays' = [strays EXCEPT ![k] = @ + (IF pending[k].timer THEN 1 ELSE 0)]
  /\ pending' = [pending EXCEPT ![k] =
                   [stream |-> m, contents |-> <<m>>, timer |-> TRUE, ready |-> FALSE]]
  /\ home' = [home EXCEPT ![m] = m]

Merge(m, k) ==
  /\ pending' = [pending EXCEPT ![k].contents = Append(@, m), ![k].timer = TRUE]
  /\ home' = [home EXCEPT ![m] = pending[k].stream]
  /\ UNCHANGED <<streams, key, strays>>

(* The first batch of a conversation takes no other message.  A batch that *)
(* is still pending has not started: flushPending removes it first.        *)
MergesIntoActive == conv.active # 0 /\ pending[conv.active] # NoBatch

MergesIntoQueued == conv.queued # Null /\ pending[conv.queued] # NoBatch

AddPendingMessage(m) ==
  \/ /\ conv = NoConv
     /\ NewBatch(m, 0)
     /\ conv' = [active |-> 0, queued |-> Null, next |-> 1]
  \/ /\ conv # NoConv
     /\ MergesIntoActive
     /\ Merge(m, conv.active)
     /\ UNCHANGED conv
  \/ /\ conv # NoConv
     /\ ~MergesIntoActive /\ MergesIntoQueued
     /\ Merge(m, conv.queued)
     /\ UNCHANGED conv
  \/ /\ conv # NoConv
     /\ ~MergesIntoActive /\ ~MergesIntoQueued
     /\ NewBatch(m, conv.next)
     /\ conv' = [conv EXCEPT !.queued = conv.next, !.next = @ + 1]

(* A message comes to the webhook; its msgid comes once.                   *)
Receive(m) ==
  /\ home[m] = Null
  /\ \A n \in 1..(m - 1) : home[n] # Null
  /\ AddPendingMessage(m)
  /\ checks' = checks \cup {m}
  /\ admitted' = IF allowed THEN admitted \cup {m} ELSE admitted
  /\ UNCHANGED <<allowed, run, acks, open>>

-----------------------------------------------------------------------------
(* requestFlush, flushPending, onStreamFinished *)

(* The batch leaves the store and its run starts, unless its stream is     *)
(* gone.  runs is the state of the other runs by then.                     *)
FlushPending(k, runs) ==
  /\ pending' = [pending EXCEPT ![k] = NoBatch]
  /\ run' = [runs EXCEPT ![pending[k].stream] =
               [at       |-> IF pending[k].stream \in streams THEN "check" ELSE "skipped",
                contents |-> pending[k].contents]]

(* A slip, for mutation: every batch is flushed when its timer fires.      *)
FlushAtOnce(k) ==
  \/ pending[k] = NoBatch /\ UNCHANGED <<pending, run>>
  \/ pending[k] # NoBatch /\ FlushPending(k, run)

(* A batch that is not the active one waits until it is.                   *)
RequestFlush(k) ==
  \/ pending[k] = NoBatch /\ UNCHANGED <<pending, run>>
  \/ /\ pending[k] # NoBatch
     /\ conv.active # k
     /\ pending' = [pending EXCEPT ![k].timer = FALSE, ![k].ready = TRUE]
     /\ UNCHANGED run
  \/ pending[k] # NoBatch /\ conv.active = k /\ FlushPending(k, run)

TimerFires(k) ==
  /\ pending[k].timer
  /\ RequestFlush(k)
  /\ UNCHANGED <<allowed, streams, key, strays, conv, home, checks, acks, open, admitted>>

StrayFires(k) ==
  /\ strays[k] > 0
  /\ strays' = [strays EXCEPT ![k] = @ - 1]
  /\ RequestFlush(k)
  /\ UNCHANGED <<allowed, streams, key, conv, home, checks, acks, open, admitted>>

(* The batch of the stream is the active one of the conversation.          *)
IsActive(s) == s \in streams /\ conv # NoConv /\ conv.active = key[s]

(* A slip, for mutation: the next batch waits for its timer, which has    *)
(* fired already.                                                          *)
PromoteOnly(s, runs) ==
  /\ run' = runs
  /\ UNCHANGED pending
  /\ conv' = IF ~IsActive(s) THEN conv
             ELSE IF conv.queued = Null THEN NoConv
             ELSE [conv EXCEPT !.active = conv.queued, !.queued = Null]

OnStreamFinished(s, runs) ==
  \/ ~IsActive(s) /\ run' = runs /\ UNCHANGED <<conv, pending>>
  \/ /\ IsActive(s) /\ conv.queued = Null
     /\ conv' = NoConv
     /\ run' = runs
     /\ UNCHANGED pending
  \/ /\ IsActive(s) /\ conv.queued # Null
     /\ conv' = [conv EXCEPT !.active = conv.queued, !.queued = Null]
     /\ IF pending[conv.queued].ready
        THEN FlushPending(conv.queued, runs)
        ELSE run' = runs /\ UNCHANGED pending

-----------------------------------------------------------------------------
(* The webhook after the policy; a run *)

(* A message that was merged gets an acknowledgement stream of its own,    *)
(* linked to its batch.                                                    *)
Acknowledge(m) ==
  IF home[m] = m THEN UNCHANGED <<acks, open>>
  ELSE /\ acks' = [acks EXCEPT ![home[m]] = @ \cup {m}]
       /\ open' = open \cup {m}

WebhookVerdict(m) ==
  /\ m \in checks
  /\ checks' = checks \ {m}
  /\ \/ allowed /\ Acknowledge(m) /\ UNCHANGED <<conv, pending, run>>
     \/ ~allowed /\ OnStreamFinished(home[m], run) /\ UNCHANGED <<acks, open>>
  /\ UNCHANGED <<allowed, streams, key, strays, home, admitted>>

At(s, place) == [run EXCEPT ![s].at = place]

RunVerdict(s) ==
  /\ run[s].at = "check"
  /\ \/ allowed /\ run' = At(s, "agent") /\ UNCHANGED <<conv, pending>>
     \/ ~allowed /\ OnStreamFinished(s, At(s, "denied"))
  /\ UNCHANGED <<allowed, streams, key, strays, home, checks, acks, open, admitted>>

(* The end of startAgentForStream; a timeout or an error of the agent      *)
(* comes here too.                                                         *)
RunEnds(s) ==
  /\ run[s].at = "agent"
  /\ acks' = [acks EXCEPT ![s] = {}]
  /\ open' = open \ acks[s]
  /\ OnStreamFinished(s, At(s, "answered"))
  /\ UNCHANGED <<allowed, streams, key, strays, home, checks, admitted>>

(* It returns early, for a local file or an unauthorized command, or       *)
(* throws.                                                                 *)
RunEndsEarly(s) ==
  /\ run[s].at = "agent"
  /\ OnStreamFinished(s, At(s, "answered"))
  /\ UNCHANGED <<allowed, streams, key, strays, home, checks, acks, open, admitted>>

-----------------------------------------------------------------------------
(* prune, and the environment *)

InWork(s) == run[s].at \in {"check", "agent"} \/ \E k \in Keys : pending[k].stream = s

Wanted(k) == pending[k] # NoBatch /\ (pending[k].timer \/ k \in {conv.active, conv.queued})

OldStreams == {s \in streams : "slow" \in Mishaps \/ ~InWork(s)}

OldBatches == {k \in Keys : pending[k] # NoBatch /\ ("slow" \in Mishaps \/ ~Wanted(k))}

(* A conversation is kept as long as any stream ever had the key of its    *)
(* active batch, which is as long as it has one.                           *)
KeyKnown == \E s \in Messages : key[s] = conv.active

Prune(old, batches) ==
  /\ old # {} \/ batches # {}
  /\ streams' = streams \ old
  /\ pending' = [k \in Keys |-> IF k \in batches THEN NoBatch ELSE pending[k]]
  /\ conv' = IF ~KeyKnown /\ conv.queued = Null THEN NoConv ELSE conv
  /\ UNCHANGED <<allowed, key, strays, home, checks, run, acks, open, admitted>>

Quiet == conv = NoConv /\ checks = {} /\ \A s \in Messages : run[s].at # "check"

Approve ==
  /\ ~allowed
  /\ "approval" \in Mishaps \/ Quiet
  /\ allowed' = TRUE
  /\ UNCHANGED <<streams, key, pending, strays, conv, home, checks, run, acks, open, admitted>>

Next ==
  \/ \E m \in Messages : Receive(m) \/ WebhookVerdict(m)
  \/ \E k \in Keys : TimerFires(k) \/ StrayFires(k)
  \/ \E s \in Messages : RunVerdict(s) \/ RunEnds(s) \/ RunEndsEarly(s)
  \/ \E old \in SUBSET OldStreams, batches \in SUBSET OldBatches : Prune(old, batches)
  \/ Approve

Spec == Init /\ [][Next]_vars

(* Timers fire, policy checks answer, and agent runs end: they have a      *)
(* timeout.                                                                *)
FairSpec ==
  /\ Spec
  /\ \A k \in Keys : WF_vars(TimerFires(k))
  /\ \A m \in Messages : WF_vars(WebhookVerdict(m))
  /\ \A s \in Messages : WF_vars(RunVerdict(s)) /\ WF_vars(RunEnds(s) \/ RunEndsEarly(s))

-----------------------------------------------------------------------------
(* Properties *)

(* The messages of an allowed sender that have no turn yet: those of the   *)
(* run that awaits the policy, of the active batch and of the queued one.  *)
Held(k) == IF k = Null THEN <<>> ELSE pending[k].contents

Checked ==
  LET checking == {s \in Messages : run[s].at = "check"}
  IN  IF checking = {} THEN <<>> ELSE run[CHOOSE s \in checking : TRUE].contents

Waiting == IF allowed THEN Checked \o Held(conv.active) \o Held(conv.queued) ELSE <<>>

InRuns(place) ==
  UNION {{run[s].contents[i] : i \in DOMAIN run[s].contents} : s \in {r \in Messages : run[r].at = place}}

Turns == INSTANCE ConversationTurns
           WITH waiting <- Waiting, running <- InRuns("agent"), answered <- InRuns("answered")

(* For an allowed sender, whatever denied messages left behind: batches    *)
(* are answered one at a time, in the order of their messages, and none is *)
(* dropped or answered twice.                                              *)
ImplementsConversationTurns == Turns!Spec

(* When a run ends, the batch that waits behind it becomes the active one, *)
(* as the store says of the end of a stream.  The code breaks it when the  *)
(* prune has removed the stream during the run.                            *)
FinishAdvancesQueue ==
  [][\A s \in Messages :
       /\ run[s].at = "agent" /\ run'[s].at = "answered"
       /\ conv.active = key[s] /\ conv.queued # Null
       => conv'.active = conv.queued]_vars

(* Every message of an allowed sender gets its answer.                     *)
EveryMessageAnswered ==
  \A m \in Messages : m \in admitted ~> m \in InRuns("answered")

=============================================================================
