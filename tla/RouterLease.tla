---------------------------- MODULE RouterLease ----------------------------
(***************************************************************************)
(* The writer lease of the router's DurableRouterStore.                    *)
(*                                                                         *)
(* Several Router processes may be started on one state directory.  Each   *)
(* store takes the directory .writer.lock, writes its token into           *)
(* owner.json there, renews it by a heartbeat, and checks it before it     *)
(* replaces delivery-state.json.  Every file operation is a step.  Paths   *)
(* are looked up at every step: a rename or a write hits the lock that is  *)
(* there at that moment, whoever made it.                                  *)
(*                                                                         *)
(* isLeaseStale is one step: what it reads is decided by one of its reads. *)
(* A token stands for its store, and a store for its process.              *)
(***************************************************************************)
EXTENDS Integers, FiniteSets

CONSTANTS
  Writers,  \* stores, each in a process of its own
  Host,     \* the host each of them runs on
  Tasks,    \* tasks to commit
  Null,
  MaxEnds,  \* bound: crashes, stops and failed starts
  Mishaps   \* what the environment may do besides

(* overlap: stores start at the same time, also after another one ended.   *)
(* torn: a starting store reads owner.json while a heartbeat rewrites it.  *)
(* late: a live store renews nothing for lockTimeoutMs.                    *)
(* waited: a store is started long after it was constructed, or after its  *)
(* last renewal in an earlier life.                                        *)
(* straggler: the write of a heartbeat outlives the close of its store.    *)
ASSUME LeaseAssumption ==
  /\ MaxEnds \in Nat
  /\ IsFiniteSet(Writers)
  /\ Mishaps \subseteq {"overlap", "torn", "late", "waited", "straggler"}
  /\ Null \notin Writers \cup Tasks

VARIABLES
  lock,      \* the lock directory: its owner.json, and whether they are old
  file,      \* delivery-state.json: the tasks in it
  pc,        \* where each store is
  tries,     \* acquireLease: attempts left
  view,      \* the state of each store in memory
  writing,   \* the task of a commit past its ownership check
  renewing,  \* heartbeats past their ownership check
  lost,      \* stores with a leaseError
  old,       \* stores whose heartbeatAt runs out before they renew it
  ends,      \* crashes, stops and failed starts so far
  acked      \* history: tasks whose commit was answered with success

vars == <<lock, file, pc, tries, view, writing, renewing, lost, old, ends, acked>>

NoLock == [made |-> FALSE, owner |-> Null, aged |-> FALSE, late |-> FALSE]

FreshLock == [NoLock EXCEPT !.made = TRUE]

Attempts == 4

LeaseTypeOK ==
  /\ lock \in [made  : BOOLEAN,
               owner : Writers \cup {Null},  \* token in owner.json
               aged  : BOOLEAN,              \* mtime of the directory is older than lockTimeoutMs
               late  : BOOLEAN]              \* so is heartbeatAt
  /\ file \subseteq Tasks
  /\ pc \in [Writers -> {"off", "mkdir", "write", "check", "steal", "load", "active", "dead"}]
  /\ tries \in [Writers -> 0..Attempts]
  /\ view \in [Writers -> SUBSET Tasks]
  /\ writing \in [Writers -> Tasks \cup {Null}]
  /\ renewing \subseteq Writers
  /\ lost \subseteq Writers
  /\ old \subseteq Writers
  /\ ends \in 0..MaxEnds
  /\ acked \subseteq Tasks

Init ==
  /\ lock = NoLock
  /\ file = {}
  /\ pc = [w \in Writers |-> "off"]
  /\ tries = [w \in Writers |-> 0]
  /\ view = [w \in Writers |-> {}]
  /\ writing = [w \in Writers |-> Null]
  /\ renewing = {}
  /\ lost = {}
  /\ old = {}
  /\ ends = 0
  /\ acked = {}

Goto(w, from, to) == pc[w] = from /\ pc' = [pc EXCEPT ![w] = to]

Alive(w) == pc[w] # "dead"

Starting(w) == pc[w] \in {"mkdir", "write", "check", "steal", "load"}

OthersStarting(w) == {v \in Writers \ {w} : Starting(v)}

(* A store crashes, is closed or fails to load.                            *)
End(w) ==
  /\ ends < MaxEnds
  /\ "overlap" \in Mishaps \/ Cardinality(OthersStarting(w)) <= 1
  /\ ends' = ends + 1

-----------------------------------------------------------------------------
(* acquireLease *)

(* The store is constructed for this start, or was there long before it.   *)
Start(w) ==
  /\ "overlap" \in Mishaps \/ ends = 0 \/ OthersStarting(w) = {}
  /\ Goto(w, "off", "mkdir")
  /\ tries' = [tries EXCEPT ![w] = Attempts]
  /\ old' \in {old \ {w}} \cup (IF "waited" \in Mishaps THEN {old \cup {w}} ELSE {})
  /\ UNCHANGED <<lock, file, view, writing, renewing, lost, ends, acked>>

MakeLock(w) ==
  /\ Goto(w, "mkdir", IF lock.made THEN "check" ELSE "write")
  /\ lock' = IF lock.made THEN lock ELSE FreshLock
  /\ UNCHANGED <<file, tries, view, writing, renewing, lost, old, ends, acked>>

(* writeLeaseOwner: into the lock that is there now, with the heartbeatAt   *)
(* the store has in memory: until its first renewal that of its constructor *)
(* or of an earlier life, which may have run out already.                  *)
PutOwner(w) ==
  \E late \in BOOLEAN :
    /\ late => w \in old
    /\ lock' = [lock EXCEPT !.owner = w, !.late = late]

WriteOwner(w) ==
  /\ IF lock.made THEN Goto(w, "write", "load") /\ PutOwner(w)
                  ELSE Goto(w, "write", "off") /\ UNCHANGED lock
  /\ UNCHANGED <<file, tries, view, writing, renewing, lost, old, ends, acked>>

(* Slips, for mutation: only the age of the directory counts; a directory  *)
(* without an owner is never stale.                                        *)
StaleByAge(w, owner) == ~lock.made \/ lock.aged

StaleByOwner(w, owner) ==
  \/ ~lock.made
  \/ owner # Null /\ IF Host[owner] = Host[w] THEN ~Alive(owner) ELSE lock.late

(* isLeaseStale, for what was read as the owner: Null when owner.json is   *)
(* missing or empty.  On the same host the process decides, else the       *)
(* heartbeat; without an owner, the age of the directory.                  *)
Stale(w, owner) ==
  \/ ~lock.made
  \/ owner = Null /\ lock.aged
  \/ /\ owner # Null
     /\ IF Host[owner] = Host[w] THEN ~Alive(owner) ELSE lock.late

(* A heartbeat truncates owner.json before it writes it.                   *)
OwnersRead ==
  {lock.owner} \cup (IF "torn" \in Mishaps /\ lock.owner \in renewing THEN {Null} ELSE {})

CheckStale(w) ==
  /\ \E owner \in OwnersRead : Goto(w, "check", IF Stale(w, owner) THEN "steal" ELSE "off")
  /\ UNCHANGED <<lock, file, tries, view, writing, renewing, lost, old, ends, acked>>

(* The stale lock is renamed away, or was already; mkdir is tried again.   *)
Steal(w) ==
  /\ Goto(w, "steal", IF tries[w] > 1 THEN "mkdir" ELSE "off")
  /\ tries' = [tries EXCEPT ![w] = @ - 1]
  /\ lock' = NoLock
  /\ UNCHANGED <<file, view, writing, renewing, lost, old, ends, acked>>

-----------------------------------------------------------------------------
(* initialize, after the lease; releaseLease *)

(* A slip, for mutation: the state file is not read.                       *)
LoadNothing(w) ==
  /\ Goto(w, "load", "active")
  /\ UNCHANGED <<lock, file, tries, view, writing, renewing, lost, old, ends, acked>>

Load(w) ==
  /\ Goto(w, "load", "active")
  /\ view' = [view EXCEPT ![w] = file]
  /\ UNCHANGED <<lock, file, tries, writing, renewing, lost, old, ends, acked>>

ReleaseLease(w) == lock' = IF lock.owner = w THEN NoLock ELSE lock

(* The state file cannot be decoded.                                       *)
LoadFails(w) ==
  /\ End(w)
  /\ Goto(w, "load", "off")
  /\ ReleaseLease(w)
  /\ UNCHANGED <<file, tries, view, writing, renewing, lost, old, acked>>

(* close waits for the commit in progress, not for a heartbeat.            *)
Close(w) ==
  /\ End(w)
  /\ writing[w] = Null
  /\ "straggler" \in Mishaps \/ w \notin renewing
  /\ Goto(w, "active", "off")
  /\ ReleaseLease(w)
  /\ UNCHANGED <<file, tries, view, writing, renewing, lost, old, acked>>

-----------------------------------------------------------------------------
(* The heartbeat; a commit *)

(* assertLeaseOwnership, and what follows it.                              *)
OwnershipLost(w) ==
  /\ lock.owner # w
  /\ lost' = lost \cup {w}
  /\ UNCHANGED <<writing, renewing, old>>

(* renewLease takes the time before it writes.                             *)
RenewCheck(w) ==
  /\ pc[w] = "active"
  /\ w \notin lost \cup renewing
  /\ \/ /\ lock.owner = w
        /\ renewing' = renewing \cup {w}
        /\ old' = old \ {w}
        /\ UNCHANGED <<writing, lost>>
     \/ OwnershipLost(w)
  /\ UNCHANGED <<lock, file, pc, tries, view, ends, acked>>

RenewWrite(w) ==
  /\ w \in renewing
  /\ renewing' = renewing \ {w}
  /\ IF lock.made THEN PutOwner(w) /\ UNCHANGED lost
                  ELSE lost' = lost \cup {w} /\ UNCHANGED lock
  /\ UNCHANGED <<file, pc, tries, view, writing, old, ends, acked>>

BeginCommit(w, t) ==
  /\ pc[w] = "active"
  /\ w \notin lost
  /\ writing[w] = Null
  /\ t \notin view[w]
  /\ \/ /\ lock.owner = w
        /\ writing' = [writing EXCEPT ![w] = t]
        /\ UNCHANGED <<renewing, lost, old>>
     \/ OwnershipLost(w)
  /\ UNCHANGED <<lock, file, pc, tries, view, ends, acked>>

(* The new state file is renamed over the old one.                         *)
FinishCommit(w) ==
  LET next == view[w] \cup {writing[w]} IN
  /\ writing[w] # Null
  /\ file' = next
  /\ view' = [view EXCEPT ![w] = next]
  /\ acked' = acked \cup {writing[w]}
  /\ writing' = [writing EXCEPT ![w] = Null]
  /\ UNCHANGED <<lock, pc, tries, renewing, lost, old, ends>>

-----------------------------------------------------------------------------
(* The environment *)

Crash(w) ==
  /\ End(w)
  /\ Starting(w) \/ pc[w] = "active"
  /\ pc' = [pc EXCEPT ![w] = "dead"]
  /\ writing' = [writing EXCEPT ![w] = Null]
  /\ renewing' = renewing \ {w}
  /\ UNCHANGED <<lock, file, tries, view, lost, old, acked>>

(* lockTimeoutMs pass; a live store that is making the lock is faster.     *)
Age ==
  /\ lock.made /\ ~lock.aged
  /\ lock.owner = Null => \A w \in Writers : pc[w] # "write"
  /\ lock' = [lock EXCEPT !.aged = TRUE]
  /\ UNCHANGED <<file, pc, tries, view, writing, renewing, lost, old, ends, acked>>

(* The heartbeat in owner.json gets older than lockTimeoutMs.              *)
MissHeartbeats ==
  /\ lock.owner # Null /\ ~lock.late
  /\ "late" \in Mishaps \/ lock.owner \in old \/ pc[lock.owner] \in {"off", "dead"}
  /\ lock' = [lock EXCEPT !.late = TRUE]
  /\ UNCHANGED <<file, pc, tries, view, writing, renewing, lost, old, ends, acked>>

Step(w) ==
  \/ MakeLock(w) \/ WriteOwner(w) \/ CheckStale(w) \/ Steal(w)
  \/ Load(w) \/ LoadFails(w) \/ RenewWrite(w) \/ FinishCommit(w)

Next ==
  \/ \E w \in Writers :
       \/ Start(w) \/ Step(w) \/ Close(w) \/ RenewCheck(w) \/ Crash(w)
       \/ \E t \in Tasks : BeginCommit(w, t)
  \/ Age
  \/ MissHeartbeats

Spec == Init /\ [][Next]_vars

(* A supervisor starts stores again and again, each of them goes on, and   *)
(* time passes.                                                            *)
FairSpec ==
  /\ Spec
  /\ \A w \in Writers : WF_vars(Step(w)) /\ SF_vars(Start(w))
  /\ WF_vars(Age)
  /\ WF_vars(MissHeartbeats)

-----------------------------------------------------------------------------
(* Properties *)

(* Never two Routers past startup on one state directory, as the README    *)
(* says: the second one fails to start.                                    *)
OneActiveWriter ==
  \A v, w \in Writers : pc[v] = "active" /\ pc[w] = "active" => v = w

(* A commit that was answered with success is never overwritten by a       *)
(* writer that does not know it.                                           *)
NoLostCommit == acked \subseteq file

(* A writer whose lease was lost writes no more, as its error says: the    *)
(* state file is replaced only by the store that owner.json names.         *)
OnlyOwnerWrites ==
  [][\A w \in Writers : writing[w] # Null /\ writing'[w] = Null /\ file' # file => lock.owner = w]_vars

(* Whatever a crashed store leaves behind, a directory without owner.json  *)
(* included, some Router gets to work again.                               *)
RouterReturns == []<>(\E w \in Writers : pc[w] = "active")

=============================================================================
