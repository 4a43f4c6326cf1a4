------------------------- MODULE RouterLeaseProofs -------------------------
(***************************************************************************)
(* Proofs about RouterLease, for any finite number of stores on any hosts, *)
(* any tasks and any number of crashes, closes and failed starts.          *)
(***************************************************************************)
EXTENDS RouterLease, FiniteSetTheorems, TLAPS

USE LeaseAssumption

-----------------------------------------------------------------------------
(* Types, whatever happens to go wrong. *)

TypeInv ==
  /\ LeaseTypeOK
  /\ \A w \in Writers : pc[w] \in {"mkdir", "check", "steal"} => tries[w] > 0

Lock == [made : BOOLEAN, owner : Writers \cup {Null}, aged : BOOLEAN, late : BOOLEAN]

LEMMA LockTypes == NoLock \in Lock /\ FreshLock \in Lock
<1> QED BY DEF NoLock, FreshLock, Lock

LEMMA InitType == Init => TypeInv
<1> QED BY LockTypes DEF Init, TypeInv, LeaseTypeOK, Lock, Attempts

LEMMA EndType ==
  ASSUME TypeInv, NEW w \in Writers, End(w)
  PROVE  ends' \in 0..MaxEnds /\ ends' > 0
<1> QED BY DEF End, TypeInv, LeaseTypeOK

LEMMA ReleaseType ==
  ASSUME TypeInv, NEW w \in Writers, ReleaseLease(w)
  PROVE  lock' \in Lock
<1> QED BY LockTypes DEF ReleaseLease, TypeInv, LeaseTypeOK, Lock

LEMMA PutOwnerType ==
  ASSUME TypeInv, NEW w \in Writers, PutOwner(w)
  PROVE  lock' \in Lock
<1>1. PICK late \in BOOLEAN : lock' = [lock EXCEPT !.owner = w, !.late = late]
  BY DEF PutOwner
<1> QED BY <1>1 DEF TypeInv, LeaseTypeOK, Lock

LEMMA StepType ==
  ASSUME TypeInv, NEW w \in Writers,
         \/ Start(w) \/ MakeLock(w) \/ WriteOwner(w) \/ CheckStale(w) \/ Steal(w) \/ Load(w)
  PROVE  TypeInv'
<1> USE LockTypes DEF Goto, Lock
<1>1. CASE Start(w)
  BY <1>1 DEF Start, TypeInv, LeaseTypeOK, Attempts
<1>2. CASE MakeLock(w)
  <2>1. lock' \in Lock /\ (pc' = [pc EXCEPT ![w] = "check"] \/ pc' = [pc EXCEPT ![w] = "write"])
        /\ pc[w] = "mkdir"
    BY <1>2 DEF MakeLock, TypeInv, LeaseTypeOK
  <2> QED BY <1>2, <2>1 DEF MakeLock, TypeInv, LeaseTypeOK
<1>3. CASE WriteOwner(w)
  <2>1. lock' \in Lock /\ (pc' = [pc EXCEPT ![w] = "load"] \/ pc' = [pc EXCEPT ![w] = "off"])
    BY <1>3, PutOwnerType DEF WriteOwner, TypeInv, LeaseTypeOK
  <2> QED BY <1>3, <2>1 DEF WriteOwner, TypeInv, LeaseTypeOK
<1>4. CASE CheckStale(w)
  <2>1. (pc' = [pc EXCEPT ![w] = "steal"] \/ pc' = [pc EXCEPT ![w] = "off"]) /\ pc[w] = "check"
    BY <1>4 DEF CheckStale, OwnersRead
  <2> QED BY <1>4, <2>1 DEF CheckStale, TypeInv, LeaseTypeOK
<1>5. CASE Steal(w)
  <2>1. /\ pc[w] = "steal" /\ tries' = [tries EXCEPT ![w] = tries[w] - 1]
        /\ pc' = [pc EXCEPT ![w] = IF tries[w] > 1 THEN "mkdir" ELSE "off"]
        /\ lock' = NoLock
        /\ UNCHANGED <<file, view, writing, renewing, lost, old, ends, acked>>
    BY <1>5 DEF Steal
  <2>2. tries[w] \in 1..Attempts
    BY <2>1 DEF TypeInv, LeaseTypeOK, Attempts
  <2>3. tries' \in [Writers -> 0..Attempts] /\ pc' \in [Writers -> {"off", "mkdir", "write", "check", "steal", "load", "active", "dead"}]
    BY <2>1, <2>2 DEF TypeInv, LeaseTypeOK, Attempts
  <2>4. \A u \in Writers : pc'[u] \in {"mkdir", "check", "steal"} => tries'[u] > 0
    BY <2>1, <2>2 DEF TypeInv, LeaseTypeOK
  <2> QED BY <2>1, <2>3, <2>4 DEF TypeInv, LeaseTypeOK
<1>6. CASE Load(w)
  BY <1>6 DEF Load, TypeInv, LeaseTypeOK
<1> QED BY <1>1, <1>2, <1>3, <1>4, <1>5, <1>6

LEMMA EndStepType ==
  ASSUME TypeInv, NEW w \in Writers, LoadFails(w) \/ Close(w) \/ Crash(w)
  PROVE  TypeInv'
<1>1. ends' \in 0..MaxEnds
  BY EndType DEF LoadFails, Close, Crash
<1>2. lock' \in Lock
  BY ReleaseType DEF LoadFails, Close, Crash, TypeInv, LeaseTypeOK, Lock
<1>3. pc' = [pc EXCEPT ![w] = "off"] \/ pc' = [pc EXCEPT ![w] = "dead"]
  BY DEF LoadFails, Close, Crash, Goto
<1>4. /\ UNCHANGED <<file, tries, view, lost, old, acked>>
      /\ writing' \in [Writers -> Tasks \cup {Null}] /\ renewing' \subseteq Writers
  BY DEF LoadFails, Close, Crash, TypeInv, LeaseTypeOK
<1> QED BY <1>1, <1>2, <1>3, <1>4 DEF TypeInv, LeaseTypeOK, Lock

LEMMA ActiveType ==
  ASSUME TypeInv, NEW w \in Writers,
         \/ RenewCheck(w) \/ RenewWrite(w) \/ FinishCommit(w)
         \/ \E t \in Tasks : BeginCommit(w, t)
  PROVE  TypeInv'
<1>1. CASE RenewCheck(w)
  BY <1>1 DEF RenewCheck, OwnershipLost, TypeInv, LeaseTypeOK
<1>2. CASE RenewWrite(w)
  <2>1. lock' \in Lock
    BY <1>2, PutOwnerType DEF RenewWrite, TypeInv, LeaseTypeOK, Lock
  <2> QED BY <1>2, <2>1 DEF RenewWrite, TypeInv, LeaseTypeOK, Lock
<1>3. CASE FinishCommit(w)
  <2>1. writing[w] \in Tasks
    BY <1>3 DEF FinishCommit, TypeInv, LeaseTypeOK
  <2> QED BY <1>3, <2>1 DEF FinishCommit, TypeInv, LeaseTypeOK
<1>4. ASSUME NEW t \in Tasks, BeginCommit(w, t) PROVE TypeInv'
  BY <1>4 DEF BeginCommit, OwnershipLost, TypeInv, LeaseTypeOK
<1> QED BY <1>1, <1>2, <1>3, <1>4

LEMMA NextType ==
  ASSUME TypeInv, [Next]_vars
  PROVE  TypeInv'
<1>1. ASSUME NEW w \in Writers, Start(w) \/ Step(w) \/ Close(w) \/ RenewCheck(w) \/ Crash(w)
                                \/ \E t \in Tasks : BeginCommit(w, t)
      PROVE  TypeInv'
  BY <1>1, StepType, EndStepType, ActiveType DEF Step
<1>2. CASE Age \/ MissHeartbeats
  <2>1. lock' \in Lock
    BY <1>2 DEF Age, MissHeartbeats, TypeInv, LeaseTypeOK, Lock
  <2> QED BY <1>2, <2>1 DEF Age, MissHeartbeats, TypeInv, LeaseTypeOK, Lock
<1>3. CASE UNCHANGED vars
  BY <1>3 DEF vars, TypeInv, LeaseTypeOK
<1> QED BY <1>1, <1>2, <1>3 DEF Next

(* The lease and its stores are well typed, also with every mishap.        *)
THEOREM LeaseTypeCorrect == Spec => []LeaseTypeOK
<1>1. TypeInv => LeaseTypeOK
  BY DEF TypeInv
<1> QED BY <1>1, InitType, NextType, PTL DEF Spec

-----------------------------------------------------------------------------
(* Without mishaps, but for the age of heartbeats between stores of one    *)
(* host, where the process decides.  Between hosts a heartbeat must be in  *)
(* time: a store starts within lockTimeoutMs of its constructor or of its  *)
(* last renewal, and renews within it as long as it lives.                 *)

Calm ==
  /\ Mishaps \subseteq {"late", "waited"}
  /\ Mishaps # {} => \A v, w \in Writers : Host[v] = Host[w]

(* A store past the lock is the one the lock names, and a lock that names  *)
(* nobody is being made or was left by a store that died.                  *)
LockOK ==
  /\ ~lock.made => lock = NoLock
  /\ lock.owner # Null => pc[lock.owner] \in {"load", "active", "dead"}
  /\ Mishaps = {} => /\ old = {}
                     /\ lock.late => lock.owner # Null /\ pc[lock.owner] = "dead"
  /\ \A w \in Writers : pc[w] = "write" => lock.made /\ lock.owner = Null /\ ~lock.aged
  /\ \A v, w \in Writers : pc[v] = "write" /\ pc[w] = "write" => v = w
  /\ \A w \in Writers : pc[w] \in {"load", "active"} => lock.owner = w

(* Before anything ended the lock cannot be stale; afterwards one store    *)
(* starts at a time, and takes a lock away only when nobody works.         *)
StartOK ==
  /\ ends = 0 => /\ ~lock.made => \A w \in Writers : pc[w] \in {"off", "mkdir"}
                 /\ lock.made /\ lock.owner = Null => \E w \in Writers : pc[w] = "write"
                 /\ \A w \in Writers : pc[w] \notin {"dead", "steal"}
  /\ ends > 0 => \A v, w \in Writers : Starting(v) /\ Starting(w) => v = w
  /\ \A w \in Writers : pc[w] = "steal" => \A v \in Writers : pc[v] # "active"

(* Only an active store commits and renews, and it knows the file.         *)
CommitOK ==
  /\ \A w \in Writers : writing[w] # Null => pc[w] = "active"
  /\ \A w \in renewing : pc[w] = "active"
  /\ \A w \in Writers : pc[w] = "active" => view[w] = file
  /\ acked \subseteq file

LeaseInv == TypeInv /\ LockOK /\ StartOK /\ CommitOK

LEMMA InitLease == Init => LeaseInv
<1> SUFFICES ASSUME Init PROVE LeaseInv
  OBVIOUS
<1>1. NoLock.owner = Null /\ ~NoLock.made /\ ~NoLock.late
  BY DEF NoLock
<1> QED BY <1>1, InitType DEF Init, LeaseInv, LockOK, StartOK, CommitOK, Starting

LEMMA TypeFacts ==
  ASSUME TypeInv
  PROVE  /\ lock \in Lock /\ file \subseteq Tasks /\ ends \in 0..MaxEnds
         /\ pc \in [Writers -> {"off", "mkdir", "write", "check", "steal", "load", "active", "dead"}]
         /\ view \in [Writers -> SUBSET Tasks] /\ writing \in [Writers -> Tasks \cup {Null}]
         /\ renewing \subseteq Writers /\ old \subseteq Writers
<1> QED BY DEF TypeInv, LeaseTypeOK, Lock

LEMMA LockFacts ==
  /\ NoLock.owner = Null /\ ~NoLock.made /\ ~NoLock.late /\ ~NoLock.aged
  /\ FreshLock.owner = Null /\ FreshLock.made /\ ~FreshLock.late /\ ~FreshLock.aged
<1> QED BY DEF NoLock, FreshLock

(* The heartbeat in owner.json is old only if that of its store is.        *)
LEMMA PutOwnerFacts ==
  ASSUME TypeInv, NEW w \in Writers, PutOwner(w)
  PROVE  /\ lock'.made = lock.made /\ lock'.owner = w /\ lock'.aged = lock.aged
         /\ lock'.late => w \in old
         /\ w # Null
<1>1. PICK late \in BOOLEAN : (late => w \in old) /\ lock' = [lock EXCEPT !.owner = w, !.late = late]
  BY DEF PutOwner
<1> QED BY <1>1, TypeFacts DEF Lock

(* After a store ended one store at most is starting.                      *)
LEMMA OneStarts ==
  ASSUME Calm, NEW w \in Writers, End(w),
         NEW u \in Writers, NEW v \in Writers, u # w, v # w, Starting(u), Starting(v)
  PROVE  u = v
<1> SUFFICES ASSUME u # v PROVE FALSE
  OBVIOUS
<1>1. Cardinality(OthersStarting(w)) <= 1
  BY DEF End, Calm
<1>2. IsFiniteSet({u}) /\ Cardinality({u}) = 1
  BY FS_Singleton
<1>3. Cardinality({u} \cup {v}) = 2
  <2>1. v \notin {u}
    OBVIOUS
  <2>2. Cardinality({u} \cup {v}) = IF v \in {u} THEN Cardinality({u}) ELSE Cardinality({u}) + 1
    BY <1>2, FS_AddElement
  <2> QED BY <1>2, <2>1, <2>2
<1>4. {u} \cup {v} \subseteq OthersStarting(w) /\ IsFiniteSet(OthersStarting(w))
  BY FS_Subset DEF OthersStarting
<1>5. Cardinality(OthersStarting(w)) \in Nat
  BY <1>4, FS_CardinalityType
<1> QED BY <1>1, <1>3, <1>4, <1>5, FS_Subset

LEMMA StartInv ==
  ASSUME Calm, LeaseInv, NEW w \in Writers, Start(w)
  PROVE  LockOK' /\ StartOK' /\ CommitOK'
<1> USE TypeFacts DEF LeaseInv
<1>1. /\ pc[w] = "off" /\ pc' = [pc EXCEPT ![w] = "mkdir"]
      /\ UNCHANGED <<lock, file, view, writing, renewing, ends, acked>>
      /\ ends = 0 \/ OthersStarting(w) = {}
      /\ Mishaps = {} => old' = old \ {w}
  BY DEF Start, Goto, Calm
<1>2. LockOK'
  BY <1>1 DEF LockOK, Lock
<1>3. StartOK'
  BY <1>1 DEF StartOK, Starting, OthersStarting
<1>4. CommitOK'
  BY <1>1 DEF CommitOK
<1> QED BY <1>2, <1>3, <1>4

LEMMA MakeLockInv ==
  ASSUME Calm, LeaseInv, NEW w \in Writers, MakeLock(w)
  PROVE  LockOK' /\ StartOK' /\ CommitOK'
<1> USE TypeFacts DEF LeaseInv
<1>1. /\ pc[w] = "mkdir" /\ UNCHANGED <<file, view, writing, renewing, old, ends, acked>>
      /\ \/ lock.made /\ lock' = lock /\ pc' = [pc EXCEPT ![w] = "check"]
         \/ ~lock.made /\ lock' = FreshLock /\ pc' = [pc EXCEPT ![w] = "write"]
  BY DEF MakeLock, Goto
<1>2. LockOK'
  <2>1. CASE lock.made
    BY <1>1, <2>1 DEF LockOK, Lock
  <2>2. CASE ~lock.made
    BY <1>1, <2>2, LockFacts DEF LockOK, Lock
  <2> QED BY <2>1, <2>2
<1>3. StartOK'
  BY <1>1, LockFacts DEF StartOK, Starting
<1>4. CommitOK'
  BY <1>1 DEF CommitOK
<1> QED BY <1>2, <1>3, <1>4

LEMMA WriteOwnerInv ==
  ASSUME Calm, LeaseInv, NEW w \in Writers, WriteOwner(w)
  PROVE  LockOK' /\ StartOK' /\ CommitOK'
<1> USE TypeFacts DEF LeaseInv
<1>1. /\ pc[w] = "write" /\ lock.made /\ lock.owner = Null
      /\ pc' = [pc EXCEPT ![w] = "load"] /\ PutOwner(w)
      /\ UNCHANGED <<file, view, writing, renewing, old, ends, acked>>
  BY DEF WriteOwner, Goto, LockOK
<1>2. lock'.made /\ lock'.owner = w /\ (lock'.late => w \in old) /\ w # Null
  BY <1>1, PutOwnerFacts
<1>3. LockOK'
  BY <1>1, <1>2 DEF LockOK
<1>4. StartOK'
  BY <1>1, <1>2 DEF StartOK, Starting
<1>5. CommitOK'
  BY <1>1 DEF CommitOK
<1> QED BY <1>3, <1>4, <1>5

(* A lock that is found stale belongs to no store that works.              *)
LEMMA StaleIsAbandoned ==
  ASSUME Calm, LeaseInv, NEW w \in Writers, Stale(w, lock.owner)
  PROVE  \A v \in Writers : pc[v] # "active"
<1> SUFFICES ASSUME NEW v \in Writers, pc[v] = "active" PROVE FALSE
  OBVIOUS
<1> USE TypeFacts DEF LeaseInv
<1>1. lock.owner = v /\ v # Null /\ lock.made
  BY LockFacts DEF LockOK
<1>2. Host[v] = Host[w] \/ Mishaps = {}
  BY DEF Calm
<1> QED BY <1>1, <1>2 DEF Stale, Alive, LockOK

LEMMA CheckStaleInv ==
  ASSUME Calm, LeaseInv, NEW w \in Writers, CheckStale(w)
  PROVE  LockOK' /\ StartOK' /\ CommitOK'
<1> USE TypeFacts DEF LeaseInv
<1>1. /\ pc[w] = "check" /\ UNCHANGED <<lock, file, view, writing, renewing, old, ends, acked>>
      /\ \/ Stale(w, lock.owner) /\ pc' = [pc EXCEPT ![w] = "steal"]
         \/ pc' = [pc EXCEPT ![w] = "off"]
  BY DEF CheckStale, OwnersRead, Goto, Calm
<1>2. LockOK'
  BY <1>1 DEF LockOK, Lock
<1>3. StartOK'
  <2>1. CASE Stale(w, lock.owner) /\ pc' = [pc EXCEPT ![w] = "steal"]
    <3>1. \A v \in Writers : pc'[v] # "active"
      BY <2>1, StaleIsAbandoned
    <3>2. ends # 0
      <4> SUFFICES ASSUME ends = 0 PROVE FALSE
        OBVIOUS
      <4>1. lock.made
        BY <1>1 DEF StartOK
      <4>2. lock.owner # Null
        BY <2>1, <4>1 DEF StartOK, LockOK, Stale
      <4>3. lock.owner \in Writers /\ pc[lock.owner] # "dead"
        BY <4>2 DEF StartOK, Lock
      <4>4. Host[lock.owner] = Host[w] \/ Mishaps = {}
        BY <4>3 DEF Calm
      <4> QED BY <2>1, <4>1, <4>2, <4>3, <4>4 DEF Stale, Alive, LockOK
    <3> QED BY <1>1, <2>1, <3>1, <3>2 DEF StartOK, Starting
  <2>2. CASE pc' = [pc EXCEPT ![w] = "off"]
    BY <1>1, <2>2 DEF StartOK, Starting
  <2> QED BY <1>1, <2>1, <2>2
<1>4. CommitOK'
  BY <1>1 DEF CommitOK
<1> QED BY <1>2, <1>3, <1>4

LEMMA StealInv ==
  ASSUME Calm, LeaseInv, NEW w \in Writers, Steal(w)
  PROVE  LockOK' /\ StartOK' /\ CommitOK'
<1> USE TypeFacts DEF LeaseInv
<1>1. /\ pc[w] = "steal" /\ lock' = NoLock
      /\ UNCHANGED <<file, view, writing, renewing, old, ends, acked>>
      /\ pc' = [pc EXCEPT ![w] = "mkdir"] \/ pc' = [pc EXCEPT ![w] = "off"]
  BY DEF Steal, Goto
<1>2. ends > 0 /\ \A v \in Writers : Starting(v) => v = w
  BY <1>1 DEF StartOK, Starting
<1>3. \A v \in Writers : pc[v] \notin {"write", "load", "active"}
  BY <1>1, <1>2 DEF StartOK, Starting
<1>4. LockOK'
  BY <1>1, <1>3, LockFacts DEF LockOK
<1>5. StartOK'
  BY <1>1, <1>2 DEF StartOK, Starting
<1>6. CommitOK'
  BY <1>1 DEF CommitOK
<1> QED BY <1>4, <1>5, <1>6

LEMMA LoadInv ==
  ASSUME Calm, LeaseInv, NEW w \in Writers, Load(w)
  PROVE  LockOK' /\ StartOK' /\ CommitOK'
<1> USE TypeFacts DEF LeaseInv
<1>1. /\ pc[w] = "load" /\ pc' = [pc EXCEPT ![w] = "active"] /\ view' = [view EXCEPT ![w] = file]
      /\ UNCHANGED <<lock, file, writing, renewing, old, ends, acked>>
  BY DEF Load, Goto
<1>2. LockOK'
  BY <1>1 DEF LockOK, Lock
<1>3. StartOK'
  BY <1>1 DEF StartOK, Starting
<1>4. CommitOK'
  BY <1>1 DEF CommitOK
<1> QED BY <1>2, <1>3, <1>4

(* A store that had the lease gives it back, or dies with it.              *)
LEMMA EndInv ==
  ASSUME Calm, LeaseInv, NEW w \in Writers, LoadFails(w) \/ Close(w) \/ Crash(w)
  PROVE  LockOK' /\ StartOK' /\ CommitOK'
<1> USE TypeFacts DEF LeaseInv
<1>0. End(w) /\ ends' > 0
  BY EndType DEF LoadFails, Close, Crash
<1>1. CASE LoadFails(w) \/ Close(w)
  <2>1. /\ pc[w] \in {"load", "active"} /\ pc' = [pc EXCEPT ![w] = "off"]
        /\ writing[w] = Null /\ w \notin renewing
        /\ UNCHANGED <<file, view, writing, renewing, old, acked>>
    BY <1>1 DEF LoadFails, Close, Goto, Calm, CommitOK
  <2>2. lock' = NoLock
    BY <1>1, <2>1 DEF LoadFails, Close, ReleaseLease, LockOK
  <2>3. \A v \in Writers : pc'[v] \notin {"write", "load", "active"}
    BY <2>1 DEF LockOK
  <2>4. LockOK'
    BY <2>1, <2>2, <2>3, LockFacts DEF LockOK
  <2>5. StartOK'
    <3>1. \A u, v \in Writers : Starting(u)' /\ Starting(v)' => u = v
      BY <1>0, <2>1, OneStarts DEF Starting
    <3> QED BY <1>0, <2>3, <3>1 DEF StartOK
  <2>6. CommitOK'
    BY <2>1 DEF CommitOK
  <2> QED BY <2>4, <2>5, <2>6
<1>2. CASE Crash(w)
  <2>1. /\ pc' = [pc EXCEPT ![w] = "dead"]
        /\ writing' = [writing EXCEPT ![w] = Null] /\ renewing' = renewing \ {w}
        /\ UNCHANGED <<lock, file, view, old, acked>>
    BY <1>2 DEF Crash
  <2>2. LockOK'
    BY <2>1 DEF LockOK, Lock
  <2>3. StartOK'
    <3>1. \A u, v \in Writers : Starting(u)' /\ Starting(v)' => u = v
      BY <1>0, <2>1, OneStarts DEF Starting
    <3> QED BY <1>0, <2>1, <3>1 DEF StartOK
  <2>4. CommitOK'
    BY <2>1 DEF CommitOK
  <2> QED BY <2>2, <2>3, <2>4
<1> QED BY <1>1, <1>2

LEMMA ActiveInv ==
  ASSUME Calm, LeaseInv, NEW w \in Writers,
         \/ RenewCheck(w) \/ RenewWrite(w) \/ FinishCommit(w)
         \/ \E t \in Tasks : BeginCommit(w, t)
  PROVE  LockOK' /\ StartOK' /\ CommitOK'
<1> USE TypeFacts DEF LeaseInv
<1>1. CASE RenewWrite(w)
  <2>1. pc[w] = "active" /\ lock.owner = w /\ lock.made
    BY <1>1, LockFacts DEF RenewWrite, CommitOK, LockOK
  <2>2. /\ PutOwner(w) /\ renewing' = renewing \ {w}
        /\ UNCHANGED <<file, pc, view, writing, old, ends, acked>>
    BY <1>1, <2>1 DEF RenewWrite
  <2>3. lock'.made /\ lock'.owner = w /\ lock'.aged = lock.aged /\ (lock'.late => w \in old) /\ w # Null
    BY <2>1, <2>2, PutOwnerFacts
  <2> QED BY <2>1, <2>2, <2>3 DEF LockOK, StartOK, CommitOK, Starting
<1>2. CASE RenewCheck(w)
  BY <1>2 DEF RenewCheck, OwnershipLost, LockOK, StartOK, CommitOK, Starting
<1>3. ASSUME NEW t \in Tasks, BeginCommit(w, t) PROVE LockOK' /\ StartOK' /\ CommitOK'
  BY <1>3 DEF BeginCommit, OwnershipLost, LockOK, StartOK, CommitOK, Starting
<1>4. CASE FinishCommit(w)
  <2>1. /\ writing[w] # Null /\ pc[w] = "active" /\ view[w] = file
        /\ file' = file \cup {writing[w]} /\ view' = [view EXCEPT ![w] = file']
        /\ acked' = acked \cup {writing[w]} /\ writing' = [writing EXCEPT ![w] = Null]
        /\ UNCHANGED <<lock, pc, renewing, old, ends>>
    BY <1>4 DEF FinishCommit, CommitOK
  <2>2. \A v \in Writers : pc[v] = "active" => v = w
    BY <2>1 DEF LockOK
  <2> QED BY <2>1, <2>2 DEF LockOK, StartOK, CommitOK, Starting
<1> QED BY <1>1, <1>2, <1>3, <1>4

LEMMA TimeInv ==
  ASSUME Calm, LeaseInv, Age \/ MissHeartbeats
  PROVE  LockOK' /\ StartOK' /\ CommitOK'
<1> USE TypeFacts DEF LeaseInv
<1>1. /\ lock'.made = lock.made /\ lock'.owner = lock.owner /\ lock.made
      /\ lock'.aged # lock.aged => \A w \in Writers : pc[w] # "write"
      /\ lock'.late # lock.late /\ Mishaps = {} => lock.owner # Null /\ pc[lock.owner] = "dead"
      /\ UNCHANGED <<file, pc, view, writing, renewing, old, ends, acked>>
  <2>1. CASE Age
    BY <2>1 DEF Age, Lock, LockOK
  <2>2. CASE MissHeartbeats
    BY <2>2, LockFacts DEF MissHeartbeats, Lock, LockOK
  <2> QED BY <2>1, <2>2
<1>2. LockOK'
  BY <1>1, LockFacts DEF LockOK
<1> QED BY <1>1, <1>2 DEF StartOK, CommitOK, Starting

LEMMA NextLease ==
  ASSUME Calm, LeaseInv, [Next]_vars
  PROVE  LeaseInv'
<1>1. TypeInv'
  BY NextType DEF LeaseInv
<1>2. ASSUME NEW w \in Writers, Start(w) \/ Step(w) \/ Close(w) \/ RenewCheck(w) \/ Crash(w)
                                \/ \E t \in Tasks : BeginCommit(w, t)
      PROVE  LockOK' /\ StartOK' /\ CommitOK'
  BY <1>2, StartInv, MakeLockInv, WriteOwnerInv, CheckStaleInv, StealInv, LoadInv, EndInv, ActiveInv
     DEF Step
<1>3. ASSUME Age \/ MissHeartbeats PROVE LockOK' /\ StartOK' /\ CommitOK'
  BY <1>3, TimeInv
<1>4. ASSUME UNCHANGED vars PROVE LockOK' /\ StartOK' /\ CommitOK'
  BY <1>4 DEF vars, LeaseInv, LockOK, StartOK, CommitOK, Starting
<1> QED BY <1>1, <1>2, <1>3, <1>4 DEF Next, LeaseInv

LEMMA Invariant == Calm => (Spec => []LeaseInv)
<1> SUFFICES ASSUME Calm PROVE Spec => []LeaseInv
  OBVIOUS
<1> QED BY InitLease, NextLease, PTL DEF Spec

(* Never two Routers past startup, when none starts beside another once    *)
(* one has ended and, between hosts, heartbeats are in time, that of a     *)
(* start included.                                                         *)
THEOREM LeaseIsExclusive == Calm => (Spec => []OneActiveWriter)
<1>1. LeaseInv => OneActiveWriter
  BY DEF LeaseInv, LockOK, OneActiveWriter
<1> QED BY <1>1, Invariant, PTL

(* The state file is replaced only by the store that holds the lease,      *)
(* under the same conditions.                                              *)
THEOREM LeaseGuardsWrites == Calm => (Spec => OnlyOwnerWrites)
<1> SUFFICES ASSUME Calm PROVE Spec => OnlyOwnerWrites
  OBVIOUS
<1>1. LeaseInv => [\A w \in Writers : writing[w] # Null /\ writing'[w] = Null /\ file' # file
                                       => lock.owner = w]_vars
  BY DEF LeaseInv, CommitOK, LockOK
<1>2. Spec => []LeaseInv
  BY Invariant
<1> QED BY <1>1, <1>2, PTL DEF Spec, OnlyOwnerWrites

(* No acknowledged commit is overwritten, under the same conditions.       *)
THEOREM LeaseKeepsCommits == Calm => (Spec => []NoLostCommit)
<1>1. LeaseInv => NoLostCommit
  BY DEF LeaseInv, CommitOK, NoLostCommit
<1> QED BY <1>1, Invariant, PTL

=============================================================================
