------------------------- MODULE WriterLease_proofs -------------------------
(***************************************************************************)
(* Two OpenWriter calls never own the session at once, for any number of   *)
(* processes, callers and inodes, and the lease protocol refines module    *)
(* Lease.  The inductive invariant says who owns which advisory lock and   *)
(* which of them own the inode that the path names: a cleaner that has     *)
(* unlinked the file is the one owner whose lock protects nothing.         *)
(***************************************************************************)
EXTENDS WriterLease, TLAPS

\* An advisory lock and an actor past the lock call name each other.
LocksAgree ==
  /\ \A a \in Actor : pc[a] \in {"stat"} \cup Holding => flock[fd[a]] = a
  /\ \A i \in Inode, a \in Actor :
       flock[i] = a => fd[a] = i /\ pc[a] \in {"stat"} \cup Holding

\* Whoever may still write under the lease, or unlink its file, owns the
\* inode of the path.
PathOwned ==
  \A a \in Actor :
    (Owns(a) /\ mode[a] = "open") \/ (pc[a] = "held" /\ mode[a] = "clean")
      => fd[a] = lock

\* The mutex spans the lookup and the registration of one caller, and the
\* registry names the owner in its process.
RegistryAgrees ==
  /\ \A a \in Actor : pc[a] \in {"open", "flock", "stat"} =>
       mutex[ProcOf[a]] = a /\ registry[ProcOf[a]] = None
  /\ \A a \in Actor : Owns(a) => registry[ProcOf[a]] = a
  /\ \A p \in Proc, a \in Actor : mutex[p] = a =>
       ProcOf[a] = p /\ pc[a] \in {"open", "flock", "stat"}
  /\ \A p \in Proc, a \in Actor : registry[p] = a => ProcOf[a] = p /\ Owns(a)

LeaseInv == TypeOK /\ LocksAgree /\ PathOwned /\ RegistryAgrees

-----------------------------------------------------------------------------
LEMMA LeaseInit == Init => LeaseInv
BY ActorAssumption, ProcAssumption, InodeAssumption
   DEF Init, LeaseInv, TypeOK, PC, Mode, Holding, LocksAgree, PathOwned, RegistryAgrees, Owns

\* Every step of an actor, every crash and every stutter keeps the invariant.
LEMMA LeaseStep == LeaseInv /\ [Next]_vars => LeaseInv'
<1> SUFFICES ASSUME LeaseInv, [Next]_vars PROVE LeaseInv'
  OBVIOUS
<1> USE ActorAssumption, ProcAssumption, InodeAssumption
<1>0. TypeOK /\ LocksAgree /\ PathOwned /\ RegistryAgrees
  BY DEF LeaseInv
<1>1. ASSUME NEW a \in Actor, NEW m \in Mode, Begin(a, m) PROVE LeaseInv'
  <2>1. TypeOK'
    <3>0. NoWriter \in BOOLEAN
      BY Zenon DEF NoWriter
    <3>1. unowned' \in [Actor -> BOOLEAN]
      BY <1>0, <1>1, <3>0, Zenon DEF TypeOK, Begin
    <3> QED BY <3>1, <1>0, <1>1 DEF TypeOK, PC, Mode, Holding, Begin, Goto, fs
  <2>2. LocksAgree'
    BY <1>0, <1>1 DEF LocksAgree, TypeOK, PC, Holding, Begin, Goto, fs, Mode
  <2>3. PathOwned'
    BY <1>0, <1>1 DEF PathOwned, TypeOK, LocksAgree, PC, Holding, Owns, Begin, Goto, fs, Mode
  <2>4. RegistryAgrees'
    BY <1>0, <1>1 DEF RegistryAgrees, TypeOK, PC, Holding, Owns, Begin, Goto, fs, Mode
  <2> QED BY <2>1, <2>2, <2>3, <2>4 DEF LeaseInv
<1>2. ASSUME NEW a \in Actor, LstatRoot(a) PROVE LeaseInv'
  <2>1. TypeOK'
    BY <1>0, <1>2 DEF TypeOK, PC, Mode, Holding, LstatRoot, Goto, fs, Fail
  <2>2. LocksAgree'
    BY <1>0, <1>2 DEF LocksAgree, TypeOK, PC, Holding, LstatRoot, Goto, fs, Fail
  <2>3. PathOwned'
    BY <1>0, <1>2 DEF PathOwned, TypeOK, LocksAgree, PC, Holding, Owns, LstatRoot, Goto, fs, Fail
  <2>4. RegistryAgrees'
    BY <1>0, <1>2 DEF RegistryAgrees, TypeOK, PC, Holding, Owns, LstatRoot, Goto, fs, Fail
  <2> QED BY <2>1, <2>2, <2>3, <2>4 DEF LeaseInv
<1>3. ASSUME NEW a \in Actor, RuntimeDir(a) PROVE LeaseInv'
  <2>1. TypeOK'
    BY <1>0, <1>3 DEF TypeOK, PC, Mode, Holding, RuntimeDir, Goto, fs, Absent, Fail
  <2>2. LocksAgree'
    BY <1>0, <1>3 DEF LocksAgree, TypeOK, PC, Holding, RuntimeDir, Goto, fs, Absent, Fail
  <2>3. PathOwned'
    BY <1>0, <1>3 DEF PathOwned, TypeOK, LocksAgree, PC, Holding, Owns, RuntimeDir, Goto, fs, Absent, Fail
  <2>4. RegistryAgrees'
    BY <1>0, <1>3 DEF RegistryAgrees, TypeOK, PC, Holding, Owns, RuntimeDir, Goto, fs, Absent, Fail
  <2> QED BY <2>1, <2>2, <2>3, <2>4 DEF LeaseInv
<1>4. ASSUME NEW a \in Actor, CheckRegistry(a) PROVE LeaseInv'
  <2>1. TypeOK'
    BY <1>0, <1>4 DEF TypeOK, PC, Mode, Holding, CheckRegistry, Goto, fs, Locked, Retry, Fail
  <2>2. LocksAgree'
    BY <1>0, <1>4 DEF LocksAgree, TypeOK, PC, Holding, CheckRegistry, Goto, fs, Locked, Retry, Fail
  <2>3. PathOwned'
    BY <1>0, <1>4 DEF PathOwned, TypeOK, LocksAgree, PC, Holding, Owns, CheckRegistry, Goto, fs, Locked, Retry, Fail
  <2>4. RegistryAgrees'
    BY <1>0, <1>4 DEF RegistryAgrees, TypeOK, PC, Holding, Owns, CheckRegistry, Goto, fs, Locked, Retry, Fail
  <2> QED BY <2>1, <2>2, <2>3, <2>4 DEF LeaseInv
<1>5. ASSUME NEW a \in Actor, OpenLock(a) PROVE LeaseInv'
  <2>1. TypeOK'
    BY <1>0, <1>5 DEF TypeOK, PC, Mode, Holding, OpenLock, Goto, fs, Absent, Fail
  <2>2. LocksAgree'
    BY <1>0, <1>5 DEF LocksAgree, TypeOK, PC, Holding, OpenLock, Goto, fs, Absent, Fail
  <2>3. PathOwned'
    BY <1>0, <1>5 DEF PathOwned, TypeOK, LocksAgree, PC, Holding, Owns, OpenLock, Goto, fs, Absent, Fail
  <2>4. RegistryAgrees'
    BY <1>0, <1>5 DEF RegistryAgrees, TypeOK, PC, Holding, Owns, OpenLock, Goto, fs, Absent, Fail
  <2> QED BY <2>1, <2>2, <2>3, <2>4 DEF LeaseInv
<1>6. ASSUME NEW a \in Actor, TryLock(a) PROVE LeaseInv'
  <2>1. TypeOK'
    BY <1>0, <1>6 DEF TypeOK, PC, Mode, Holding, TryLock, Goto, fs, Locked, Retry, Fail
  <2>2. LocksAgree'
    BY <1>0, <1>6 DEF LocksAgree, TypeOK, PC, Holding, TryLock, Goto, fs, Locked, Retry, Fail
  <2>3. PathOwned'
    BY <1>0, <1>6 DEF PathOwned, TypeOK, LocksAgree, PC, Holding, Owns, TryLock, Goto, fs, Locked, Retry, Fail
  <2>4. RegistryAgrees'
    BY <1>0, <1>6 DEF RegistryAgrees, TypeOK, PC, Holding, Owns, TryLock, Goto, fs, Locked, Retry, Fail
  <2> QED BY <2>1, <2>2, <2>3, <2>4 DEF LeaseInv
<1>7. ASSUME NEW a \in Actor, Enter(a) PROVE LeaseInv'
  <2>1. TypeOK'
    BY <1>0, <1>7 DEF TypeOK, PC, Mode, Holding, Enter, Goto, fs, Fail, SameFile
  <2>2. LocksAgree'
    BY <1>0, <1>7 DEF LocksAgree, TypeOK, PC, Holding, Enter, Goto, fs, Fail, SameFile
  <2>3. PathOwned'
    BY <1>0, <1>7 DEF PathOwned, TypeOK, LocksAgree, PC, Holding, Owns, Enter, Goto, fs, Fail, SameFile
  <2>4. RegistryAgrees'
    BY <1>0, <1>7 DEF RegistryAgrees, TypeOK, PC, Holding, Owns, Enter, Goto, fs, Fail, SameFile
  <2> QED BY <2>1, <2>2, <2>3, <2>4 DEF LeaseInv
<1>8. ASSUME NEW a \in Actor, Release(a) PROVE LeaseInv'
  <2>1. TypeOK'
    <3>1. unowned' \in [Actor -> BOOLEAN]
      BY <1>0, <1>8, Zenon DEF TypeOK, Release
    <3> QED BY <3>1, <1>0, <1>8 DEF TypeOK, PC, Mode, Holding, Release, Goto, fs
  <2>2. LocksAgree'
    BY <1>0, <1>8 DEF LocksAgree, TypeOK, PC, Holding, Release, Goto, fs
  <2>3. PathOwned'
    BY <1>0, <1>8 DEF PathOwned, TypeOK, LocksAgree, PC, Holding, Owns, Release, Goto, fs
  <2>4. RegistryAgrees'
    BY <1>0, <1>8 DEF RegistryAgrees, TypeOK, PC, Holding, Owns, Release, Goto, fs
  <2> QED BY <2>1, <2>2, <2>3, <2>4 DEF LeaseInv
<1>9. ASSUME NEW a \in Actor, UnlinkLock(a) PROVE LeaseInv'
  <2>1. TypeOK'
    BY <1>0, <1>9 DEF TypeOK, PC, Mode, Holding, UnlinkLock, Goto, fs
  <2>2. LocksAgree'
    BY <1>0, <1>9 DEF LocksAgree, TypeOK, PC, Holding, UnlinkLock, Goto, fs
  <2>3. PathOwned'
    BY <1>0, <1>9 DEF PathOwned, TypeOK, LocksAgree, PC, Holding, Owns, UnlinkLock, Goto, fs
  <2>4. RegistryAgrees'
    BY <1>0, <1>9 DEF RegistryAgrees, TypeOK, PC, Holding, Owns, UnlinkLock, Goto, fs
  <2> QED BY <2>1, <2>2, <2>3, <2>4 DEF LeaseInv
<1>10. ASSUME NEW a \in Actor, UnlinkMeta(a) PROVE LeaseInv'
  <2>1. TypeOK'
    BY <1>0, <1>10 DEF TypeOK, PC, Mode, Holding, UnlinkMeta, Goto, fs
  <2>2. LocksAgree'
    BY <1>0, <1>10 DEF LocksAgree, TypeOK, PC, Holding, UnlinkMeta, Goto, fs
  <2>3. PathOwned'
    BY <1>0, <1>10 DEF PathOwned, TypeOK, LocksAgree, PC, Holding, Owns, UnlinkMeta, Goto, fs
  <2>4. RegistryAgrees'
    BY <1>0, <1>10 DEF RegistryAgrees, TypeOK, PC, Holding, Owns, UnlinkMeta, Goto, fs
  <2> QED BY <2>1, <2>2, <2>3, <2>4 DEF LeaseInv
<1>11. ASSUME NEW a \in Actor, RemoveRuntime(a) PROVE LeaseInv'
  <2>1. TypeOK'
    BY <1>0, <1>11 DEF TypeOK, PC, Mode, Holding, RemoveRuntime, Goto, fs
  <2>2. LocksAgree'
    BY <1>0, <1>11 DEF LocksAgree, TypeOK, PC, Holding, RemoveRuntime, Goto, fs
  <2>3. PathOwned'
    BY <1>0, <1>11 DEF PathOwned, TypeOK, LocksAgree, PC, Holding, Owns, RemoveRuntime, Goto, fs
  <2>4. RegistryAgrees'
    BY <1>0, <1>11 DEF RegistryAgrees, TypeOK, PC, Holding, Owns, RemoveRuntime, Goto, fs
  <2> QED BY <2>1, <2>2, <2>3, <2>4 DEF LeaseInv
<1>12. ASSUME NEW a \in Actor, RemoveRoot(a) PROVE LeaseInv'
  <2>1. TypeOK'
    BY <1>0, <1>12 DEF TypeOK, PC, Mode, Holding, RemoveRoot, Goto, fs
  <2>2. LocksAgree'
    BY <1>0, <1>12 DEF LocksAgree, TypeOK, PC, Holding, RemoveRoot, Goto, fs
  <2>3. PathOwned'
    BY <1>0, <1>12 DEF PathOwned, TypeOK, LocksAgree, PC, Holding, Owns, RemoveRoot, Goto, fs
  <2>4. RegistryAgrees'
    BY <1>0, <1>12 DEF RegistryAgrees, TypeOK, PC, Holding, Owns, RemoveRoot, Goto, fs
  <2> QED BY <2>1, <2>2, <2>3, <2>4 DEF LeaseInv
<1>13. ASSUME NEW p \in Proc, Crash(p) PROVE LeaseInv'
  <2>1. TypeOK'
    <3>1. unowned' \in [Actor -> BOOLEAN]
      BY <1>0, <1>13, Zenon DEF TypeOK, Crash
    <3> QED BY <3>1, <1>0, <1>13 DEF TypeOK, PC, Mode, Holding, Crash, fs
  <2>2. LocksAgree'
    BY <1>0, <1>13 DEF LocksAgree, TypeOK, PC, Holding, Crash, fs
  <2>3. PathOwned'
    BY <1>0, <1>13 DEF PathOwned, TypeOK, LocksAgree, PC, Holding, Owns, Crash, fs
  <2>4. RegistryAgrees'
    BY <1>0, <1>13 DEF RegistryAgrees, TypeOK, PC, Holding, Owns, Crash, fs
  <2> QED BY <2>1, <2>2, <2>3, <2>4 DEF LeaseInv
<1>14. CASE UNCHANGED vars
  BY <1>0, <1>14 DEF LeaseInv, TypeOK, LocksAgree, PathOwned, RegistryAgrees, Owns, vars, fs
<1> QED
  BY <1>1, <1>2, <1>3, <1>4, <1>5, <1>6, <1>7, <1>8, <1>9, <1>10, <1>11, <1>12, <1>13, <1>14 DEF Next, Step

\* No two openers own the session at once: each would hold the lock of the
\* inode the path names (writer_lock.go:53-131).
THEOREM LeaseExclusive == Spec => []WriterExclusive
<1>1. LeaseInv => WriterExclusive
  BY DEF LeaseInv, LocksAgree, PathOwned, WriterExclusive, Owns, TypeOK, Holding
<1> QED
  BY <1>1, LeaseInit, LeaseStep, PTL DEF Spec

\* The writer's lock is on the file that the path names: no cleaner unlinks a
\* lock file that it does not own (writer_lock.go:111-128).
THEOREM WritersOwnPath == Spec => []WriterOwnsPath
<1>1. LeaseInv => WriterOwnsPath
  BY InodeAssumption DEF LeaseInv, PathOwned, WriterOwnsPath, Owns, TypeOK
<1> QED
  BY <1>1, LeaseInit, LeaseStep, PTL DEF Spec

\* Every variable keeps its type, and who has passed the open has an inode.
THEOREM LeaseTypes == Spec => []TypeOK
<1>1. LeaseInv => TypeOK
  BY DEF LeaseInv
<1> QED
  BY <1>1, LeaseInit, LeaseStep, PTL DEF Spec

\* A refused or finished call, and a dead process, leave no lock, registry
\* entry or mutex behind (writer_lock.go:89-128, 133-148).
THEOREM LeaseLeavesNothing == Spec => []IdleLeavesNothing
<1>1. LeaseInv => IdleLeavesNothing
  BY ActorAssumption, ProcAssumption
     DEF LeaseInv, LocksAgree, RegistryAgrees, IdleLeavesNothing, Owns, TypeOK, Holding
<1> QED
  BY <1>1, LeaseInit, LeaseStep, PTL DEF Spec

-----------------------------------------------------------------------------
\* Why a probe can be believed: a lock file lies in a directory that exists, who
\* holds a lease before it removes anything holds the file of the path, and a
\* call has seen the moment in which no writer owned the session.
ProbeInv ==
  /\ lock # NoFile => runtime
  /\ \A a \in Actor : pc[a] = "held" => fd[a] = lock
  /\ \A a \in Actor : pc[a] \in {"unlinked", "rmdir", "removed"} => mode[a] = "clean"
  /\ NoWriter => \A a \in Actor : pc[a] # "idle" => unowned[a]
  /\ FreeIsTrue

\* A writer that owns the lease is seen: the path names its inode, the inode
\* its lock.
LEMMA WriterIsSeen ==
  LeaseInv /\ ProbeInv =>
    /\ ~runtime \/ lock = NoFile => NoWriter
    /\ \A a \in Actor : pc[a] = "held" /\ mode[a] # "open" => NoWriter
BY InodeAssumption
   DEF LeaseInv, TypeOK, LocksAgree, PathOwned, ProbeInv, NoWriter, Owns, Holding, Mode

\* Every step keeps it: only Release and a death end a writer's ownership, and
\* they record it for all who are looking.
LEMMA ProbeStep == LeaseInv /\ ProbeInv /\ [Next]_vars => ProbeInv'
<1> SUFFICES ASSUME LeaseInv, ProbeInv, [Next]_vars PROVE ProbeInv'
  OBVIOUS
<1> USE ActorAssumption, ProcAssumption, InodeAssumption
<1>0. TypeOK /\ LocksAgree /\ PathOwned
  BY DEF LeaseInv
<1>s. /\ ~runtime \/ lock = NoFile => NoWriter
      /\ \A a \in Actor : pc[a] = "held" /\ mode[a] # "open" => NoWriter
  BY WriterIsSeen
<1>1. ASSUME NEW a \in Actor, NEW m \in Mode, Begin(a, m) PROVE ProbeInv'
  BY <1>0, <1>1 DEF TypeOK, PC, Mode, Holding, LocksAgree, PathOwned, ProbeInv, FreeIsTrue, NoWriter, Owns, Begin, Goto, fs
<1>2. ASSUME NEW a \in Actor, LstatRoot(a) PROVE ProbeInv'
  BY <1>0, <1>s, <1>2 DEF TypeOK, PC, Mode, Holding, LocksAgree, PathOwned, ProbeInv, FreeIsTrue, NoWriter, Owns, LstatRoot, Goto, fs, Fail
<1>3. ASSUME NEW a \in Actor, RuntimeDir(a) PROVE ProbeInv'
  BY <1>0, <1>s, <1>3 DEF TypeOK, PC, Mode, Holding, LocksAgree, PathOwned, ProbeInv, FreeIsTrue, NoWriter, Owns, RuntimeDir, Goto, fs, Absent, Fail
<1>4. ASSUME NEW a \in Actor, CheckRegistry(a) PROVE ProbeInv'
  BY <1>0, <1>s, <1>4 DEF TypeOK, PC, Mode, Holding, LocksAgree, PathOwned, ProbeInv, FreeIsTrue, NoWriter, Owns, CheckRegistry, Goto, fs, Locked, Retry, Fail
<1>5. ASSUME NEW a \in Actor, OpenLock(a) PROVE ProbeInv'
  BY <1>0, <1>s, <1>5 DEF TypeOK, PC, Mode, Holding, LocksAgree, PathOwned, ProbeInv, FreeIsTrue, NoWriter, Owns, OpenLock, Goto, fs, Absent, Fail
<1>6. ASSUME NEW a \in Actor, TryLock(a) PROVE ProbeInv'
  BY <1>0, <1>s, <1>6 DEF TypeOK, PC, Mode, Holding, LocksAgree, PathOwned, ProbeInv, FreeIsTrue, NoWriter, Owns, TryLock, Goto, fs, Locked, Retry, Fail
<1>7. ASSUME NEW a \in Actor, Enter(a) PROVE ProbeInv'
  BY <1>0, <1>s, <1>7 DEF TypeOK, PC, Mode, Holding, LocksAgree, PathOwned, ProbeInv, FreeIsTrue, NoWriter, Owns, Enter, Goto, fs, Fail, SameFile
<1>8. ASSUME NEW a \in Actor, Release(a) PROVE ProbeInv'
  BY <1>0, <1>s, <1>8 DEF TypeOK, PC, Mode, Holding, LocksAgree, PathOwned, ProbeInv, FreeIsTrue, NoWriter, Owns, Release, Goto, fs
<1>9. ASSUME NEW a \in Actor, UnlinkLock(a) PROVE ProbeInv'
  BY <1>0, <1>s, <1>9 DEF TypeOK, PC, Mode, Holding, LocksAgree, PathOwned, ProbeInv, FreeIsTrue, NoWriter, Owns, UnlinkLock, Goto, fs
<1>10. ASSUME NEW a \in Actor, UnlinkMeta(a) PROVE ProbeInv'
  BY <1>0, <1>s, <1>10 DEF TypeOK, PC, Mode, Holding, LocksAgree, PathOwned, ProbeInv, FreeIsTrue, NoWriter, Owns, UnlinkMeta, Goto, fs
<1>11. ASSUME NEW a \in Actor, RemoveRuntime(a) PROVE ProbeInv'
  BY <1>0, <1>s, <1>11 DEF TypeOK, PC, Mode, Holding, LocksAgree, PathOwned, ProbeInv, FreeIsTrue, NoWriter, Owns, RemoveRuntime, Goto, fs
<1>12. ASSUME NEW a \in Actor, RemoveRoot(a) PROVE ProbeInv'
  BY <1>0, <1>s, <1>12 DEF TypeOK, PC, Mode, Holding, LocksAgree, PathOwned, ProbeInv, FreeIsTrue, NoWriter, Owns, RemoveRoot, Goto, fs
<1>13. ASSUME NEW p \in Proc, Crash(p) PROVE ProbeInv'
  BY <1>0, <1>13 DEF TypeOK, PC, Mode, Holding, LocksAgree, PathOwned, ProbeInv, FreeIsTrue, NoWriter, Owns, Crash, fs
<1>14. CASE UNCHANGED vars
  BY <1>14 DEF ProbeInv, FreeIsTrue, NoWriter, Owns, vars
<1> QED
  BY <1>1, <1>2, <1>3, <1>4, <1>5, <1>6, <1>7, <1>8, <1>9, <1>10, <1>11, <1>12, <1>13, <1>14 DEF Next, Step

\* A probe's "free" is the truth of some moment of its call, so a session whose
\* writer runs throughout is never taken for an interrupted one
\* (writer_lock.go:35-51).
THEOREM FreeAnswersAreTrue == Spec => []FreeIsTrue
<1>1. Init => ProbeInv
  BY DEF Init, ProbeInv, FreeIsTrue, NoWriter, Owns
<1>2. ProbeInv => FreeIsTrue
  BY DEF ProbeInv
<1> QED
  BY <1>1, <1>2, LeaseInit, LeaseStep, ProbeStep, PTL DEF Spec

\* The three together: whoever may append is alone and known to all who look.
THEOREM WriterIsAlone == Spec => []WriterAlone
<1>1. WriterExclusive /\ WriterOwnsPath /\ FreeIsTrue => WriterAlone
  BY DEF WriterAlone
<1> QED
  BY <1>1, LeaseExclusive, WritersOwnPath, FreeAnswersAreTrue, PTL

-----------------------------------------------------------------------------
\* Holder is the one opener that owns the session.
OneHolder ==
  /\ Holder \in Actor \cup {None}
  /\ \A a \in Actor : Holder = a <=> Owns(a) /\ mode[a] = "open"

LEMMA HolderIsOwner == LeaseInv => OneHolder
<1> SUFFICES ASSUME LeaseInv PROVE OneHolder
  OBVIOUS
<1> USE DEF OneHolder
<1>1. WriterExclusive
  BY DEF LeaseInv, LocksAgree, PathOwned, WriterExclusive, Owns, TypeOK, Holding
<1> DEFINE O(a) == Owns(a) /\ mode[a] = "open"
<1>2. CASE \E a \in Actor : O(a)
  <2>1. Holder = CHOOSE a \in Actor : O(a)
    BY <1>2 DEF Holder
  <2>2. Holder \in Actor /\ O(Holder)
    BY <1>2, <2>1
  <2>3. \A a \in Actor : O(a) => a = Holder
    BY <1>1, <2>2 DEF WriterExclusive
  <2> QED BY <2>2, <2>3
<1>3. CASE ~\E a \in Actor : O(a)
  <2>1. Holder = None
    BY <1>3 DEF Holder
  <2> QED BY <1>3, <2>1, ActorAssumption
<1> QED BY <1>2, <1>3

\* A step of one actor neither gives nor takes another one's lease.
LEMMA OthersUnmoved ==
  ASSUME TypeOK, NEW a \in Actor, Step(a), NEW b \in Actor, b # a
  PROVE  pc'[b] = pc[b] /\ mode'[b] = mode[b]
<1>1. pc \in [Actor -> PC] /\ mode \in [Actor -> Mode]
  BY DEF TypeOK
<1> QED
  BY <1>1 DEF Step, Begin, LstatRoot, RuntimeDir, CheckRegistry, OpenLock, TryLock, Enter,
     Release, UnlinkLock, UnlinkMeta, RemoveRuntime, RemoveRoot, Goto, Fail, Retry, Locked,
     Absent, fs

\* WriterLease implements Lease: whatever is proved of the event log under
\* the abstract lease holds under this protocol.
THEOREM LeaseRefined == Spec => ImplementsLease
<1>1. Init => Abstract!Init
  BY DEF Init, Abstract!Init, Holder, Owns, Holding
<1>2. LeaseInv /\ LeaseInv' /\ [Next]_vars => [Abstract!Next]_Holder
  <2> SUFFICES ASSUME LeaseInv, LeaseInv', [Next]_vars
               PROVE  [Abstract!Next]_Holder
    OBVIOUS
  <2> DEFINE O(a) == Owns(a) /\ mode[a] = "open"
  <2>1. /\ Holder \in Actor \cup {None}
        /\ \A a \in Actor : Holder = a <=> O(a)
    BY HolderIsOwner DEF OneHolder
  <2>2. /\ Holder' \in Actor \cup {None}
        /\ \A a \in Actor : Holder' = a <=> O(a)'
    <3>1. OneHolder'
      BY HolderIsOwner, PTL
    <3> QED BY <3>1 DEF OneHolder
  <2>3. ASSUME NEW a \in Actor, Step(a) PROVE [Abstract!Next]_Holder
    <3>1. \A b \in Actor : b # a => (O(b) <=> O(b)')
      BY <2>3, OthersUnmoved DEF LeaseInv, Owns
    <3>2. Holder' = Holder \/ (Holder = None /\ Holder' = a) \/ (Holder = a /\ Holder' = None)
      BY <2>1, <2>2, <3>1, ActorAssumption
    <3> QED BY <3>2 DEF Abstract!Next, Abstract!Acquire, Abstract!Release
  <2>4. ASSUME NEW p \in Proc, Crash(p) PROVE [Abstract!Next]_Holder
    <3>1. \A b \in Actor : O(b)' => O(b)
      BY <2>4 DEF Crash, Owns, Holding, LeaseInv, TypeOK
    <3>2. Holder' = Holder \/ (Holder \in Actor /\ Holder' = None)
      BY <2>1, <2>2, <3>1, ActorAssumption
    <3> QED BY <3>2 DEF Abstract!Next, Abstract!Acquire, Abstract!Release
  <2>5. CASE UNCHANGED vars
    BY <2>5 DEF vars, Holder, Owns
  <2> QED BY <2>3, <2>4, <2>5 DEF Next
<1> QED
  BY <1>1, <1>2, LeaseInit, LeaseStep, PTL DEF Spec, ImplementsLease, Abstract!Spec
=============================================================================
