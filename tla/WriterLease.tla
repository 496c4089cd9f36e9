---------------------------- MODULE WriterLease ----------------------------
(***************************************************************************)
(* The runtime lease of one session directory (internal/eventlog/          *)
(* writer_lock.go): a process-local registry, an advisory lock on the file *)
(* runtime/events.lock, and the check that the locked inode is still the   *)
(* one the path names.  Three callers use it:                              *)
(*                                                                         *)
(*   "open"   OpenWriter, which retries for 100 ms,                        *)
(*   "probe"  ProbeWriterLease, the read side's liveness check,            *)
(*   "clean"  CleanSession, which takes the lease once and then removes    *)
(*            the directory under it.                                      *)
(*                                                                         *)
(* The file system is a lock path that names an inode (or none), two       *)
(* directories and session.json.  Every system call is a step of its own.  *)
(* clean --force, which takes no lease, is not part of this module.        *)
(* Session roots come from MkdirTemp, so a removed path is never reused.   *)
(***************************************************************************)
CONSTANTS Actor,      \* threads of control that call the lease
          Proc,       \* operating-system processes
          ProcOf,     \* the process an actor runs in
          None,       \* no actor
          Inode,      \* inodes a lock file can get; one per actor is enough
          NoFile      \* no inode

ASSUME ActorAssumption == None \notin Actor
ASSUME ProcAssumption == ProcOf \in [Actor -> Proc]
ASSUME InodeAssumption == NoFile \notin Inode

VARIABLES
  root,      \* the session directory exists
  runtime,   \* its runtime directory exists
  meta,      \* session.json exists
  lock,      \* inode that runtime/events.lock names, or NoFile
  flock,     \* owner of the advisory lock of each inode
  registry,  \* writerLeaseRegistry.held, per process
  mutex,     \* owner of the registry's mutex, per process
  pc, mode, fd,   \* per actor: program counter, caller, open inode
  report,    \* what an actor's last probe returned
  unowned    \* at some moment of an actor's call no writer owned the lease (history)

fs   == <<root, runtime, meta, lock>>
vars == <<root, runtime, meta, lock, flock, registry, mutex, pc, mode, fd,
          report, unowned>>

Mode  == {"open", "probe", "clean"}
Holding  == {"held", "unlinked", "rmdir", "removed"}
PC == {"idle", "start", "dir", "reg", "open", "flock", "stat"} \cup Holding

TypeOK ==
  /\ root \in BOOLEAN /\ runtime \in BOOLEAN /\ meta \in BOOLEAN
  /\ lock \in Inode \cup {NoFile}
  /\ flock \in [Inode -> Actor \cup {None}]
  /\ registry \in [Proc -> Actor \cup {None}]
  /\ mutex \in [Proc -> Actor \cup {None}]
  /\ pc \in [Actor -> PC] /\ mode \in [Actor -> Mode]
  /\ fd \in [Actor -> Inode \cup {NoFile}]
  /\ \A a \in Actor : pc[a] \in {"flock", "stat"} \cup Holding => fd[a] \in Inode
  /\ report \in [Actor -> {"none", "free", "busy"}]
  /\ unowned \in [Actor -> BOOLEAN]

Init ==
  /\ root = TRUE /\ runtime = TRUE /\ meta = TRUE
  /\ lock = NoFile
  /\ flock = [i \in Inode |-> None]
  /\ registry = [p \in Proc |-> None] /\ mutex = [p \in Proc |-> None]
  /\ pc = [a \in Actor |-> "idle"] /\ mode = [a \in Actor |-> "open"]
  /\ fd = [a \in Actor |-> NoFile]
  /\ report = [a \in Actor |-> "none"] /\ unowned = [a \in Actor |-> FALSE]

-----------------------------------------------------------------------------
\* An actor owns the lease from the identity check until Release.
Owns(a) == pc[a] \in Holding
NoWriter == \A a \in Actor : ~(Owns(a) /\ mode[a] = "open")

Goto(a, l) == pc' = [pc EXCEPT ![a] = l]

\* Mutant of Fail: the error path closes nothing.
FailKeepingLock(a) ==
  /\ Goto(a, "idle")
  /\ fd' = [fd EXCEPT ![a] = NoFile]
  /\ mutex' = [p \in Proc |-> IF mutex[p] = a THEN None ELSE mutex[p]]
  /\ UNCHANGED <<fs, flock, registry, mode, unowned>>

\* The call returns without a lease.  The file is closed (which drops an
\* advisory lock that was taken) and the registry mutex is given back.
Fail(a) ==
  /\ Goto(a, "idle")
  /\ fd' = [fd EXCEPT ![a] = NoFile]
  /\ flock' = [i \in Inode |-> IF flock[i] = a THEN None ELSE flock[i]]
  /\ mutex' = [p \in Proc |-> IF mutex[p] = a THEN None ELSE mutex[p]]
  /\ UNCHANGED <<fs, registry, mode, unowned>>

\* Mutant of Retry: only the lock call is repeated, on the closed file.
RetryClosedFile(a) ==
  /\ mode[a] = "open"
  /\ Goto(a, "flock")
  /\ fd' = [fd EXCEPT ![a] = NoFile]
  /\ mutex' = [p \in Proc |-> IF mutex[p] = a THEN None ELSE mutex[p]]
  /\ UNCHANGED <<fs, flock, registry, mode, report, unowned>>

\* WriterLockedError: a probe answers "busy", CleanSession gives up, and
\* OpenWriter starts over until its deadline has passed.
Retry(a) ==
  /\ mode[a] = "open"
  /\ Goto(a, "start")
  /\ fd' = [fd EXCEPT ![a] = NoFile]
  /\ mutex' = [p \in Proc |-> IF mutex[p] = a THEN None ELSE mutex[p]]
  /\ UNCHANGED <<fs, flock, registry, mode, report, unowned>>

Locked(a) ==
  \/ Retry(a)
  \/ /\ Fail(a)
     /\ report' = [report EXCEPT ![a] = IF mode[a] = "probe" THEN "busy" ELSE "none"]

\* Nothing to lock: a probe answers "free", the others fail.
Absent(a) ==
  /\ Fail(a)
  /\ report' = [report EXCEPT ![a] = IF mode[a] = "probe" THEN "free" ELSE "none"]

-----------------------------------------------------------------------------
\* The caller has read session.json and asks for the lease.
Begin(a, m) ==
  /\ pc[a] = "idle" /\ meta
  /\ Goto(a, "start")
  /\ mode' = [mode EXCEPT ![a] = m]
  /\ report' = [report EXCEPT ![a] = "none"]
  /\ unowned' = [unowned EXCEPT ![a] = NoWriter]
  /\ UNCHANGED <<fs, flock, registry, mutex, fd>>

\* Lstat(root)
LstatRoot(a) ==
  /\ pc[a] = "start"
  /\ IF root
     THEN Goto(a, "dir") /\ UNCHANGED <<fs, flock, registry, mutex, mode, fd, report, unowned>>
     ELSE Fail(a) /\ UNCHANGED report

\* MkdirAll(root/runtime) creates both directories; a probe only looks.
RuntimeDir(a) ==
  /\ pc[a] = "dir"
  /\ \/ /\ mode[a] # "probe"
        /\ root' = TRUE /\ runtime' = TRUE
        /\ Goto(a, "reg")
        /\ UNCHANGED <<meta, lock, flock, registry, mutex, mode, fd, report, unowned>>
     \/ /\ mode[a] = "probe" /\ runtime
        /\ Goto(a, "reg")
        /\ UNCHANGED <<fs, flock, registry, mutex, mode, fd, report, unowned>>
     \/ mode[a] = "probe" /\ ~runtime /\ Absent(a)

\* writerLeaseRegistry.Lock and the look-up of the path.
CheckRegistry(a) ==
  LET p == ProcOf[a] IN
  /\ pc[a] = "reg" /\ mutex[p] = None
  /\ IF registry[p] # None
     THEN Locked(a)
     ELSE /\ mutex' = [mutex EXCEPT ![p] = a]
          /\ Goto(a, "open")
          /\ UNCHANGED <<fs, flock, registry, mode, fd, report, unowned>>

\* Lstat(lockPath) and OpenFile, with O_CREATE unless it is a probe.
OpenLock(a) ==
  /\ pc[a] = "open"
  /\ \/ ~runtime /\ Absent(a)
     \/ runtime /\ lock = NoFile /\ mode[a] = "probe" /\ Absent(a)
     \/ /\ runtime /\ lock = NoFile /\ mode[a] # "probe"
        /\ \E i \in Inode :
             /\ \A b \in Actor : fd[b] # i
             /\ lock' = i /\ fd' = [fd EXCEPT ![a] = i]
        /\ Goto(a, "flock")
        /\ UNCHANGED <<root, runtime, meta, flock, registry, mutex, mode, report, unowned>>
     \/ /\ runtime /\ lock # NoFile
        /\ fd' = [fd EXCEPT ![a] = lock]
        /\ Goto(a, "flock")
        /\ UNCHANGED <<fs, flock, registry, mutex, mode, report, unowned>>

\* Mutant of TryLock: the lock that is already there is ignored.
TryLockShared(a) ==
  /\ pc[a] = "flock"
  /\ flock' = [flock EXCEPT ![fd[a]] = a]
  /\ Goto(a, "stat")
  /\ UNCHANGED <<fs, registry, mutex, mode, fd, report, unowned>>

\* tryLockWriterFile: flock(LOCK_EX | LOCK_NB)
TryLock(a) ==
  /\ pc[a] = "flock"
  /\ IF flock[fd[a]] # None
     THEN Locked(a)
     ELSE /\ flock' = [flock EXCEPT ![fd[a]] = a]
          /\ Goto(a, "stat")
          /\ UNCHANGED <<fs, registry, mutex, mode, fd, report, unowned>>

\* Mutant of SameFile: the locked inode is not compared with the path.
AnyFile(a) == TRUE

\* file.Stat against Lstat(lockPath)
SameFile(a) == lock # NoFile /\ fd[a] = lock

Enter(a) ==
  LET p == ProcOf[a] IN
  /\ pc[a] = "stat"
  /\ IF SameFile(a)
     THEN /\ registry' = [registry EXCEPT ![p] = a]
          /\ mutex' = [mutex EXCEPT ![p] = None]
          /\ Goto(a, "held")
          /\ UNCHANGED <<fs, flock, mode, fd, report, unowned>>
     ELSE Fail(a) /\ UNCHANGED report

\* WriterLease.Release; for a probe it ends the call with the answer "free".
Release(a) ==
  LET p == ProcOf[a] IN
  /\ pc[a] \in {"held", "removed"} /\ mutex[p] = None
  /\ Goto(a, "idle")
  /\ flock' = [flock EXCEPT ![fd[a]] = None]
  /\ fd' = [fd EXCEPT ![a] = NoFile]
  /\ registry' = [registry EXCEPT ![p] = None]
  /\ report' = [report EXCEPT ![a] = IF mode[a] = "probe" THEN "free" ELSE "none"]
  /\ UNCHANGED <<fs, mutex, mode>>
  /\ unowned' = [b \in Actor |-> unowned[b] \/ NoWriter']

-----------------------------------------------------------------------------
\* CleanSession under its lease: os.RemoveAll lists a directory, unlinks the
\* names it read and removes the directory, which fails when a newcomer has
\* put a file in.  The lock file goes before its directory; session.json goes
\* at any point before the root.
UnlinkLock(a) ==
  /\ pc[a] = "held" /\ mode[a] = "clean"
  /\ lock' = NoFile
  /\ Goto(a, "unlinked")
  /\ UNCHANGED <<root, runtime, meta, flock, registry, mutex, mode, fd, report, unowned>>

UnlinkMeta(a) ==
  /\ pc[a] \in {"held", "unlinked", "rmdir"} /\ mode[a] = "clean" /\ meta
  /\ meta' = FALSE
  /\ UNCHANGED <<root, runtime, lock, flock, registry, mutex, pc, mode, fd, report, unowned>>

RemoveRuntime(a) ==
  /\ pc[a] = "unlinked"
  /\ runtime' = (runtime /\ lock # NoFile)
  /\ Goto(a, "rmdir")
  /\ UNCHANGED <<root, meta, lock, flock, registry, mutex, mode, fd, report, unowned>>

RemoveRoot(a) ==
  /\ pc[a] = "rmdir" /\ ~meta
  /\ root' = (root /\ runtime)
  /\ Goto(a, "removed")
  /\ UNCHANGED <<runtime, meta, lock, flock, registry, mutex, mode, fd, report, unowned>>

\* The kernel closes the files of a dead process, and its memory is gone.
Crash(p) ==
  LET dead == {a \in Actor : ProcOf[a] = p} IN
  /\ \E a \in dead : pc[a] # "idle"
  /\ pc' = [a \in Actor |-> IF a \in dead THEN "idle" ELSE pc[a]]
  /\ fd' = [a \in Actor |-> IF a \in dead THEN NoFile ELSE fd[a]]
  /\ flock' = [i \in Inode |-> IF flock[i] \in dead THEN None ELSE flock[i]]
  /\ registry' = [registry EXCEPT ![p] = None]
  /\ mutex' = [mutex EXCEPT ![p] = None]
  /\ report' = [a \in Actor |-> IF a \in dead THEN "none" ELSE report[a]]
  /\ UNCHANGED <<fs, mode>>
  /\ unowned' = [b \in Actor |-> unowned[b] \/ NoWriter']

Step(a) ==
  \/ \E m \in Mode : Begin(a, m)
  \/ LstatRoot(a) \/ RuntimeDir(a) \/ CheckRegistry(a)
  \/ OpenLock(a) \/ TryLock(a) \/ Enter(a) \/ Release(a)
  \/ UnlinkLock(a) \/ UnlinkMeta(a) \/ RemoveRuntime(a) \/ RemoveRoot(a)

Next == (\E a \in Actor : Step(a)) \/ (\E p \in Proc : Crash(p))

Spec == Init /\ [][Next]_vars

-----------------------------------------------------------------------------
\* Two OpenWriter calls never own the session at once, whichever of the lock
\* file's inodes they opened and whoever removed it in between: the lease is
\* what keeps two processes from appending to one events.jsonl
\* (writer_lock.go:53-131, writer.go:116-139).
WriterExclusive ==
  \A a, b \in Actor :
    (Owns(a) /\ Owns(b) /\ mode[a] = "open" /\ mode[b] = "open") => a = b

\* A probe, a refused open, a crash, or a removal leaves nothing locked: once
\* every call has returned the next opener finds no lock on any inode, an
\* empty registry and a free mutex (writer_lock.go:89-128, 133-148).
IdleLeavesNothing ==
  (\A a \in Actor : pc[a] = "idle") =>
    /\ \A i \in Inode : flock[i] = None
    /\ \A p \in Proc : registry[p] = None /\ mutex[p] = None

\* The lock file that the path names is the one the writer locked: a cleaner
\* can only unlink a lock file that it locked itself.
WriterOwnsPath ==
  \A a \in Actor : (Owns(a) /\ mode[a] = "open") => (lock # NoFile /\ fd[a] = lock)

\* A probe answers "free" only if at some moment of its call no writer owned the
\* session, though its four looks at the file system and its own lock are steps
\* apart (writer_lock.go:35-51): a session that runs is never told interrupted.
FreeIsTrue == \A a \in Actor : report[a] = "free" => unowned[a]

\* Whoever may append is alone and known to all who look: there is one writer at
\* a time, it holds the file that later openers will lock, and probes see it.
WriterAlone == WriterExclusive /\ WriterOwnsPath /\ FreeIsTrue

\* What the event log assumes of the lease (module Lease).
Holder ==
  IF \E a \in Actor : Owns(a) /\ mode[a] = "open"
  THEN CHOOSE a \in Actor : Owns(a) /\ mode[a] = "open"
  ELSE None

Abstract == INSTANCE Lease WITH Writer <- Actor, holder <- Holder

\* Every step of the lease protocol is an Acquire, a Release or a stutter of
\* the abstract lease.
ImplementsLease == Abstract!Spec
=============================================================================
