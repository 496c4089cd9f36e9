------------------------------ MODULE EventLog ------------------------------
(***************************************************************************)
(* The event log of a session (internal/eventlog/writer.go) over its blob  *)
(* store: OpenWriter with its repair of the end of the file, Append with   *)
(* one write and one fsync, poisoning, Close, and the death of a process   *)
(* or of the machine between any two system calls.                         *)
(*                                                                         *)
(* The file is the sequence of its complete events and the state of its    *)
(* end: "clean", "torn" (a partial line), "noeol" (a complete last line    *)
(* without its newline) or "garbled" (a malformed line that is not the     *)
(* last, which no replay accepts).  Unsynced bytes reach the disk in       *)
(* order; a failed fsync leaves them to the next one.  The lease is the    *)
(* abstract one of module Lease, which WriterLease implements.             *)
(***************************************************************************)
EXTENDS BlobStore, Sequences

CONSTANTS None,         \* no process, no blob
          MaxAppends    \* bound: lines ever written, each with its own id

ASSUME NoneAssumption == None \notin Proc /\ None \notin Digest
ASSUME MaxAssumption  == MaxAppends \in Nat

VARIABLES
  holder,    \* the process that owns the writer lease
  pc,        \* where each process is in OpenWriter and Append
  next,      \* Writer.nextSeq, 0 without a writer
  lines,     \* complete events of the file, as a reader sees it
  tail,      \* the end of the file, as a reader sees it
  synced,    \* how many of them the disk has
  syncTail,  \* the end of the file on the disk
  acked,     \* how many an Append has confirmed (history)
  issued     \* lines written so far (bound)

logVars == <<holder, pc, next, lines, tail, synced, syncTail, acked, issued>>
vars    == <<blobVars, logVars>>
file    == <<lines, tail, synced, syncTail, acked, issued>>

L == INSTANCE Lease WITH Writer <- Proc

Ends  == {"clean", "torn", "noeol", "garbled"}
Event == [seq : 1..MaxAppends, ref : Digest \cup {None}, id : 1..MaxAppends]

TypeOK ==
  /\ BlobTypeOK
  /\ holder \in Proc \cup {None}
  /\ pc \in [Proc -> {"none", "leased", "repaired", "ready", "written", "poisoned"}]
  /\ \A p \in Proc : pc[p] # "none" <=> holder = p
  /\ next \in [Proc -> Nat]
  /\ lines \in Seq(Event) /\ tail \in Ends
  /\ synced \in 0..Len(lines) /\ syncTail \in Ends
  /\ acked \in 0..Len(lines) /\ issued \in 0..MaxAppends

Init ==
  /\ BlobInit /\ L!Init
  /\ pc = [p \in Proc |-> "none"] /\ next = [p \in Proc |-> 0]
  /\ lines = <<>> /\ tail = "clean" /\ synced = 0 /\ syncTail = "clean"
  /\ acked = 0 /\ issued = 0

-----------------------------------------------------------------------------
Goto(p, l) == pc' = [pc EXCEPT ![p] = l]

\* A step of OpenWriter, Append or Close: the process is not inside a Put.
Log(p, l) == pc[p] = l /\ ~Putting(p) /\ UNCHANGED blobVars

\* fsync: everything written so far is on the disk.
Fsync == synced' = Len(lines) /\ syncTail' = tail

\* The references of the events that a process has read.
Refs(s) == {s[i].ref : i \in 1..Len(s)} \ {None}

\* OpenWriter: the lease, O_APPEND, and the one replay of the file.  A log
\* that does not replay is an error.
Replayable == tail # "garbled"

OpenWriter(p) ==
  /\ p \in opened /\ ~Putting(p) /\ pc[p] = "none"
  /\ Replayable
  /\ L!Acquire(p)
  /\ Goto(p, "leased")
  /\ returned' = [returned EXCEPT ![p] = @ \cup Refs(lines)]
  /\ UNCHANGED <<opened, put, orphans, visible, durable, settled, damaged, early>>
  /\ UNCHANGED <<next, lines, tail, synced, syncTail, acked, issued>>

\* Mutant of Repair: the end of the file is left as it is.
RepairNothing(p) ==
  /\ Log(p, "leased")
  /\ Goto(p, "ready") /\ next' = [next EXCEPT ![p] = Len(lines) + 1]
  /\ UNCHANGED <<holder, lines, tail, synced, syncTail, acked, issued>>

\* Truncate(validEnd) of a torn line, or the newline that a complete last
\* line lacks.  A failed truncation or write gives the lease back.
Repair(p) ==
  /\ Log(p, "leased")
  /\ \/ /\ tail = "clean"
        /\ Goto(p, "ready") /\ next' = [next EXCEPT ![p] = Len(lines) + 1]
        /\ UNCHANGED <<holder, tail>>
     \/ /\ tail \in {"torn", "noeol"}
        /\ tail' = "clean" /\ Goto(p, "repaired") /\ UNCHANGED <<holder, next>>
     \/ /\ tail \in {"torn", "noeol"}
        /\ L!Release(p) /\ Goto(p, "none") /\ UNCHANGED <<tail, next>>
  /\ UNCHANGED <<lines, synced, syncTail, acked, issued>>

\* file.Sync after the repair; its failure gives the lease back.
SyncRepair(p) ==
  /\ Log(p, "repaired")
  /\ \/ /\ Fsync /\ UNCHANGED holder
        /\ Goto(p, "ready") /\ next' = [next EXCEPT ![p] = Len(lines) + 1]
     \/ /\ L!Release(p) /\ Goto(p, "none") /\ UNCHANGED <<next, synced, syncTail>>
  /\ UNCHANGED <<lines, tail, acked, issued>>

-----------------------------------------------------------------------------
\* Verify(ref) accepts the blob that the event names.
Verified(d) == d = None \/ Intact(d)

\* What the file becomes when n bytes of the line follow what is there.
Written(e, t) ==
  IF tail = "clean"
  THEN /\ tail' = t
       /\ lines' = IF t = "torn" THEN lines ELSE Append(lines, e)
  ELSE tail' = "garbled" /\ UNCHANGED lines

\* Append up to its write.  A short write poisons the writer and leaves a
\* partial line, or the whole line without its newline.
AppendWrite(p, d) ==
  LET e == [seq |-> next[p], ref |-> d, id |-> issued + 1] IN
  /\ Log(p, "ready") /\ issued < MaxAppends
  /\ d \in returned[p] \cup {None} /\ Verified(d)
  /\ issued' = issued + 1
  /\ \/ Written(e, "clean") /\ Goto(p, "written")
     \/ \E t \in {"torn", "noeol"} : Written(e, t) /\ Goto(p, "poisoned")
     \/ UNCHANGED <<lines, tail>> /\ Goto(p, "poisoned")
  /\ UNCHANGED <<holder, next, synced, syncTail, acked>>

\* Mutant of AppendSync: Append returns without waiting for the disk.
AppendSyncSkipped(p) ==
  /\ Log(p, "written")
  /\ acked' = Len(lines) /\ next' = [next EXCEPT ![p] = @ + 1]
  /\ Goto(p, "ready")
  /\ UNCHANGED <<holder, lines, tail, synced, syncTail, issued>>

\* Append from its fsync on.  A failed sync poisons the writer: nobody knows
\* whether the event is there.
AppendSync(p) ==
  /\ Log(p, "written")
  /\ \/ /\ Fsync /\ acked' = Len(lines)
        /\ next' = [next EXCEPT ![p] = @ + 1]
        /\ Goto(p, "ready")
     \/ Goto(p, "poisoned") /\ UNCHANGED <<synced, syncTail, acked, next>>
  /\ UNCHANGED <<holder, lines, tail, issued>>

\* Mutant of Close: the file is closed and the lease is not.
CloseKeepingLease(p) ==
  /\ pc[p] \in {"ready", "poisoned"}
  /\ Log(p, pc[p]) /\ Goto(p, "none")
  /\ next' = [next EXCEPT ![p] = 0]
  /\ UNCHANGED <<holder, lines, tail, synced, syncTail, acked, issued>>

Close(p) ==
  /\ pc[p] \in {"ready", "poisoned"}
  /\ Log(p, pc[p]) /\ L!Release(p) /\ Goto(p, "none")
  /\ next' = [next EXCEPT ![p] = 0]
  /\ UNCHANGED <<lines, tail, synced, syncTail, acked, issued>>

-----------------------------------------------------------------------------
\* Steps of the store, which a process takes before it opens the writer or
\* between two calls of it.
StoreStep(p) ==
  /\ pc[p] \in {"none", "ready"}
  /\ OpenStore(p) \/ PutStep(p) \/ (CloseStore(p) /\ pc[p] = "none")
  /\ UNCHANGED logVars

\* The death of one process: the kernel drops its lease, its writes remain.
Crash(p) ==
  /\ CrashStore(p)
  /\ Goto(p, "none")
  /\ IF holder = p THEN L!Release(p) ELSE UNCHANGED holder
  /\ next' = [next EXCEPT ![p] = 0]
  /\ UNCHANGED file

\* What the disk may hold after the machine stopped: what was synced, all that
\* was written, or a cut somewhere in between.
Survives(k, t) ==
  /\ k \in synced..Len(lines)
  /\ \/ k = synced /\ t = syncTail
     \/ k = Len(lines) /\ t = tail
     \/ k < Len(lines) /\ t \in {"clean", "torn"}
     \/ k > synced /\ t = "noeol"

PowerLoss ==
  /\ LoseStore
  /\ \E k \in 0..Len(lines), t \in Ends :
       /\ Survives(k, t)
       /\ lines' = SubSeq(lines, 1, k) /\ tail' = t
       /\ synced' = k /\ syncTail' = t
  /\ holder' = None /\ pc' = [p \in Proc |-> "none"]
  /\ next' = [p \in Proc |-> 0]
  /\ UNCHANGED <<acked, issued>>

Step(p) ==
  \/ StoreStep(p) \/ OpenWriter(p) \/ Repair(p) \/ SyncRepair(p)
  \/ \E d \in Digest \cup {None} : AppendWrite(p, d)
  \/ AppendSync(p) \/ Close(p) \/ Crash(p)

Next == (\E p \in Proc : Step(p)) \/ PowerLoss

Spec == Init /\ [][Next]_vars

-----------------------------------------------------------------------------
\* The log always replays: a partial line is never followed by another one,
\* and the numbers have no gap (writer.go:293-314).
LogReplays == Replayable /\ \A i \in 1..Len(lines) : lines[i].seq = i

\* The sequence that the writer keeps in memory is the one that a replay of
\* the file would give it, through every repair and failed write
\* (writer.go:98-99, 176, 238).
NextFollowsFile == \A p \in Proc : pc[p] = "ready" => next[p] = Len(lines) + 1 /\ tail = "clean"

\* What replay reads is a log, and the writer goes on where replay would.
LogSound == LogReplays /\ NextFollowsFile

\* Every event's blob is readable, except one whose reference was returned
\* before its name was durable (writer.go:219-226, blobstore.go:226-231).
RefsResolve == \A d \in Refs(lines) : Intact(d) \/ d \in early

\* What an event names is there, and what is there is what was put.
BlobsSound == BlobIntact /\ RefsResolve

\* The engine's view of the log: nothing that Append has confirmed is lost,
\* and only whole, numbered events are added.
Promise == INSTANCE DurableLog WITH hist <- lines
ImplementsDurableLog == Promise!Spec
=============================================================================
