-------------------------- MODULE EventLog_proofs ---------------------------
(***************************************************************************)
(* The event log keeps its promise for any number of processes, blobs and  *)
(* appends: it always replays, the writer's sequence follows the file,     *)
(* references resolve, and the detailed log implements DurableLog.  The    *)
(* inductive invariant has two parts, one for the store and one for the    *)
(* log; the store's part does not depend on the log's.                     *)
(***************************************************************************)
EXTENDS EventLog, SequenceTheorems, TLAPS

\* Bytes are synced before they are linked, so no name is ever without them.
BlobInv ==
  /\ BlobTypeOK
  /\ visible \subseteq settled /\ damaged = {}
  /\ \A p \in Proc : Putting(p) /\ put[p].step # "copied" => put[p].synced
  /\ \A p \in Proc : Putting(p) /\ put[p].step = "linked" => put[p].digest \in visible
  /\ \A p \in Proc : returned[p] \subseteq durable \cup early

LogTypeOK ==
  /\ holder \in Proc \cup {None}
  /\ pc \in [Proc -> {"none", "leased", "repaired", "ready", "written", "poisoned"}]
  /\ \A p \in Proc : pc[p] # "none" <=> holder = p
  /\ next \in [Proc -> Nat]
  /\ lines \in Seq(Event) /\ tail \in Ends
  /\ synced \in 0..Len(lines) /\ syncTail \in Ends
  /\ acked \in 0..Len(lines) /\ issued \in 0..MaxAppends

\* The file replays as a reader sees it and as the disk has it, and what was
\* confirmed is on the disk.
FileInv ==
  /\ tail # "garbled" /\ syncTail # "garbled"
  /\ \A i \in 1..Len(lines) : lines[i].seq = i
  /\ acked <= synced /\ Len(lines) <= issued

\* Between OpenWriter and Close the writer's sequence follows the file, one
\* behind it while an event is written and not yet synced.
WriterInv ==
  \A p \in Proc :
    /\ pc[p] \in {"repaired", "ready", "written"} => tail = "clean"
    /\ pc[p] = "ready" => next[p] = Len(lines) + 1
    /\ pc[p] = "written" => next[p] = Len(lines)

\* References come from a Put that made them durable, unless they are early.
RefsInv ==
  \A i \in 1..Len(lines) : lines[i].ref \in durable \cup early \cup {None}

LogInv == BlobInv /\ LogTypeOK /\ FileInv /\ WriterInv /\ RefsInv

-----------------------------------------------------------------------------
\* The Put under way in a process, seen by its fields.
LEMMA PutFields ==
  ASSUME BlobTypeOK, NEW p \in Proc, Putting(p)
  PROVE  /\ put[p] \in [step : {"copied", "synced", "linked"}, digest : Digest,
                         synced : BOOLEAN]
         /\ put[p].digest \in Digest /\ p \in opened
BY DEF BlobTypeOK, Put, Putting

\* A step of the store keeps its invariant and never takes durability back.
LEMMA BlobStep ==
  ASSUME BlobInv, NEW p \in Proc,
         OpenStore(p) \/ PutStep(p) \/ CloseStore(p) \/ CrashStore(p)
  PROVE  BlobInv' /\ durable \subseteq durable' /\ early \subseteq early'
<1> USE DEF BlobInv
<1>0. BlobTypeOK
  OBVIOUS
<1>1. CASE OpenStore(p)
  BY <1>0, <1>1, PutFields DEF BlobTypeOK, Put, NoPut, Putting, OpenStore
<1>2. ASSUME NEW d \in Digest, PutCopy(p, d) PROVE BlobInv' /\ durable \subseteq durable' /\ early \subseteq early'
  BY <1>0, <1>2, PutFields DEF BlobTypeOK, Put, NoPut, Putting, PutCopy
<1>3. CASE PutSync(p)
  BY <1>0, <1>3, PutFields DEF BlobTypeOK, Put, NoPut, Putting, PutSync
<1>4. CASE PutLink(p)
  BY <1>0, <1>4, PutFields DEF BlobTypeOK, Put, NoPut, Putting, PutLink, Intact
<1>5. CASE PutSyncDirectory(p)
  BY <1>0, <1>5, PutFields DEF BlobTypeOK, Put, NoPut, Putting, PutSyncDirectory
<1>6. CASE CloseStore(p)
  BY <1>0, <1>6, PutFields DEF BlobTypeOK, Put, NoPut, Putting, CloseStore, StopStore
<1>7. CASE CrashStore(p)
  BY <1>0, <1>7, PutFields DEF BlobTypeOK, Put, NoPut, Putting, CrashStore, StopStore
<1> QED
  BY <1>1, <1>2, <1>3, <1>4, <1>5, <1>6, <1>7 DEF PutStep

LEMMA BlobLoss ==
  ASSUME BlobInv, LoseStore
  PROVE  BlobInv' /\ durable \subseteq durable' /\ early \subseteq early'
BY DEF BlobInv, BlobTypeOK, LoseStore, Put, NoPut, Putting

-----------------------------------------------------------------------------
LEMMA LogInit == Init => LogInv
<1> SUFFICES ASSUME Init PROVE LogInv
  OBVIOUS
<1>1. BlobInv
  BY DEF Init, BlobInit, BlobInv, BlobTypeOK, Put, NoPut, Putting
<1>2. lines = <<>> /\ lines \in Seq(Event) /\ Len(lines) = 0
  BY EmptySeq DEF Init
<1>3. LogTypeOK
  BY <1>2, NoneAssumption, MaxAssumption DEF Init, L!Init, LogTypeOK, Ends
<1>4. FileInv /\ WriterInv /\ RefsInv
  BY <1>2, MaxAssumption DEF Init, FileInv, WriterInv, RefsInv
<1> QED BY <1>1, <1>3, <1>4 DEF LogInv

LEMMA LinesLength == LogTypeOK => Len(lines) \in Nat /\ \A i \in 1..Len(lines) : lines[i] \in Event
BY LenProperties, ElementOfSeq DEF LogTypeOK

\* At most one process is between OpenWriter and Close.
LEMMA OneWriter ==
  ASSUME LogTypeOK, NEW p \in Proc, pc[p] # "none"
  PROVE  holder = p /\ \A q \in Proc : q # p => pc[q] = "none"
BY DEF LogTypeOK

LEMMA OpenWriterStep ==
  ASSUME LogInv, NEW p \in Proc, OpenWriter(p)
  PROVE  LogInv'
<1> USE NoneAssumption DEF LogInv
<1>1. \A q \in Proc : pc[q] = "none"
  BY DEF OpenWriter, L!Acquire, LogTypeOK
<1>2. Refs(lines) \subseteq Digest /\ Refs(lines) \subseteq durable \cup early
  <2>1. \A d \in Refs(lines) : \E i \in 1..Len(lines) : d = lines[i].ref /\ d # None
    BY DEF Refs
  <2>2. \A i \in 1..Len(lines) : lines[i].ref \in Digest \cup {None}
    BY LinesLength DEF Event
  <2> QED BY <2>1, <2>2 DEF RefsInv
<1>3. BlobInv'
  BY <1>2 DEF OpenWriter, BlobInv, BlobTypeOK, Put, NoPut, Putting
<1>4. LogTypeOK'
  BY <1>1 DEF OpenWriter, L!Acquire, Goto, LogTypeOK
<1>5. FileInv' /\ RefsInv'
  BY DEF OpenWriter, FileInv, RefsInv
<1>6. WriterInv'
  BY <1>1 DEF OpenWriter, Goto, LogTypeOK, WriterInv
<1> QED BY <1>3, <1>4, <1>5, <1>6

\* A step that leaves the store alone keeps what the invariant says of it.
LEMMA StoreUntouched ==
  ASSUME LogInv, UNCHANGED blobVars
  PROVE  BlobInv' /\ durable' = durable /\ early' = early
BY DEF LogInv, BlobInv, BlobTypeOK, blobVars, Putting

LEMMA RepairStep ==
  ASSUME LogInv, NEW p \in Proc, Repair(p)
  PROVE  LogInv'
<1> USE NoneAssumption DEF LogInv
<1>1. pc[p] = "leased" /\ holder = p /\ \A q \in Proc : q # p => pc[q] = "none"
  BY OneWriter DEF Repair, Log
<1>2. BlobInv' /\ durable' = durable /\ early' = early
  BY StoreUntouched DEF Repair, Log
<1>3. LogTypeOK'
  BY <1>1 DEF Repair, L!Release, Goto, LogTypeOK, Ends
<1>4. FileInv' /\ RefsInv'
  BY <1>2 DEF Repair, FileInv, RefsInv
<1>5. WriterInv'
  BY <1>1 DEF Repair, Goto, LogTypeOK, WriterInv
<1> QED BY <1>2, <1>3, <1>4, <1>5

LEMMA SyncRepairStep ==
  ASSUME LogInv, NEW p \in Proc, SyncRepair(p)
  PROVE  LogInv'
<1> USE NoneAssumption DEF LogInv
<1>1. pc[p] = "repaired" /\ holder = p /\ \A q \in Proc : q # p => pc[q] = "none"
  BY OneWriter DEF SyncRepair, Log
<1>2. BlobInv' /\ durable' = durable /\ early' = early
  BY StoreUntouched DEF SyncRepair, Log
<1>3. LogTypeOK'
  BY <1>1, LinesLength DEF SyncRepair, L!Release, Goto, Fsync, LogTypeOK
<1>4. FileInv' /\ RefsInv'
  BY <1>2 DEF SyncRepair, Fsync, FileInv, RefsInv, LogTypeOK
<1>5. WriterInv'
  BY <1>1 DEF SyncRepair, Goto, LogTypeOK, WriterInv
<1> QED BY <1>2, <1>3, <1>4, <1>5

\* The line that Append writes: one more event with the next number, or a
\* partial line that is not counted.
LEMMA WrittenLine ==
  ASSUME LogInv, NEW p \in Proc, NEW d \in Digest \cup {None}, AppendWrite(p, d)
  PROVE  LET e == [seq |-> next[p], ref |-> d, id |-> issued + 1] IN
         /\ e \in Event /\ e.seq = Len(lines) + 1 /\ d \in durable \cup early \cup {None}
         /\ \/ lines' = Append(lines, e) /\ tail' \in {"clean", "noeol"}
            \/ lines' = lines /\ tail' \in {"clean", "torn"} /\ pc'[p] = "poisoned"
<1> USE NoneAssumption, MaxAssumption DEF LogInv
<1>1. pc[p] = "ready" /\ tail = "clean" /\ next[p] = Len(lines) + 1
  BY DEF AppendWrite, Log, WriterInv
<1>2. issued + 1 \in 1..MaxAppends /\ Len(lines) + 1 \in 1..MaxAppends
  BY DEF AppendWrite, LogTypeOK, FileInv
<1>3. d \in durable \cup early \cup {None}
  BY DEF AppendWrite, BlobInv, BlobTypeOK
<1> QED
  BY <1>1, <1>2, <1>3 DEF AppendWrite, Written, Event, Goto, LogTypeOK

LEMMA AppendIndex ==
  ASSUME NEW S, NEW s \in Seq(S), NEW x \in S
  PROVE  /\ Append(s, x) \in Seq(S) /\ Len(Append(s, x)) = Len(s) + 1
         /\ \A i \in 1..Len(s) + 1 :
              (Append(s, x)[i] = x /\ i = Len(s) + 1) \/ (i \in 1..Len(s) /\ Append(s, x)[i] = s[i])
<1>1. Len(s) \in Nat /\ \A i \in 1..Len(s) + 1 : i \in 1..Len(s) \/ i = Len(s) + 1
  BY LenProperties
<1> QED BY <1>1, AppendProperties

LEMMA AppendWriteStep ==
  ASSUME LogInv, NEW p \in Proc, NEW d \in Digest \cup {None}, AppendWrite(p, d)
  PROVE  LogInv'
<1> USE NoneAssumption, MaxAssumption DEF LogInv
<1> DEFINE e == [seq |-> next[p], ref |-> d, id |-> issued + 1]
<1>1. pc[p] = "ready" /\ holder = p /\ \A q \in Proc : q # p => pc[q] = "none"
  BY OneWriter DEF AppendWrite, Log
<1>2. BlobInv' /\ durable' = durable /\ early' = early
  BY StoreUntouched DEF AppendWrite, Log
<1>3. /\ e \in Event /\ e.seq = Len(lines) + 1 /\ e.ref \in durable \cup early \cup {None}
      /\ \/ lines' = Append(lines, e) /\ tail' \in {"clean", "noeol"}
         \/ lines' = lines /\ tail' \in {"clean", "torn"} /\ pc'[p] = "poisoned"
  BY WrittenLine
<1>4. /\ lines' \in Seq(Event) /\ Len(lines') \in {Len(lines), Len(lines) + 1}
      /\ \A i \in 1..Len(lines') :
           (lines'[i] = e /\ i = Len(lines) + 1) \/ (i \in 1..Len(lines) /\ lines'[i] = lines[i])
  <2>1. lines \in Seq(Event) /\ Len(lines) \in Nat
    BY LinesLength DEF LogTypeOK
  <2>2. CASE lines' = Append(lines, e)
    <3> HIDE DEF e
    <3> QED BY <1>3, <2>1, <2>2, AppendIndex
  <2>3. CASE lines' = lines
    BY <2>1, <2>3
  <2> QED BY <1>3, <2>2, <2>3
<1>5. issued' = issued + 1 /\ issued < MaxAppends /\ UNCHANGED <<next, holder, synced, syncTail, acked>>
  BY DEF AppendWrite
<1>6. /\ pc' \in [Proc -> {"none", "leased", "repaired", "ready", "written", "poisoned"}]
      /\ \A q \in Proc : q # p => pc'[q] = pc[q]
      /\ pc'[p] \in {"written", "poisoned"}
  <2>1. Goto(p, "written") \/ Goto(p, "poisoned")
    BY DEF AppendWrite
  <2> QED BY <2>1, <1>1 DEF Goto, LogTypeOK
<1>7. LogTypeOK'
  <2>1. synced \in 0..Len(lines) /\ acked \in 0..Len(lines) /\ Len(lines) \in Nat
        /\ issued \in 0..MaxAppends
    BY LinesLength DEF LogTypeOK
  <2>2. synced' \in 0..Len(lines') /\ acked' \in 0..Len(lines') /\ issued' \in 0..MaxAppends
    BY <1>4, <1>5, <2>1
  <2>3. tail' \in Ends
    BY <1>3 DEF Ends
  <2>4. \A q \in Proc : pc'[q] # "none" <=> holder' = q
    <3>1. \A q \in Proc : q # p => pc'[q] = "none"
      BY <1>1, <1>6
    <3>2. pc'[p] # "none" /\ holder' = p
      BY <1>1, <1>5, <1>6
    <3> QED BY <3>1, <3>2
  <2> QED BY <1>4, <1>5, <1>6, <2>2, <2>3, <2>4 DEF LogTypeOK
<1>8. FileInv' /\ RefsInv'
  <2>1. synced \in 0..Len(lines) /\ Len(lines) \in Nat /\ issued \in Nat
    BY LinesLength, MaxAssumption DEF LogTypeOK
  <2>2. \A i \in 1..Len(lines') : lines'[i].seq = i /\ lines'[i].ref \in durable \cup early \cup {None}
    BY <1>3, <1>4, <2>1 DEF FileInv, RefsInv
  <2> QED BY <1>2, <1>3, <1>4, <1>5, <2>1, <2>2 DEF FileInv, RefsInv
<1>9. pc'[p] = "written" => tail' = "clean" /\ lines' = Append(lines, e)
  BY DEF AppendWrite, Goto, Written, WriterInv, Log, LogTypeOK
<1>10. WriterInv'
  <2>1. pc'[p] = "written" => tail' = "clean" /\ next'[p] = Len(lines')
    <3>1. pc'[p] = "written" => lines' = Append(lines, e) /\ tail' = "clean"
      BY <1>9
    <3>2. Len(Append(lines, e)) = Len(lines) + 1
      BY <1>3, AppendIndex DEF LogTypeOK
    <3> QED BY <3>1, <3>2, <1>5, <1>1 DEF WriterInv
  <2>2. \A q \in Proc : pc'[q] # "none" => q = p
    BY <1>1, <1>6
  <2>3. pc'[p] \notin {"repaired", "ready"}
    BY <1>6
  <2>4. \A q \in Proc : pc'[q] \in {"repaired", "ready", "written"} => q = p
    BY <2>2
  <2> QED BY <2>1, <2>3, <2>4 DEF WriterInv
<1> QED BY <1>2, <1>7, <1>8, <1>10

LEMMA AppendSyncStep ==
  ASSUME LogInv, NEW p \in Proc, AppendSync(p)
  PROVE  LogInv'
<1> USE NoneAssumption DEF LogInv
<1>1. pc[p] = "written" /\ holder = p /\ \A q \in Proc : q # p => pc[q] = "none"
  BY OneWriter DEF AppendSync, Log
<1>2. BlobInv' /\ durable' = durable /\ early' = early
  BY StoreUntouched DEF AppendSync, Log
<1>3. LogTypeOK'
  <2>1. pc' \in [Proc -> {"none", "leased", "repaired", "ready", "written", "poisoned"}]
        /\ next' \in [Proc -> Nat] /\ \A q \in Proc : pc'[q] # "none" <=> pc[q] # "none"
    BY <1>1 DEF AppendSync, Goto, LogTypeOK
  <2>2. synced' \in 0..Len(lines) /\ acked' \in 0..Len(lines) /\ syncTail' \in Ends
    BY LinesLength DEF AppendSync, Fsync, LogTypeOK
  <2>3. UNCHANGED <<holder, lines, tail, issued>>
    BY DEF AppendSync
  <2> QED BY <2>1, <2>2, <2>3 DEF LogTypeOK
<1>4. FileInv' /\ RefsInv'
  BY <1>2 DEF AppendSync, Fsync, FileInv, RefsInv, LogTypeOK
<1>5. WriterInv'
  BY <1>1 DEF AppendSync, Goto, LogTypeOK, WriterInv
<1> QED BY <1>2, <1>3, <1>4, <1>5

LEMMA CloseStep ==
  ASSUME LogInv, NEW p \in Proc, Close(p)
  PROVE  LogInv'
<1> USE NoneAssumption DEF LogInv
<1>1. holder = p /\ \A q \in Proc : q # p => pc[q] = "none"
  BY OneWriter DEF Close, Log
<1>2. BlobInv' /\ durable' = durable /\ early' = early
  BY StoreUntouched DEF Close, Log
<1>3. LogTypeOK'
  BY <1>1 DEF Close, L!Release, Goto, LogTypeOK
<1>4. FileInv' /\ RefsInv' /\ WriterInv'
  BY <1>1, <1>2 DEF Close, Goto, LogTypeOK, FileInv, RefsInv, WriterInv
<1> QED BY <1>2, <1>3, <1>4

LEMMA StoreStepKeeps ==
  ASSUME LogInv, NEW p \in Proc, StoreStep(p)
  PROVE  LogInv'
<1> USE DEF LogInv
<1>1. BlobInv' /\ durable \subseteq durable' /\ early \subseteq early'
  BY BlobStep DEF StoreStep
<1> QED
  BY <1>1 DEF StoreStep, logVars, LogTypeOK, FileInv, WriterInv, RefsInv

LEMMA CrashStep ==
  ASSUME LogInv, NEW p \in Proc, Crash(p)
  PROVE  LogInv'
<1> USE NoneAssumption DEF LogInv
<1>1. BlobInv' /\ durable \subseteq durable' /\ early \subseteq early'
  BY BlobStep DEF Crash
<1>2. UNCHANGED <<lines, tail, synced, syncTail, acked, issued>>
  BY DEF Crash, file
<1>3. LogTypeOK'
  BY <1>2 DEF Crash, L!Release, Goto, LogTypeOK
<1>4. FileInv' /\ RefsInv' /\ WriterInv'
  BY <1>1, <1>2 DEF Crash, Goto, LogTypeOK, FileInv, RefsInv, WriterInv
<1> QED BY <1>1, <1>3, <1>4

LEMMA PowerLossStep ==
  ASSUME LogInv, PowerLoss
  PROVE  LogInv'
<1> USE NoneAssumption DEF LogInv
<1>1. BlobInv' /\ durable \subseteq durable' /\ early \subseteq early'
  BY BlobLoss DEF PowerLoss
<1>2. PICK k \in 0..Len(lines), t \in Ends :
        /\ Survives(k, t) /\ lines' = SubSeq(lines, 1, k) /\ tail' = t
        /\ synced' = k /\ syncTail' = t
  BY DEF PowerLoss
<1>3. k \in synced..Len(lines) /\ t # "garbled"
  BY <1>2 DEF Survives, FileInv
<1>4. lines' \in Seq(Event) /\ Len(lines') = k /\ \A i \in 1..k : lines'[i] = lines[i]
  BY <1>2, <1>3, SubSeqProperties, ElementOfSeq DEF LogTypeOK
<1>5. LogTypeOK'
  BY <1>2, <1>3, <1>4 DEF PowerLoss, LogTypeOK, FileInv
<1>6. FileInv' /\ RefsInv'
  BY <1>1, <1>2, <1>3, <1>4 DEF PowerLoss, FileInv, RefsInv, LogTypeOK
<1>7. WriterInv'
  BY DEF PowerLoss, WriterInv
<1> QED BY <1>1, <1>5, <1>6, <1>7

LEMMA LogStep == LogInv /\ [Next]_vars => LogInv'
<1> SUFFICES ASSUME LogInv, [Next]_vars PROVE LogInv'
  OBVIOUS
<1>1. CASE UNCHANGED vars
  BY <1>1, StoreUntouched
     DEF LogInv, LogTypeOK, FileInv, WriterInv, RefsInv, vars, logVars
<1>2. ASSUME NEW p \in Proc, Step(p) PROVE LogInv'
  BY <1>2, StoreStepKeeps, OpenWriterStep, RepairStep, SyncRepairStep, AppendWriteStep,
     AppendSyncStep, CloseStep, CrashStep DEF Step
<1>3. CASE PowerLoss
  BY <1>3, PowerLossStep
<1> QED BY <1>1, <1>2, <1>3 DEF Next

LEMMA LogAlways == Spec => []LogInv
BY LogInit, LogStep, PTL DEF Spec

-----------------------------------------------------------------------------
\* Type correctness of the store and of the log.
THEOREM LogTypes == Spec => []TypeOK
<1>1. LogInv => TypeOK
  BY DEF LogInv, BlobInv, LogTypeOK, TypeOK
<1> QED BY <1>1, LogAlways, PTL

\* A digest never names damaged bytes, whatever crashes (blobstore.go:202-258).
THEOREM BlobsIntact == Spec => []BlobIntact
<1>1. LogInv => BlobIntact
  BY DEF LogInv, BlobInv, BlobIntact
<1> QED BY <1>1, LogAlways, PTL

\* Every replay of the file succeeds and numbers its events without a gap
\* (writer.go:293-314).
THEOREM LogAlwaysReplays == Spec => []LogReplays
<1>1. LogInv => LogReplays
  BY DEF LogInv, FileInv, LogReplays, Replayable
<1> QED BY <1>1, LogAlways, PTL

\* The sequence in memory is the one a replay would give (writer.go:98-99).
THEOREM SequenceFollowsFile == Spec => []NextFollowsFile
<1>1. LogInv => NextFollowsFile
  BY DEF LogInv, WriterInv, NextFollowsFile
<1> QED BY <1>1, LogAlways, PTL

\* An event's blob is readable unless its reference was returned early
\* (writer.go:219-226).
THEOREM ReferencesResolve == Spec => []RefsResolve
<1>1. LogInv => RefsResolve
  BY DEF LogInv, BlobInv, BlobTypeOK, RefsInv, Refs, RefsResolve, Intact
<1> QED BY <1>1, LogAlways, PTL

\* The log is whole and the writer's number is the one of its file.
THEOREM LogStaysSound == Spec => []LogSound
<1>1. LogReplays /\ NextFollowsFile => LogSound
  BY DEF LogSound
<1> QED BY <1>1, LogAlwaysReplays, SequenceFollowsFile, PTL

\* Events and blobs agree.
THEOREM BlobsStaySound == Spec => []BlobsSound
<1>1. BlobIntact /\ RefsResolve => BlobsSound
  BY DEF BlobsSound
<1> QED BY <1>1, BlobsIntact, ReferencesResolve, PTL

\* The log implements DurableLog: no step takes back a confirmed event or adds
\* one out of turn, power losses included (writer.go:116-241).
THEOREM LogRefined == Spec => ImplementsDurableLog
<1>1. Init => Promise!Init
  BY DEF Init, Promise!Init
<1>2. LogInv /\ [Next]_vars => [Promise!Next]_<<lines, acked>>
  <2> SUFFICES ASSUME LogInv, [Next]_vars
               PROVE  [Promise!Next]_<<lines, acked>>
    OBVIOUS
  <2>1. ASSUME NEW p \in Proc, StoreStep(p) \/ OpenWriter(p) \/ Repair(p) \/ SyncRepair(p)
                               \/ Close(p) \/ Crash(p)
        PROVE  UNCHANGED <<lines, acked>>
    BY <2>1 DEF StoreStep, logVars, OpenWriter, Repair, SyncRepair, Close, Crash, file
  <2>2. ASSUME NEW p \in Proc, NEW d \in Digest \cup {None}, AppendWrite(p, d)
        PROVE  [Promise!Next]_<<lines, acked>>
    <3> DEFINE e == [seq |-> next[p], ref |-> d, id |-> issued + 1]
    <3>1. acked' = acked
      BY <2>2 DEF AppendWrite
    <3>2. e \in Event /\ e.seq = Len(lines) + 1 /\ lines' \in {lines, Append(lines, e)}
      BY <2>2, WrittenLine
    <3> QED
      BY <3>1, <3>2 DEF Promise!Next, Promise!Extend
  <2>3. ASSUME NEW p \in Proc, AppendSync(p)
        PROVE  [Promise!Next]_<<lines, acked>>
    BY <2>3 DEF AppendSync, Promise!Next, Promise!Confirm
  <2>4. CASE PowerLoss
    <3>1. PICK k \in 0..Len(lines), t \in Ends :
            Survives(k, t) /\ lines' = SubSeq(lines, 1, k)
      BY <2>4 DEF PowerLoss
    <3>2. k \in acked..Len(lines)
      BY <3>1, LinesLength DEF Survives, LogInv, FileInv, LogTypeOK
    <3>3. acked' = acked
      BY <2>4 DEF PowerLoss
    <3>4. Promise!Lose(k)
      BY <3>1, <3>2, <3>3 DEF Promise!Lose
    <3> QED BY <3>4 DEF Promise!Next
  <2>5. CASE UNCHANGED vars
    BY <2>5 DEF vars, logVars
  <2> QED BY <2>1, <2>2, <2>3, <2>4, <2>5 DEF Next, Step
<1> QED
  BY <1>1, <1>2, LogAlways, PTL DEF Spec, ImplementsDurableLog, Promise!Spec
=============================================================================
