------------------------- MODULE Provisioning_proofs -------------------------
(* Proofs about Provisioning: what no order of launches, resumes, cleans,  *)
(* deaths and power losses can do to a session.                            *)
EXTENDS Provisioning, FiniteSetTheorems, TLAPS

Early == {"mkdir", "plan", "log", "ingest", "ingesting"}
Past  == {"runtime", "sync", "prepare", "save", "append", "appending", "worktree", "checkout",
          "look", "load", "run", "ack", "start", "running"}

\* Which process may be where.
Places ==
  /\ pc[Launch] \notin {"open", "look", "load", "cleaning", "removing"}
  /\ \A r \in Resumer : pc[r] \in {"open", "look", "load", "append", "appending", "run", "ack",
                                   "start", "running"}
  /\ \A c \in Cleaner : pc[c] \in {"open", "cleaning", "removing"}
  /\ \A r \in Resumer : pc[r] \in {"append", "appending"} => mode = "current"
  /\ pc[Launch] \in {"worktree", "checkout"} => mode = "head-copy"

\* A log is filled after Create and never again once it was removed; a launch
\* that goes on makes the two files of the runtime again and nothing else.
Filled ==
  /\ stage # "logged" => log = <<>>
  /\ stage \notin {"logged", "removed"} => runtime = "none" /\ ~state
  /\ \A p \in Proc : pc[p] \in Past \cup {"ingest", "ingesting"}
                       => stage \in {"logged", "removed"}

\* All inputs are recorded before anything that follows them.
Furnished ==
  stage = "logged" /\ (\/ runtime # "none" \/ Prepared \/ Count("started") > 0
                       \/ \E p \in Proc : pc[p] \in Past)
    => Count("input") = Inputs /\ pc[Launch] \notin Early

\* A process past its first look or append has seen the event or made it.
Witnessed ==
  stage = "logged" =>
    \A p \in Proc :
      /\ pc[p] = "load" /\ found[p] => Prepared
      /\ pc[p] \in {"worktree", "checkout", "run", "ack", "start", "running"} => Prepared

\* In the launch directory itself the state file comes before the event.
StateFirst ==
  /\ StateBeforeEvent
  /\ \A p \in Proc : pc[p] \in {"append", "appending"} /\ mode = "current" /\ stage = "logged"
                       => state

\* One process at a time is about to append the event, if none overlapped.
Alone ==
  /\ \A p \in Proc : pc[p] \in {"save", "append", "appending"} => ~found[p]
  /\ ~overlapped =>
       /\ PreparedOnceAlone
       /\ Prepared => \A q \in Proc : ~Appending(q)
       /\ \A q, r \in Proc : Appending(q) /\ Appending(r) => q = r

\* A clean that holds the lease meets no launch between event and worktree.
Copy ==
  /\ worktree # "none" => /\ mode = "head-copy"
                          /\ pc[Launch] \in {"checkout", "run", "ack", "start", "running", "dead"}
  /\ \A c \in Cleaner : pc[c] \in {"cleaning", "removing"} => holder = c \/ forced
  /\ WorktreeOwned
  /\ ~forced => /\ pc[Launch] = "worktree" => Prepared
                /\ \A c \in Cleaner : pc[c] = "removing"
                                        => worktree = "none" /\ pc[Launch] # "worktree"

\* The child acknowledges a session that is provisioned.
Acknowledged ==
  /\ told => Prepared \/ stage \in {"removed", "gone"}
  /\ launcher = "receipt" => told
  /\ LauncherTruth

IInv == /\ TypeOK /\ Places /\ Filled /\ Furnished /\ Witnessed /\ StateFirst /\ Alone /\ Copy
        /\ Acknowledged /\ StartsProvisioned

-----------------------------------------------------------------------------
(* The log and what is counted in it.                                      *)

Events == {"input", "prepared", "started"}

\* Positions of a log are finitely many.
LEMMA PositionsFinite ==
  ASSUME NEW n \in Nat, NEW S \in SUBSET (1..n)
  PROVE  IsFiniteSet(S)
<1>1. IsFiniteSet(1..n)
  BY FS_Interval
<1> QED
  BY <1>1, FS_Subset

\* A count is a number, and zero where there is nothing.
LEMMA CountType ==
  ASSUME TypeOK, NEW e
  PROVE  Count(e) \in Nat /\ (Count(e) = 0 <=> ~\E i \in DOMAIN log : log[i] = e)
<1> DEFINE S == {i \in DOMAIN log : log[i] = e}
<1>1. log \in Seq(Events) /\ Len(log) \in Nat /\ DOMAIN log = 1..Len(log)
  BY DEF TypeOK, Events
<1>2. IsFiniteSet(S)
  BY <1>1, PositionsFinite
<1> HIDE DEF S
<1>3. Cardinality(S) \in Nat /\ (Cardinality(S) = 0 <=> S = {})
  BY <1>2, FS_CardinalityType, FS_EmptySet
<1> QED
  BY <1>3 DEF S, Count

\* An event that is appended is counted.
LEMMA CountAppend ==
  ASSUME TypeOK, NEW a \in Events, log' = Append(log, a), NEW e
  PROVE  Count(e)' = Count(e) + (IF e = a THEN 1 ELSE 0)
<1> DEFINE S == {i \in DOMAIN log : log[i] = e}
           n == Len(log) + 1
<1>1. log \in Seq(Events) /\ Len(log) \in Nat /\ DOMAIN log = 1..Len(log)
  BY DEF TypeOK, Events
<1>2. IsFiniteSet(S) /\ n \notin S
  <2>1. IsFiniteSet(S)
    BY <1>1, PositionsFinite
  <2>2. n \notin S
    BY <1>1
  <2> QED BY <2>1, <2>2
<1>3. DOMAIN log' = 1..n /\ log'[n] = a /\ \A i \in 1..Len(log) : log'[i] = log[i]
  BY <1>1
<1>4. {i \in DOMAIN log' : log'[i] = e} = IF e = a THEN S \cup {n} ELSE S
  BY <1>1, <1>3
<1>5. Count(e) = Cardinality(S) /\ Count(e)' = Cardinality(IF e = a THEN S \cup {n} ELSE S)
  BY <1>4 DEF Count
<1> HIDE DEF S, n
<1>6. Cardinality(S \cup {n}) = Cardinality(S) + 1 /\ Cardinality(S) \in Nat
  BY <1>2, FS_AddElement, FS_CardinalityType
<1> QED
  BY <1>5, <1>6

\* A log that does not change has the counts it had.
LEMMA CountKept ==
  ASSUME log' = log, NEW e
  PROVE  Count(e)' = Count(e)
  BY DEF Count

\* An empty log counts nothing.
LEMMA CountEmpty ==
  ASSUME log' = <<>>, NEW e
  PROVE  Count(e)' = 0
<1>1. {i \in DOMAIN log' : log'[i] = e} = {}
  OBVIOUS
<1> QED
  BY <1>1, FS_EmptySet DEF Count

\* What a step makes of a count.
LEMMA CountStep ==
  ASSUME TypeOK, NEW e \in Events
  PROVE  /\ Count(e) \in Nat /\ (log = <<>> => Count(e) = 0)
         /\ log' = log => Count(e)' = Count(e)
         /\ log' = <<>> => Count(e)' = 0
         /\ \A a \in Events : log' = Append(log, a)
                                => Count(e)' = Count(e) + (IF e = a THEN 1 ELSE 0)
<1>1. log = <<>> => Count(e) = 0
  BY CountType
<1> QED
  BY <1>1, CountType, CountKept, CountEmpty, CountAppend

\* What a step makes of the event that names the workspace.
LEMMA PreparedStep ==
  ASSUME TypeOK
  PROVE  /\ log = <<>> => ~Prepared
         /\ log' = log => (Prepared' <=> Prepared)
         /\ log' = <<>> => ~Prepared'
         /\ log' = Append(log, "prepared") => Prepared'
         /\ log' = Append(log, "input") \/ log' = Append(log, "started")
              => (Prepared' <=> Prepared)
  BY CountStep DEF Prepared, Events

-----------------------------------------------------------------------------
(* Types and places.                                                       *)

\* Types are kept.
LEMMA TypeStep ==
  ASSUME TypeOK, [Next]_vars
  PROVE  TypeOK'
<1> USE DEF TypeOK, PCs, Stages, Goto, At, L!Acquire, L!Release, Take, disk, history
<1>1. ASSUME NEW p \in Proc, Create(p) PROVE TypeOK'
  BY <1>1 DEF Create, CreateStep
<1>2. ASSUME NEW p \in Proc, TakeIngest(p) \/ Ingest(p) \/ CloseIngest(p) PROVE TypeOK'
  BY <1>2 DEF TakeIngest, Ingest, CloseIngest
<1>3. ASSUME NEW p \in Proc, CreateRuntime(p) \/ SyncRuntime(p) \/ SaveState(p) PROVE TypeOK'
  <2>1. state' \in BOOLEAN
    BY <1>3, Zenon DEF CreateRuntime, SyncRuntime, SaveState
  <2>2. /\ pc' \in [Proc -> PCs] /\ runtime' \in {"none", "torn", "saved"}
        /\ UNCHANGED <<mode, launcher, stage, log, worktree, holder, found, told, history>>
    BY <1>3 DEF CreateRuntime, SyncRuntime, SaveState
  <2> QED BY <2>1, <2>2
<1>4. ASSUME NEW p \in Proc, Prepare(p) \/ Look(p) PROVE TypeOK'
  <2>1. Prepared \in BOOLEAN
    BY DEF Prepared
  <2>2. found' \in [Proc -> BOOLEAN]
    BY <1>4, <2>1, Zenon DEF Prepare, Look, LookForEvent
  <2>3. overlapped' \in BOOLEAN
    <3>1. (overlapped \/ (~Prepared /\ \E q \in Proc \ {p} : Appending(q))) \in BOOLEAN
      OBVIOUS
    <3> QED BY <1>4, <3>1, Zenon DEF Prepare, Look, LookForEvent
  <2>4. /\ pc' \in [Proc -> PCs]
        /\ UNCHANGED <<mode, launcher, disk, holder, told, forced, powerLost>>
    BY <1>4 DEF Prepare, Look, LookForEvent
  <2> QED BY <2>2, <2>3, <2>4
<1>5. ASSUME NEW p \in Proc, TakeAppend(p) PROVE TypeOK'
  BY <1>5 DEF TakeAppend
<1>6. ASSUME NEW p \in Proc, AppendPrepared(p) PROVE TypeOK'
  BY <1>6 DEF AppendPrepared
<1>7. ASSUME NEW p \in Proc, AddWorktree(p) \/ Checkout(p) PROVE TypeOK'
  BY <1>7 DEF AddWorktree, Checkout
<1>8. ASSUME NEW p \in Proc, OpenResume(p) \/ Load(p) PROVE TypeOK'
  BY <1>8 DEF OpenResume, Load
<1>9. ASSUME NEW p \in Proc, TakeRun(p) PROVE TypeOK'
  BY <1>9 DEF TakeRun
<1>10. ASSUME NEW p \in Proc, Ack(p) PROVE TypeOK'
  <2>1. told' \in BOOLEAN
    BY <1>10, Zenon DEF Ack
  <2>2. /\ pc' \in [Proc -> PCs] /\ holder' \in Proc \cup {None}
        /\ UNCHANGED <<mode, launcher, disk, found, history>>
    BY <1>10 DEF Ack
  <2> QED BY <2>1, <2>2
<1>11. ASSUME NEW p \in Proc, Start(p) PROVE TypeOK'
  <2>1. log' \in Seq({"input", "prepared", "started"})
    BY <1>11 DEF Start
  <2>2. /\ pc' \in [Proc -> PCs]
        /\ UNCHANGED <<mode, launcher, stage, runtime, state, worktree, holder, found, told,
                       history>>
    BY <1>11 DEF Start
  <2> QED BY <2>1, <2>2
<1>12. ASSUME NEW p \in Proc, OpenClean(p) PROVE TypeOK'
  <2>1. forced' \in BOOLEAN
    BY <1>12, Zenon DEF OpenClean
  <2>2. /\ pc' \in [Proc -> PCs] /\ holder' \in Proc \cup {None}
        /\ UNCHANGED <<mode, launcher, disk, found, told, overlapped, powerLost>>
    BY <1>12 DEF OpenClean
  <2> QED BY <2>1, <2>2
<1>13. ASSUME NEW p \in Proc, CleanWorkspace(p) PROVE TypeOK'
  BY <1>13 DEF CleanWorkspace
<1>14. ASSUME NEW p \in Proc, Remove(p) PROVE TypeOK'
  <2>1. state' \in BOOLEAN
    BY <1>14, Zenon DEF Remove, Erase
  <2>2. log' \in Seq({"input", "prepared", "started"})
    BY <1>14 DEF Remove, Erase
  <2>3. /\ pc' \in [Proc -> PCs] /\ stage' \in Stages /\ runtime' \in {"none", "torn", "saved"}
        /\ holder' \in Proc \cup {None}
        /\ UNCHANGED <<mode, launcher, worktree, found, told, history>>
    BY <1>14 DEF Remove, Erase
  <2> QED BY <2>1, <2>2, <2>3
<1>15. ASSUME NEW p \in Proc, Exit(p) PROVE TypeOK'
  BY <1>15 DEF Exit, Ended
<1>16. CASE PowerLoss
  <2>1. /\ log' \in Seq({"input", "prepared", "started"}) /\ stage' \in Stages
        /\ runtime' \in {"none", "torn", "saved"}
    <3>1. CASE /\ stage' \in {stage} \cup (IF stage = "planned" THEN {"empty"} ELSE {})
               /\ runtime' \in {runtime, "none"} /\ log' = log
      <4>1. stage' \in Stages
        BY <3>1
      <4>2. runtime' \in {"none", "torn", "saved"}
        BY <3>1
      <4> QED BY <3>1, <4>1, <4>2
    <3>2. CASE Erase("gone")
      BY <3>2 DEF Erase
    <3> QED BY <1>16, <3>1, <3>2, Zenon DEF PowerLoss
  <2>2. state' \in BOOLEAN /\ powerLost' \in BOOLEAN
    <3>1. (state' \in {state, FALSE} \/ state' = FALSE) /\ powerLost' = TRUE
      BY <1>16, Zenon DEF PowerLoss, Erase
    <3>2. CASE state' = FALSE
      BY <3>1, <3>2, Zenon
    <3>3. CASE state' \in {state, FALSE}
      BY <3>1, <3>3
    <3> QED BY <3>1, <3>2, <3>3, Zenon
  <2>3. pc' \in [Proc -> PCs]
    BY <1>16 DEF PowerLoss, Ended
  <2>4. /\ worktree' \in {"none", "partial", "whole"} /\ holder' \in Proc \cup {None}
        /\ launcher' \in {"off", "waiting", "receipt", "failed", "gone"}
        /\ UNCHANGED <<mode, found, told, overlapped, forced>>
    BY <1>16 DEF PowerLoss
  <2> QED BY <2>1, <2>2, <2>3, <2>4
<1>17. CASE Launcher \/ LauncherDies
  BY <1>17 DEF Launcher, LauncherDies, LauncherStep, ReadAck, ReadNothing, Timeout, StopChild, Proc
<1>18. CASE UNCHANGED vars
  BY <1>18 DEF vars
<1> QED
  BY <1>1, <1>2, <1>3, <1>4, <1>5, <1>6, <1>7, <1>8, <1>9, <1>10, <1>11, <1>12, <1>13, <1>14,
     <1>15, <1>16, <1>17, <1>18 DEF Next, Step

\* Every process stays where it may be.
LEMMA PlacesStep ==
  ASSUME TypeOK, Places, [Next]_vars
  PROVE  Places'
<1> USE DEF TypeOK, Places, Goto, At, Proc
<1>1. ASSUME NEW p \in Proc,
             \/ Create(p) \/ TakeIngest(p) \/ Ingest(p) \/ CloseIngest(p) \/ CreateRuntime(p)
             \/ SyncRuntime(p) \/ SaveState(p) \/ Prepare(p)
      PROVE  Places'
  BY <1>1, ProcAssumption
     DEF Create, CreateStep, TakeIngest, Ingest, CloseIngest, CreateRuntime, SyncRuntime, SaveState,
         Prepare
<1>2. ASSUME NEW p \in Proc, OpenResume(p) \/ Look(p) \/ Load(p) PROVE Places'
  BY <1>2, ProcAssumption DEF OpenResume, Look, Load
<1>3. ASSUME NEW p \in Proc, TakeAppend(p) \/ AppendPrepared(p) PROVE Places'
  BY <1>3, ProcAssumption DEF TakeAppend, AppendPrepared
<1>4. ASSUME NEW p \in Proc, AddWorktree(p) \/ Checkout(p) PROVE Places'
  BY <1>4, ProcAssumption DEF AddWorktree, Checkout
<1>5. ASSUME NEW p \in Proc, TakeRun(p) \/ Ack(p) \/ Start(p) PROVE Places'
  BY <1>5, ProcAssumption DEF TakeRun, Ack, Start
<1>6. ASSUME NEW p \in Proc, OpenClean(p) \/ CleanWorkspace(p) \/ Remove(p) PROVE Places'
  BY <1>6, ProcAssumption DEF OpenClean, CleanWorkspace, Remove
<1>7. ASSUME NEW p \in Proc, Exit(p) PROVE Places'
  BY <1>7, ProcAssumption DEF Exit, Ended
<1>8. CASE PowerLoss
  BY <1>8, ProcAssumption DEF PowerLoss, Ended
<1>9. CASE Launcher \/ LauncherDies
  BY <1>9, ProcAssumption
     DEF Launcher, LauncherDies, LauncherStep, ReadAck, ReadNothing, Timeout, StopChild, disk
<1>10. CASE UNCHANGED vars
  BY <1>10 DEF vars
<1> QED
  BY <1>1, <1>2, <1>3, <1>4, <1>5, <1>6, <1>7, <1>8, <1>9, <1>10 DEF Next, Step

\* A directory is filled only while it is logged.
LEMMA FilledStep ==
  ASSUME TypeOK, Places, Filled, [Next]_vars
  PROVE  Filled'
<1> USE DEF TypeOK, Filled, Goto, At, Past
<1>1. ASSUME NEW p \in Proc, Create(p) PROVE Filled'
  BY <1>1 DEF Create, CreateStep
<1>2. ASSUME NEW p \in Proc,
             TakeIngest(p) \/ Ingest(p) \/ CloseIngest(p) \/ CreateRuntime(p) \/ SyncRuntime(p)
      PROVE  Filled'
  BY <1>2 DEF TakeIngest, Ingest, CloseIngest, CreateRuntime, SyncRuntime, Openable, disk
<1>3. ASSUME NEW p \in Proc, Prepare(p) \/ SaveState(p) \/ TakeAppend(p) \/ AppendPrepared(p)
      PROVE  Filled'
  BY <1>3 DEF Prepare, SaveState, TakeAppend, AppendPrepared, Openable, disk
<1>4. ASSUME NEW p \in Proc,
             AddWorktree(p) \/ Checkout(p) \/ OpenResume(p) \/ Look(p) \/ Load(p) \/ TakeRun(p)
      PROVE  Filled'
  BY <1>4 DEF AddWorktree, Checkout, OpenResume, Look, Load, TakeRun, Openable, disk
<1>5. ASSUME NEW p \in Proc, Ack(p) \/ Start(p) PROVE Filled'
  BY <1>5 DEF Ack, Start, disk
<1>6. ASSUME NEW p \in Proc, OpenClean(p) \/ CleanWorkspace(p) \/ Remove(p) PROVE Filled'
  BY <1>6 DEF OpenClean, CleanWorkspace, Remove, Erase, disk
<1>7. ASSUME NEW p \in Proc, Exit(p) PROVE Filled'
  BY <1>7 DEF Exit, Ended, disk
<1>8. CASE PowerLoss
  <2>1. \A p \in Proc : pc'[p] \in {"dead", "open"}
    BY <1>8 DEF PowerLoss, Ended
  <2>2. CASE /\ stage' \in {stage} \cup (IF stage = "planned" THEN {"empty"} ELSE {})
             /\ runtime' \in {runtime, "none"} /\ state' \in {state, FALSE} /\ log' = log
    <3>1. stage' # "logged" => stage # "logged"
      BY <2>2
    <3>2. ~state => ~state'
      BY <2>2
    <3>3. runtime = "none" => runtime' = "none"
      BY <2>2
    <3> QED BY <2>1, <2>2, <3>1, <3>2, <3>3
  <2>3. CASE Erase("gone")
    BY <2>1, <2>3 DEF Erase
  <2> QED BY <1>8, <2>2, <2>3, Zenon DEF PowerLoss
<1>9. CASE Launcher \/ LauncherDies
  BY <1>9
     DEF Launcher, LauncherDies, LauncherStep, ReadAck, ReadNothing, Timeout, StopChild, disk, Proc
<1>10. CASE UNCHANGED vars
  BY <1>10 DEF vars, disk
<1> QED
  BY <1>1, <1>2, <1>3, <1>4, <1>5, <1>6, <1>7, <1>8, <1>9, <1>10 DEF Next, Step

\* Nothing follows the inputs before all of them are recorded.
LEMMA FurnishedStep ==
  ASSUME TypeOK, Places, Filled, Furnished, [Next]_vars
  PROVE  Furnished'
<1>0. /\ Launch \in Proc
      /\ Count("input") \in Nat /\ Count("started") \in Nat
      /\ log = <<>> => Count("input") = 0 /\ Count("started") = 0 /\ ~Prepared
      /\ log' = log => /\ Count("input")' = Count("input") /\ Count("started")' = Count("started")
                       /\ Prepared' <=> Prepared
      /\ log' = Append(log, "input")
           => Count("started")' = Count("started") /\ (Prepared' <=> Prepared)
      /\ log' = Append(log, "prepared") \/ log' = Append(log, "started")
           => Count("input")' = Count("input")
  <2>1. "input" \in Events /\ "prepared" \in Events /\ "started" \in Events
    BY DEF Events
  <2>2. /\ Count("input") \in Nat /\ (log = <<>> => Count("input") = 0)
        /\ log' = log => Count("input")' = Count("input")
        /\ \A a \in Events : log' = Append(log, a)
                              => Count("input")' = Count("input") + (IF "input" = a THEN 1 ELSE 0)
    BY <2>1, CountStep
  <2>3. /\ Count("started") \in Nat /\ (log = <<>> => Count("started") = 0)
        /\ log' = log => Count("started")' = Count("started")
        /\ \A a \in Events : log' = Append(log, a)
                              => Count("started")' = Count("started") + (IF "started" = a THEN 1 ELSE 0)
    BY <2>1, CountStep
  <2>4. /\ log' = Append(log, "prepared") => Count("input")' = Count("input") + 0
        /\ log' = Append(log, "started") => Count("input")' = Count("input") + 0
        /\ log' = Append(log, "input") => Count("started")' = Count("started") + 0
    BY <2>1, <2>2, <2>3
  <2> QED
    BY <2>2, <2>3, <2>4, PreparedStep DEF Proc
<1> USE DEF TypeOK, Furnished, Goto, At, Early, Past
<1>1. ASSUME NEW p \in Proc, Create(p) PROVE Furnished'
  BY <1>0, <1>1, InputsAssumption, ProcAssumption DEF Create, CreateStep, Filled, Places, Proc
<1>2. ASSUME NEW p \in Proc, TakeIngest(p) \/ CloseIngest(p) \/ CreateRuntime(p) \/ SyncRuntime(p)
      PROVE  Furnished'
  BY <1>0, <1>2, ProcAssumption
     DEF TakeIngest, CloseIngest, CreateRuntime, SyncRuntime, Places, Proc, disk
<1>3. ASSUME NEW p \in Proc, Ingest(p) PROVE Furnished'
  BY <1>0, <1>3, ProcAssumption DEF Ingest, Places, Proc
<1>4. ASSUME NEW p \in Proc, Prepare(p) \/ SaveState(p) \/ TakeAppend(p) \/ AppendPrepared(p)
      PROVE  Furnished'
  BY <1>0, <1>4 DEF Prepare, SaveState, TakeAppend, AppendPrepared, disk
<1>5. ASSUME NEW p \in Proc,
             AddWorktree(p) \/ Checkout(p) \/ OpenResume(p) \/ Look(p) \/ Load(p) \/ TakeRun(p)
      PROVE  Furnished'
  BY <1>0, <1>5 DEF AddWorktree, Checkout, OpenResume, Look, Load, TakeRun, disk
<1>6. ASSUME NEW p \in Proc, Ack(p) \/ Start(p) PROVE Furnished'
  BY <1>0, <1>6 DEF Ack, Start, disk
<1>7. ASSUME NEW p \in Proc, OpenClean(p) \/ CleanWorkspace(p) \/ Remove(p) PROVE Furnished'
  BY <1>0, <1>7 DEF OpenClean, CleanWorkspace, Remove, Erase, disk
<1>8. ASSUME NEW p \in Proc, Exit(p) PROVE Furnished'
  BY <1>0, <1>8 DEF Exit, Ended, disk
<1>9. CASE PowerLoss
  BY <1>0, <1>9 DEF PowerLoss, Ended, Erase, Proc
<1>10. CASE Launcher \/ LauncherDies
  BY <1>0, <1>10
     DEF Launcher, LauncherDies, LauncherStep, ReadAck, ReadNothing, Timeout, StopChild, disk, Proc
<1>11. CASE UNCHANGED vars
  BY <1>0, <1>11 DEF vars, disk
<1> QED
  BY <1>1, <1>2, <1>3, <1>4, <1>5, <1>6, <1>7, <1>8, <1>9, <1>10, <1>11 DEF Next, Step

-----------------------------------------------------------------------------
(* The event, its file and its workspace.                                  *)

\* Whoever is past looking for the event has seen it or made it.
LEMMA WitnessedStep ==
  ASSUME TypeOK, Places, Filled, Witnessed, [Next]_vars
  PROVE  Witnessed'
<1>0. /\ log = <<>> => ~Prepared
      /\ log' = log => (Prepared' <=> Prepared)
      /\ log' = Append(log, "prepared") => Prepared'
      /\ log' = Append(log, "input") \/ log' = Append(log, "started") => (Prepared' <=> Prepared)
  BY PreparedStep
<1> USE DEF TypeOK, Witnessed, Goto, At
<1>1. ASSUME NEW p \in Proc, Create(p) PROVE Witnessed'
  BY <1>0, <1>1 DEF Create, CreateStep, Filled, Past
<1>2. ASSUME NEW p \in Proc,
             \/ TakeIngest(p) \/ Ingest(p) \/ CloseIngest(p) \/ CreateRuntime(p) \/ SyncRuntime(p)
             \/ SaveState(p) \/ TakeAppend(p) \/ AppendPrepared(p)
      PROVE  Witnessed'
  BY <1>0, <1>2
     DEF TakeIngest, Ingest, CloseIngest, CreateRuntime, SyncRuntime, SaveState, TakeAppend,
         AppendPrepared, disk
<1>3. ASSUME NEW p \in Proc, Prepare(p) PROVE Witnessed'
  BY <1>0, <1>3 DEF Prepare, LookForEvent, disk
<1>4. ASSUME NEW p \in Proc, Look(p) PROVE Witnessed'
  BY <1>0, <1>4 DEF Look, LookForEvent, disk
<1>5. ASSUME NEW p \in Proc,
             AddWorktree(p) \/ Checkout(p) \/ OpenResume(p) \/ Load(p) \/ TakeRun(p)
      PROVE  Witnessed'
  BY <1>0, <1>5 DEF AddWorktree, Checkout, OpenResume, Load, TakeRun, disk
<1>6. ASSUME NEW p \in Proc, Ack(p) \/ Start(p) PROVE Witnessed'
  BY <1>0, <1>6 DEF Ack, Start, disk
<1>7. ASSUME NEW p \in Proc, OpenClean(p) \/ CleanWorkspace(p) \/ Remove(p) PROVE Witnessed'
  BY <1>0, <1>7 DEF OpenClean, CleanWorkspace, Remove, Erase, disk
<1>8. ASSUME NEW p \in Proc, Exit(p) PROVE Witnessed'
  BY <1>0, <1>8 DEF Exit, Ended, disk
<1>9. CASE PowerLoss
  BY <1>0, <1>9 DEF PowerLoss, Ended, Erase
<1>10. CASE Launcher \/ LauncherDies
  BY <1>0, <1>10
     DEF Launcher, LauncherDies, LauncherStep, ReadAck, ReadNothing, Timeout, StopChild, disk, Proc
<1>11. CASE UNCHANGED vars
  BY <1>0, <1>11 DEF vars, disk
<1> QED
  BY <1>1, <1>2, <1>3, <1>4, <1>5, <1>6, <1>7, <1>8, <1>9, <1>10, <1>11 DEF Next, Step

\* In the launch directory the event follows its file.
LEMMA StateFirstStep ==
  ASSUME TypeOK, Places, Filled, StateFirst, [Next]_vars
  PROVE  StateFirst'
<1>0. /\ log = <<>> => ~Prepared
      /\ log' = log => (Prepared' <=> Prepared)
      /\ log' = <<>> => ~Prepared'
      /\ log' = Append(log, "input") \/ log' = Append(log, "started") => (Prepared' <=> Prepared)
  BY PreparedStep
<1> USE DEF TypeOK, StateFirst, StateBeforeEvent, Goto, At
<1>1. ASSUME NEW p \in Proc, Create(p) PROVE StateFirst'
  BY <1>0, <1>1 DEF Create, CreateStep, Filled, Past
<1>2. ASSUME NEW p \in Proc,
             TakeIngest(p) \/ Ingest(p) \/ CloseIngest(p) \/ CreateRuntime(p) \/ SyncRuntime(p)
      PROVE  StateFirst'
  BY <1>0, <1>2 DEF TakeIngest, Ingest, CloseIngest, CreateRuntime, SyncRuntime, disk, history
<1>3. ASSUME NEW p \in Proc, SaveState(p) \/ TakeAppend(p) PROVE StateFirst'
  BY <1>0, <1>3 DEF SaveState, TakeAppend, disk, history
<1>4. ASSUME NEW p \in Proc, AppendPrepared(p) PROVE StateFirst'
  BY <1>0, <1>4 DEF AppendPrepared, Openable, Filled, Past, history
<1>5. ASSUME NEW p \in Proc, Prepare(p) \/ Look(p) PROVE StateFirst'
  BY <1>0, <1>5 DEF Prepare, Look, LookForEvent, disk
<1>6. ASSUME NEW p \in Proc,
             AddWorktree(p) \/ Checkout(p) \/ OpenResume(p) \/ Load(p) \/ TakeRun(p)
      PROVE  StateFirst'
  BY <1>0, <1>6 DEF AddWorktree, Checkout, OpenResume, Load, TakeRun, disk, history
<1>7. ASSUME NEW p \in Proc, Ack(p) \/ Start(p) PROVE StateFirst'
  BY <1>0, <1>7 DEF Ack, Start, disk, history
<1>8. ASSUME NEW p \in Proc, OpenClean(p) \/ CleanWorkspace(p) \/ Remove(p) PROVE StateFirst'
  BY <1>0, <1>8 DEF OpenClean, CleanWorkspace, Remove, Erase, disk, history
<1>9. ASSUME NEW p \in Proc, Exit(p) PROVE StateFirst'
  BY <1>0, <1>9 DEF Exit, Ended, disk, history
<1>10. CASE PowerLoss
  BY <1>0, <1>10 DEF PowerLoss, Ended
<1>11. CASE Launcher \/ LauncherDies
  BY <1>0, <1>11
     DEF Launcher, LauncherDies, LauncherStep, ReadAck, ReadNothing, Timeout, StopChild, disk, Proc,
         history
<1>12. CASE UNCHANGED vars
  BY <1>0, <1>12 DEF vars, disk, history
<1> QED
  BY <1>1, <1>2, <1>3, <1>4, <1>5, <1>6, <1>7, <1>8, <1>9, <1>10, <1>11, <1>12 DEF Next, Step

\* One event, unless two processes overlapped.
LEMMA AloneStep ==
  ASSUME TypeOK, Places, Filled, Alone, [Next]_vars
  PROVE  Alone'
<1>0. /\ Count("prepared") \in Nat /\ (Prepared <=> Count("prepared") > 0)
      /\ log = <<>> => ~Prepared
      /\ log' = log => Count("prepared")' = Count("prepared") /\ (Prepared' <=> Prepared)
      /\ log' = <<>> => Count("prepared")' = 0 /\ ~Prepared'
      /\ log' = Append(log, "prepared") => Count("prepared")' = Count("prepared") + 1
      /\ log' = Append(log, "input") \/ log' = Append(log, "started")
           => Count("prepared")' = Count("prepared") /\ (Prepared' <=> Prepared)
  BY CountStep, PreparedStep DEF Events, Prepared
<1> USE DEF TypeOK, Alone, PreparedOnceAlone, Appending, Goto, At
<1>1. ASSUME NEW p \in Proc, Create(p) PROVE Alone'
  BY <1>0, <1>1 DEF Create, CreateStep, history
<1>2. ASSUME NEW p \in Proc,
             TakeIngest(p) \/ Ingest(p) \/ CloseIngest(p) \/ CreateRuntime(p) \/ SyncRuntime(p)
      PROVE  Alone'
  BY <1>0, <1>2 DEF TakeIngest, Ingest, CloseIngest, CreateRuntime, SyncRuntime, disk, history
<1>3. ASSUME NEW p \in Proc, SaveState(p) \/ TakeAppend(p) PROVE Alone'
  BY <1>0, <1>3 DEF SaveState, TakeAppend, disk, history
<1>4. ASSUME NEW p \in Proc, AppendPrepared(p) PROVE Alone'
  BY <1>0, <1>4 DEF AppendPrepared, history
<1>5. ASSUME NEW p \in Proc, Prepare(p) \/ Look(p) PROVE Alone'
  BY <1>0, <1>5 DEF Prepare, Look, LookForEvent, disk
<1>6. ASSUME NEW p \in Proc,
             AddWorktree(p) \/ Checkout(p) \/ OpenResume(p) \/ Load(p) \/ TakeRun(p)
      PROVE  Alone'
  BY <1>0, <1>6 DEF AddWorktree, Checkout, OpenResume, Load, TakeRun, disk, history
<1>7. ASSUME NEW p \in Proc, Ack(p) \/ Start(p) PROVE Alone'
  BY <1>0, <1>7 DEF Ack, Start, disk, history
<1>8. ASSUME NEW p \in Proc, OpenClean(p) \/ CleanWorkspace(p) \/ Remove(p) PROVE Alone'
  BY <1>0, <1>8 DEF OpenClean, CleanWorkspace, Remove, Erase, disk, history
<1>9. ASSUME NEW p \in Proc, Exit(p) PROVE Alone'
  BY <1>0, <1>9 DEF Exit, Ended, disk, history
<1>10. CASE PowerLoss
  <2>1. \A q \in Proc : pc'[q] \in {"dead", "open"}
    BY <1>10 DEF PowerLoss, Ended
  <2>2. \A q \in Proc : ~Appending(q)'
    BY <2>1
  <2>3. overlapped' = overlapped /\ (log' = log \/ log' = <<>>)
    BY <1>10, Zenon DEF PowerLoss, Erase
  <2>4. ~overlapped' => Count("prepared")' <= 1
    BY <1>0, <2>3
  <2> QED BY <2>1, <2>2, <2>4
<1>11. CASE Launcher \/ LauncherDies
  BY <1>0, <1>11
     DEF Launcher, LauncherDies, LauncherStep, ReadAck, ReadNothing, Timeout, StopChild, disk, Proc,
         history
<1>12. CASE UNCHANGED vars
  BY <1>0, <1>12 DEF vars, disk, history
<1> QED
  BY <1>1, <1>2, <1>3, <1>4, <1>5, <1>6, <1>7, <1>8, <1>9, <1>10, <1>11, <1>12 DEF Next, Step

\* A worktree has an event, and a clean with the lease meets no launch on the way to it.
LEMMA CopyStep ==
  ASSUME TypeOK, Places, Filled, Copy, [Next]_vars
  PROVE  Copy'
<1>0. /\ Launch \in Proc
      /\ log = <<>> => ~Prepared
      /\ log' = log => (Prepared' <=> Prepared)
      /\ log' = Append(log, "prepared") => Prepared'
      /\ log' = Append(log, "input") \/ log' = Append(log, "started") => (Prepared' <=> Prepared)
      /\ \A c \in Cleaner : c \in Proc /\ c # Launch /\ c # None
      /\ \A r \in Resumer : r \in Proc /\ r # Launch /\ r \notin Cleaner
  BY PreparedStep, ProcAssumption DEF Proc
<1> USE DEF TypeOK, Copy, WorktreeOwned, Goto, At, L!Acquire, L!Release, Take
<1>1. ASSUME NEW p \in Proc, Create(p) PROVE Copy'
  BY <1>0, <1>1 DEF Create, CreateStep, history
<1>2. ASSUME NEW p \in Proc,
             TakeIngest(p) \/ Ingest(p) \/ CloseIngest(p) \/ CreateRuntime(p) \/ SyncRuntime(p)
      PROVE  Copy'
  BY <1>0, <1>2, ProcAssumption
     DEF TakeIngest, Ingest, CloseIngest, CreateRuntime, SyncRuntime, disk, history, Places
<1>3. ASSUME NEW p \in Proc, SaveState(p) \/ TakeAppend(p) PROVE Copy'
  BY <1>0, <1>3 DEF SaveState, TakeAppend, disk, history
<1>4. ASSUME NEW p \in Proc, AppendPrepared(p) PROVE Copy'
  BY <1>0, <1>4 DEF AppendPrepared, history, Places, Proc
<1>5. ASSUME NEW p \in Proc, Prepare(p) \/ Look(p) PROVE Copy'
  BY <1>0, <1>5 DEF Prepare, Look, LookForEvent, disk
<1>6. ASSUME NEW p \in Proc, AddWorktree(p) \/ Checkout(p) PROVE Copy'
  BY <1>0, <1>6 DEF AddWorktree, Checkout, history, Places, Proc
<1>7. ASSUME NEW p \in Proc, OpenResume(p) \/ Load(p) \/ TakeRun(p) PROVE Copy'
  BY <1>0, <1>7 DEF OpenResume, Load, TakeRun, disk, history
<1>8. ASSUME NEW p \in Proc, Ack(p) \/ Start(p) PROVE Copy'
  BY <1>0, <1>8 DEF Ack, Start, disk, history
<1>9. ASSUME NEW p \in Proc, OpenClean(p) PROVE Copy'
  BY <1>0, <1>9 DEF OpenClean, disk
<1>10. ASSUME NEW p \in Proc, CleanWorkspace(p) PROVE Copy'
  BY <1>0, <1>10 DEF CleanWorkspace, Usable, Openable, Places, Proc, history
<1>11. ASSUME NEW p \in Proc, Remove(p) PROVE Copy'
  BY <1>0, <1>11 DEF Remove, Erase, Places, Proc, history
<1>12. ASSUME NEW p \in Proc, Exit(p) PROVE Copy'
  BY <1>0, <1>12 DEF Exit, Ended, disk, history
<1>13. CASE PowerLoss
  BY <1>0, <1>13 DEF PowerLoss, Ended, Erase
<1>14. CASE Launcher \/ LauncherDies
  BY <1>0, <1>14
     DEF Launcher, LauncherDies, LauncherStep, ReadAck, ReadNothing, Timeout, StopChild, disk, Proc,
         history
<1>15. CASE UNCHANGED vars
  BY <1>0, <1>15 DEF vars, disk, history
<1> QED
  BY <1>1, <1>2, <1>3, <1>4, <1>5, <1>6, <1>7, <1>8, <1>9, <1>10, <1>11, <1>12, <1>13, <1>14,
     <1>15 DEF Next, Step

-----------------------------------------------------------------------------
(* The start, and what the detached launcher says of it.                   *)

\* An acknowledged session is provisioned or gone.
LEMMA AcknowledgedStep ==
  ASSUME TypeOK, Places, Filled, Witnessed, Acknowledged, [Next]_vars
  PROVE  Acknowledged'
<1>0. /\ Launch \in Proc
      /\ log = <<>> => ~Prepared
      /\ log' = log => (Prepared' <=> Prepared)
      /\ log' = Append(log, "prepared") => Prepared'
      /\ log' = Append(log, "input") \/ log' = Append(log, "started") => (Prepared' <=> Prepared)
      /\ Launch \notin Resumer /\ Launch \notin Cleaner
  BY PreparedStep, ProcAssumption DEF Proc
<1> USE DEF TypeOK, Acknowledged, LauncherTruth, Goto, At
<1>1. ASSUME NEW p \in Proc, Create(p) PROVE Acknowledged'
  BY <1>0, <1>1 DEF Create, CreateStep, Filled
<1>2. ASSUME NEW p \in Proc,
             TakeIngest(p) \/ Ingest(p) \/ CloseIngest(p) \/ CreateRuntime(p) \/ SyncRuntime(p)
      PROVE  Acknowledged'
  BY <1>0, <1>2 DEF TakeIngest, Ingest, CloseIngest, CreateRuntime, SyncRuntime, disk
<1>3. ASSUME NEW p \in Proc, SaveState(p) \/ TakeAppend(p) PROVE Acknowledged'
  BY <1>0, <1>3 DEF SaveState, TakeAppend, disk
<1>4. ASSUME NEW p \in Proc, AppendPrepared(p) PROVE Acknowledged'
  BY <1>0, <1>4 DEF AppendPrepared
<1>5. ASSUME NEW p \in Proc, Prepare(p) \/ Look(p) PROVE Acknowledged'
  BY <1>0, <1>5 DEF Prepare, Look, disk
<1>6. ASSUME NEW p \in Proc,
             AddWorktree(p) \/ Checkout(p) \/ OpenResume(p) \/ Load(p) \/ TakeRun(p)
      PROVE  Acknowledged'
  BY <1>0, <1>6 DEF AddWorktree, Checkout, OpenResume, Load, TakeRun, disk
<1>7. ASSUME NEW p \in Proc, Ack(p) PROVE Acknowledged'
  <2>1. stage \in {"logged", "removed", "gone"} /\ (stage = "logged" => Prepared)
    BY <1>7 DEF Ack, Filled, Witnessed, Past
  <2>2. disk' = disk /\ (Prepared' <=> Prepared) /\ launcher' = launcher /\ (told => told')
    BY <1>0, <1>7 DEF Ack, disk
  <2>3. pc'[Launch] \in {"start", "running"} => told' \/ launcher = "off"
    BY <1>0, <1>7 DEF Ack
  <2>4. launcher = "failed" => pc'[Launch] = "dead"
    BY <1>0, <1>7 DEF Ack
  <2> QED BY <2>1, <2>2, <2>3, <2>4 DEF disk
<1>8. ASSUME NEW p \in Proc, Start(p) PROVE Acknowledged'
  BY <1>0, <1>8 DEF Start
<1>9. ASSUME NEW p \in Proc, OpenClean(p) \/ CleanWorkspace(p) PROVE Acknowledged'
  BY <1>0, <1>9 DEF OpenClean, CleanWorkspace, disk
<1>10. ASSUME NEW p \in Proc, Remove(p) PROVE Acknowledged'
  BY <1>0, <1>10 DEF Remove, Erase, Places
<1>11. ASSUME NEW p \in Proc, Exit(p) PROVE Acknowledged'
  BY <1>0, <1>11 DEF Exit, Ended, disk
<1>12. CASE PowerLoss
  BY <1>0, <1>12 DEF PowerLoss, Ended, Erase, Filled
<1>13. CASE Launcher \/ LauncherDies
  BY <1>0, <1>13
     DEF Launcher, LauncherDies, LauncherStep, ReadAck, ReadNothing, Timeout, StopChild, disk
<1>14. CASE UNCHANGED vars
  BY <1>0, <1>14 DEF vars, disk
<1> QED
  BY <1>1, <1>2, <1>3, <1>4, <1>5, <1>6, <1>7, <1>8, <1>9, <1>10, <1>11, <1>12, <1>13, <1>14
     DEF Next, Step

\* An event that is appended keeps every start provisioned, if it may start.
LEMMA StartsAppend ==
  ASSUME TypeOK, StartsProvisioned, NEW a \in Events, log' = Append(log, a),
         a = "started" => Prepared /\ Count("input") = Inputs
  PROVE  StartsProvisioned'
<1> DEFINE n == Len(log) + 1
<1>1. log \in Seq(Events) /\ Len(log) \in Nat /\ DOMAIN log = 1..Len(log)
  BY DEF TypeOK, Events
<1>2. Len(log') = n /\ log'[n] = a /\ \A i \in 1..Len(log) : log'[i] = log[i]
  BY <1>1
<1> SUFFICES ASSUME NEW i \in 1..n, log'[i] = "started"
             PROVE  /\ \E j \in 1..i : log'[j] = "prepared"
                    /\ Cardinality({j \in 1..i : log'[j] = "input"}) = Inputs
  BY <1>2 DEF StartsProvisioned
<1>3. CASE i \in 1..Len(log)
  <2>1. \A j \in 1..i : j \in 1..Len(log) /\ log'[j] = log[j]
    BY <1>1, <1>2, <1>3
  <2>2. {j \in 1..i : log'[j] = "input"} = {j \in 1..i : log[j] = "input"}
    BY <2>1
  <2>3. /\ \E j \in 1..i : log[j] = "prepared"
        /\ Cardinality({j \in 1..i : log[j] = "input"}) = Inputs
    BY <1>2, <1>3 DEF StartsProvisioned
  <2> QED BY <2>1, <2>2, <2>3
<1>4. CASE i = n
  <2>1. a = "started"
    BY <1>2, <1>4
  <2>2. PICK j \in DOMAIN log : log[j] = "prepared"
    <3>1. Count("prepared") \in Nat /\ Count("prepared") > 0
      BY <2>1, CountType DEF Prepared
    <3> QED BY <3>1, CountType
  <2>3. {k \in 1..n : log'[k] = "input"} = {k \in DOMAIN log : log[k] = "input"}
    BY <1>1, <1>2, <2>1
  <2>4. Cardinality({k \in 1..n : log'[k] = "input"}) = Inputs
    BY <2>1, <2>3 DEF Count
  <2>5. j \in 1..n /\ log'[j] = "prepared"
    BY <1>1, <1>2, <2>2
  <2> QED BY <1>4, <2>4, <2>5
<1>5. i \in 1..Len(log) \/ i = n
  BY <1>1
<1> QED
  BY <1>3, <1>4, <1>5

\* Every start is of a provisioned session.
LEMMA StartsStep ==
  ASSUME TypeOK, Places, Filled, Furnished, Witnessed, StartsProvisioned, [Next]_vars
  PROVE  StartsProvisioned'
<1>1. log' = log => StartsProvisioned'
  BY DEF StartsProvisioned
<1>2. log' = <<>> => StartsProvisioned'
  BY DEF StartsProvisioned
<1>3. ASSUME NEW p \in Proc, Ingest(p) \/ AppendPrepared(p) PROVE StartsProvisioned'
  BY <1>3, StartsAppend DEF Ingest, AppendPrepared, Events
<1>4. ASSUME NEW p \in Proc, Start(p) PROVE StartsProvisioned'
  <2>1. Prepared /\ Count("input") = Inputs
    BY <1>4 DEF Start, At, Witnessed, Furnished
  <2> QED BY <1>1, <1>4, <2>1, StartsAppend DEF Start, Events
<1>5. ASSUME NEW p \in Proc, Step(p), log' # log
      PROVE  Ingest(p) \/ AppendPrepared(p) \/ Start(p) \/ Remove(p)
  BY <1>5
     DEF Step, Create, CreateStep, TakeIngest, CloseIngest, CreateRuntime, SyncRuntime, Prepare,
         SaveState, TakeAppend, AddWorktree, Checkout, OpenResume, Look, Load, TakeRun, Ack,
         OpenClean, CleanWorkspace, Exit, disk
<1>6. ASSUME NEW p \in Proc, Remove(p) PROVE log' = <<>>
  BY <1>6 DEF Remove, Erase
<1>7. CASE PowerLoss
  BY <1>1, <1>2, <1>7, Zenon DEF PowerLoss, Erase
<1>8. CASE Launcher \/ LauncherDies
  BY <1>1, <1>8 DEF Launcher, LauncherDies, LauncherStep, ReadAck, ReadNothing, Timeout, disk
<1>9. CASE UNCHANGED vars
  BY <1>1, <1>9 DEF vars, disk
<1> QED
  BY <1>1, <1>2, <1>3, <1>4, <1>5, <1>6, <1>7, <1>8, <1>9 DEF Next

-----------------------------------------------------------------------------
(* The theorems.                                                           *)

\* The invariant holds before anything exists.
LEMMA ProvisioningInit ==
  ASSUME Init
  PROVE  IInv
<1>1. TypeOK
  <2>1. pc \in [Proc -> PCs]
    BY DEF Init, PCs
  <2>2. found \in [Proc -> BOOLEAN]
    BY DEF Init
  <2>3. /\ state \in BOOLEAN /\ told \in BOOLEAN
        /\ overlapped \in BOOLEAN /\ forced \in BOOLEAN /\ powerLost \in BOOLEAN
    BY Zenon DEF Init
  <2>4. /\ mode \in {"current", "head-copy"} /\ stage \in Stages
        /\ log \in Seq({"input", "prepared", "started"})
        /\ runtime \in {"none", "torn", "saved"} /\ worktree \in {"none", "partial", "whole"}
        /\ holder \in Proc \cup {None}
        /\ launcher \in {"off", "waiting", "receipt", "failed", "gone"}
    BY DEF Init, L!Init, Stages
  <2> QED BY <2>1, <2>2, <2>3, <2>4 DEF TypeOK
<1>2. Count("prepared") = 0 /\ Count("started") = 0 /\ ~Prepared
  BY <1>1, CountType DEF Init, Prepared
<1>3. Launch \in Proc /\ \A p \in Resumer \cup Cleaner : p \in Proc /\ p # Launch
  BY ProcAssumption DEF Proc
<1>4. \A p \in Proc : pc[p] = (IF p = Launch THEN "mkdir" ELSE "open") /\ found[p] = FALSE
  BY DEF Init
<1>5. Places /\ Filled /\ Furnished /\ Witnessed
  BY <1>2, <1>3, <1>4 DEF Init, Places, Filled, Furnished, Witnessed, Past
<1>6. StateFirst /\ Alone
  BY <1>2, <1>3, <1>4 DEF Init, StateFirst, StateBeforeEvent, Alone, PreparedOnceAlone, Appending
<1>7. Copy /\ Acknowledged
  BY <1>2, <1>3, <1>4 DEF Init, Copy, WorktreeOwned, Acknowledged, LauncherTruth
<1>8. StartsProvisioned
  BY DEF Init, StartsProvisioned
<1> QED
  BY <1>1, <1>5, <1>6, <1>7, <1>8 DEF IInv

\* Every step keeps the invariant.
LEMMA ProvisioningStep ==
  ASSUME IInv, [Next]_vars
  PROVE  IInv'
  BY TypeStep, PlacesStep, FilledStep, FurnishedStep, WitnessedStep, StateFirstStep, AloneStep,
     CopyStep, AcknowledgedStep, StartsStep DEF IInv

\* The inductive invariant of a session directory's life (v2.go:280-426).
THEOREM ProvisioningInvariant == Spec => []IInv
<1>1. Init => IInv
  BY ProvisioningInit
<1>2. IInv /\ [Next]_vars => IInv'
  BY ProvisioningStep
<1> QED
  BY <1>1, <1>2, PTL DEF Spec

\* Every part of the session keeps its type.
THEOREM ProvisioningTypes == Spec => []TypeOK
<1>1. IInv => TypeOK
  BY DEF IInv
<1> QED
  BY <1>1, ProvisioningInvariant, PTL

\* Whoever starts the session finds every input and the workspace event in
\* its log, whatever died before (engine.go:150-158, v2.go:409-426).
THEOREM OnlyProvisionedSessionsStart == Spec => []StartsProvisioned
<1>1. IInv => StartsProvisioned
  BY DEF IInv
<1> QED
  BY <1>1, ProvisioningInvariant, PTL

\* One workspace event, after its file: the note of two processes that are
\* about to append it and the power loss are the only exceptions
\* (workspace.go:128-130, workspace_test.go:61).
THEOREM TheWorkspaceIsRecorded == Spec => []WorkspaceRecorded
<1>1. ASSUME IInv PROVE WorkspaceRecorded
  BY <1>1 DEF IInv, Alone, StateFirst, WorkspaceRecorded, PreparedOnceAlone
<1> QED
  BY <1>1, ProvisioningInvariant, PTL

\* No clean that respects the lease leaves a worktree nobody owns
\* (sessionstore.go:177-217).
THEOREM NoWorktreeIsOrphaned == Spec => []WorktreeOwned
<1>1. IInv => WorktreeOwned
  BY DEF IInv, Copy
<1> QED
  BY <1>1, ProvisioningInvariant, PTL

\* The detached launcher's receipt and its failure are both true
\* (detach_unix.go:100-157).
THEOREM TheLauncherTellsTheTruth == Spec => []LauncherTruth
<1>1. IInv => LauncherTruth
  BY DEF IInv, Acknowledged
<1> QED
  BY <1>1, ProvisioningInvariant, PTL
=============================================================================
