---------------------------- MODULE Provisioning ----------------------------
(***************************************************************************)
(* How a session comes to exist, is made ready, is started and is removed: *)
(* v2RunRecipe and v2RunResume (cmd/convo-relay/v2.go), Create (session),  *)
(* Persist (namedinputs), SaveRuntime (relayv2), Prepare, Recover and      *)
(* Cleanup (workspace), CleanSession (sessionstore), and the detached      *)
(* launcher that waits for its child's acknowledgment (detach_unix.go).    *)
(*                                                                         *)
(* One launch, operators who resume and operators who clean act on one     *)
(* directory.  Only the event writer takes the lease: between two appends  *)
(* nobody owns the session.  Any process may fail or die at any step, and  *)
(* so may the machine.                                                     *)
(*                                                                         *)
(* An Append is durable when it returns (EventLog) and the lease is the    *)
(* abstract one (WriterLease).  RemoveAll is one step; WriterLease takes   *)
(* it apart.  Recover reads the events and then the state file, so these   *)
(* are two steps.                                                          *)
(***************************************************************************)
EXTENDS Naturals, Sequences, FiniteSets

CONSTANTS Launch,    \* the process of "run", or the child of "run --detach"
          Resumer,   \* processes of "resume"
          Cleaner,   \* processes of "clean", with or without --force
          None,      \* no process
          Inputs     \* number of named inputs of the plan

Proc == {Launch} \cup Resumer \cup Cleaner

ASSUME ProcAssumption ==
  None \notin Proc /\ Launch \notin Resumer \cup Cleaner /\ Resumer \cap Cleaner = {}
ASSUME InputsAssumption == Inputs \in Nat

VARIABLES
  mode,        \* workspace mode of the launch
  stage,       \* what Create has made of the directory
  log,         \* types of the events, all of them durable
  runtime,     \* runtime/v2-runtime.json
  state,       \* runtime/workspace.json exists
  worktree,    \* the detached worktree and its registration in the repository
  holder,      \* the process that owns the writer lease
  pc,          \* where each process is
  found,       \* whether it saw workspace.prepared in the log
  launcher,    \* the detached launcher
  told,        \* the startup acknowledgment is in the pipe
  overlapped,  \* two processes were about to append the event at once (history)
  forced,      \* a clean --force bypassed the lease (history)
  powerLost    \* the machine stopped (history)

disk    == <<stage, log, runtime, state, worktree>>
history == <<overlapped, forced, powerLost>>
vars    == <<mode, disk, holder, pc, found, launcher, told, history>>

L == INSTANCE Lease WITH Writer <- Proc

Stages == {"none", "empty", "planned", "logged", "removed", "gone"}
PCs == {"mkdir", "plan", "log", "ingest", "ingesting", "runtime", "sync",
        "prepare", "save", "append", "appending", "worktree", "checkout",
        "open", "look", "load", "run", "ack", "start", "running",
        "cleaning", "removing", "dead"}

TypeOK ==
  /\ mode \in {"current", "head-copy"} /\ stage \in Stages
  /\ log \in Seq({"input", "prepared", "started"})
  /\ runtime \in {"none", "torn", "saved"} /\ state \in BOOLEAN
  /\ worktree \in {"none", "partial", "whole"}
  /\ holder \in Proc \cup {None}
  /\ pc \in [Proc -> PCs] /\ found \in [Proc -> BOOLEAN]
  /\ launcher \in {"off", "waiting", "receipt", "failed", "gone"}
  /\ told \in BOOLEAN
  /\ overlapped \in BOOLEAN /\ forced \in BOOLEAN /\ powerLost \in BOOLEAN

Init ==
  /\ mode \in {"current", "head-copy"} /\ stage = "none" /\ log = <<>>
  /\ runtime = "none" /\ state = FALSE /\ worktree = "none"
  /\ L!Init
  /\ pc = [p \in Proc |-> IF p = Launch THEN "mkdir" ELSE "open"]
  /\ found = [p \in Proc |-> FALSE]
  /\ launcher \in {"off", "waiting"} /\ told = FALSE
  /\ overlapped = FALSE /\ forced = FALSE /\ powerLost = FALSE

-----------------------------------------------------------------------------
Goto(p, l) == pc' = [pc EXCEPT ![p] = l]
At(p, l)   == pc[p] = l /\ UNCHANGED <<mode, launcher>>
Count(e)   == Cardinality({i \in DOMAIN log : log[i] = e})
Prepared   == Count("prepared") > 0

\* session.Open needs session.json; everything else needs the directory.
Openable == stage \in {"planned", "logged"}

\* preparedEvent refuses a log with two of them.
Readable == Count("prepared") <= 1

\* OpenWriter: fails at once when another process writes.
Take(p) == Openable /\ L!Acquire(p)

-----------------------------------------------------------------------------
\* CreateWithOptions: the directory, session.json and the empty log.  A
\* session.json that is only partly written does not open.
CreateStep(p, from, to, s) ==
  /\ At(p, from) /\ stage' = s /\ Goto(p, to)
  /\ UNCHANGED <<log, runtime, state, worktree, holder, found, told, history>>

Create(p) ==
  \/ stage = "none"    /\ CreateStep(p, "mkdir", "plan", "empty")
  \/ stage = "empty"   /\ CreateStep(p, "plan", "log", "planned")
  \/ stage = "planned" /\ CreateStep(p, "log", IF Inputs = 0 THEN "runtime" ELSE "ingest", "logged")

\* Persist: one writer for all the inputs, closed when it returns.
TakeIngest(p) ==
  /\ At(p, "ingest") /\ Take(p) /\ Goto(p, "ingesting")
  /\ UNCHANGED <<disk, found, told, history>>

Ingest(p) ==
  /\ At(p, "ingesting") /\ stage = "logged" /\ Count("input") < Inputs
  /\ log' = Append(log, "input")
  /\ UNCHANGED <<stage, runtime, state, worktree, holder, pc, found, told, history>>

CloseIngest(p) ==
  /\ At(p, "ingesting") /\ Count("input") = Inputs
  /\ L!Release(p) /\ Goto(p, "runtime")
  /\ UNCHANGED <<disk, found, told, history>>

\* SaveRuntime: an exclusive create, the bytes and an fsync.  It makes the
\* directory of a session that was removed again, with nothing else in it; a
\* file that is removed in between is synced all the same.
CreateRuntime(p) ==
  /\ At(p, "runtime") /\ runtime = "none"
  /\ runtime' = "torn" /\ Goto(p, "sync")
  /\ UNCHANGED <<stage, log, state, worktree, holder, found, told, history>>

SyncRuntime(p) ==
  /\ At(p, "sync") /\ runtime' = (IF runtime = "torn" THEN "saved" ELSE runtime)
  /\ Goto(p, "prepare")
  /\ UNCHANGED <<stage, log, state, worktree, holder, found, told, history>>

-----------------------------------------------------------------------------
\* A process that has not seen the event and goes on towards appending it.
Appending(q) == pc[q] \in {"load", "save", "append", "appending"} /\ ~found[q]

\* Reading the log for the event, and the note of who else is about to.
LookForEvent(p) ==
  /\ Readable
  /\ found' = [found EXCEPT ![p] = Prepared]
  /\ overlapped' = (overlapped \/ (~Prepared /\ \E q \in Proc \ {p} : Appending(q)))
  /\ UNCHANGED <<forced, powerLost>>

\* Mutant of Prepare: the event first, as for a head-copy.
PrepareEventFirst(p) ==
  /\ At(p, "prepare") /\ LookForEvent(p)
  /\ ~state /\ ~Prepared
  /\ Goto(p, "append")
  /\ UNCHANGED <<disk, holder, told>>

\* Prepare up to its first effect; a log that is not there has no event.  Only
\* a state file or an event that is there already sends it to Recover, and only
\* the launch calls it.
Prepare(p) ==
  /\ At(p, "prepare") /\ LookForEvent(p)
  /\ ~state /\ ~Prepared
  /\ Goto(p, IF mode = "current" THEN "save" ELSE "append")
  /\ UNCHANGED <<disk, holder, told>>

\* save: a synced temporary file and a rename, in the directory of the runtime.
SaveState(p) ==
  /\ At(p, "save") /\ (Openable \/ runtime # "none")
  /\ state' = TRUE /\ Goto(p, "append")
  /\ UNCHANGED <<stage, log, runtime, worktree, holder, found, told, history>>

TakeAppend(p) ==
  /\ At(p, "append") /\ Take(p) /\ Goto(p, "appending")
  /\ UNCHANGED <<disk, found, told, history>>

\* appendPrepared: the event is durable and the writer closed; the launch of
\* a head-copy makes its worktree next.
AppendPrepared(p) ==
  /\ At(p, "appending") /\ Openable
  /\ log' = Append(log, "prepared")
  /\ L!Release(p)
  /\ Goto(p, IF mode = "head-copy" THEN "worktree" ELSE "run")
  /\ UNCHANGED <<stage, runtime, state, worktree, found, told, history>>

\* Mutant of AddWorktree: a third state that nobody knows.
AddWorktreeUnchecked(p) ==
  /\ At(p, "worktree") /\ worktree = "none"
  /\ worktree' = "registered" /\ Goto(p, "run")
  /\ UNCHANGED <<stage, log, runtime, state, holder, found, told, history>>

\* git worktree add registers the copy and then fills it; it makes missing
\* parent directories itself, so it does not need the session directory.
AddWorktree(p) ==
  /\ At(p, "worktree") /\ worktree = "none"
  /\ worktree' = "partial" /\ Goto(p, "checkout")
  /\ UNCHANGED <<stage, log, runtime, state, holder, found, told, history>>

\* The copy is whole; without the launch's subdirectory it is removed again.
Checkout(p) ==
  /\ At(p, "checkout") /\ worktree = "partial"
  /\ \/ worktree' = "whole" /\ Goto(p, "run")
     \/ worktree' = "none"  /\ Goto(p, "dead")
  /\ UNCHANGED <<stage, log, runtime, state, holder, found, told, history>>

-----------------------------------------------------------------------------
\* v2RunResume: the plan and the runtime snapshot must load.
OpenResume(p) ==
  /\ p \in Resumer /\ At(p, "open") /\ Openable /\ runtime = "saved" /\ Goto(p, "look")
  /\ UNCHANGED <<disk, holder, found, told, history>>

\* Recover, first read: the log.
Look(p) ==
  /\ At(p, "look") /\ Openable /\ LookForEvent(p) /\ Goto(p, "load")
  /\ UNCHANGED <<disk, holder, told>>

\* rebuildHeadCopy compares HEAD and the tree with the event; it does not
\* look at the files of the copy.
Usable == worktree # "none"

\* Mutant of Load: a resume needs no event.
LoadTrusting(p) ==
  /\ At(p, "load") /\ Openable
  /\ (mode = "current" => state) /\ Goto(p, "run")
  /\ UNCHANGED <<disk, holder, found, told, history>>

\* Recover, second read: the state file.  A current workspace repairs its
\* missing event; nothing else is repaired.
Load(p) ==
  /\ At(p, "load") /\ Openable
  /\ \/ mode = "current" /\ state /\ Goto(p, IF found[p] THEN "run" ELSE "append")
     \/ mode = "head-copy" /\ ~state /\ found[p] /\ Usable /\ Goto(p, "run")
  /\ UNCHANGED <<disk, holder, found, told, history>>

-----------------------------------------------------------------------------
\* v2PrepareExecution takes the lease for the whole run.
TakeRun(p) ==
  /\ At(p, "run") /\ Take(p) /\ Goto(p, "ack")
  /\ UNCHANGED <<disk, found, told, history>>

\* The acknowledgment of a detached child; a pipe nobody reads ends the run.
Ack(p) ==
  /\ At(p, "ack")
  /\ \/ /\ p = Launch /\ launcher = "waiting"
        /\ told' = TRUE /\ Goto(p, "start") /\ UNCHANGED holder
     \/ /\ p = Launch /\ launcher = "gone"
        /\ L!Release(p) /\ Goto(p, "dead") /\ UNCHANGED told
     \/ /\ p # Launch \/ launcher = "off"
        /\ Goto(p, "start") /\ UNCHANGED <<told, holder>>
  /\ UNCHANGED <<disk, found, history>>

\* engine.Run or engine.Resume: the log must replay, Run accepts only the
\* provisioning prefix, and the first of them appends session.started.
Start(p) ==
  /\ At(p, "start") /\ stage = "logged" /\ Readable
  /\ p = Launch => Count("started") = 0
  /\ log' = IF Count("started") = 0 THEN Append(log, "started") ELSE log
  /\ Goto(p, "running")
  /\ UNCHANGED <<stage, runtime, state, worktree, holder, found, told, history>>

-----------------------------------------------------------------------------
\* CleanSession: the lease, or --force.
OpenClean(p) ==
  /\ p \in Cleaner /\ At(p, "open") /\ Openable /\ Goto(p, "cleaning")
  /\ \/ L!Acquire(p) /\ UNCHANGED forced
     \/ forced' = TRUE /\ UNCHANGED holder
  /\ UNCHANGED <<disk, found, told, overlapped, powerLost>>

\* Mutant of CleanWorkspace: the directory goes and the registration stays.
CleanWorkspaceForgetful(p) ==
  /\ At(p, "cleaning") /\ Openable /\ Readable /\ Goto(p, "removing")
  /\ UNCHANGED <<disk, holder, found, told, history>>

\* workspace.Cleanup: exactly the worktree that the event names, if the event
\* names one; a worktree that cannot be found again is an error.
CleanWorkspace(p) ==
  /\ At(p, "cleaning") /\ Openable /\ Readable /\ Goto(p, "removing")
  /\ IF mode = "head-copy" /\ Prepared
     THEN Usable /\ worktree' = "none"
     ELSE UNCHANGED worktree
  /\ UNCHANGED <<stage, log, runtime, state, holder, found, told, history>>

\* The directory's contents are gone.
Erase(s) == stage' = s /\ log' = <<>> /\ runtime' = "none" /\ state' = FALSE

Remove(p) ==
  /\ At(p, "removing") /\ Erase("removed") /\ Goto(p, "open")
  /\ IF holder = p THEN L!Release(p) ELSE UNCHANGED holder
  /\ UNCHANGED <<worktree, found, told, history>>

-----------------------------------------------------------------------------
\* Where a process is after it ended: a command can be given again, a launch
\* cannot.
Ended(p) == IF p = Launch THEN "dead" ELSE "open"

\* The process returns, with or without an error, or dies.
Exit(p) ==
  /\ pc[p] # Ended(p) /\ Goto(p, Ended(p))
  /\ IF holder = p THEN L!Release(p) ELSE UNCHANGED holder
  /\ UNCHANGED <<mode, disk, found, launcher, told, history>>

\* The machine stops.  Appended events are on the disk; the names of the two
\* runtime files, the worktree and, until Create syncs it, session.json may
\* not be, nor may the directory itself, whose parent is never synced.
PowerLoss ==
  /\ pc' = [p \in Proc |-> Ended(p)] /\ holder' = None
  /\ launcher' = IF launcher = "waiting" THEN "gone" ELSE launcher
  /\ powerLost' = TRUE
  /\ worktree' \in {worktree, "none"} \cup (IF worktree = "whole" THEN {"partial"} ELSE {})
  /\ \/ /\ stage' \in {stage} \cup (IF stage = "planned" THEN {"empty"} ELSE {})
        /\ runtime' \in {runtime, "none"} /\ state' \in {state, FALSE}
        /\ UNCHANGED log
     \/ stage \notin {"none", "removed"} /\ Erase("gone")
  /\ UNCHANGED <<mode, found, told, overlapped, forced>>

-----------------------------------------------------------------------------
\* startDetachedRun and readDetachedStartupAck.
LauncherStep(to) ==
  /\ launcher = "waiting" /\ launcher' = to
  /\ UNCHANGED <<mode, disk, found, told, history>>

\* stopDetachedChild: Kill, then Wait.
StopChild ==
  /\ Goto(Launch, "dead")
  /\ IF holder = Launch THEN L!Release(Launch) ELSE UNCHANGED holder

\* Mutant of Timeout: the child is left alone.
TimeoutSparing == LauncherStep("failed") /\ UNCHANGED <<pc, holder>>

ReadAck     == told /\ LauncherStep("receipt") /\ UNCHANGED <<pc, holder>>
ReadNothing == ~told /\ pc[Launch] = "dead" /\ LauncherStep("failed") /\ StopChild
Timeout     == LauncherStep("failed") /\ StopChild

\* The launcher itself is killed before it has read anything.
LauncherDies == LauncherStep("gone") /\ UNCHANGED <<pc, holder>>

\* Mutant of Launcher: it waits for its child as long as that takes.
LauncherUntimed == ReadAck \/ ReadNothing

Launcher == ReadAck \/ ReadNothing \/ Timeout

Step(p) ==
  \/ Create(p) \/ TakeIngest(p) \/ Ingest(p) \/ CloseIngest(p)
  \/ CreateRuntime(p) \/ SyncRuntime(p)
  \/ Prepare(p) \/ SaveState(p) \/ TakeAppend(p) \/ AppendPrepared(p)
  \/ AddWorktree(p) \/ Checkout(p)
  \/ OpenResume(p) \/ Look(p) \/ Load(p)
  \/ TakeRun(p) \/ Ack(p) \/ Start(p)
  \/ OpenClean(p) \/ CleanWorkspace(p) \/ Remove(p)
  \/ Exit(p)

Next == (\E p \in Proc : Step(p)) \/ PowerLoss \/ Launcher \/ LauncherDies

\* The launcher's timer runs whatever its child does.
Spec == Init /\ [][Next]_vars /\ WF_vars(Launcher)

-----------------------------------------------------------------------------
\* A session starts only when it is fully provisioned: every named input is
\* recorded and the workspace event precedes session.started, whoever starts
\* it and whatever died before (engine.go:150-158, v2.go:280-299, 409-426).
StartsProvisioned ==
  \A i \in 1..Len(log) :
    log[i] = "started" =>
      /\ \E j \in 1..i : log[j] = "prepared"
      /\ Cardinality({j \in 1..i : log[j] = "input"}) = Inputs

\* Crashes, restarts and repairs leave one workspace event as long as no two
\* processes look for it and append it at once (workspace_test.go:61).
PreparedOnceAlone == ~overlapped => Count("prepared") <= 1

\* workspace_test.go:61: "repairs its missing event exactly once".
PreparedOnce == Count("prepared") <= 1

\* An interruption of the process leaves the state file without its event,
\* never the event without the file (workspace.go:128-130).  After a power
\* loss it can: the rename's directory is not synced.
StateBeforeEvent == mode = "current" /\ Prepared /\ ~powerLost => state

\* The record of the workspace and the workspace agree: one event, after its file.
WorkspaceRecorded == PreparedOnceAlone /\ StateBeforeEvent

\* Every registered worktree is owned by a recorded event, and a clean that
\* respects the lease removes it before the directory goes
\* (workspace.go:111-113, sessionstore.go:177-217).
WorktreeOwned ==
  worktree # "none" /\ ~forced => Prepared \/ (stage = "gone" /\ powerLost)

\* A receipt is only given for a session that was provisioned, a launcher that
\* reports a failure leaves no child behind, and a detached child that could
\* not acknowledge does not run (detach_unix.go:100-157, v2.go:668-682).
LauncherTruth ==
  /\ launcher = "receipt" => Prepared \/ stage \in {"removed", "gone"}
  /\ launcher = "failed" => pc[Launch] = "dead"
  /\ pc[Launch] \in {"start", "running"} => told \/ launcher = "off"

\* The launcher always answers, also when its child hangs.
LauncherAnswers == launcher = "waiting" ~> launcher # "waiting"
=============================================================================
