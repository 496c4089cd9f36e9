# Convo Relay in TLA+

Specifications, model-checking configurations and proofs for convo-relay, the
Go program in `src/` that runs dialogues between AI backends. Paths below are
relative to `src/`; every definition that stands for code is mapped to its
lines in `PROJECT.json`.

## The system

A *session* is a directory. `session.json` is an immutable plan, `events.jsonl`
an append-only log and the only authority on what happened, `blobs/sha256` the
payloads the events refer to, `runtime/` local state that is not portable. A
command opens the session, replays the log into memory, acts by appending
events, and exits; there is no server. Whatever two commands do to each other
they do through these files.

| Component | Keeps | Operations | Hard parts |
|---|---|---|---|
| Engine (`internal/engine`) | `executionState`, a fold of the log | `Run`, `Resume`, `QueueSteering`, `ApproveChild`, `RejectChild` | a crash between any two appends; cancellation during a call, a retry's sleep or a child; convergence, budget, facilitator and reducer competing for the end; child sessions run in the parent |
| Event log (`internal/eventlog/writer.go`) | `events.jsonl`, next sequence number, poison | `OpenWriter`, `Append`, `Close`, replay | torn lines, short writes, failed fsyncs, power loss |
| Writer lease (`writer_lock.go`) | `runtime/events.lock`, a registry per process | acquire, release, probe | two processes, several callers in one, the directory removed under them |
| Blob store (`internal/blobstore`) | one file per digest | `Open`, `PutMediaType`, `Verify`, `Sweep` | concurrent writers of one digest, leftovers of a crash, durability of names |
| Session (`internal/session`) | the directory | `Create`, `Open` | partial creation |
| Workspace (`internal/workspace`) | `runtime/workspace.json`, the event `workspace.prepared`, a git worktree | `Prepare`, `Recover`, `Cleanup` | three stores that must agree after a crash; the lease is held only inside an append |
| Launch, resume, detach (`cmd/convo-relay`) | a pipe between launcher and child | `v2RunRecipe`, `v2RunResume`, `startDetachedRun` | a session is visible before it is ready; a timer races an acknowledgment |
| Session store (`internal/sessionstore`) | the relay home | list, resolve, `CleanSession`, `CleanupSessions` | cleaning what somebody is about to use |
| Views and reports (`internal/sessionview`, `relayv2/view.go`, `v2_read.go`) | nothing | status, transcript, ledger, graph, diagnostics, report | a second reading of the log, made while others write; the log and the lease are asked one after the other |
| Portable export (`v2_read.go`, `bundle`) | a directory at the output path | `export create --portable`, verification | two exports of one target; the session goes on meanwhile |
| Providers (`internal/provider`) | one conversation per slot | a turn with watchdog, stall interrupt and drain grace | timer, stream, cancellation and final observation race |
| Recipes, plan, compiler, readiness (`internal/recipes`, `internal/plan`, `plan`, `internal/readiness`) | the settings | launches, `ForStaticChild`, `ForChild`, `recipes compile`, the closure of backends | sessions nest: what is checked before a launch must hold at every level below it |
| Formats, canonical JSON, results | nothing | pure encoding and checking | boundary values |

How they interact: the engine calls `Append` (synchronous: the event is durable
before `reduceEvent` sees it), the provider boundary (one call, an answer or an
error, cancelled through a context), and itself for a child session, whose
directory, lease and log are its own. `Append` verifies blobs before it writes.
The launch records inputs, a runtime snapshot and the workspace in separate
steps, takes the lease for each append and then once for the run.

What makes each correct: a lease has one owner and is never left behind; a log
always replays and loses nothing it confirmed; a digest names its bytes; the
engine appends only what its replay accepts, pays once for an answer, keeps
budgets, ends every run and records no failure it caused itself; a session
starts only when provisioned, and its worktree does not outlive it; the readers
say what the engine, which replays the same log, acts on, and a status that was
true while they looked; a bundle is whole and never replaced; every plan is
valid, however it was made, and nesting ends.

## The modules

Arrows read "is written against".

    Relay  <-refines-  Engine                      DurableLog <-refines- EventLog -> BlobStore
                                                   Lease <-refines- WriterLease      |
                       Provisioning -> Lease       Lease <---------------------------+
                       ProviderTurn (below Engine: what a reply is)
    ReadSide -> Views -> Engine
             -> PortableExport
    Composition (above Engine: which sessions there are, and their plans)

* **Lease** is what the writer lease promises; **WriterLease** is the protocol,
  one system call a step: registry under its mutex, `open`, `flock`, the identity
  check, release, retries, the probe, and a cleaner that unlinks the file and
  removes the directories. Its actors are callers, several to a process; a
  process can die.
* **BlobStore** has `openStore`, `PutMediaType` step by step, and what process
  death and power loss leave. **EventLog** extends it with `OpenWriter` and its
  repairs, `Append` as a write and an fsync that can each fail, poisoning and
  `Close`. The file is its complete events and the state of its end; there is a
  copy for what the disk has. **DurableLog** is the promise the engine relies on.
* **Engine** has one state, `st`, the `executionState` of the code, and one
  operator for each event that `reduceEvent` takes; a step of a run appends one
  event by `Append`, exactly as the code does, so a live run and a replay cannot differ in the model unless
  they differ in the code. `pc` is where the runner is in `execute`,
  `serviceActiveTurn`, `callActiveAttempt` or `servicePendingChildren`.
  Operators run, resume with prompts and grants, steer, approve and reject; a
  run can be cancelled or die anywhere. `rejected` becomes true if `reduceEvent`
  refuses an event that is already durable. A child session is a record in
  `kids` with the outcomes the engine can have; its inner steps are those of
  Engine again and are not repeated. **Relay** is the promise to the reader of a
  conversation.
* **Provisioning** is the life of the directory around the engine: `Create`,
  `Persist`, `SaveRuntime`, `Prepare` in both modes, `Recover`, the start, and
  `CleanSession`, with the detached launcher as one more process. Processes are
  one launch, resumers and cleaners; a resumer or cleaner may come back, a
  launch may not. The log is the sequence of its event types: what EventLog says
  of it (an append is durable when it returns) is taken from there, and the
  lease from Lease.

* **ProviderTurn** is one provider slot: `RunTurn`, the event loop with its two
  timers and the interrupt goroutine, the classification of the outcome, the
  session handle that is kept or dropped, and the continuation in the log that a
  resumed process starts from. AgentBus is outside the repository and may do
  anything; a Codex slot has no identifier before the provider gives one. Each
  branch of a `select` is an action, so that any ready branch may be taken.

* **Views** extends Engine with what `internal/sessionview` and `relayv2/view.go`
  derive from a log: status, transcript, ledger, graph, diagnostics and the
  report. Engine has no log, since its state is the fold of one; `Appended` is
  the event that a step of Engine makes durable, and **ReadSide** collects these
  in `log`. So the engine's state and the views are two readings of one log, and
  `ViewsAgree` compares them.
* **ReadSide** composes the running session with the commands that look at it:
  one that reads the log and asks for the lease later, others that hold the
  lease for the moment of a probe, and exporters. **PortableExport** is the
  publication of a bundle: payload by payload, manifest, verification, a look at
  the target and the rename; a command may fail or die at each step.
* **Composition** is where plans come from. Its state is a tree of sessions with
  their plans; a launch (flags, recipe or supplied plan) puts the root there,
  declared steps and requests add children. `Valid` is `Validate` of `plan.go`;
  `ForStaticChild` and `ForChild` narrow policies and schedules; `Preflight` is
  the check of `recipes compile`, which no launch performs; and
  `ResolveBackendClosure` is what readiness asks for.

A text is what the engine's rules tell apart (`plain`, `done`, `marker`,
`blank`), a ledger the set of contested items and whether all is resolved, a
digest a model value, a request id a pair. Prompt wording, JSON encoding,
timestamps and provider session ids are left out.

Two branches of `execute` are absent from `Next` because no run reaches them:
its return for a session that is already finished, and `nextTurn`'s "no
remaining turn" (engine.go:1133-1136). `LoopHasWork` states that they are
unreachable and is checked.

## The runs

| Run | Question | Bounds, and why they are enough |
|---|---|---|
| `lease` | Can two openers own a session, can a probe be wrong about a writer, can a refused call leave a lock, does the protocol implement Lease? | three actors in two processes, so that there are a pair in one process and a pair across; one inode per actor (222 thousand states) |
| `event_log` | Does the log replay, keep its numbers, keep confirmed events and resolve references? | two processes, one digest, three lines: a repaired line, one before and one after it (387 thousand) |
| `engine` | Does the engine keep its promises under every control and with children? | six plans. Three with controls: two prompts queued twice, granted turns (two for the sequence, one for the dialogues), one cancellation or crash. Three with children: two contested items, two cancellations or crashes (one inside a child's run, one inside the next), one granted turn (283 thousand) |
| `provisioning` | Launch, resume, clean and detach against each other, crashes and power losses | one launch, two resumers (two are needed to race without the launch), one cleaner, two inputs (a half-recorded set exists); crashes and power losses unbounded (217 thousand) |
| `provider_turn` | Turns of one slot under stalls, cancellation and resumes | two turns (one leaves its handle to the next), two identifiers (a provider may change them), two classes of errors of which one overrides the other; events unbounded (465 thousand) |
| `read_side` | Do the readers say what the engine means, and is a bundle what it says? | four plans: a child step before a reducer that is called again, requests that an operator decides, a session that is granted a turn after its end, with one crash or cancellation each, and an actor that speaks twice, with two, so that it may lose an attempt of the same number in each turn; two exporters, one other prober, and a question for the lease that may fail at any time (680 thousand) |
| `plans` | Are all plans valid, does nesting end, can the preflight and the readiness closure be believed? | four recipes: a chain of four with eight combinations of declared depths, circles of two, recipes to request that resolve or do not; trees of four sessions, which hold the whole chain and go round a circle twice; three supplied plans, one of which says that it is a recipe's (60 thousand) |
| `status_told`, `store_opens`, `reducer_decides`, `static_budget`, `prepared_once` | see *Where the code and its documentation differ* | the smallest instance that shows it |

The passing runs together take every action and every disjunct. Deadlock is
checked in `event_log` only: in the other models all commands may be over.

`MaxAppends`, `MaxTurns`, `MaxSessions` and the `Bounds` of a plan (turns that
may be granted, prompts that may be queued, and `stops`, the cancellations and
crashes) are the only bounds in guards. All of them stop the *environment*
(lines, the next turn, new sessions, operators, deaths), never the runner.
`read_side` has one kind of reader at work at a time (`ReadLog` waits for the
exporters, an export for the reader): neither sees what the other writes, so
this leaves out no behaviour of either and keeps the product small.

### Properties worth knowing

Most invariants are the conjunction of a few named parts; a run checks the whole.

* `WriterAlone` (`WriterExclusive`, `WriterOwnsPath` and `FreeIsTrue`: a probe
  that answers "free" was right at some moment of its call), `IdleLeavesNothing`,
  `ImplementsLease`.
* `LogSound` (`LogReplays`, `NextFollowsFile`), `BlobsSound` (`BlobIntact`,
  `RefsResolve`), `ImplementsDurableLog`. `RefsResolve` excuses one case, named
  `early`: a reference that `Put` returned because another process had already
  linked the digest but not yet synced the directory.
* `NoDeadEnd`: no legal sequence of commands and crashes makes a session that
  does not replay (`NeverRejected`) or a loop with nothing to do (`LoopHasWork`).
  `AttemptsJustified`: a recorded answer is never paid for again (`OneAnswer`),
  and `max_attempts` bounds failures (`AttemptsBounded`); attempts that a crash
  abandons are, in the code, not counted. `ChildrenAccounted` (`ChildBudget`,
  `ChildAgrees`), `SteeringInOrder`, `CompletedMeansValid`,
  `CancelRecordsNoFailure`, `ImplementsRelay`, `RunReturns`. `ConversationWaits`:
  as long as something is owed to the children (a request undecided, a child
  unfinished, a failure not yet answered for), no step of anybody adds to the
  conversation or touches the result, wherever a crash fell and whoever resumes.
* `StartsProvisioned`: whoever starts a session and whatever died before, all
  inputs and the workspace are recorded first. `WorkspaceRecorded`
  (`PreparedOnceAlone`, `StateBeforeEvent`) and `WorktreeOwned` relate the three
  places in which a workspace is recorded; each names what it excuses (an
  overlap of two preparers, a power loss, `--force`). `LauncherTruth`,
  `LauncherAnswers`.
* `ConversationKept`: no turn meets the stream or the interrupt of another
  (`HandleIsFresh`), and a resumed process continues the recorded conversation
  (`ResumeContinues`). `OutcomeIsTrue`: an answer is not lost, a plain
  `completed` is faultless, a retry is earned. `StallMeansSilence`, `TurnEnds`.
* `ViewsAgree`: end, conversation, budget, unfinished turn, requests, ledger and
  verdict of the report are those of the engine, at every prefix of the log. Two
  differences of the code are named in it: of a facilitator's answer the engine
  takes a ledger that stands inside prose, and the report takes JSON that lacks a
  list, so the two agree as long as each answer is a ledger for both or for
  neither (`Facilitated` says when it was not); and before the first turn of a
  conversation the report of a child that came first is one that
  `result.Validate` refuses.
  `DiagnosticsTrue`: keys without the round cost diagnostics exactly this, that
  an attempt which an earlier turn lost is forgotten once a later turn of the
  actor makes the attempt of that number; `past`, a history variable, keeps the
  turns as the engine left them. `StatusTold`: a status that is told was true
  while the command looked, but for four named cases. `BundleTrue`,
  `PublishedOnce`. A published bundle may outlive the end it tells, when a grant continues the session, so `BundleTrue` compares it with
  `ends`, a history variable that keeps every end the session came to.
* `DepthSpent`: the level of a session and the depth it has left never exceed
  the `max_depth` of the root, also when recipes name each other in a circle, so
  nesting ends. `PreflightSound`: what `recipes compile` passes can be launched,
  and each of its steps compiles when the engine comes to it, but for two things
  the property names. `BackendsProbed`: readiness asks for every backend that
  any level calls. `FirstRequestServed`: what `ForChild` compiles for a first
  request fits the limits with which `admitChild` compares it.
  `CompositionTypeOK` includes that every plan in the tree is `Valid`.

### Fairness

`Engine` assumes weak fairness of the runner and of the run of a child session:
both are goroutines that only a crash stops, a provider call is ended by its
watchdog, and a retry's sleep is a timer. Operators, cancellations and crashes
have none. `Provisioning` assumes weak fairness of the launcher only, whose
`select` includes a timer; its child may hang for ever. `ProviderTurn` assumes
it of the runner's goroutine and its timers: a `select` with several ready
branches picks one at random, so a timer that stays ready is taken. Nothing is
assumed of the provider. `ReadSide` and `Composition` check safety only and
assume nothing.

## What is proved

Each component has a module of proofs, `<component>_proofs`; the two theorems on
what is said of a recipe before its launch have `Preflight_proofs`. They hold for any
processes, callers, inodes, digests, classes, plans, prompts, settings, exporters
and numbers of appends, turns, inputs and sessions, from the named assumptions of
the modules only. TLC checked each inductive invariant on a small instance first.

* **Lease.** The inductive invariant says who holds what at each program
  counter: an actor past `flock` holds the advisory lock of its inode, an actor
  past the check also has the registry entry, a mutex owner is inside the
  critical section. Exclusiveness alone is not inductive, because two owners
  would be one step away if two actors could hold locks on different inodes that
  the path named at different times. From it: `LeaseTypes`, `LeaseExclusive`,
  `WritersOwnPath`, `LeaseLeavesNothing`, and `LeaseRefined` (each step takes,
  gives back or leaves the abstract lease). `ProbeInv` adds what makes a probe
  believable (a lock file lies in a directory that exists; who looks while no
  writer owns the session has seen that moment), and gives `FreeAnswersAreTrue`
  and `WriterIsAlone`.
* **Event log.** `BlobInv` and `LogInv` are proved separately, since the store
  does not depend on the log. The first needs that bytes are synced before they
  are linked; the second that both the file and its synced prefix replay and
  that a ready writer's number follows the file. From them: `LogTypes`,
  `BlobsIntact`, `LogAlwaysReplays`, `SequenceFollowsFile`, `ReferencesResolve`,
  `LogStaysSound`, `BlobsStaySound`, `LogRefined`.

* **Provider turns.** The invariant says what each place of the runner knows: in
  the loop a handle has an interrupt on its way only if the turn stalled; after
  it the stream is open only if the drain grace ended, which needs a stall or a
  cancellation; and both of these make `Classify` return what drops the handle.
  From it and `ClassifyKeepsItsPromises`, which walks through the returns one by
  one: `TurnTypes`, `HandlesAreFresh`, `StallsMeanSilence`, `OutcomesAreTrue`,
  `ResumesContinue`, `ConversationsAreKept`.

* **Plans.** `TreeInv` says of every session that its plan is valid, that its
  parent comes before it, and that its level and its depth do not exceed the
  depth of the root. `DepthSpent` by itself is not inductive: that a child has
  less depth than its parent needs that a valid plan's depth is not negative,
  and that each of the two policies takes one from the parent (`ChildDepth`).
  From it: `NestingEnds` and `PlansStayValid`. `FirstRequestIsServed` is a fact
  about the operators (`RemainingPolicy`, `LaunchedCanBeChild`): a recipe that
  can be launched stays valid as a child, with at least one turn and no more
  than the parent's limit.
* **Preflight and readiness.** Both walk the recipes before there is a session,
  and the claim is about the sessions that come later. `DescentInv` ties the two:
  a session that only child steps lead to from a recipe keeps the actors and the
  form of its recipe (`OfRecipe`); the recipes from the root's to its own are one
  of the `Ways` the preflight went (`OnAWay`); and its depth is what it or some
  session above declares, less the levels between, which is how a nested recipe
  with too little depth is told from a root with too little. `DenialsInv` keeps
  why a launch or a step was refused. `PreflightIsSound` then compares the way
  that a refused step would have gone on with what `Executable` says of it, and
  `BackendsAreProbed` finds every actor's profile on the way of its session.
  `Ways` is a recursive function: that it satisfies its own recursion is proved
  by a least counterexample (`LeastNumber`, `WaysAre`), and that a way never
  leaves its domain because a way on which no recipe comes twice is no longer
  than there are recipes (`NoRecipeTwice`). The assumptions are that a recipe id
  is a string and not empty, and the types of profiles and recipes.

* **Engine.** The runs check properties that are not inductive one by one, since
  they hold each other up; `IInv` is their conjunction with what they need.
  `TurnInv` (a turn that is there was started in order and within the budget) and
  `Schedule` (the schedule has a turn to give whenever the phase or a grant asks
  for one) make `nextTurn` total, hence `NoSessionIsStuck`: `reduceEvent` refuses
  no event of any run, and the loop always has work. `Attempts` bounds failures
  by `max_attempts` for attempts whose outcome is recorded, hence
  `TurnsCostWhatTheyMay`. `Steering` has one prompt in hand at most, that of the
  turn (`SteeringIsOrdered`). `Result` says when a validated result stands
  (`CompletionIsEarned`). `Account` counts what requests were admitted for, and
  `ChildrenInv` ties each record in `kids` to its request
  (`ChildrenAreAccounted`). `Control` is what the runner knows at each place of
  its code. The proof goes through the events: each action of `Next` is one of a
  few `Effect`s on `executionState`, and each part of the invariant is preserved
  by each effect, whoever causes it. From the same effects:
  `CancellationIsNoFailure`, `TheConversationWaits`, and `RelayRefined`, the
  step simulation of `Relay`. `TheConversationWaits` needs `Debts`: a turn
  that is unfinished while something is owed is a facilitator's, or the child
  step that owes it and nothing else is owed.
* **Provisioning.** `Furnished` says that nothing follows the inputs before all of
  them are recorded, and `Witnessed` that a process past its first look or append
  has seen the event or made it; they give `OnlyProvisionedSessionsStart`.
  `Alone` (as long as preparers do not overlap, one process at a time is about to
  append the event) and `StateFirst` give `TheWorkspaceIsRecorded`. `Copy` (a
  clean that holds the lease never meets a launch between event and worktree)
  gives `NoWorktreeIsOrphaned`, and `Acknowledged` gives
  `TheLauncherTellsTheTruth`. `StartsAppend` says what an append can do to
  `StartsProvisioned`, which quantifies over the positions of the log.
* **Readers and exports.** `SessionUndisturbed`: with readers, probes and
  exporters around it, the session still takes only steps of Engine's `Next`, so
  every invariant of Engine holds beside them too. `LogInv` relates the log to
  the state that is its fold (the end it tells, admission before completion, the
  requests that wait, the attempts that were lost) and contains
  `DiagnosticsTrue`; it is proved by event, from `AppendAttempts`, which says
  what one more event does to the attempts that are open in the log, and
  `LostAppend`, which says what one more turn does to those that the engine lost
  (`DiagnosticsAreTrue`). `ExportInv` follows a bundle from the reading to the
  rename (`PublicationIsFinal`, `BundlesAreTrue`). `ReaderInv` says that what a
  reader may tell of the log it read stays among the statuses that were true
  while it looked, or is one of the four excused ones (`MayBeTold`), hence
  `StatusIsTold`.
* **Views.** `ViewsAreTrue` is `ViewsAgree` for every log that a session can
  write. Each view is a recursive function over the log (`Those`, `Entered`,
  `grantedTurns`), and what it computes for any sequence is out of reach; what
  one more event adds is not. `RunExists` and `RunIsOne` (a function that goes
  step by step from a beginning exists and is the only one, both by a least
  counterexample) give `ThoseAppend`, `GrantedAppend` and `EnteredAppend`, and
  from these each part of `ViewInv` follows event by event: `EventIs` says which
  event a step of the engine appends and what it does to `executionState`, and
  the part says that the view moves with it. `TalkTrue` is the part that needs a
  strengthening: the entries must be as many as the turns of the conversation,
  since both sides drop contested items before the second turn by their own
  count, and the ledger of a conversation that short has none. `AnswersTrue`
  carries the reducer's attempt from its end to the result that it gives, and
  needs that no plan declares a step of its name (`ValidPlan`).

Only liveness is left to the model checker (`RunReturns`, `LauncherAnswers`,
`TurnEnds`), since it needs fairness; and the five properties that TLC refutes
are no theorems.

## Where the code and its documentation differ

* **`status_told`**: the log is read before the lease is asked for, so a session
  that completes in between is told as `interrupted`, which it never was
  (README.md:448).
* **`store_opens`**: a process killed inside `PutMediaType` leaves a `.put-`
  file that `openStore` rejects; the session cannot be opened again.
* **`reducer_decides`**: a dialogue that converges in the last turn of its
  budget completes without the reducer its plan names as the source of the result.
* **`static_budget`**: a declared child step uses up the capacity of requested
  children, which two comments say it does not.
* **`prepared_once`**: `Recover` and `Prepare` look for `workspace.prepared`
  without the lease and append it later with the lease. A resume during a launch,
  or two resumes after a crash, record it twice, and no command accepts the log
  again.

Met while modelling and not given a run of their own: after a power loss the
event `workspace.prepared` may survive without `runtime/workspace.json`, whose
directory is not synced (`StateBeforeEvent` excuses it); a `head-copy` session
whose launch died between event and worktree, or whose clean died between
worktree and directory, can never be cleaned, because `Cleanup` treats the
missing worktree as an error (`CleanWorkspace` then has no step). A Claude slot
begins with an identifier of its own making; if a first turn succeeds before the
provider confirmed it, a resumed process would continue a conversation the live
one would have started (`ResumeContinues` is checked for Codex). And text that
arrived before a stream which ends without a final observation is a failure,
while the same text with a reported error counts as recovered (`AnswerKept`
names the exception).

Of the readers: two probes at once see each other as a running writer
(`StatusTold` names it as the case `other`); a lease that cannot be asked
leaves what the log says, so that a running session with an attempt in hand is
told as interrupted and an interrupted one as running (the case `error`; the
comment at views.go:136 says so, hence no finding); the key of an attempt
has no round, so a lost attempt of an earlier turn disappears from diagnostics
once a later turn of the actor makes the attempt of that number; a request that the policy is about to
decide is told as `awaiting_decision`, though no operator is asked; after a
grant the report goes on to show the result as `validated` until the next
verdict; and a child that completes before the first turn of its parent gets an
entry of round 0, which `result.Validate` refuses, so that such a session cannot
be exported until a participant has spoken (`ViewsAgree` claims a valid report
from the first turn on). `v2PublishPortableDirectory` syncs the directory that
it renames and its parent, but no directory below it.

Of plans: `recipes compile` is a preflight of its own, which launches do not
run, and it passes two things that fail later (both are named in
`PreflightSound`): a recipe with `lifecycle.resume` forbid and `auto_approval`
ask, which only `Validate` refuses, and a nested recipe that declares less depth
than there is below it, whose step then fails with "static child step has no
remaining depth" after the turns before it were paid for. Neither `ForChild` nor
`ForStaticChild` narrows the mode or the allowed recipes of the child, and a
declared child gets a fresh budget of requests, so depth alone ends nesting.
The provenance in a plan is what the plan says: `run --plan` accepts one that
calls itself a recipe's though no recipe was launched, with backends and depths
of its own. `PreflightSound` and `BackendsProbed` therefore speak of sessions by
what made them (`Origins`), and a supplied plan is none of theirs.

## Plan

1. *Done:* lease, blob store and log; engine; provisioning; provider turns; views,
   readers and export beside the running engine; plans and their nesting; proofs
   of each.
2. **ChildSessions**: two Engine sessions, a parent and its child, with the scan
   of the home and the child's lease, which are outcomes of `kids` today.

## What is not modelled, and why

Canonical JSON, the formats, and the checks of single fields of events, plans,
reports and foreign bundles are pure encodings. TOML is not read:
`Composition` begins with recipes as their normalisation leaves them. The probes
of readiness run programs for a version, and a Gemini turn is one subprocess
with a deadline. Pages, cursors, listings, resources and the layout of what is
printed (`recipes/report.go` among it) change nothing and relate nothing.
Command-line parsing has no state. The inner steps of a child session are those of Engine and are not repeated in its parent.
`clean --force` is in Provisioning, where it sets `forced`; the properties it
can break name that variable. Blob quotas are never set by the program. The
removal of a directory is one step in Provisioning and taken apart in
WriterLease.
