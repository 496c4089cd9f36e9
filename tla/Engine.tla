------------------------------- MODULE Engine -------------------------------
(***************************************************************************)
(* The execution of one session (internal/engine/engine.go): Run, Resume,  *)
(* steering, the operator's decisions on children, the loop of execute     *)
(* over turns, attempts, retries, child sessions and the result, and the   *)
(* cancellation or death of the runner between any two appends.            *)
(*                                                                         *)
(* st is executionState, which reduceEvent alone changes, in a live run    *)
(* and in a replay alike: a step appends one event by Append, and a crash  *)
(* leaves st as the replay of the log rebuilds it.  The writer lease       *)
(* (WriterLease) lets one runner at a time act, and an Append that fails   *)
(* poisons its writer (EventLog), which ends the run like a crash.         *)
(*                                                                         *)
(* A text is what the rules of the engine tell apart in it.  The id of a   *)
(* request is <<item, 0>> for a contested item of the ledger (its hash in  *)
(* the code) and <<actor, round>> for a child step the plan declares.      *)
(***************************************************************************)
EXTENDS Integers, Sequences, FiniteSets

CONSTANTS
  Plans,           \* the immutable plans to run
  Replies(_, _),   \* what a provider may answer, by plan and role
  Prompts,         \* what an operator may say
  None,            \* no prompt
  Items,           \* points a facilitator may find contested
  Provisions(_),   \* inputs and workspace of a plan, recorded before the start
  Bounds(_)        \* bounds of the runs of a plan

\* granted: turns that operators grant in all; steering: prompts ever queued;
\* stops: cancellations and deaths of runners.
ASSUME BoundsAssumption ==
  \A p \in Plans : Bounds(p) \in [granted : Nat, steering : Nat, stops : Nat]
ASSUME NoneAssumption   == None \notin Prompts

Text    == {"plain", "done", "marker", "blank"}
Ledger  == [contested : SUBSET Items, resolved : BOOLEAN]
NoLedger == [contested |-> {}, resolved |-> FALSE]

\* parses: a ledger is found in the text; strict: the text is nothing else;
\* reads: the text is JSON in which lists of a ledger may be missing.
Reply == [text : Text, ledger : Ledger, parses : BOOLEAN, strict : BOOLEAN, reads : BOOLEAN]

Plan == [kind : {"dialogue", "sequence"}, turns : Nat \ {0}, slots : Seq(STRING),
         cadence : Nat,                 \* of the facilitator, 0 without one
         reducer : BOOLEAN, fromReducer : BOOLEAN,
         converge : BOOLEAN,            \* stop_on_convergence
         maxAttempts : Nat \ {0},       \* 1 when provider_retry forbids
         accepts : SUBSET Text,         \* what the result format and schema take
         mode : {"deny", "ask", "allow"}, maxChildren : Nat, maxTurns : Nat,
         recipeTurns : Nat \ {0},       \* turns of the recipes of children
         static : SUBSET STRING,        \* participants that are child steps
         resume : BOOLEAN, steering : BOOLEAN]

ValidPlan(p) == /\ p \in Plan /\ p.slots # <<>>
                /\ p.fromReducer => p.reducer
                /\ p.kind = "sequence" => p.cadence = 0 /\ Len(p.slots) = p.turns
                /\ p.kind = "dialogue" => Len(p.slots) = 2 /\ p.slots[1] # p.slots[2]
                /\ \A i \in DOMAIN p.slots : p.slots[i] \notin {"facilitator", "reducer"}
                /\ p.static \cap {"facilitator", "reducer"} = {}
                /\ "blank" \notin p.accepts
                /\ p.mode = "ask" => p.resume

Roles == {"participant", "facilitator", "reducer"}

ASSUME PlanAssumption ==
  \A p \in Plans : ValidPlan(p) /\ \A role \in Roles : Replies(p, role) \subseteq Reply

VARIABLES
  plan,       \* the session's plan
  st,         \* executionState
  pc,         \* where the runner is, "idle" without one
  cancelled,  \* its context is cancelled
  kids,       \* the child sessions on disk and how far each one is
  rejected,   \* reduceEvent refused an event that is already durable
  stops       \* cancellations and deaths so far (bound)

vars == <<plan, st, pc, cancelled, kids, rejected, stops>>

NoTurn  == [actor |-> "none", round |-> 0, role |-> "none", attempts |-> <<>>]
NoGrant == [turns |-> 0, prompt |-> None]

newExecutionState ==
  [started |-> FALSE, provisioned |-> {}, terminal |-> "none", phase |-> "participant",
   turn |-> NoTurn, conv |-> <<>>, ledger |-> NoLedger,
   result |-> [by |-> "none", text |-> "blank"],
   granted |-> 0, atGrant |-> 0, grant |-> NoGrant,
   requests |-> <<>>, childrenUsed |-> 0, childTurns |-> 0,
   steering |-> <<>>, validation |-> "none"]

-----------------------------------------------------------------------------
(* What the state says.                                                    *)

Active(s)   == s.turn # NoTurn
Budget(s)   == plan.turns + s.granted
Last(q)     == q[Len(q)]
Occurs(t, o) == {i \in DOMAIN t.attempts : t.attempts[i].outcome = o}
Latest(t, o) == CHOOSE i \in Occurs(t, o) : \A j \in Occurs(t, o) : j <= i

hasUnstartedGrantedWork(s) ==
  s.terminal = "completed" /\ s.granted > 0 /\ Len(s.conv) = s.atGrant

\* Mutant of hasScheduledWorkOutstanding: granted turns are not yet scheduled.
hasActiveWorkOutstanding(s) == Active(s) \/ s.phase \in {"facilitator", "reducer"}

hasScheduledWorkOutstanding(s) ==
  Active(s) \/ hasUnstartedGrantedWork(s) \/ s.phase \in {"facilitator", "reducer"}

turnBudgetGrantApplicable(s) == s.terminal = "completed" /\ ~hasScheduledWorkOutstanding(s)

\* Queued prompts that wait for a turn.
Waiting(s) == {i \in DOMAIN s.steering : ~s.steering[i].consumed /\ s.steering[i].applied = 0}
First(S)   == CHOOSE i \in S : \A j \in S : i <= j

isExactPromptedTurnBudgetRetry(s, n, p) ==
  /\ p # None /\ hasUnstartedGrantedWork(s)
  /\ s.grant = [turns |-> n, prompt |-> p]
  /\ \E i \in Waiting(s) : s.steering[i].text = p

\* The prompt for the attempts of a turn: the one applied in its round, or the
\* first that waits; 0 if there is none.
applicableSteering(s, round) ==
  LET fit == {i \in DOMAIN s.steering : /\ ~s.steering[i].consumed
                                        /\ s.steering[i].applied \in {0, round}}
  IN IF fit = {} THEN 0 ELSE First(fit)

\* Mutant of shouldRetry: max_attempts counts the retries.
shouldRetryOnceMore(t) ==
  LET i == Latest(t, "failed")
  IN t.attempts[i].failure = "retryable" /\ i <= plan.maxAttempts

shouldRetry(t) ==
  LET i == Latest(t, "failed")
  IN t.attempts[i].failure = "retryable" /\ i < plan.maxAttempts

ParticipantActorForTurn(n) == plan.slots[((n - 1) % Len(plan.slots)) + 1]

\* The last thing a participant said, "blank" before it spoke.
Said(s, actor) ==
  LET by == {i \in DOMAIN s.conv : s.conv[i].actor = actor}
  IN IF by = {} THEN "blank"
     ELSE s.conv[CHOOSE i \in by : \A j \in by : j <= i].text

hasCompletionMarkers(s) == \A i \in {1, 2} : Said(s, plan.slots[i]) = "marker"

hasConverged(s) ==
  /\ Len(s.conv) >= 4
  /\ s.conv[Len(s.conv)].actor # s.conv[Len(s.conv) - 1].actor
  /\ s.ledger.contested = {} /\ s.ledger.resolved

hasNoLedgerSignal(s) ==
  /\ Len(s.conv) >= 4 /\ s.ledger = NoLedger
  /\ \A i \in {Len(s.conv) - 1, Len(s.conv)} : s.conv[i].text \notin {"done", "marker"}

dialogueStopReason(s) ==
  /\ plan.kind = "dialogue" /\ plan.converge /\ ~Active(s) /\ s.phase # "facilitator"
  /\ hasCompletionMarkers(s) \/ hasConverged(s) \/ hasNoLedgerSignal(s)
  /\ s.granted > 0 => Len(s.conv) > s.atGrant

validateSelectedResult(s) == s.result.by # "none" /\ s.result.text \in plan.accepts

\* Mutant of ChildRequests: an item that was asked already is asked again.
ChildRequestsAgain(s, reply) ==
  IF s.turn.role = "facilitator" /\ Len(s.conv) >= 2 /\ reply.strict
  THEN {<<item, 0>> : item \in reply.ledger.contested}
  ELSE {}

\* The contested items for which a facilitator's reply asks a child.
ChildRequests(s, reply) ==
  IF s.turn.role = "facilitator" /\ Len(s.conv) >= 2 /\ reply.strict
  THEN {<<item, 0>> : item \in reply.ledger.contested} \ DOMAIN s.requests
  ELSE {}

StaticId(t)  == <<t.actor, t.round>>
IsStatic(id) == id[2] > 0
Decided(s, id)   == s.requests[id].verdict # "none"
Admitted(s, id)  == s.requests[id].verdict = "admitted"
Completed(s, id) == s.requests[id].status # "none"

Undecided  == {id \in DOMAIN st.requests : ~Decided(st, id)}
Unfinished == {id \in DOMAIN st.requests : Admitted(st, id) /\ ~Completed(st, id)}
Failures   == {id \in DOMAIN st.requests : st.requests[id].status = "failed"}

\* What servicePendingChildren has left to do: the requests in any order.
ToDecide == IF plan.mode = "ask" THEN {} ELSE Undecided

-----------------------------------------------------------------------------
(* The events of reduceEvent: whether it accepts each, and its effect.     *)

Event(ok, s) == [ok |-> ok /\ s.started, st |-> s]

\* input.ingested, workspace.prepared: only before the start, once each.
Provisioned(s, x) ==
  [ok |-> ~s.started /\ x \notin s.provisioned,
   st |-> [s EXCEPT !.provisioned = @ \cup {x}]]

SessionStarted(s) == Event(~s.started, [s EXCEPT !.started = TRUE])

TurnStarted(s, actor, round, role) ==
  LET t == [actor |-> actor, round |-> round, role |-> role, attempts |-> <<>>]
  IN Event((s.terminal = "none" \/ hasUnstartedGrantedWork(s)) /\ ~Active(s),
           [s EXCEPT !.turn = t, !.terminal = "none",
                     !.validation = IF s.terminal = "none" THEN @ ELSE "none"])

AttemptStarted(s, actor, n) ==
  Event(Active(s) /\ s.turn.actor = actor /\ n \notin DOMAIN s.turn.attempts,
        [s EXCEPT !.turn.attempts =
           Append(@, [outcome |-> "none", failure |-> "none", closed |-> FALSE, reply |-> None])])

\* A provider.failed that came first does not make this a duplicate.
AttemptFinished(s, actor, n, outcome, reply) ==
  LET a == s.turn.attempts[n]
  IN Event(/\ Active(s) /\ s.turn.actor = actor /\ n \in DOMAIN s.turn.attempts
           /\ a.outcome = "none" \/ (a.outcome = "failed" /\ outcome = "failed" /\ ~a.closed),
           [s EXCEPT !.turn.attempts[n] =
              [@ EXCEPT !.outcome = outcome, !.closed = TRUE, !.reply = reply]])

ProviderFailed(s, actor, n, failure) ==
  Event(/\ Active(s) /\ s.turn.actor = actor /\ n \in DOMAIN s.turn.attempts
        /\ s.turn.attempts[n].failure = "none",
        [s EXCEPT !.turn.attempts[n] = [@ EXCEPT !.outcome = "failed", !.failure = failure]])

recordCompletedTurn(s, reply) ==
  CASE s.turn.role = "participant" ->
         [s EXCEPT !.conv = Append(@, [actor |-> s.turn.actor, text |-> reply.text]),
                   !.result = [by |-> "participant", text |-> reply.text]]
    [] s.turn.role = "facilitator" ->
         LET l == IF reply.parses THEN reply.ledger ELSE s.ledger
         IN [s EXCEPT !.ledger = IF Len(s.conv) < 2 THEN [l EXCEPT !.contested = {}] ELSE l]
    [] s.turn.role = "reducer" ->
         [s EXCEPT !.result = IF plan.fromReducer THEN [by |-> "reducer", text |-> reply.text] ELSE @]

\* Mutant of phaseAfterParticipants: one turn more than the budget.
phaseAfterParticipantsLate(s) ==
  IF Len(s.conv) <= Budget(s) THEN "participant" ELSE IF plan.reducer THEN "reducer" ELSE "done"

phaseAfterParticipants(s) ==
  IF Len(s.conv) < Budget(s) THEN "participant" ELSE IF plan.reducer THEN "reducer" ELSE "done"

advancePhase(s, role) ==
  CASE role = "participant" ->
         IF plan.cadence # 0 /\ Len(s.conv) % plan.cadence = 0
         THEN "facilitator" ELSE phaseAfterParticipants(s)
    [] role = "facilitator" -> phaseAfterParticipants(s)
    [] role = "reducer"     -> "done"

\* Mutant of TurnFinished: the steering of the turn is not consumed.
TurnFinishedUnconsumed(s, actor, round, reply) ==
  LET r == recordCompletedTurn(s, reply)
  IN Event(Active(s) /\ s.turn.actor = actor /\ s.turn.round = round,
           [r EXCEPT !.turn = NoTurn, !.phase = advancePhase(r, s.turn.role)])

TurnFinished(s, actor, round, reply) ==
  LET r == recordCompletedTurn(s, reply)
      c == [i \in DOMAIN s.steering |->
              IF s.steering[i].applied = round THEN [s.steering[i] EXCEPT !.consumed = TRUE]
              ELSE s.steering[i]]
  IN Event(Active(s) /\ s.turn.actor = actor /\ s.turn.round = round,
           [r EXCEPT !.turn = NoTurn, !.steering = c, !.phase = advancePhase(r, s.turn.role)])

Asked == [verdict |-> "none", turns |-> 0, status |-> "none", reply |-> None]

ChildRequested(s, id) ==
  Event(id \notin DOMAIN s.requests,
        [s EXCEPT !.requests =
           [x \in DOMAIN s.requests \cup {id} |-> IF x = id THEN Asked ELSE s.requests[x]]])

\* turns: those of the plan admitted.  Every admission is counted.
ChildDecided(s, id, verdict, turns) ==
  LET n == IF verdict = "admitted" THEN 1 ELSE 0
  IN Event(id \in DOMAIN s.requests /\ ~Decided(s, id),
           [s EXCEPT !.requests[id] = [@ EXCEPT !.verdict = verdict, !.turns = turns],
                     !.childrenUsed = @ + n, !.childTurns = @ + turns])

ChildCompleted(s, id, status, reply) ==
  Event(id \in DOMAIN s.requests /\ Admitted(s, id) /\ ~Completed(s, id),
        [s EXCEPT !.requests[id] = [@ EXCEPT !.status = status, !.reply = reply]])

Prompt(p) == [text |-> p, applied |-> 0, consumed |-> FALSE]

SteeringQueued(s, p) == Event(TRUE, [s EXCEPT !.steering = Append(@, Prompt(p))])

\* The event names a text: the first such prompt that waits is the one applied.
SteeringApplied(s, p, round) ==
  LET same == {i \in Waiting(s) : s.steering[i].text = p}
  IN Event(Active(s) /\ round = s.turn.round /\ same # {},
           [s EXCEPT !.steering[First(same)].applied = round])

TurnBudgetGranted(s, n, p) ==
  Event(turnBudgetGrantApplicable(s),
        [s EXCEPT !.granted = @ + n, !.atGrant = Len(s.conv),
                  !.grant = [turns |-> n, prompt |-> p],
                  !.steering = IF p = None THEN @ ELSE Append(@, Prompt(p))])

ResultProduced(s, v)   == Event(s.validation = "none", [s EXCEPT !.validation = v])
SessionFinished(s, how) == Event(s.terminal = "none", [s EXCEPT !.terminal = how])

-----------------------------------------------------------------------------
(* The runner.  append makes an event durable and then reduces it.         *)

Log(e) == /\ st' = IF e.ok THEN e.st ELSE st
          /\ rejected' = (rejected \/ ~e.ok)

At(l)   == pc = l /\ ~rejected /\ UNCHANGED <<plan, stops>>
Goto(l) == pc' = l /\ UNCHANGED <<cancelled, kids>>
Silent  == UNCHANGED <<st, rejected>>
Return  == pc' = "idle" /\ cancelled' = FALSE /\ UNCHANGED kids

\* session.finished(failed), unless a terminal is already there.
finishFailure ==
  /\ IF st.terminal = "none" THEN Log(SessionFinished(st, "failed")) ELSE Silent
  /\ Return

finishInterrupted == cancelled /\ Silent /\ Return

\* An error that comes back to execute: interrupted if cancelled, else failed.
Fail == finishInterrupted \/ (~cancelled /\ finishFailure)

(* execute: the top of the loop.                                           *)

loopInterrupted == At("loop") /\ finishInterrupted

\* The loop would return at once; LoopHasWork says that it never has to.
Finished == st.terminal # "none" /\ ~hasUnstartedGrantedWork(st)

Proceed(l) == At("loop") /\ ~cancelled /\ ~Finished /\ Silent /\ Goto(l)

\* serviceActiveTurn: a success to record, a failure to retry or to report, or
\* a call to make.  An attempt without an outcome was abandoned.
Answered  == Occurs(st.turn, "success") # {}
FailedNow == ~Answered /\ Occurs(st.turn, "failed") # {}

serviceActiveTurn ==
  /\ Active(st)
  /\ \/ st.turn.actor \in plan.static /\ Proceed("static")
     \/ /\ st.turn.actor \notin plan.static
        /\ \/ Answered /\ Proceed("reply")
           \/ FailedNow /\ shouldRetry(st.turn) /\ Proceed("backoff")
           \/ ~Answered /\ ~FailedNow /\ Proceed("call")

reportFailure ==
  /\ At("loop") /\ ~cancelled /\ ~Finished
  /\ Active(st) /\ st.turn.actor \notin plan.static
  /\ FailedNow /\ ~shouldRetry(st.turn)
  /\ Fail

\* The timer may win against a cancellation.
waitForRetry == At("backoff") /\ (finishInterrupted \/ (Silent /\ Goto("call")))

-----------------------------------------------------------------------------
(* callActiveAttempt.                                                      *)

ToApply == LET i == applicableSteering(st, st.turn.round)
           IN i # 0 /\ st.steering[i].applied = 0

Apply == LET i == applicableSteering(st, st.turn.round)
         IN Log(SteeringApplied(st, st.steering[i].text, st.turn.round))

applySteering == At("call") /\ ToApply /\ Apply /\ Goto("call")

\* The backend cannot be created or restored.
backendFails == At("call") /\ ~ToApply /\ Fail

callActiveAttempt ==
  /\ At("call") /\ ~ToApply
  /\ Log(AttemptStarted(st, st.turn.actor, Len(st.turn.attempts) + 1))
  /\ Goto("running")

\* RunTurn returns to a cancelled context: nothing is recorded.
attemptAbandoned == At("running") /\ finishInterrupted

attemptSucceeds(reply) ==
  /\ At("running") /\ ~cancelled
  /\ Log(AttemptFinished(st, st.turn.actor, Len(st.turn.attempts), "success", reply))
  /\ Goto("reply")

attemptFails(failure) ==
  /\ At("running") /\ ~cancelled
  /\ Log(ProviderFailed(st, st.turn.actor, Len(st.turn.attempts), failure))
  /\ Goto("failing")

attemptFailed ==
  /\ At("failing")
  /\ Log(AttemptFinished(st, st.turn.actor, Len(st.turn.attempts), "failed", None))
  /\ Goto("loop")

\* putText fails; a static child's plan does not compile; the directory of a
\* child session cannot be read or made.
localFailure ==
  /\ pc \in {"running", "reply", "static", "children"} /\ At(pc)
  /\ pc = "children" => ToDecide \cup Unfinished # {}
  /\ Fail

\* From here to turn.finished the context is not looked at.
Reply0 == st.turn.attempts[Latest(st.turn, "success")].reply

persistChildRequests ==
  /\ At("reply")
  /\ \E id \in ChildRequests(st, Reply0) : Log(ChildRequested(st, id))
  /\ Goto("reply")

finishActiveTurn ==
  /\ At("reply") /\ ChildRequests(st, Reply0) = {}
  /\ Log(TurnFinished(st, st.turn.actor, st.turn.round, Reply0))
  /\ Goto("loop")

-----------------------------------------------------------------------------
(* Children.                                                               *)

MinOf(S) == CHOOSE x \in S : \A y \in S : x <= y

\* ForChild with boundedChildSchedule; it may refuse (recipe, depth, policy).
ChildTurns == MinOf({plan.recipeTurns, plan.turns, plan.maxTurns})

rejectChild(id, why) == Log(ChildDecided(st, id, why, 0))

\* Mutant of admitChild: one child more than the policy allows.
admitChildLate(id) ==
  \/ st.childrenUsed > plan.maxChildren /\ rejectChild(id, "children_exhausted")
  \/ /\ st.childrenUsed <= plan.maxChildren
     /\ \/ rejectChild(id, "rejected")
        \/ /\ ChildTurns > 0
           /\ IF st.childTurns + ChildTurns > plan.maxTurns
              THEN rejectChild(id, "turns_exhausted")
              ELSE Log(ChildDecided(st, id, "admitted", ChildTurns))

admitChild(id) ==
  \/ st.childrenUsed >= plan.maxChildren /\ rejectChild(id, "children_exhausted")
  \/ /\ st.childrenUsed < plan.maxChildren
     /\ \/ rejectChild(id, "rejected")
        \/ /\ ChildTurns > 0
           /\ IF st.childTurns + ChildTurns > plan.maxTurns
              THEN rejectChild(id, "turns_exhausted")
              ELSE Log(ChildDecided(st, id, "admitted", ChildTurns))

decideChild ==
  /\ At("children")
  /\ \E id \in ToDecide : IF plan.mode = "allow" THEN admitChild(id)
                          ELSE rejectChild(id, "not_admitted")
  /\ Goto("children")

\* runChild: the session is created from the admitted plan, or found.
InChild(id) ==
  /\ id \in Unfinished
  /\ At("children") \/ (At("static") /\ id = StaticId(st.turn))

createChild(id) ==
  /\ InChild(id) /\ id \notin DOMAIN kids
  /\ kids' = [x \in DOMAIN kids \cup {id} |-> IF x = id THEN "open" ELSE kids[x]]
  /\ Silent /\ UNCHANGED <<pc, cancelled>>

childInterrupted(id) == InChild(id) /\ finishInterrupted

childCompletes(id, reply) ==
  /\ InChild(id) /\ ~cancelled /\ id \in DOMAIN kids /\ kids[id] = "completed"
  /\ Log(ChildCompleted(st, id, "completed", reply))
  /\ UNCHANGED <<pc, cancelled, kids>>

\* Mutant of recordFailed: the context is not looked at.
recordFailedAlways(id) ==
  /\ InChild(id) /\ id \in DOMAIN kids
  /\ Log(ChildCompleted(st, id, "failed", None))
  /\ Goto("childError")

recordFailed(id) ==
  /\ InChild(id) /\ ~cancelled /\ id \in DOMAIN kids
  /\ Log(ChildCompleted(st, id, "failed", None))
  /\ Goto("childError")

\* The child has failed; or Run or Resume could not run it: its lease is held,
\* its log could not be written.
childFails(id)      == recordFailed(id) /\ kids[id] = "failed"
childUnrunnable(id) == recordFailed(id) /\ kids[id] # "failed"

childError == At("childError") /\ Fail

\* Mutant of childAwaits: the parent waits for the decision.
childPolls(id) ==
  /\ InChild(id) /\ ~cancelled /\ id \in DOMAIN kids /\ kids[id] = "asking"
  /\ Silent /\ UNCHANGED <<pc, cancelled, kids>>

childAwaits(id) ==
  /\ InChild(id) /\ ~cancelled /\ id \in DOMAIN kids /\ kids[id] = "asking"
  /\ Silent /\ Return

\* A replay finds a child that failed.
childFailed == At("children") /\ Failures # {} /\ Fail

awaitDecision ==
  /\ At("children") /\ Failures = {} /\ ToDecide = {} /\ Unfinished = {}
  /\ Undecided # {}
  /\ /\ Silent /\ Return

\* Mutant of childrenDone: a child that failed before a crash is not looked at.
childrenDecided == Undecided = {} /\ Unfinished = {}

childrenDone   == Failures = {} /\ Undecided = {} /\ Unfinished = {}
childrenServed == At("children") /\ childrenDone

\* serviceStaticChildTurn.
staticId == StaticId(st.turn)

staticChildForTurn ==
  /\ At("static") /\ staticId \notin DOMAIN st.requests
  /\ IF ToApply THEN Apply ELSE Log(ChildRequested(st, staticId))
  /\ Goto("static")

\* ForStaticChild is not bounded by the parent's budget.
admitStaticChild ==
  /\ At("static") /\ staticId \in Undecided
  /\ Log(ChildDecided(st, staticId, "admitted", plan.recipeTurns))
  /\ Goto("static")

staticChildFails ==
  /\ At("static") /\ staticId \in DOMAIN st.requests
  /\ Decided(st, staticId) /\ (Admitted(st, staticId) => staticId \in Failures)
  /\ Fail

staticChildFinishes ==
  /\ At("static") /\ staticId \in DOMAIN st.requests
  /\ st.requests[staticId].status = "completed"
  /\ Log(TurnFinished(st, st.turn.actor, st.turn.round, st.requests[staticId].reply))
  /\ Goto("loop")

-----------------------------------------------------------------------------
(* The end of the loop: stop, or start the next turn.                      *)

StopsNow == dialogueStopReason(st) \/ (st.phase = "done" /\ ~hasUnstartedGrantedWork(st))

stopExecution == childrenServed /\ StopsNow /\ Silent /\ Goto("success")

nextTurn ==
  CASE st.phase = "facilitator" -> TurnStarted(st, "facilitator", Len(st.conv), "facilitator")
    [] st.phase = "reducer"     -> TurnStarted(st, "reducer", Budget(st) + 1, "reducer")
    [] OTHER -> LET n == Len(st.conv) + 1
                IN TurnStarted(st, ParticipantActorForTurn(n), n, "participant")

\* An error in the code; LoopHasWork says that it is out of reach.
NoNextTurn == st.phase = "participant" /\ Len(st.conv) >= Budget(st)

startTurn ==
  /\ childrenServed /\ ~StopsNow
  /\ finishInterrupted \/ (~cancelled /\ Log(nextTurn) /\ Goto("loop"))

\* finishSuccess: validate once, then finish; a failure needs no look at the
\* context.
produceResult ==
  /\ At("success") /\ st.validation = "none"
  /\ Log(ResultProduced(st, IF validateSelectedResult(st) THEN "valid" ELSE "invalid"))
  /\ Goto("success")

\* Mutant of finishSuccess: a result recorded before a crash is not checked.
finishSuccessUnchecked ==
  /\ At("success") /\ st.validation # "none"
  /\ Log(SessionFinished(st, "completed")) /\ Return

finishSuccess ==
  /\ At("success") /\ st.validation # "none"
  /\ \/ st.validation = "valid" /\ Log(SessionFinished(st, "completed")) /\ Return
     \/ st.validation = "invalid" /\ finishFailure

serviceChildren == ~Active(st) /\ Proceed("children")

-----------------------------------------------------------------------------
(* The operator's commands, each with the writer lease of its own.         *)

Idle     == At("idle") /\ UNCHANGED <<cancelled, kids>>
Launched == st.started \/ st.provisioned # {}
Room     == Len(st.steering) < Bounds(plan).steering

Provision(x) == Idle /\ Log(Provisioned(st, x)) /\ ~st.started /\ x \notin st.provisioned /\ pc' = pc

\* Run, and Resume of a session that was only provisioned.
Run == Idle /\ ~st.started /\ Log(SessionStarted(st)) /\ pc' = "loop"

\* checkResumeLifecycle
mayResume(p) == plan.resume /\ (p # None => plan.steering)

resume(p) ==
  /\ Idle /\ mayResume(p) /\ st.started /\ ~Finished
  /\ IF p = None THEN Silent ELSE Room /\ Log(SteeringQueued(st, p))
  /\ pc' = "loop"

grantTurns(p, n) ==
  /\ Idle /\ mayResume(p) /\ st.started
  /\ IF isExactPromptedTurnBudgetRetry(st, n, p) THEN Silent
     ELSE /\ turnBudgetGrantApplicable(st)
          /\ st.granted + n <= Bounds(plan).granted /\ (p # None => Room)
          /\ Log(TurnBudgetGranted(st, n, p))
  /\ pc' = "loop"

QueueSteering(p) ==
  /\ Idle /\ mayResume(p) /\ st.started /\ Room
  /\ Log(SteeringQueued(st, p)) /\ pc' = pc

\* pendingChildForOperatorDecision
mayDecide(id) == st.started /\ st.terminal = "none" /\ plan.mode = "ask" /\ id \in Undecided

ApproveChild(id) == Idle /\ mayDecide(id) /\ admitChild(id) /\ pc' = pc
RejectChild(id)  == Idle /\ mayDecide(id) /\ rejectChild(id, "rejected") /\ pc' = pc

-----------------------------------------------------------------------------
(* The child sessions, the signals and the crashes.                        *)

\* A child session runs, in the parent's runner or resumed by an operator.
childRuns(id, how) ==
  /\ kids[id] = "open" /\ kids' = [kids EXCEPT ![id] = how]
  /\ UNCHANGED <<plan, st, pc, cancelled, rejected, stops>>

\* An operator decides what a child asks, while no parent looks at it.
childAnswered(id) ==
  /\ pc \notin {"children", "static"}
  /\ kids[id] = "asking" /\ kids' = [kids EXCEPT ![id] = "open"]
  /\ UNCHANGED <<plan, st, pc, cancelled, rejected, stops>>

Stop == stops < Bounds(plan).stops /\ stops' = stops + 1 /\ UNCHANGED <<plan, st, kids, rejected>>

Cancel == pc # "idle" /\ ~cancelled /\ cancelled' = TRUE /\ Stop /\ pc' = pc
Crash  == pc # "idle" /\ pc' = "idle" /\ cancelled' = FALSE /\ Stop

-----------------------------------------------------------------------------
Init ==
  /\ plan \in Plans /\ st = newExecutionState /\ pc = "idle" /\ cancelled = FALSE
  /\ kids = <<>> /\ rejected = FALSE /\ stops = 0

Turn ==
  \/ serviceActiveTurn \/ reportFailure \/ waitForRetry
  \/ applySteering \/ callActiveAttempt \/ attemptAbandoned
  \/ \E reply \in Replies(plan, st.turn.role) : attemptSucceeds(reply)
  \/ \E failure \in {"retryable", "auth", "fatal"} : attemptFails(failure)
  \/ attemptFailed \/ persistChildRequests \/ finishActiveTurn

Children ==
  \/ serviceChildren \/ decideChild \/ childFailed \/ childError \/ awaitDecision
  \/ \E id \in DOMAIN st.requests :
       \/ createChild(id) \/ childInterrupted(id) \/ childFails(id) \/ childAwaits(id)
       \/ \E reply \in Replies(plan, "participant") : childCompletes(id, reply)
  \/ staticChildForTurn \/ admitStaticChild \/ staticChildFails \/ staticChildFinishes

Runner == \/ loopInterrupted \/ Turn \/ Children
          \/ stopExecution \/ startTurn \/ produceResult \/ finishSuccess

Fault == \/ backendFails \/ localFailure
         \/ \E id \in DOMAIN st.requests : childUnrunnable(id)

Operator ==
  \/ \E x \in Provisions(plan) : Provision(x)
  \/ Run
  \/ \E p \in Prompts \cup {None} : resume(p) \/ \E n \in 1..Bounds(plan).granted : grantTurns(p, n)
  \/ \E p \in Prompts : QueueSteering(p)
  \/ \E id \in DOMAIN st.requests : ApproveChild(id) \/ RejectChild(id)

ChildSession ==
  \E id \in DOMAIN kids, how \in {"completed", "failed", "asking"} : childRuns(id, how)

Next == \/ Runner \/ Fault \/ Operator \/ Cancel \/ Crash
        \/ ChildSession \/ \E id \in DOMAIN kids : childAnswered(id)

\* The runner is a goroutine that nothing but a crash stops; a provider call
\* ends by its watchdog, the run of a child session as this one does.
Spec == Init /\ [][Next]_vars /\ WF_vars(Runner) /\ WF_vars(ChildSession)

-----------------------------------------------------------------------------
Turn0(t) == t = NoTurn \/ /\ t.role \in Roles /\ t.round \in Nat
                           /\ \A i \in DOMAIN t.attempts :
                                t.attempts[i].outcome \in {"none", "success", "failed"}

TypeOK ==
  /\ plan \in Plans /\ Turn0(st.turn)
  /\ pc \in {"idle", "loop", "backoff", "call", "running", "failing", "reply",
             "static", "children", "childError", "success"}
  /\ st.terminal \in {"none", "completed", "failed"}
  /\ st.phase \in {"participant", "facilitator", "reducer", "done"}
  /\ Len(st.conv) <= Budget(st) /\ st.atGrant <= Len(st.conv)
  /\ DOMAIN kids \subseteq DOMAIN st.requests
  /\ pc \in {"backoff", "call", "running", "failing", "reply", "static"} => Active(st)
  /\ cancelled => pc # "idle"

\* Whatever the runner and the operators append, reduceEvent accepts: no event
\* that is durable makes the session impossible to replay.
NeverRejected == ~rejected

\* provider_retry.max_attempts bounds the failures of a turn, whatever crashes
\* abandon its other attempts.
AttemptsBounded == Cardinality(Occurs(st.turn, "failed")) <= plan.maxAttempts

\* No provider is called again for a turn that has a durable answer: a crash
\* between attempt.finished and turn.finished does not pay for it twice.
OneAnswer == \A i \in Occurs(st.turn, "success") : i = Len(st.turn.attempts)

\* What a turn costs is accounted for: failures are bounded and no answer is
\* paid for twice, whatever crashes, cancellations and resumes come between.
AttemptsJustified == AttemptsBounded /\ OneAnswer

\* Steering is taken in the order it was queued, one prompt at a time, and the
\* prompt in hand is that of the unfinished turn until the turn consumes it.
SteeringInOrder ==
  LET q      == st.steering
      inHand == {i \in DOMAIN q : q[i].applied # 0 /\ ~q[i].consumed}
  IN /\ \A i, j \in DOMAIN q : i < j /\ q[j].applied # 0 => q[i].applied # 0
     /\ \A i \in DOMAIN q : q[i].consumed => q[i].applied # 0
     /\ Cardinality(inHand) <= 1
     /\ \A i \in inHand : Active(st) /\ q[i].applied = st.turn.round

\* A completed session has a result that its declared format accepts and no
\* work left over: no unfinished turn, no request unanswered, no child failed.
CompletedMeansValid ==
  st.terminal = "completed" =>
    /\ st.validation = "valid" /\ validateSelectedResult(st)
    /\ ~Active(st) /\ Undecided = {} /\ Unfinished = {} /\ Failures = {}

\* The loop never finds itself with nothing to do: it does not run for a
\* finished session, and when it wants a turn the schedule has one to give.
LoopHasWork ==
  /\ pc = "loop" => ~Finished
  /\ pc = "children" /\ childrenDone /\ ~StopsNow => ~NoNextTurn

\* No history leads to a session that cannot go on: its log replays and its loop
\* always has something to do or a way out.
NoDeadEnd == NeverRejected /\ LoopHasWork

\* A cancelled run records no failure, of the session or of a child, that the
\* cancellation could have caused: only an invalid result may still end it.
CancelRecordsNoFailure ==
  [][cancelled => /\ st.terminal = "none" /\ st'.terminal = "failed" => st.validation = "invalid"
                  /\ {id \in DOMAIN st'.requests : st'.requests[id].status = "failed"} = Failures]_vars

\* Every run comes to an end: retries, controls and children are all bounded.
RunReturns == pc # "idle" ~> pc = "idle"

\* The session keeps the promise of module Relay.
R == INSTANCE Relay WITH slots <- plan.slots, said <- st.conv, status <- st.terminal,
                         budget <- Budget(st), owed <- hasUnstartedGrantedWork(st)
ImplementsRelay == R!Spec

\* The children that requests in the conversation were admitted for.
Dynamic == {id \in DOMAIN st.requests : ~IsStatic(id) /\ Admitted(st, id)}

\* child_policy bounds the children that requests get, and each of their plans.
ChildBudget ==
  /\ Cardinality(Dynamic) <= plan.maxChildren
  /\ \A S \in SUBSET Dynamic :
       \A t \in {st.requests[id].turns : id \in S} : Cardinality(S) * t <= plan.maxTurns

\* A request is recorded as completed only when its session is.
ChildAgrees ==
  \A id \in DOMAIN st.requests :
    st.requests[id].status = "completed" => id \in DOMAIN kids /\ kids[id] = "completed"

\* Children and the account the parent keeps of them agree, in number and in end.
ChildrenAccounted == ChildBudget /\ ChildAgrees

\* What the conversation waits for: requests to decide, children to complete; a
\* child that failed is owed for ever.
Owed == Undecided \cup Unfinished \cup Failures

\* The conversation waits for its children: from the request until the child has
\* completed or is turned away, nobody speaks, no reducer answers and no result
\* is validated; after a child that failed never again.  A request is made in
\* the middle of a turn, which may be the very turn that waits (a child step) or
\* one that goes on (a facilitator's), and outlives the run that made it.
ConversationWaits == [][Owed # {} => UNCHANGED <<st.conv, st.result, st.validation>>]_vars

\* The documented separation of budgets: a request is turned away for want of
\* children only when requests have used them up.
StaticSparesBudget ==
  \A id \in DOMAIN st.requests :
    st.requests[id].verdict = "children_exhausted" => Cardinality(Dynamic) >= plan.maxChildren

\* The documented source of the result: the reducer, when the plan says so.
ReducerDecides == st.terminal = "completed" /\ plan.fromReducer => st.result.by = "reducer"
=============================================================================
