---------------------------- MODULE ProviderTurn ----------------------------
(***************************************************************************)
(* The turns of one provider slot: RunTurn (agentbus_backend.go), the      *)
(* event loop of runEmbeddedTurnWithWatchdogTimeout (agentbus_turn.go),    *)
(* and what callActiveAttempt (engine.go) does with the answer.            *)
(*                                                                         *)
(* The loop races the provider's event stream, the caller's context, the   *)
(* stall timer, the goroutine that delivers an interrupt, and the drain    *)
(* timer that bounds the wait for a stream which was told to end.  The     *)
(* slot keeps its session handle for the next turn or drops it; a dropped  *)
(* handle may still have an open stream, or an interrupt on the way.       *)
(*                                                                         *)
(* AgentBus is not part of the repository: it may send any events for any  *)
(* time, end or not end, and answer an interrupt or not.                   *)
(*                                                                         *)
(* A text is whether there is any; a terminal error is its class in        *)
(* provider_lifecycle.go (an error worded exactly like the exit of the     *)
(* process is not told apart from others); warnings are left out.          *)
(***************************************************************************)
EXTENDS Naturals

CONSTANTS Ids,       \* identifiers of conversations
          NoId,      \* the empty identifier
          NoFinal,   \* no final observation
          Classes,   \* classes of terminal errors a provider may report
          MaxTurns   \* bound on the turns

ASSUME IdAssumption    == NoId \notin Ids
ASSUME ClassAssumption == Classes \subseteq {"auth", "configuration", "transient", "provider_error"}
ASSUME TurnsAssumption == MaxTurns \in Nat

VARIABLES
  watchdog,      \* the turn has a stall timeout
  pc,            \* where the runner is
  turns,         \* turns begun, which number the handles too
  slot,          \* sessionID, started and session of the backend
  t,             \* locals of the turn
  ctx,           \* the caller's context is done
  live,          \* handles whose event stream is open
  interrupting,  \* handles with an interrupt on the way
  result,        \* what RunTurn returned
  logged,        \* ProviderSessionID of the last successful attempt
  silent         \* the stall timer has run out since the last event (history)

vars == <<watchdog, pc, turns, slot, t, ctx, live, interrupting, result, logged, silent>>

-----------------------------------------------------------------------------
AnyId  == Ids \cup {NoId}
Finals == [timedOut : BOOLEAN, canceled : BOOLEAN, failed : BOOLEAN]
Timers == {"off", "armed", "fired"}

Turn == [stall : Timers, drain : Timers, stalled : BOOLEAN, canceled : BOOLEAN,
         unclosed : BOOLEAN, calledOff : BOOLEAN, interrupt : {"none", "waiting", "done"},
         output : BOOLEAN, errors : SUBSET Classes, final : Finals \cup {NoFinal}]

Result == [kind : {"none", "answer", "retryable", "failed", "canceled"},
           text : {"none", "answer", "placeholder"},
           timedOut : BOOLEAN, stalled : BOOLEAN, recovered : BOOLEAN]

NoTurn == [stall |-> "off", drain |-> "off", stalled |-> FALSE, canceled |-> FALSE,
           unclosed |-> FALSE, calledOff |-> FALSE, interrupt |-> "none",
           output |-> FALSE, errors |-> {}, final |-> NoFinal]

NoResult == [kind |-> "none", text |-> "none", timedOut |-> FALSE, stalled |-> FALSE,
             recovered |-> FALSE]

\* newEmbeddedBackend for Codex: no conversation yet.  Handle 0 is none.
NewSlot == [sessionID |-> NoId, started |-> FALSE, session |-> 0]

\* runner.backend: RestoreState when the log has a continuation.
Restored(id) == [sessionID |-> id, started |-> id # NoId, session |-> 0]

TypeOK ==
  /\ watchdog \in BOOLEAN
  /\ pc \in {"idle", "opened", "loop", "classify", "decide", "returned", "over"}
  /\ turns \in 0..MaxTurns
  /\ slot \in [sessionID : AnyId, started : BOOLEAN, session : 0..MaxTurns]
  /\ t \in Turn
  /\ ctx \in BOOLEAN
  /\ live \subseteq 1..MaxTurns
  /\ interrupting \subseteq 1..MaxTurns
  /\ result \in Result
  /\ logged \in AnyId
  /\ silent \in BOOLEAN

Init ==
  /\ watchdog \in BOOLEAN
  /\ pc = "idle" /\ turns = 0 /\ slot = NewSlot /\ t = NoTurn /\ ctx = FALSE
  /\ live = {} /\ interrupting = {} /\ result = NoResult /\ logged = NoId
  /\ silent = FALSE

-----------------------------------------------------------------------------
\* providerFailureCategory, for the classes of the joined terminal errors.
Category(errors) ==
  CASE errors = {}                -> "unknown"
    [] "auth" \in errors          -> "auth"
    [] "configuration" \in errors /\ "auth" \notin errors -> "configuration"
    [] errors \cap {"auth", "configuration"} = {} /\ "transient" \in errors -> "transient"
    [] OTHER                      -> "provider_error"

\* Mutant: the retryable patterns are tried before the authentication ones.
RetryableFirst(errors) == "transient" \in errors

\* classifyRetryableProviderError: a hint of a broken installation or an
\* authentication failure anywhere in the text wins.
ClassifyRetryable(errors) == Category(errors) = "transient"

Answer(u, text, recovered) ==
  [kind |-> "answer", text |-> text, stalled |-> u.stalled, recovered |-> recovered,
   timedOut |-> u.final # NoFinal /\ u.final.timedOut]

Failure(u, kind) ==
  [kind |-> kind, text |-> IF u.output THEN "answer" ELSE "none", stalled |-> u.stalled,
   recovered |-> FALSE, timedOut |-> u.final # NoFinal /\ u.final.timedOut]

\* The returns of runEmbeddedTurnWithWatchdogTimeout, in their order, and
\* RunTurn's conversion of a timeout that also reports a failed process.
\* done is ctx.Err() as the later test sees it.
Classify(u, done) ==
  LET said       == u.errors
      suppressed == u.calledOff \/ (u.stalled /\ u.final # NoFinal /\ u.final.canceled)
      failure    == IF suppressed THEN {} ELSE said
  IN IF ClassifyRetryable(failure)            THEN Failure(u, "retryable")
     ELSE IF Category(failure) = "auth"       THEN Failure(u, "failed")
     ELSE IF done /\ ~u.stalled               THEN Failure([u EXCEPT !.output = @ /\ u.unclosed], "canceled")
     ELSE IF u.stalled \/ said # {}
          THEN IF u.output    THEN Answer(u, "answer", TRUE)
               ELSE IF u.stalled THEN Answer(u, "placeholder", FALSE)
               ELSE Failure(u, "failed")
     ELSE IF u.final = NoFinal                THEN Failure(u, "failed")
     ELSE IF u.output THEN Answer(u, "answer", u.final.failed \/ u.final.timedOut \/ u.final.canceled)
     ELSE IF u.final.canceled                 THEN Failure(u, "failed")
     ELSE IF u.final.failed /\ ~u.final.timedOut THEN Failure(u, "failed")
     ELSE Answer(u, "placeholder", FALSE)

\* Mutant: the identifier is kept, but not that the conversation was started.
CaptureOnlyID(s, id) == IF id = NoId THEN s ELSE [s EXCEPT !.sessionID = id]

\* captureSessionID.  id is what the final observation says, or else the handle.
CaptureSessionID(s, id) ==
  IF id = NoId THEN s ELSE [s EXCEPT !.sessionID = id, !.started = TRUE]

\* Mutant: only an error drops the handle.
KeepUnlessError(s, r, final) == IF r.kind # "answer" THEN [s EXCEPT !.session = 0] ELSE s

\* RunTurn keeps the handle only after a turn that nothing went wrong in.
KeepSession(s, r, final) ==
  IF \/ r.kind # "answer"
     \/ r.stalled
     \/ final # NoFinal /\ (final.failed \/ final.timedOut \/ final.canceled)
  THEN [s EXCEPT !.session = 0] ELSE s

\* The end of RunTurn.  The identifier is the provider's to choose.
Return(r, final) ==
  /\ result' = r /\ pc' = "returned"
  /\ \E id \in AnyId : slot' = KeepSession(CaptureSessionID(slot, id), r, final)

-----------------------------------------------------------------------------
\* RunTurn: uses the handle it has, or resumes the conversation it knows, or
\* starts one.  Either may fail, which touches nothing; a context that is done
\* ends the run before.
OpenSession ==
  /\ pc = "idle" /\ turns < MaxTurns
  /\ turns' = turns + 1
  /\ \/ /\ ctx /\ pc' = "returned" /\ result' = Failure(NoTurn, "canceled")
        /\ UNCHANGED slot
     \/ /\ ~ctx /\ pc' = "opened" /\ result' = NoResult
        /\ slot' = IF slot.session = 0 THEN [slot EXCEPT !.session = turns + 1] ELSE slot
     \/ /\ ~ctx /\ slot.session = 0 /\ pc' = "returned" /\ result' = Failure(NoTurn, "failed")
        /\ UNCHANGED slot
  /\ UNCHANGED <<watchdog, t, ctx, live, interrupting, logged, silent>>

\* session.Turn: a stream, or an error, for which a done context is blamed.
BeginTurn ==
  /\ pc = "opened"
  /\ \/ /\ pc' = "loop" /\ live' = live \cup {slot.session} /\ silent' = FALSE
        /\ t' = [t EXCEPT !.stall = IF watchdog THEN "armed" ELSE "off"]
        /\ UNCHANGED <<slot, result>>
     \/ /\ Return(Failure(t, IF ctx THEN "canceled" ELSE "failed"), NoFinal)
        /\ UNCHANGED <<t, live, silent>>
  /\ UNCHANGED <<watchdog, turns, ctx, interrupting, logged>>

Draining == t.stalled \/ t.canceled

InLoop == pc = "loop" /\ UNCHANGED <<watchdog, turns, slot, ctx, result, logged>>

\* Mutant: an error event without a text is kept as it is.
HeardBlank(u) ==
  {u, [u EXCEPT !.output = TRUE]}
    \cup {[u EXCEPT !.errors = @ \cup {c}] : c \in Classes \cup {""}}
    \cup {[u EXCEPT !.final = f] : f \in Finals}

\* What an event may leave in the locals: nothing (tool use, progress, model,
\* warning), text, a terminal error, or the final observation.
Heard(u) ==
  {u, [u EXCEPT !.output = TRUE]}
    \cup {[u EXCEPT !.errors = @ \cup {c}] : c \in Classes}
    \cup {[u EXCEPT !.final = f] : f \in Finals}

\* Mutant: the stall timer runs from the start of the turn.
NeverRearm(u) == u

\* An event restarts the stall timer, and drops what it may have left in its
\* channel, unless the stream is only drained.
Rearm(u) == IF u.stall = "off" THEN u ELSE [u EXCEPT !.stall = "armed"]

Receive ==
  /\ InLoop /\ slot.session \in live
  /\ t' \in Heard(Rearm(t)) /\ silent' = FALSE
  /\ UNCHANGED <<pc, live, interrupting>>

\* Mutant: nothing bounds the wait for the end of the stream.
NoDrainTimer(u) == [u EXCEPT !.stall = "off"]

\* startDrainTimer.  From here on nothing reads the stall timer.
StartDrainTimer(u) == [u EXCEPT !.drain = "armed", !.stall = "off"]

NoticeCancel ==
  /\ InLoop /\ ~Draining /\ ctx
  /\ t' = StartDrainTimer([t EXCEPT !.canceled = TRUE])
  /\ UNCHANGED <<pc, live, interrupting, silent>>

\* The stall timer's branch: a done context is preferred, otherwise a goroutine
\* is started to interrupt the provider.
NoticeStall ==
  /\ InLoop /\ ~Draining /\ t.stall = "fired"
  /\ \/ /\ ctx /\ t' = StartDrainTimer([t EXCEPT !.canceled = TRUE])
        /\ UNCHANGED interrupting
     \/ /\ ~ctx /\ t' = StartDrainTimer([t EXCEPT !.stalled = TRUE, !.interrupt = "waiting"])
        /\ interrupting' = interrupting \cup {slot.session}
  /\ UNCHANGED <<pc, live, silent>>

CollectInterrupt ==
  /\ InLoop /\ Draining /\ t.interrupt = "done"
  /\ t' = [t EXCEPT !.interrupt = "none"]
  /\ UNCHANGED <<pc, live, interrupting, silent>>

StreamEnds ==
  /\ InLoop /\ slot.session \in live
  /\ live' = live \ {slot.session} /\ pc' = "classify"
  /\ UNCHANGED <<t, interrupting, silent>>

DrainElapses ==
  /\ InLoop /\ Draining /\ t.drain = "fired"
  /\ t' = [t EXCEPT !.unclosed = TRUE, !.drain = "off"] /\ pc' = "classify"
  /\ UNCHANGED <<live, interrupting, silent>>

\* After the loop ctx.Err() is read twice, and may change in between.
ReadContext ==
  /\ pc = "classify" /\ pc' = "decide"
  /\ t' = [t EXCEPT !.calledOff = ctx, !.interrupt = "none"]
  /\ UNCHANGED <<watchdog, turns, slot, ctx, live, interrupting, result, logged, silent>>

ReturnTurn ==
  /\ pc = "decide"
  /\ Return(Classify(t, ctx), t.final)
  /\ UNCHANGED <<watchdog, turns, t, ctx, live, interrupting, logged, silent>>

\* callActiveAttempt: nothing is recorded once the context is done.  A success
\* records the conversation, a failure does not.  The run goes on or ends.
Record ==
  /\ pc = "returned"
  /\ logged' = IF ~ctx /\ result.kind = "answer" THEN slot.sessionID ELSE logged
  /\ pc' \in IF ctx THEN {"over"} ELSE {"idle", "over"}
  /\ t' = NoTurn
  /\ UNCHANGED <<watchdog, turns, slot, ctx, live, interrupting, result, silent>>

-----------------------------------------------------------------------------
StallTimer ==
  /\ InLoop /\ t.stall = "armed"
  /\ t' = [t EXCEPT !.stall = "fired"] /\ silent' = TRUE
  /\ UNCHANGED <<pc, live, interrupting>>

DrainTimer ==
  /\ InLoop /\ t.drain = "armed"
  /\ t' = [t EXCEPT !.drain = "fired"]
  /\ UNCHANGED <<pc, live, interrupting, silent>>

Cancel ==
  /\ ~ctx /\ pc # "over" /\ ctx' = TRUE
  /\ UNCHANGED <<watchdog, pc, turns, slot, t, live, interrupting, result, logged, silent>>

\* The provider answers an interrupt, perhaps long after its turn returned.
InterruptReturns ==
  \E h \in interrupting :
    /\ interrupting' = interrupting \ {h}
    /\ t' = IF pc = "loop" /\ h = slot.session THEN [t EXCEPT !.interrupt = "done"] ELSE t
    /\ UNCHANGED <<watchdog, pc, turns, slot, ctx, live, result, logged, silent>>

\* The stream of a turn that was given up closes after all.
AbandonedStreamEnds ==
  \E h \in live :
    /\ ~(pc = "loop" /\ h = slot.session)
    /\ live' = live \ {h}
    /\ UNCHANGED <<watchdog, pc, turns, slot, t, ctx, interrupting, result, logged, silent>>

\* The run is over or its process died, and the session is resumed in another.
Resume ==
  /\ pc' = "idle" /\ slot' = Restored(logged) /\ t' = NoTurn /\ result' = NoResult
  /\ ctx' = FALSE /\ live' = {} /\ interrupting' = {} /\ silent' = FALSE
  /\ UNCHANGED <<watchdog, turns, logged>>

Run == \/ OpenSession \/ BeginTurn \/ NoticeCancel \/ NoticeStall \/ CollectInterrupt
       \/ DrainElapses \/ ReadContext \/ ReturnTurn \/ Record

Next == \/ Run \/ Receive \/ StreamEnds \/ StallTimer \/ DrainTimer \/ Cancel
        \/ InterruptReturns \/ AbandonedStreamEnds \/ Resume

\* The runner's goroutine and the two timers; nothing of the provider.
Spec == /\ Init /\ [][Next]_vars
        /\ WF_vars(Run) /\ WF_vars(StallTimer) /\ WF_vars(DrainTimer)

-----------------------------------------------------------------------------
\* A turn never begins on a handle on which an earlier turn's stream is open or
\* an interrupt is on its way: the interrupt would stop, and the stream would
\* answer, the wrong prompt (agentbus_backend.go:182).
HandleIsFresh == pc = "opened" => slot.session \notin live \cup interrupting

\* An answer the provider gave is given up only when its turn did not end with a
\* final observation, for the failures that are worth a retry or a login, or for
\* the caller's cancellation.
AnswerKept ==
  t.output => \/ result.kind = "answer" /\ result.text = "answer"
              \/ result.kind = "canceled" /\ ctx
              \/ result.kind = "failed" /\ t.final = NoFinal /\ t.errors = {}
              \/ result.kind # "answer" /\ Category(t.errors) \in {"auth", "transient"}

\* What is recorded as plainly completed was a whole, faultless turn.
CompletedMeansClean ==
  result.kind = "answer" /\ ~(result.timedOut \/ result.stalled \/ result.recovered) =>
    /\ t.errors = {} /\ ~t.unclosed /\ t.final # NoFinal
    /\ ~(t.final.failed \/ t.final.timedOut \/ t.final.canceled)

\* Failed credentials and what our own cancellation or interrupt provoked are
\* never called retryable.
RetryIsEarned ==
  result.kind = "retryable" => /\ "transient" \in t.errors /\ "auth" \notin t.errors
                               /\ ~(t.canceled \/ (t.stalled /\ t.final # NoFinal /\ t.final.canceled))

\* Whichever of stream, timers, interrupt and cancellation came first, what
\* RunTurn returns is what happened (agentbus_turn.go:203-288).
OutcomeIsTrue == pc = "returned" => AnswerKept /\ CompletedMeansClean /\ RetryIsEarned

\* A process that resumes continues the conversation that the live one would
\* have continued after the same recorded answer (engine.go:579, agentbus_backend.go:355).
ResumeContinues ==
  pc = "idle" /\ result.kind = "answer" =>
    [slot EXCEPT !.session = 0] = Restored(logged)

\* One conversation from turn to turn and from process to process: never a
\* handle that is still in use, never another conversation than the logged one.
ConversationKept == HandleIsFresh /\ ResumeContinues

\* The loop interrupts a provider only after a whole timeout without an event,
\* however the timer and the event stream race.
StallMeansSilence == [][t'.stalled /\ ~t.stalled => silent]_vars

\* With a watchdog a provider that falls silent for good cannot hold a turn.
SilenceEnds == (watchdog /\ <>[][~Receive]_vars) => []<>(pc # "loop")

\* Nor can one that goes on talking hold it after a stall or a cancellation.
DrainEnds == (pc = "loop" /\ (t.stalled \/ ctx)) ~> pc # "loop"

\* No turn hangs in the event loop (agentbus_turn.go:65-77).
TurnEnds == SilenceEnds /\ DrainEnds
=============================================================================
