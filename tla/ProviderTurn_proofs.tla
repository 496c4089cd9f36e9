------------------------ MODULE ProviderTurn_proofs ------------------------
(***************************************************************************)
(* Proofs about ProviderTurn, for any identifiers, classes of errors and   *)
(* number of turns.  The invariant says what each place of the runner      *)
(* knows about its handle and about the turn's locals.                     *)
(***************************************************************************)
EXTENDS ProviderTurn, TLAPS

\* Numbers of handles that may be in use.
Numbered ==
  /\ slot.session <= turns
  /\ \A h \in live \cup interrupting : h <= turns
  /\ pc \in {"opened", "loop", "classify", "decide"} => slot.session # 0

\* Outside the loop a handle that is kept is quiet.
Quiet ==
  /\ pc \in {"idle", "opened", "returned"} /\ slot.session # 0 =>
       slot.session \notin live \cup interrupting
  /\ pc \in {"loop", "classify", "decide"} /\ slot.session \in interrupting => t.stalled
  /\ pc \in {"classify", "decide"} /\ slot.session \in live => t.unclosed

\* What the locals of a turn say of each other.
Locals ==
  /\ pc \in {"idle", "opened"} => t = NoTurn
  /\ pc \in {"loop", "classify", "decide"} =>
       /\ t.canceled => ctx
       /\ t.unclosed => t.stalled \/ t.canceled
       /\ t.calledOff => ctx
  /\ pc = "decide" => (t.canceled => t.calledOff)
  /\ pc = "loop" /\ t.stall = "fired" => silent

\* A conversation is started when it has an identifier.
Identified == slot.started = (slot.sessionID # NoId)

Inv == TypeOK /\ Numbered /\ Quiet /\ Locals /\ Identified

-----------------------------------------------------------------------------
\* What RunTurn returns is a result, a stall is never hidden, and after a
\* cancellation an answer is returned only by a stalled turn.
LEMMA ClassifyFacts ==
  ASSUME NEW u \in Turn, NEW done \in BOOLEAN
  PROVE  /\ Classify(u, done) \in Result
         /\ Classify(u, done).stalled = u.stalled
         /\ done /\ ~u.stalled => Classify(u, done).kind # "answer"
<1>1. \A e \in BOOLEAN : \A k \in {"retryable", "failed", "canceled"} :
        /\ Failure([u EXCEPT !.output = e], k) \in Result
        /\ Failure([u EXCEPT !.output = e], k).stalled = u.stalled
        /\ Failure([u EXCEPT !.output = e], k).kind = k
  BY DEF Turn, Finals, Result, Failure
<1>2. u = [u EXCEPT !.output = u.output] /\ u.output \in BOOLEAN /\ u.unclosed \in BOOLEAN
  BY DEF Turn
<1>3. \A k \in {"retryable", "failed", "canceled"} :
        /\ Failure(u, k) \in Result /\ Failure(u, k).stalled = u.stalled /\ Failure(u, k).kind = k
  BY <1>1, <1>2
<1>4. \A x \in {"answer", "placeholder"} : \A b \in BOOLEAN :
        /\ Answer(u, x, b) \in Result /\ Answer(u, x, b).stalled = u.stalled
  BY DEF Turn, Finals, Result, Answer
<1>5. [u EXCEPT !.output = @ /\ u.unclosed] = [u EXCEPT !.output = u.output /\ u.unclosed]
  OBVIOUS
<1>6. (u.output /\ u.unclosed) \in BOOLEAN
  BY <1>2
<1>7. /\ Failure([u EXCEPT !.output = @ /\ u.unclosed], "canceled") \in Result
      /\ Failure([u EXCEPT !.output = @ /\ u.unclosed], "canceled").stalled = u.stalled
      /\ Failure([u EXCEPT !.output = @ /\ u.unclosed], "canceled").kind = "canceled"
  BY <1>1, <1>5, <1>6
<1>8. u.final # NoFinal => u.final \in Finals
  BY DEF Turn
<1>9. u.final # NoFinal => (u.final.failed \/ u.final.timedOut \/ u.final.canceled) \in BOOLEAN
  BY <1>8 DEF Finals
<1> QED
  BY <1>3, <1>4, <1>7, <1>9 DEF Classify

-----------------------------------------------------------------------------
LEMMA NoTurnType == NoTurn \in Turn /\ NoResult \in Result
BY DEF NoTurn, Turn, NoResult, Result, Timers

LEMMA InvInit == Init => Inv
<1> SUFFICES ASSUME Init PROVE Inv
  OBVIOUS
<1> USE IdAssumption, TurnsAssumption
<1>1. /\ slot = [sessionID |-> NoId, started |-> FALSE, session |-> 0]
      /\ pc = "idle" /\ turns = 0 /\ t = NoTurn /\ live = {} /\ interrupting = {}
  BY DEF Init, NewSlot
<1>2. 0 \in 0..MaxTurns
  OBVIOUS
<1>3. slot \in [sessionID : AnyId, started : BOOLEAN, session : 0..MaxTurns]
  BY <1>1, <1>2 DEF AnyId
<1>4. TypeOK
  BY <1>1, <1>2, <1>3, NoTurnType DEF Init, TypeOK, AnyId
<1>5. Numbered /\ Quiet /\ Locals
  BY <1>1 DEF Numbered, Quiet, Locals
<1>6. slot.started = FALSE /\ slot.sessionID = NoId
  BY <1>1
<1>7. Identified
  BY <1>6 DEF Identified
<1> QED
  BY <1>4, <1>5, <1>7 DEF Inv

\* The end of RunTurn: the slot keeps its types, the conversation is started
\* when it has an identifier, and the handle stays or goes.
LEMMA ReturnFacts ==
  ASSUME TypeOK, Identified, NEW r \in Result, NEW final, Return(r, final)
  PROVE  /\ pc' = "returned" /\ result' = r
         /\ slot' \in [sessionID : AnyId, started : BOOLEAN, session : 0..MaxTurns]
         /\ slot'.started = (slot'.sessionID # NoId)
         /\ slot'.session \in {0, slot.session}
         /\ r.kind # "answer" \/ r.stalled => slot'.session = 0
<1>1. PICK id \in AnyId : slot' = KeepSession(CaptureSessionID(slot, id), r, final)
  BY DEF Return
<1> DEFINE s == CaptureSessionID(slot, id)
<1>2. /\ s \in [sessionID : AnyId, started : BOOLEAN, session : 0..MaxTurns]
      /\ s.started = (s.sessionID # NoId)
      /\ s.session = slot.session
  BY <1>1 DEF CaptureSessionID, TypeOK, Identified
<1> HIDE DEF s
<1>3. slot' = s \/ slot' = [s EXCEPT !.session = 0]
  BY <1>1 DEF KeepSession, s
<1>4. r.kind # "answer" \/ r.stalled => slot' = [s EXCEPT !.session = 0]
  BY <1>1 DEF KeepSession, s
<1>5. 0 \in 0..MaxTurns
  BY TurnsAssumption
<1>6. pc' = "returned" /\ result' = r
  BY DEF Return
<1> QED
  BY <1>2, <1>3, <1>4, <1>5, <1>6

LEMMA FailureOfNoTurn ==
  ASSUME NEW k \in {"retryable", "failed", "canceled"}
  PROVE  Failure(NoTurn, k) \in Result /\ Failure(NoTurn, k).kind = k
BY DEF Failure, NoTurn, Result

LEMMA OpenSessionStep == ASSUME Inv, OpenSession PROVE Inv'
<1> USE DEF Inv, OpenSession
<1> USE TurnsAssumption, NoTurnType, FailureOfNoTurn
<1>1. TypeOK'
  BY DEF TypeOK
<1>2. Numbered'
  BY DEF TypeOK, Numbered
<1>3. Quiet'
  BY DEF TypeOK, Numbered, Quiet
<1>4. Locals'
  BY DEF Locals
<1>5. Identified'
  BY DEF Identified, TypeOK
<1> QED
  BY <1>1, <1>2, <1>3, <1>4, <1>5

LEMMA BeginTurnStep == ASSUME Inv, BeginTurn PROVE Inv'
<1> USE TurnsAssumption, NoTurnType, FailureOfNoTurn
<1>0. t = NoTurn /\ pc = "opened" /\ slot.session # 0
  BY DEF Inv, BeginTurn, Locals, Numbered
<1>1. CASE pc' = "loop"
  <2>0. UNCHANGED <<watchdog, turns, ctx, interrupting, logged>>
    BY DEF BeginTurn
  <2>1. /\ live' = live \cup {slot.session} /\ silent' = FALSE
        /\ t' = [t EXCEPT !.stall = IF watchdog THEN "armed" ELSE "off"]
        /\ UNCHANGED <<slot, result>>
    BY <1>1 DEF BeginTurn, Return
  <2>2. TypeOK'
    <3>1. (IF watchdog THEN "armed" ELSE "off") \in Timers
      BY DEF Timers
    <3>2. t' \in Turn
      BY <2>1, <3>1 DEF Inv, TypeOK, Turn
    <3>3. slot.session \in 1..MaxTurns
      BY <1>0 DEF Inv, TypeOK
    <3> QED
      BY <1>1, <2>0, <2>1, <3>2, <3>3 DEF TypeOK, Inv
  <2>3. /\ t'.canceled = FALSE /\ t'.unclosed = FALSE /\ t'.calledOff = FALSE
        /\ t'.stall # "fired"
    BY <1>0, <2>1 DEF NoTurn
  <2>4. Numbered' /\ Quiet' /\ Locals' /\ Identified'
    BY <1>0, <1>1, <2>0, <2>1, <2>3 DEF Inv, Numbered, Quiet, Locals, Identified
  <2> QED
    BY <2>2, <2>4 DEF Inv
<1>2. CASE Return(Failure(t, IF ctx THEN "canceled" ELSE "failed"), NoFinal)
  <2>0. /\ UNCHANGED <<watchdog, turns, ctx, interrupting, logged>>
        /\ UNCHANGED <<t, live, silent>>
    BY <1>2 DEF BeginTurn, Return
  <2> DEFINE r == Failure(t, IF ctx THEN "canceled" ELSE "failed")
  <2>1. r \in Result /\ r.kind # "answer"
    BY <1>0
  <2> HIDE DEF r
  <2>2. /\ pc' = "returned" /\ result' = r
        /\ slot' \in [sessionID : AnyId, started : BOOLEAN, session : 0..MaxTurns]
        /\ slot'.started = (slot'.sessionID # NoId)
        /\ slot'.session = 0
    BY <1>2, <2>1, ReturnFacts DEF r, Inv
  <2>3. TypeOK'
    BY <2>0, <2>1, <2>2 DEF Inv, TypeOK
  <2>4. Numbered' /\ Quiet' /\ Locals' /\ Identified'
    BY <2>0, <2>2 DEF Inv, TypeOK, Numbered, Quiet, Locals, Identified
  <2> QED
    BY <2>3, <2>4 DEF Inv
<1> QED
  BY <1>1, <1>2 DEF BeginTurn

-----------------------------------------------------------------------------
\* The event loop.
LEMMA ReceiveStep == ASSUME Inv, Receive PROVE Inv'
<1>0. /\ pc = "loop" /\ t' \in Heard(Rearm(t)) /\ silent' = FALSE
      /\ UNCHANGED <<watchdog, turns, slot, ctx, result, logged, pc, live, interrupting>>
  BY DEF Receive, InLoop
<1> DEFINE u == Rearm(t)
<1>1. u \in Turn
  BY DEF Inv, TypeOK, Rearm, Turn, Timers
<1>2. u.stall # "fired" /\ u.stalled = t.stalled /\ u.canceled = t.canceled
      /\ u.unclosed = t.unclosed /\ u.calledOff = t.calledOff
  BY DEF Inv, TypeOK, Rearm, Turn, Timers
<1> HIDE DEF u
<1>3. t' \in Turn
  <2>1. CASE t' = u \/ t' = [u EXCEPT !.output = TRUE]
    BY <1>1, <2>1 DEF Turn
  <2>2. ASSUME NEW c \in Classes, t' = [u EXCEPT !.errors = @ \cup {c}] PROVE t' \in Turn
    BY <1>1, <2>2 DEF Turn
  <2>3. ASSUME NEW f \in Finals, t' = [u EXCEPT !.final = f] PROVE t' \in Turn
    BY <1>1, <2>3 DEF Turn
  <2> QED
    BY <1>0, <2>1, <2>2, <2>3 DEF Heard, u
<1> DEFINE Same == /\ t'.stall # "fired" /\ t'.stalled = t.stalled /\ t'.canceled = t.canceled
                   /\ t'.unclosed = t.unclosed /\ t'.calledOff = t.calledOff
<1>4. Same
  <2>1. CASE t' = u \/ t' = [u EXCEPT !.output = TRUE]
    BY <1>1, <1>2, <2>1 DEF Turn
  <2>2. ASSUME NEW c \in Classes, t' = [u EXCEPT !.errors = @ \cup {c}] PROVE Same
    BY <1>1, <1>2, <2>2 DEF Turn
  <2>3. ASSUME NEW f \in Finals, t' = [u EXCEPT !.final = f] PROVE Same
    BY <1>1, <1>2, <2>3 DEF Turn
  <2> QED
    BY <1>0, <2>1, <2>2, <2>3 DEF Heard, u
<1>5. TypeOK'
  BY <1>0, <1>3 DEF Inv, TypeOK
<1>6. Numbered' /\ Quiet' /\ Locals' /\ Identified'
  BY <1>0, <1>4 DEF Inv, Numbered, Quiet, Locals, Identified
<1> QED
  BY <1>5, <1>6 DEF Inv

LEMMA NoticeCancelStep == ASSUME Inv, NoticeCancel PROVE Inv'
<1>0. /\ pc = "loop" /\ ctx /\ t' = StartDrainTimer([t EXCEPT !.canceled = TRUE])
      /\ UNCHANGED <<watchdog, turns, slot, ctx, result, logged, pc, live, interrupting, silent>>
  BY DEF NoticeCancel, InLoop
<1>1. /\ t' \in Turn /\ t'.stall = "off" /\ t'.stalled = t.stalled
      /\ t'.canceled = TRUE /\ t'.unclosed = t.unclosed /\ t'.calledOff = t.calledOff
  BY <1>0 DEF Inv, TypeOK, StartDrainTimer, Turn, Timers
<1>2. TypeOK'
  BY <1>0, <1>1 DEF Inv, TypeOK
<1>3. Numbered' /\ Quiet' /\ Locals' /\ Identified'
  BY <1>0, <1>1 DEF Inv, Numbered, Quiet, Locals, Identified
<1> QED
  BY <1>2, <1>3 DEF Inv

LEMMA NoticeStallStep == ASSUME Inv, NoticeStall PROVE Inv'
<1>0. /\ pc = "loop"
      /\ UNCHANGED <<watchdog, turns, slot, ctx, result, logged, pc, live, silent>>
  BY DEF NoticeStall, InLoop
<1>1. CASE ctx /\ t' = StartDrainTimer([t EXCEPT !.canceled = TRUE]) /\ UNCHANGED interrupting
  <2>1. /\ t' \in Turn /\ t'.stall = "off" /\ t'.stalled = t.stalled
        /\ t'.canceled = TRUE /\ t'.unclosed = t.unclosed /\ t'.calledOff = t.calledOff
    BY <1>1 DEF Inv, TypeOK, StartDrainTimer, Turn, Timers
  <2>2. TypeOK'
    BY <1>0, <1>1, <2>1 DEF Inv, TypeOK
  <2>3. Numbered' /\ Quiet' /\ Locals' /\ Identified'
    BY <1>0, <1>1, <2>1 DEF Inv, Numbered, Quiet, Locals, Identified
  <2> QED
    BY <2>2, <2>3 DEF Inv
<1>2. CASE /\ t' = StartDrainTimer([t EXCEPT !.stalled = TRUE, !.interrupt = "waiting"])
           /\ interrupting' = interrupting \cup {slot.session}
  <2>1. /\ t' \in Turn /\ t'.stall = "off" /\ t'.stalled = TRUE
        /\ t'.canceled = t.canceled /\ t'.unclosed = t.unclosed /\ t'.calledOff = t.calledOff
    <3> DEFINE v == [t EXCEPT !.stalled = TRUE, !.interrupt = "waiting"]
    <3>1. /\ v \in Turn /\ v.stalled = TRUE /\ v.canceled = t.canceled
          /\ v.unclosed = t.unclosed /\ v.calledOff = t.calledOff
      BY DEF Inv, TypeOK, Turn
    <3>2. t' = [v EXCEPT !.drain = "armed", !.stall = "off"]
      BY <1>2 DEF StartDrainTimer
    <3> HIDE DEF v
    <3> QED
      BY <3>1, <3>2 DEF Turn, Timers
  <2>2. slot.session \in 1..MaxTurns
    BY <1>0 DEF Inv, TypeOK, Numbered
  <2>3. TypeOK'
    BY <1>0, <1>2, <2>1, <2>2 DEF Inv, TypeOK
  <2>4. Numbered' /\ Quiet' /\ Locals' /\ Identified'
    BY <1>0, <1>2, <2>1 DEF Inv, Numbered, Quiet, Locals, Identified
  <2> QED
    BY <2>3, <2>4 DEF Inv
<1> QED
  BY <1>1, <1>2 DEF NoticeStall

LEMMA CollectInterruptStep == ASSUME Inv, CollectInterrupt PROVE Inv'
<1>0. /\ pc = "loop" /\ t' = [t EXCEPT !.interrupt = "none"]
      /\ UNCHANGED <<watchdog, turns, slot, ctx, result, logged, pc, live, interrupting, silent>>
  BY DEF CollectInterrupt, InLoop
<1>1. /\ t' \in Turn /\ t'.stall = t.stall /\ t'.stalled = t.stalled
      /\ t'.canceled = t.canceled /\ t'.unclosed = t.unclosed /\ t'.calledOff = t.calledOff
  BY <1>0 DEF Inv, TypeOK, Turn
<1>2. TypeOK'
  BY <1>0, <1>1 DEF Inv, TypeOK
<1>3. Numbered' /\ Quiet' /\ Locals' /\ Identified'
  BY <1>0, <1>1 DEF Inv, Numbered, Quiet, Locals, Identified
<1> QED
  BY <1>2, <1>3 DEF Inv

LEMMA StreamEndsStep == ASSUME Inv, StreamEnds PROVE Inv'
<1>0. /\ pc = "loop" /\ live' = live \ {slot.session} /\ pc' = "classify"
      /\ UNCHANGED <<watchdog, turns, slot, ctx, result, logged, t, interrupting, silent>>
  BY DEF StreamEnds, InLoop
<1>1. TypeOK'
  BY <1>0 DEF Inv, TypeOK
<1>2. Numbered' /\ Quiet' /\ Locals' /\ Identified'
  BY <1>0 DEF Inv, Numbered, Quiet, Locals, Identified
<1> QED
  BY <1>1, <1>2 DEF Inv

LEMMA DrainElapsesStep == ASSUME Inv, DrainElapses PROVE Inv'
<1>0. /\ pc = "loop" /\ pc' = "classify" /\ (t.stalled \/ t.canceled)
      /\ t' = [t EXCEPT !.unclosed = TRUE, !.drain = "off"]
      /\ UNCHANGED <<watchdog, turns, slot, ctx, result, logged, live, interrupting, silent>>
  BY DEF DrainElapses, InLoop, Draining
<1>1. /\ t' \in Turn /\ t'.stalled = t.stalled /\ t'.canceled = t.canceled
      /\ t'.unclosed = TRUE /\ t'.calledOff = t.calledOff
  BY <1>0 DEF Inv, TypeOK, Turn, Timers
<1>2. TypeOK'
  BY <1>0, <1>1 DEF Inv, TypeOK
<1>3. Numbered' /\ Quiet' /\ Locals' /\ Identified'
  BY <1>0, <1>1 DEF Inv, Numbered, Quiet, Locals, Identified
<1> QED
  BY <1>2, <1>3 DEF Inv

LEMMA TimerStep == ASSUME Inv, StallTimer \/ DrainTimer PROVE Inv'
<1>0. /\ pc = "loop"
      /\ UNCHANGED <<watchdog, turns, slot, ctx, result, logged, pc, live, interrupting>>
  BY DEF StallTimer, DrainTimer, InLoop
<1>1. /\ t' \in Turn /\ t'.stalled = t.stalled /\ t'.canceled = t.canceled
      /\ t'.unclosed = t.unclosed /\ t'.calledOff = t.calledOff
  BY DEF StallTimer, DrainTimer, Inv, TypeOK, Turn, Timers
<1>2. silent' \in BOOLEAN /\ (t'.stall = "fired" => silent')
  BY DEF StallTimer, DrainTimer, InLoop, Inv, TypeOK, Locals, Turn
<1>3. TypeOK'
  BY <1>0, <1>1, <1>2 DEF Inv, TypeOK
<1>4. Numbered' /\ Quiet' /\ Locals' /\ Identified'
  BY <1>0, <1>1, <1>2 DEF Inv, Numbered, Quiet, Locals, Identified
<1> QED
  BY <1>3, <1>4 DEF Inv

-----------------------------------------------------------------------------
\* The end of a turn, and what goes on outside it.
LEMMA ReadContextStep == ASSUME Inv, ReadContext PROVE Inv'
<1>0. /\ pc = "classify" /\ pc' = "decide"
      /\ t' = [t EXCEPT !.calledOff = ctx, !.interrupt = "none"]
      /\ UNCHANGED <<watchdog, turns, slot, ctx, live, interrupting, result, logged, silent>>
  BY DEF ReadContext
<1>1. /\ t' \in Turn /\ t'.stalled = t.stalled /\ t'.canceled = t.canceled
      /\ t'.unclosed = t.unclosed /\ t'.calledOff = ctx
  BY <1>0 DEF Inv, TypeOK, Turn
<1>2. TypeOK'
  BY <1>0, <1>1 DEF Inv, TypeOK
<1>3. Numbered' /\ Quiet' /\ Locals' /\ Identified'
  BY <1>0, <1>1 DEF Inv, Numbered, Quiet, Locals, Identified
<1> QED
  BY <1>2, <1>3 DEF Inv

LEMMA ReturnTurnStep == ASSUME Inv, ReturnTurn PROVE Inv'
<1> DEFINE r == Classify(t, ctx)
<1>0. /\ pc = "decide" /\ Return(r, t.final)
      /\ UNCHANGED <<watchdog, turns, t, ctx, live, interrupting, logged, silent>>
  BY DEF ReturnTurn
<1>1. /\ r \in Result /\ r.stalled = t.stalled
      /\ ctx /\ ~t.stalled => r.kind # "answer"
  BY ClassifyFacts DEF Inv, TypeOK
<1> HIDE DEF r
<1>2. /\ pc' = "returned" /\ result' = r
      /\ slot' \in [sessionID : AnyId, started : BOOLEAN, session : 0..MaxTurns]
      /\ slot'.started = (slot'.sessionID # NoId)
      /\ slot'.session \in {0, slot.session}
      /\ r.kind # "answer" \/ r.stalled => slot'.session = 0
  BY <1>0, <1>1, ReturnFacts DEF Inv
<1>3. slot'.session # 0 => slot.session \notin live \cup interrupting
  <2> SUFFICES ASSUME slot'.session # 0 PROVE slot.session \notin live \cup interrupting
    OBVIOUS
  <2>1. r.kind = "answer" /\ ~t.stalled
    BY <1>1, <1>2
  <2>2. ~ctx
    BY <1>1, <2>1 DEF Inv, TypeOK
  <2>3. ~t.unclosed
    BY <1>0, <2>1, <2>2 DEF Inv, Locals
  <2> QED
    BY <1>0, <2>1, <2>3 DEF Inv, Quiet
<1>4. TypeOK'
  BY <1>0, <1>1, <1>2 DEF Inv, TypeOK
<1>5. Numbered'
  BY <1>0, <1>2 DEF Inv, TypeOK, Numbered
<1>6. Quiet'
  BY <1>0, <1>2, <1>3 DEF Quiet
<1>7. Locals' /\ Identified'
  BY <1>0, <1>2 DEF Locals, Identified
<1> QED
  BY <1>4, <1>5, <1>6, <1>7 DEF Inv

LEMMA RecordStep == ASSUME Inv, Record PROVE Inv'
<1>0. /\ pc = "returned" /\ pc' \in {"idle", "over"} /\ t' = NoTurn
      /\ UNCHANGED <<watchdog, turns, slot, ctx, live, interrupting, result, silent>>
  BY DEF Record
<1>1. logged' \in AnyId
  BY DEF Record, Inv, TypeOK
<1>2. TypeOK'
  BY <1>0, <1>1, NoTurnType DEF Inv, TypeOK
<1>3. Numbered' /\ Quiet' /\ Locals' /\ Identified'
  BY <1>0 DEF Inv, Numbered, Quiet, Locals, Identified
<1> QED
  BY <1>2, <1>3 DEF Inv

LEMMA CancelStep == ASSUME Inv, Cancel PROVE Inv'
<1>0. /\ ctx' = TRUE
      /\ UNCHANGED <<watchdog, pc, turns, slot, t, live, interrupting, result, logged, silent>>
  BY DEF Cancel
<1>1. TypeOK'
  BY <1>0 DEF Inv, TypeOK
<1>2. Numbered' /\ Quiet' /\ Locals' /\ Identified'
  BY <1>0 DEF Inv, Numbered, Quiet, Locals, Identified
<1> QED
  BY <1>1, <1>2 DEF Inv

LEMMA InterruptReturnsStep == ASSUME Inv, InterruptReturns PROVE Inv'
<1>0. /\ interrupting' \subseteq interrupting
      /\ UNCHANGED <<watchdog, pc, turns, slot, ctx, live, result, logged, silent>>
  BY DEF InterruptReturns
<1>1. pc # "loop" => t' = t
  BY DEF InterruptReturns
<1>2. /\ t' \in Turn /\ t'.stall = t.stall /\ t'.stalled = t.stalled
      /\ t'.canceled = t.canceled /\ t'.unclosed = t.unclosed /\ t'.calledOff = t.calledOff
  BY DEF InterruptReturns, Inv, TypeOK, Turn
<1>3. TypeOK'
  BY <1>0, <1>2 DEF Inv, TypeOK
<1>4. Numbered' /\ Quiet' /\ Locals' /\ Identified'
  BY <1>0, <1>1, <1>2 DEF Inv, Numbered, Quiet, Locals, Identified
<1> QED
  BY <1>3, <1>4 DEF Inv

LEMMA AbandonedStreamEndsStep == ASSUME Inv, AbandonedStreamEnds PROVE Inv'
<1>0. /\ live' \subseteq live
      /\ UNCHANGED <<watchdog, pc, turns, slot, t, ctx, interrupting, result, logged, silent>>
  BY DEF AbandonedStreamEnds
<1>1. TypeOK'
  BY <1>0 DEF Inv, TypeOK
<1>2. Numbered' /\ Quiet' /\ Locals' /\ Identified'
  BY <1>0 DEF Inv, Numbered, Quiet, Locals, Identified
<1> QED
  BY <1>1, <1>2 DEF Inv

LEMMA ResumeStep == ASSUME Inv, Resume PROVE Inv'
<1>0. /\ pc' = "idle" /\ t' = NoTurn /\ result' = NoResult /\ live' = {} /\ interrupting' = {}
      /\ slot' = [sessionID |-> logged, started |-> logged # NoId, session |-> 0]
      /\ ctx' = FALSE /\ silent' = FALSE
      /\ UNCHANGED <<watchdog, turns, logged>>
  BY DEF Resume, Restored
<1>1. 0 \in 0..MaxTurns
  BY TurnsAssumption
<1>2. slot' \in [sessionID : AnyId, started : BOOLEAN, session : 0..MaxTurns]
  BY <1>0, <1>1 DEF Inv, TypeOK
<1>3. slot'.session = 0 /\ slot'.sessionID = logged /\ slot'.started = (logged # NoId)
  BY <1>0
<1>4. TypeOK'
  BY <1>0, <1>2, NoTurnType DEF Inv, TypeOK
<1>5. Numbered' /\ Quiet' /\ Locals'
  BY <1>0, <1>3 DEF Inv, TypeOK, Numbered, Quiet, Locals
<1>6. Identified'
  BY <1>3 DEF Identified
<1> QED
  BY <1>4, <1>5, <1>6 DEF Inv

LEMMA InvStep == Inv /\ [Next]_vars => Inv'
<1> SUFFICES ASSUME Inv, [Next]_vars PROVE Inv'
  OBVIOUS
<1>1. CASE Run
  BY <1>1, OpenSessionStep, BeginTurnStep, NoticeCancelStep, NoticeStallStep,
     CollectInterruptStep, DrainElapsesStep, ReadContextStep, ReturnTurnStep, RecordStep DEF Run
<1>2. CASE UNCHANGED vars
  <2>1. TypeOK' /\ Numbered' /\ Quiet' /\ Locals' /\ Identified'
    BY <1>2 DEF vars, Inv, TypeOK, Numbered, Quiet, Locals, Identified
  <2> QED
    BY <2>1 DEF Inv
<1> QED
  BY <1>1, <1>2, ReceiveStep, StreamEndsStep, TimerStep, CancelStep, InterruptReturnsStep,
     AbandonedStreamEndsStep, ResumeStep DEF Next

-----------------------------------------------------------------------------
\* The locals and the result always have their types.
THEOREM TurnTypes == Spec => []TypeOK
<1>1. Inv => TypeOK
  BY DEF Inv
<1> QED
  BY InvInit, InvStep, <1>1, PTL DEF Spec

\* A turn never meets the stream or the interrupt of an earlier one: a handle
\* is kept only after a turn whose stream closed by itself and which did not
\* stall (agentbus_backend.go:182).
THEOREM HandlesAreFresh == Spec => []HandleIsFresh
<1>1. Inv => HandleIsFresh
  BY DEF Inv, Numbered, Quiet, HandleIsFresh
<1> QED
  BY InvInit, InvStep, <1>1, PTL DEF Spec

\* The watchdog interrupts only a provider that was silent for a whole timeout
\* (agentbus_turn.go:112-120).
THEOREM StallsMeanSilence == Spec => StallMeansSilence
<1>1. ASSUME Inv, [Next]_vars PROVE t'.stalled /\ ~t.stalled => silent
  <2> SUFFICES ASSUME t'.stalled, ~t.stalled PROVE silent
    OBVIOUS
  <2>1. CASE NoticeStall
    BY <1>1, <2>1 DEF NoticeStall, InLoop, Inv, Locals
  <2>2. CASE OpenSession \/ ReturnTurn \/ StreamEnds \/ Cancel \/ AbandonedStreamEnds \/ UNCHANGED vars
    BY <2>2 DEF OpenSession, ReturnTurn, StreamEnds, Cancel, AbandonedStreamEnds, vars
  <2>3. CASE Record \/ Resume
    BY <2>3 DEF Record, Resume, NoTurn
  <2>4. CASE BeginTurn \/ ReadContext \/ CollectInterrupt \/ DrainElapses \/ StallTimer
             \/ DrainTimer \/ InterruptReturns
    BY <1>1, <2>4 DEF BeginTurn, ReadContext, CollectInterrupt, DrainElapses, StallTimer,
         DrainTimer, InterruptReturns, Inv, TypeOK, Turn
  <2>5. CASE NoticeCancel
    BY <1>1, <2>5 DEF NoticeCancel, StartDrainTimer, Inv, TypeOK, Turn
  <2>6. CASE Receive
    <3>1. Rearm(t).stalled = t.stalled /\ Rearm(t) \in Turn
      BY <1>1 DEF Inv, TypeOK, Rearm, Turn, Timers
    <3>2. t' \in Heard(Rearm(t))
      BY <2>6 DEF Receive
    <3> QED
      BY <3>1, <3>2 DEF Heard, Turn
  <2> QED
    BY <1>1, <2>1, <2>2, <2>3, <2>4, <2>5, <2>6 DEF Next, Run
<1>2. Inv /\ [Next]_vars => [t'.stalled /\ ~t.stalled => silent]_vars
  BY <1>1
<1> QED
  BY InvInit, InvStep, <1>2, PTL DEF Spec, StallMeansSilence

-----------------------------------------------------------------------------
\* What the classification promises of a turn u whose outcome is r.
Kept(u, r, done) ==
  u.output => \/ r.kind = "answer" /\ r.text = "answer"
              \/ r.kind = "canceled" /\ done
              \/ r.kind = "failed" /\ u.final = NoFinal /\ u.errors = {}
              \/ r.kind # "answer" /\ Category(u.errors) \in {"auth", "transient"}
Clean(u, r) ==
  r.kind = "answer" /\ ~(r.timedOut \/ r.stalled \/ r.recovered) =>
    /\ u.errors = {} /\ ~u.unclosed /\ u.final # NoFinal
    /\ ~(u.final.failed \/ u.final.timedOut \/ u.final.canceled)
Earned(u, r) ==
  r.kind = "retryable" => /\ "transient" \in u.errors /\ "auth" \notin u.errors
                          /\ ~(u.canceled \/ (u.stalled /\ u.final # NoFinal /\ u.final.canceled))

\* A transient failure was said to be transient, and no errors are no failure.
LEMMA CategoryFacts ==
  ASSUME NEW e
  PROVE  /\ Category({}) = "unknown"
         /\ Category(e) = "transient" => "transient" \in e /\ "auth" \notin e
<1>1. Category({}) = "unknown"
  BY DEF Category
<1>2. ASSUME Category(e) = "transient" PROVE "transient" \in e /\ "auth" \notin e
  <2>1. CASE e = {}
    BY <1>1, <1>2, <2>1
  <2>2. CASE e # {} /\ "auth" \in e
    BY <1>2, <2>2 DEF Category
  <2>3. CASE e # {} /\ "auth" \notin e /\ "configuration" \in e
    BY <1>2, <2>3 DEF Category
  <2>4. CASE e # {} /\ e \cap {"auth", "configuration"} = {} /\ "transient" \in e
    BY <2>4
  <2>5. CASE e # {} /\ "auth" \notin e /\ "configuration" \notin e /\ "transient" \notin e
    BY <1>2, <2>5 DEF Category
  <2> QED
    BY <2>1, <2>2, <2>3, <2>4, <2>5
<1> QED
  BY <1>1, <1>2

\* The returns one after another, each under the conditions of the earlier ones.
LEMMA ClassifyKeepsItsPromises ==
  ASSUME NEW u \in Turn, NEW done \in BOOLEAN, NEW r, r = Classify(u, done),
         u.canceled => u.calledOff, u.calledOff => done,
         u.unclosed => u.stalled \/ u.canceled
  PROVE  Kept(u, r, done) /\ Clean(u, r) /\ Earned(u, r)
<1> DEFINE suppressed == u.calledOff \/ (u.stalled /\ u.final # NoFinal /\ u.final.canceled)
           failure == IF suppressed THEN {} ELSE u.errors
<1>0. /\ \A k : Failure(u, k).kind = k
      /\ \A x, b : /\ Answer(u, x, b).kind = "answer" /\ Answer(u, x, b).text = x
                   /\ Answer(u, x, b).stalled = u.stalled /\ Answer(u, x, b).recovered = b
                   /\ Answer(u, x, b).timedOut = (u.final # NoFinal /\ u.final.timedOut)
      /\ Failure([u EXCEPT !.output = @ /\ u.unclosed], "canceled").kind = "canceled"
  BY DEF Failure, Answer
<1>1. CASE ClassifyRetryable(failure)
  <2>1. r = Failure(u, "retryable")
    BY <1>1 DEF Classify
  <2>2. r.kind = "retryable"
    BY <1>0, <2>1
  <2>3. ~suppressed
    BY <1>1, CategoryFacts DEF ClassifyRetryable
  <2>4. Category(u.errors) = "transient"
    BY <1>1, <2>3 DEF ClassifyRetryable
  <2>5. "transient" \in u.errors /\ "auth" \notin u.errors
    BY <2>4, CategoryFacts
  <2>6. ~u.canceled
    BY <2>3
  <2> QED
    BY <2>2, <2>3, <2>4, <2>5, <2>6 DEF Kept, Clean, Earned
<1>2. CASE ~ClassifyRetryable(failure) /\ Category(failure) = "auth"
  <2>1. r = Failure(u, "failed")
    BY <1>2 DEF Classify
  <2>2. r.kind = "failed"
    BY <1>0, <2>1
  <2>3. Category(u.errors) = "auth"
    BY <1>2, CategoryFacts
  <2> QED
    BY <2>2, <2>3 DEF Kept, Clean, Earned
<1> DEFINE Plain == ~ClassifyRetryable(failure) /\ Category(failure) # "auth"
<1>3. CASE Plain /\ done /\ ~u.stalled
  <2>1. r = Failure([u EXCEPT !.output = @ /\ u.unclosed], "canceled")
    BY <1>3 DEF Classify
  <2>2. r.kind = "canceled"
    BY <1>0, <2>1
  <2> QED
    BY <1>3, <2>2 DEF Kept, Clean, Earned
<1>4. CASE Plain /\ ~(done /\ ~u.stalled) /\ (u.stalled \/ u.errors # {})
  <2>1. CASE u.output
    <3>1. r = Answer(u, "answer", TRUE)
      BY <1>4, <2>1 DEF Classify
    <3>2. r.kind = "answer" /\ r.text = "answer" /\ r.recovered = TRUE
      BY <3>1 DEF Answer
    <3> QED
      BY <3>2 DEF Kept, Clean, Earned
  <2>2. CASE ~u.output /\ u.stalled
    <3>1. r = Answer(u, "placeholder", FALSE)
      BY <1>4, <2>2 DEF Classify
    <3>2. r.kind = "answer" /\ r.stalled = u.stalled
      BY <3>1 DEF Answer
    <3> QED
      BY <2>2, <3>2 DEF Kept, Clean, Earned
  <2>3. CASE ~u.output /\ ~u.stalled
    <3>1. r = Failure(u, "failed")
      BY <1>4, <2>3 DEF Classify
    <3>2. r.kind = "failed"
      BY <1>0, <3>1
    <3> QED
      BY <2>3, <3>2 DEF Kept, Clean, Earned
  <2> QED
    BY <2>1, <2>2, <2>3
<1> DEFINE Rest == Plain /\ ~done /\ ~u.stalled /\ u.errors = {}
<1>5. Rest => ~u.unclosed
  OBVIOUS
<1>6. CASE Rest /\ u.final = NoFinal
  <2>1. r = Failure(u, "failed")
    BY <1>6 DEF Classify
  <2>2. r.kind = "failed"
    BY <1>0, <2>1
  <2> QED
    BY <1>6, <2>2 DEF Kept, Clean, Earned
<1>7. CASE Rest /\ u.final # NoFinal /\ u.output
  <2>1. r = Answer(u, "answer", u.final.failed \/ u.final.timedOut \/ u.final.canceled)
    BY <1>7 DEF Classify
  <2>2. /\ r.kind = "answer" /\ r.text = "answer"
        /\ r.recovered = (u.final.failed \/ u.final.timedOut \/ u.final.canceled)
    BY <1>0, <2>1
  <2> QED
    BY <1>5, <1>7, <2>2 DEF Kept, Clean, Earned
<1>8. CASE Rest /\ u.final # NoFinal /\ ~u.output /\ (u.final.canceled \/ (u.final.failed /\ ~u.final.timedOut))
  <2>1. r = Failure(u, "failed")
    BY <1>8 DEF Classify
  <2>2. r.kind = "failed"
    BY <1>0, <2>1
  <2> QED
    BY <1>8, <2>2 DEF Kept, Clean, Earned
<1>9. CASE Rest /\ u.final # NoFinal /\ ~u.output /\ ~u.final.canceled /\ (u.final.failed => u.final.timedOut)
  <2>1. r = Answer(u, "placeholder", FALSE)
    BY <1>9 DEF Classify
  <2>2. r.kind = "answer" /\ r.timedOut = (u.final # NoFinal /\ u.final.timedOut)
    BY <2>1 DEF Answer
  <2> QED
    BY <1>5, <1>9, <2>2 DEF Kept, Clean, Earned
<1> QED
  BY <1>1, <1>2, <1>3, <1>4, <1>6, <1>7, <1>8, <1>9

\* Every outcome says what happened in its turn: answers are kept, a plain
\* completion is faultless, a retry is earned (agentbus_turn.go:203-288).
THEOREM OutcomesAreTrue == Spec => []OutcomeIsTrue
<1>1. Init => OutcomeIsTrue
  BY DEF Init, OutcomeIsTrue
<1>2. ASSUME Inv, OutcomeIsTrue, [Next]_vars PROVE OutcomeIsTrue'
  <2> SUFFICES ASSUME pc' = "returned" PROVE (AnswerKept /\ CompletedMeansClean /\ RetryIsEarned)'
    BY DEF OutcomeIsTrue
  <2>1. CASE ReturnTurn
    <3>1. /\ pc = "decide" /\ result' = Classify(t, ctx) /\ t' = t /\ ctx' = ctx
      BY <2>1 DEF ReturnTurn, Return
    <3>2. /\ t \in Turn /\ ctx \in BOOLEAN
          /\ (t.canceled => t.calledOff) /\ (t.calledOff => ctx)
          /\ (t.unclosed => t.stalled \/ t.canceled)
      BY <1>2, <3>1 DEF Inv, TypeOK, Locals
    <3>3. Kept(t, result', ctx) /\ Clean(t, result') /\ Earned(t, result')
      BY <3>1, <3>2, ClassifyKeepsItsPromises
    <3> QED
      BY <3>1, <3>3 DEF Kept, Clean, Earned, AnswerKept, CompletedMeansClean, RetryIsEarned
  <2>2. CASE OpenSession \/ BeginTurn
    <3>1. t = NoTurn
      BY <1>2, <2>2 DEF OpenSession, BeginTurn, Inv, Locals
    <3>2. /\ t' = NoTurn
          /\ result' \in {Failure(NoTurn, "failed"), Failure(NoTurn, "canceled")}
      BY <2>2, <3>1 DEF OpenSession, BeginTurn, Return
    <3>3. result'.kind \in {"failed", "canceled"} /\ ~t'.output
      BY <3>2, FailureOfNoTurn DEF NoTurn
    <3> QED
      BY <3>3 DEF AnswerKept, CompletedMeansClean, RetryIsEarned
  <2>3. CASE pc = "returned" /\ t' = t /\ result' = result /\ (ctx => ctx')
    BY <1>2, <2>3 DEF OutcomeIsTrue, AnswerKept, CompletedMeansClean, RetryIsEarned
  <2>4. CASE Cancel \/ InterruptReturns \/ AbandonedStreamEnds \/ UNCHANGED vars
    BY <1>2, <2>3, <2>4 DEF Cancel, InterruptReturns, AbandonedStreamEnds, vars
  <2>5. ~(NoticeCancel \/ NoticeStall \/ CollectInterrupt \/ DrainElapses \/ ReadContext \/ Record
           \/ Receive \/ StreamEnds \/ StallTimer \/ DrainTimer \/ Resume)
    BY DEF NoticeCancel, NoticeStall, CollectInterrupt, DrainElapses, ReadContext, Record,
         Receive, StreamEnds, StallTimer, DrainTimer, Resume, InLoop
  <2> QED
    BY <1>2, <2>1, <2>2, <2>4, <2>5 DEF Next, Run
<1> QED
  BY InvInit, InvStep, <1>1, <1>2, PTL DEF Spec

\* A resumed process continues the conversation that the live process would
\* have continued (engine.go:579, agentbus_backend.go:355).
THEOREM ResumesContinue == Spec => []ResumeContinues
<1>1. Init => ResumeContinues
  BY DEF Init, NoResult, ResumeContinues
<1>2. ASSUME Inv, ResumeContinues, [Next]_vars PROVE ResumeContinues'
  <2> SUFFICES ASSUME pc' = "idle", result'.kind = "answer"
               PROVE  [slot' EXCEPT !.session = 0] = Restored(logged')
    BY DEF ResumeContinues
  <2>1. CASE Record
    <3>1. logged' = slot.sessionID /\ slot' = slot
      BY <2>1 DEF Record
    <3>2. slot.started = (slot.sessionID # NoId)
      BY <1>2 DEF Inv, Identified
    <3> QED
      BY <1>2, <3>1, <3>2 DEF Inv, TypeOK, Restored
  <2>2. CASE Cancel \/ InterruptReturns \/ AbandonedStreamEnds \/ UNCHANGED vars
    BY <1>2, <2>2 DEF Cancel, InterruptReturns, AbandonedStreamEnds, vars, ResumeContinues
  <2>3. ~Resume
    BY DEF Resume, NoResult
  <2>4. ~(NoticeCancel \/ NoticeStall \/ CollectInterrupt \/ DrainElapses \/ ReadContext
           \/ Receive \/ StreamEnds \/ StallTimer \/ DrainTimer)
    BY DEF NoticeCancel, NoticeStall, CollectInterrupt, DrainElapses, ReadContext,
         Receive, StreamEnds, StallTimer, DrainTimer, InLoop
  <2>5. ~(OpenSession \/ BeginTurn \/ ReturnTurn)
    BY DEF OpenSession, BeginTurn, ReturnTurn, Return
  <2> QED
    BY <1>2, <2>1, <2>2, <2>3, <2>4, <2>5 DEF Next, Run
<1> QED
  BY InvInit, InvStep, <1>1, <1>2, PTL DEF Spec

\* One conversation across turns and processes.
THEOREM ConversationsAreKept == Spec => []ConversationKept
<1>1. HandleIsFresh /\ ResumeContinues => ConversationKept
  BY DEF ConversationKept
<1> QED
  BY <1>1, HandlesAreFresh, ResumesContinue, PTL
=============================================================================
