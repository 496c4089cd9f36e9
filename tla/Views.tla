-------------------------------- MODULE Views ---------------------------------
(***************************************************************************)
(* What the read side derives from the log of a session and never stores   *)
(* (internal/sessionview, internal/relayv2/view.go, result): status,       *)
(* transcript, graph, diagnostics, and the report that show, export and    *)
(* doctor print.                                                           *)
(*                                                                         *)
(* An event is a record of the fields that the views look at.  Engine has  *)
(* no log of its own: Appended is the event that the step makes durable.   *)
(***************************************************************************)
EXTENDS Engine

-----------------------------------------------------------------------------
(* The events (internal/eventlog/events.go).                               *)

ReplyOf(s) == IF s.turn.actor \in plan.static THEN s.requests[StaticId(s.turn)].reply
              ELSE s.turn.attempts[Latest(s.turn, "success")].reply

TurnEvent(s, t) ==
  IF Active(t) THEN [type |-> "turn.started", actor |-> t.turn.actor,
                     round |-> t.turn.round, role |-> t.turn.role]
  ELSE [type |-> "turn.finished", actor |-> s.turn.actor,
        round |-> s.turn.round, reply |-> ReplyOf(s)]

AttemptEvent(s, t) ==
  LET n == CHOOSE i \in DOMAIN t.turn.attempts :
             i \notin DOMAIN s.turn.attempts \/ t.turn.attempts[i] # s.turn.attempts[i]
      a == t.turn.attempts[n]
      e == [type |-> "attempt.started", actor |-> t.turn.actor, attempt |-> n]
  IN IF n \notin DOMAIN s.turn.attempts THEN e
     ELSE IF a.closed THEN [type |-> "attempt.finished", actor |-> t.turn.actor,
                            attempt |-> n, outcome |-> a.outcome]
          ELSE [e EXCEPT !.type = "provider.failed"]

ChildEvent(s, t) ==
  LET id == CHOOSE x \in DOMAIN t.requests :
              x \notin DOMAIN s.requests \/ t.requests[x] # s.requests[x]
      q  == t.requests[id]
  IN IF id \notin DOMAIN s.requests THEN [type |-> "child.requested", id |-> id]
     ELSE IF Completed(t, id) THEN [type |-> "child.completed", id |-> id, status |-> q.status, reply |-> q.reply]
          ELSE [type |-> "child.decided", id |-> id, admitted |-> q.verdict = "admitted"]

\* Only finishSuccess ends a session for its result.
EndEvent(t) ==
  [type |-> "session.finished", status |-> t.terminal,
   reason |-> IF t.terminal = "failed" /\ pc = "success" THEN "invalid_result" ELSE "other"]

Appended ==
  CASE st'.turn # st.turn /\ Active(st') # Active(st)     -> TurnEvent(st, st')
    [] Active(st') /\ st'.turn.attempts # st.turn.attempts /\ Active(st) -> AttemptEvent(st, st')
    [] st'.requests # st.requests                         -> ChildEvent(st, st')
    [] st'.granted # st.granted -> [type |-> "turn_budget.granted", turns |-> st'.granted - st.granted]
    [] st.validation = "none" /\ st'.validation # "none"  ->
         [type |-> "result.produced", outcome |-> st'.validation]
    [] st.terminal = "none" /\ st'.terminal # "none"      -> EndEvent(st')
    [] OTHER                                              -> [type |-> "other"]

-----------------------------------------------------------------------------
(* Reading a log.                                                          *)

Indexes(ev, T) == {i \in DOMAIN ev : ev[i].type \in T}
LastIndex(ev, T) ==
  LET S == Indexes(ev, T) IN IF S = {} THEN 0 ELSE CHOOSE i \in S : \A j \in S : j <= i

\* The elements of q at the indexes in S, in their order.
Those(q, S) ==
  LET those[n \in 0..Len(q)] == IF n = 0 THEN <<>>
                                ELSE IF n \in S THEN Append(those[n - 1], q[n]) ELSE those[n - 1]
  IN those[Len(q)]

\* The keys opened by an event of Starts and closed by none of Ends since.
Open(ev, Starts, Ends, Key(_)) ==
  {Key(ev[i]) : i \in {i \in Indexes(ev, Starts) :
                         \A j \in Indexes(ev, Ends) : j > i => Key(ev[j]) # Key(ev[i])}}

Id(e) == e.id

attemptKey(e) == <<e.actor, e.attempt>>

\* Mutant of abandonedAttempts: what ended once is never open again.
abandonedAttemptsOnce(ev) ==
  {attemptKey(ev[i]) : i \in Indexes(ev, {"attempt.started"})}
    \ {attemptKey(ev[i]) : i \in Indexes(ev, {"attempt.finished", "provider.failed"})}

abandonedAttempts(ev) ==
  Open(ev, {"attempt.started"}, {"attempt.finished", "provider.failed"}, attemptKey)

pendingChildren(ev) == Open(ev, {"child.requested"}, {"child.decided"}, Id)

\* Mutant of endOf: a grant does not open the session again.
endOfAnyTime(ev) == LastIndex(ev, {"session.finished"})

\* The session.finished that stands, 0 without one.
endOf(ev) ==
  LET i == LastIndex(ev, {"session.finished", "turn_budget.granted"})
  IN IF i # 0 /\ ev[i].type = "session.finished" THEN i ELSE 0

PublicStatus(status, reason) ==
  IF status = "failed" /\ reason = "invalid_result" THEN "invalid_result" ELSE status

Status(ev) ==
  LET end == endOf(ev)
  IN IF end # 0 THEN PublicStatus(ev[end].status, ev[end].reason)
     ELSE IF pendingChildren(ev) # {} THEN "awaiting_decision"
     ELSE IF abandonedAttempts(ev) # {} THEN "interrupted" ELSE "running"

\* Mutant of NeedsProbe: a request that waits is not looked for.
NeedsProbeUnlessOver(ev) == endOf(ev) = 0

\* StatusWithLiveness asks the lease about what the log leaves open.
NeedsProbe(ev) == endOf(ev) = 0 /\ Status(ev) # "awaiting_decision"

\* What it makes of the answer; a lease that cannot be asked says nothing.
Alive(ev, answer) == CASE answer = "locked" -> "running"
                       [] answer = "free"   -> "interrupted"
                       [] answer = "error"  -> Status(ev)

-----------------------------------------------------------------------------
(* The transcript, the ledger, the result and the report.                  *)

roleOf(ev, e) ==
  LET S == {i \in Indexes(ev, {"turn.started"}) : ev[i].actor = e.actor /\ ev[i].round = e.round}
  IN ev[CHOOSE i \in S : \A j \in S : j <= i].role

Transcript(ev) ==
  LET said == Those(ev, Indexes(ev, {"turn.finished"}))
  IN [i \in DOMAIN said |-> [actor |-> said[i].actor, role |-> roleOf(ev, said[i]),
                             round |-> said[i].round, reply |-> said[i].reply]]

participantTurnCount(ev) ==
  Cardinality({i \in Indexes(ev, {"turn.finished"}) : roleOf(ev, ev[i]) = "participant"})

\* The ledger shown after a facilitator spoke: its answer, if that is JSON.
LedgerAfter(p, e) ==
  IF ~e.reply.reads THEN p.ledger
  ELSE IF Len(p.entries) < 2 THEN [e.reply.ledger EXCEPT !.contested = {}] ELSE e.reply.ledger

\* A facilitator has no entry: its ledger is shown with the entry of its
\* round, or else with the last one.
AddEntry(p, e) ==
  LET entry == [round |-> e.round, from |-> e.actor, text |-> e.reply.text, ledger |-> p.ledger]
      same  == {i \in DOMAIN p.entries : p.entries[i].round = e.round}
      at    == IF same # {} THEN same ELSE {Len(p.entries)}
      l     == LedgerAfter(p, e)
  IN CASE e.role = "participant" -> [p EXCEPT !.entries = Append(@, entry)]
       [] e.role = "facilitator" ->
            [ledger |-> l, entries |-> [i \in DOMAIN p.entries |->
               IF i \in at THEN [p.entries[i] EXCEPT !.ledger = l] ELSE p.entries[i]]]
       [] OTHER -> p

Entered(said) ==
  LET p[n \in 0..Len(said)] == IF n = 0 THEN [entries |-> <<>>, ledger |-> NoLedger]
                               ELSE AddEntry(p[n - 1], said[n])
  IN p[Len(said)]

\* The entries of the participants, then one for each child that completed.
publicTranscript(ev) ==
  LET p    == Entered(Transcript(ev))
      kid  == Those(ev, {i \in Indexes(ev, {"child.completed"}) : ev[i].status = "completed"})
      show == [i \in DOMAIN kid |-> [round |-> participantTurnCount(ev), from |-> "child",
                                     text |-> kid[i].reply.text, ledger |-> p.ledger]]
  IN [p EXCEPT !.entries = @ \o show]

validationShown(ev) ==
  LET i == LastIndex(ev, {"result.produced"})
  IN IF i = 0 THEN "pending" ELSE IF ev[i].outcome = "valid" THEN "validated" ELSE ev[i].outcome

grantedTurns(ev) ==
  LET granted[n \in 0..Len(ev)] ==
        IF n = 0 THEN 0
        ELSE granted[n - 1] + (IF ev[n].type = "turn_budget.granted" THEN ev[n].turns ELSE 0)
  IN granted[Len(ev)]

\* Only what is finished; abandonedAttempts has the rest.
LedgerView(ev) == [attempts |-> Those(ev, Indexes(ev, {"attempt.finished"})),
                   failures |-> Those(ev, Indexes(ev, {"provider.failed"}))]

reducerAttemptCount(ledger) ==
  Cardinality({i \in DOMAIN ledger.attempts : ledger.attempts[i].actor = "reducer"})

\* The status of the node of a child: the last event about it has it.
childNode(ev, id) ==
  LET S == {i \in Indexes(ev, {"child.requested", "child.decided", "child.completed"}) : ev[i].id = id}
      e == ev[CHOOSE i \in S : \A j \in S : j <= i]
  IN CASE e.type = "child.requested" -> "requested"
       [] e.type = "child.decided"   -> IF e.admitted THEN "admitted" ELSE "rejected"
       [] e.type = "child.completed" -> e.status

\* What proposalProjection calls it.
proposal(ev, id) ==
  LET status == childNode(ev, id)
  IN CASE status = "requested" -> "proposed" [] status = "completed" -> "collapsed" [] OTHER -> status

proposals(ev) == [id \in {ev[i].id : i \in Indexes(ev, {"child.requested"})} |-> proposal(ev, id)]

turnKey(e) == <<e.actor, e.round>>

\* The nodes of turns that Graph shows as started.
startedTurns(ev) == Open(ev, {"turn.started"}, {"turn.finished"}, turnKey)

Graph(ev) ==
  [started |-> startedTurns(ev),
   children |-> [id \in {ev[i].id : i \in Indexes(ev, {"child.requested"})} |-> childNode(ev, id)]]

BuildReport(ev) ==
  LET p == publicTranscript(ev)
  IN [status |-> Status(ev), validation |-> validationShown(ev), entries |-> p.entries,
      ledger |-> p.ledger, turns |-> participantTurnCount(ev),
      maxRounds |-> plan.turns + grantedTurns(ev), abandoned |-> abandonedAttempts(ev),
      failures |-> Len(LedgerView(ev).failures),
      reducerAttempts |-> reducerAttemptCount(LedgerView(ev))]

\* What result.Validate can refuse in a report of this program.
ValidReport(r) == \A i \in DOMAIN r.entries : r.entries[i].round >= 1
=============================================================================
